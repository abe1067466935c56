---------------------------- MODULE TokenCursor -----------------------------
(***************************************************************************)
(* What the parser sees of the lexer: a cursor over the tokens of the file  *)
(* that it may put down and take up again, any number of them nested.       *)
(* Looking ahead is not a step at all.                                      *)
(***************************************************************************)
EXTENDS Naturals, Sequences, SequencesExt

CONSTANTS EOT, Unused
VARIABLES stream, next, token, saved
vars == <<stream, next, token, saved>>

TokenAt(i) == IF i <= Len(stream) THEN stream[i] ELSE EOT

Init == next = 0 /\ token = Unused /\ saved = <<>>

(* The file is opened: from now on its tokens are what they are. *)
Start == /\ next = 0 /\ next' = 1
         /\ token' = IF stream' = <<>> THEN EOT ELSE stream'[1]
         /\ UNCHANGED saved

Advance == /\ next > 0
           /\ next' = IF next <= Len(stream) THEN next + 1 ELSE next
           /\ token' = TokenAt(next')
           /\ UNCHANGED <<stream, saved>>

Begin == /\ saved' = Append(saved, next)
         /\ UNCHANGED <<stream, next, token>>

End == /\ saved /= <<>>
       /\ next' = Last(saved)
       /\ token' = TokenAt(next')
       /\ saved' = Front(saved)
       /\ UNCHANGED stream

Spec == Init /\ [][Start \/ Advance \/ Begin \/ End]_vars
=============================================================================
