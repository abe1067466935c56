------------------------- MODULE ExceptionSemantics -------------------------
(***************************************************************************)
(* What a Comma program sees of exceptions: a raise transfers control, in   *)
(* one step, to the handler of the innermost handled sequence of statements *)
(* under way that covers the exception, in whatever activation that is, and *)
(* ends the program if there is none.                                       *)
(***************************************************************************)
EXTENDS HandledSequences

VARIABLES
  calls,   \* the activations, outermost first: each a sequence of regions
  outcome  \* "running", "finished" or "unhandled"

-----------------------------------------------------------------------------
Running == outcome = "running"
Current == Last(calls)
InCurrent(regions) == [calls EXCEPT ![Len(calls)] = regions]

call ==
  /\ Running /\ Len(calls) < MaxActivations
  /\ calls' = Append(calls, <<>>)
  /\ UNCHANGED outcome

\* Also from inside handled sequences.
return ==
  /\ Running
  /\ calls' = Front(calls)
  /\ outcome' = IF Len(calls) = 1 THEN "finished" ELSE "running"

enter(q) ==
  /\ Running /\ Len(Current) < MaxRegions
  /\ calls' = InCurrent(Append(Current, [seq |-> q, handler |-> 0]))
  /\ UNCHANGED outcome

leave ==
  /\ Running /\ Current # <<>>
  /\ calls' = InCurrent(Front(Current))
  /\ UNCHANGED outcome

raise(e) ==
  /\ Running
  /\ calls' = AfterRaise(calls, e)
  /\ outcome' = IF Catching(calls, e) = {} THEN "unhandled" ELSE "running"

Init == calls = <<<<>>>> /\ outcome = "running"

Next ==
  \/ call \/ return \/ leave
  \/ \E q \in Handled : enter(q)
  \/ \E e \in Exception : raise(e)

Spec == Init /\ [][Next]_<<calls, outcome>>
=============================================================================
