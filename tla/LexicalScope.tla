---------------------------- MODULE LexicalScope ----------------------------
(***************************************************************************)
(* What the compiler's scope table promises about lexical declarations: a   *)
(* stack of frames, each binding a name to the declarations made under it   *)
(* in that frame, latest first.  Leaving a frame forgets exactly what was   *)
(* declared in it.  Module Scope, which keeps one flat list per identifier  *)
(* instead, is shown to implement this specification.                       *)
(***************************************************************************)
EXTENDS Sequences

CONSTANTS Name,      \* identifiers
          Decl,      \* declarations
          idInfo     \* the identifier each declaration is bound to

VARIABLE frames      \* stack of frames, the innermost first

EmptyFrame == [n \in Name |-> <<>>]

Init == frames = <<>>

Enter == frames' = <<EmptyFrame>> \o frames

Leave == frames # <<>> /\ frames' = Tail(frames)

LeaveAll == frames' = <<>>

\* A declaration is made once per frame and goes in front of its homonyms.
Declare(d) ==
  /\ frames # <<>>
  /\ \A i \in DOMAIN Head(frames)[idInfo[d]] : Head(frames)[idInfo[d]][i] # d
  /\ frames' = [frames EXCEPT ![1][idInfo[d]] = <<d>> \o @]

Next == Enter \/ Leave \/ LeaveAll \/ \E d \in Decl : Declare(d)

Spec == Init /\ [][Next]_frames
=============================================================================
