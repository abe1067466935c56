------------------------------ MODULE MCVStack ------------------------------
(***************************************************************************)
(* Results and addresses for VStackCalls.                                   *)
(***************************************************************************)
EXTENDS VStackCalls

MCItem == {Data(v) : v \in Result} \cup {Bounds(v) : v \in Result}
=============================================================================
