---------------------------- MODULE MCExceptions ----------------------------
(***************************************************************************)
(* Small programs for Exceptions: handled sequences with one handler, with  *)
(* two handlers in an order that matters, and with a choice for others.     *)
(***************************************************************************)
EXTENDS Exceptions

CONSTANTS Mine, Yours, Program, Constraint, Narrow, Ordered, Others

MCgetID ==
  [e \in Exception |->
     CASE e = Constraint -> "Constraint_Error"
       [] e = Program -> "Program_Error"
       [] OTHER -> "User"]

\* In Others the named choices are those of two exceptions in one handler.
MChandlers ==
  [q \in Handled |->
     CASE q = Narrow -> << <<Constraint>> >>
       [] q = Ordered -> << <<Mine>>, <<Constraint>> >>
       [] q = Others -> << <<Mine, Constraint>>, <<>> >>]
=============================================================================
