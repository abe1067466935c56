----------------------------- MODULE Exceptions -----------------------------
(***************************************************************************)
(* Exceptions as they are compiled and run: the raise routines and the      *)
(* personality of lib/runtime/crt_exceptions.c, driven by the two-phase     *)
(* unwinder of the platform, and the landing pads that HandlerEmitter.cpp   *)
(* and CodeGen::emitEntry generate.                                         *)
(*                                                                          *)
(* Every landing pad is entered for every exception: its selector always    *)
(* ends in a catch-all, and code in the pad raises the exception again when *)
(* no handler of the sequence was meant.                                    *)
(***************************************************************************)
EXTENDS HandledSequences

CONSTANT getID   \* ExceptionDecl::getID of every exception

ExceptionIDs == {"User", "Program_Error", "Constraint_Error", "Assertion_Error"}

ASSUME IDAssumption == getID \in [Exception -> ExceptionIDs]

\* Control is in a landing pad, none of its handlers chosen yet.
InPad == -1

VARIABLES
  stack,     \* the activations of compiled subroutines, main's callee first
  mode,      \* what runs: compiled code, the unwinder, a landing pad
  exception, \* the exception object in flight: its id, and its declaration
  cursor,    \* the activation the unwinder looks at, 0 for that of main
  target,    \* the activation the search phase has chosen
  selector   \* the register that tells a landing pad which entry matched

vars == <<stack, mode, exception, cursor, target, selector>>
unwinding == <<cursor, target, selector>>

Modes == {"run", "search", "cleanup", "pad", "finished", "unhandled", "returned"}
None == "none"

\* No exception is in flight.
Nothing == [id |-> None, decl |-> None]

\* Types, and the unwinder stays within the stack and above its target.
TypeOK ==
  /\ \A a \in DOMAIN stack : \A r \in DOMAIN stack[a] :
       /\ stack[a][r].seq \in Handled
       /\ stack[a][r].handler \in -1..Len(handlers[stack[a][r].seq])
  /\ mode \in Modes
  /\ mode \in {"search", "cleanup"} => cursor \in 0..Len(stack)
  /\ mode = "cleanup" => target \in 0..cursor
-----------------------------------------------------------------------------
(* CommaRT and HandlerEmitter: what is compiled into the program *)

\* The exinfo global that stands for an exception.  The case of the user
\* defined exceptions has no break and runs into the next one.
registerException(e) ==
  IF getID[e] \in {"User", "Program_Error"} THEN "Program_Error" ELSE getID[e]

\* emitSelector: the exinfos of all choices in order, then the catch-all.
emitSelector(q) ==
  Append(FlattenSeq([i \in DOMAIN handlers[q] |->
           [c \in DOMAIN handlers[q][i] |-> registerException(handlers[q][i][c])]]),
         None)

\* Mutant: the landing pad stays in force while its handlers run.
PadsKept(act) == DOMAIN act

\* The call sites in a sequence's own pad and handlers are not covered by its
\* landing pad, which emitHandlers has removed by then.
PadsInForce(act) == {r \in DOMAIN act : act[r].handler = 0}

\* The landing pad of the call the activation is at, 0 if it has none.
landing_pad(act) ==
  IF PadsInForce(act) = {} THEN 0
  ELSE CHOOSE r \in PadsInForce(act) : \A o \in PadsInForce(act) : o =< r

\* The comparisons in a landing pad, in the order of the handlers: the first
\* handler with a choice of the selected exinfo, or the catch-all.
Dispatch(q, index) ==
  SelectInSeq(handlers[q], LAMBDA h :
    h = <<>> \/ \E c \in DOMAIN h : registerException(h[c]) = index)
-----------------------------------------------------------------------------
(* crt_exceptions.c *)

\* match_exception over the action records of a selector: the first entry that
\* is the exception's exinfo or null.
match_exception(entries) ==
  SelectInSeq(entries, LAMBDA info : info = None \/ info = exception.id)

\* The selector of the call site; main's has the catch-all alone.
Actions(a) ==
  IF a = 0 THEN <<None>> ELSE emitSelector(stack[a][landing_pad(stack[a])].seq)

\* find_applicable_call_site: the site has a landing pad.
HasPad(a) == a > 0 => landing_pad(stack[a]) # 0

\* _comma_eh_personality finds a handler in the activation.
Accepts(a) == HasPad(a) /\ match_exception(Actions(a)) # 0

\* _comma_raise_exception and _comma_raise_nexception.
_comma_raise(e) ==
  /\ mode = "run"
  /\ exception' = [id |-> registerException(e), decl |-> e]
  /\ mode' = "search" /\ cursor' = Len(stack)
  /\ UNCHANGED <<stack, target, selector>>

\* _comma_eh_personality in the search phase, for one activation.
HandlerFound ==
  /\ mode = "search"
  /\ Accepts(cursor)
  /\ target' = cursor
  /\ mode' = "cleanup" /\ cursor' = Len(stack)
  /\ UNCHANGED <<stack, exception, selector>>

\* At the end of the stack _Unwind_RaiseException returns to its caller.
ContinueSearch ==
  /\ mode = "search" /\ ~Accepts(cursor)
  /\ cursor' = cursor - 1
  /\ mode' = IF cursor = 0 THEN "returned" ELSE "search"
  /\ UNCHANGED <<stack, exception, target, selector>>

\* In the cleanup phase the personality has nothing to do above the handler.
ContinueUnwind ==
  /\ mode = "cleanup" /\ cursor > target
  /\ stack' = Front(stack)
  /\ cursor' = cursor - 1
  /\ UNCHANGED <<mode, exception, target, selector>>

\* install_handler: the registers are set and control goes to the pad.
InstallContext ==
  /\ mode = "cleanup" /\ cursor = target /\ target > 0
  /\ LET r == landing_pad(stack[target])
     IN  stack' = [stack EXCEPT ![target] =
                     Append(SubSeq(@, 1, r - 1), [@[r] EXCEPT !.handler = InPad])]
  /\ selector' = Actions(target)[match_exception(Actions(target))]
  /\ mode' = "pad"
  /\ UNCHANGED <<exception, cursor, target>>

\* main's landing pad: _comma_unhandled_exception reports and aborts.
_comma_unhandled_exception ==
  /\ mode = "cleanup" /\ cursor = target /\ target = 0
  /\ mode' = "unhandled"
  /\ UNCHANGED <<stack, exception, unwinding>>
-----------------------------------------------------------------------------
(* The landing pad and the program *)

Top == stack[Len(stack)]
Pad == Top[Len(Top)]

EnterHandler ==
  /\ mode = "pad" /\ Dispatch(Pad.seq, selector) # 0
  /\ stack' = [stack EXCEPT ![Len(stack)][Len(Top)].handler = Dispatch(Pad.seq, selector)]
  /\ mode' = "run"
  \* No handler can refer to the exception object again.
  /\ exception' = Nothing /\ cursor' = 0 /\ target' = 0 /\ selector' = None

\* _comma_reraise_exception: the same object is thrown again from the pad.
_comma_reraise_exception ==
  /\ mode = "pad" /\ Dispatch(Pad.seq, selector) = 0
  /\ mode' = "search" /\ cursor' = Len(stack)
  /\ target' = 0 /\ selector' = None
  /\ UNCHANGED <<stack, exception>>

call ==
  /\ mode = "run" /\ Len(stack) < MaxActivations
  /\ stack' = Append(stack, <<>>)
  /\ UNCHANGED <<mode, exception, unwinding>>

return ==
  /\ mode = "run"
  /\ stack' = Front(stack)
  /\ mode' = IF Len(stack) = 1 THEN "finished" ELSE "run"
  /\ UNCHANGED <<exception, unwinding>>

enter(q) ==
  /\ mode = "run" /\ Len(Top) < MaxRegions
  /\ stack' = [stack EXCEPT ![Len(stack)] = Append(@, [seq |-> q, handler |-> 0])]
  /\ UNCHANGED <<mode, exception, unwinding>>

leave ==
  /\ mode = "run" /\ Top # <<>>
  /\ stack' = [stack EXCEPT ![Len(stack)] = Front(@)]
  /\ UNCHANGED <<mode, exception, unwinding>>

Init ==
  /\ stack = <<<<>>>> /\ mode = "run"
  /\ exception = Nothing /\ cursor = 0 /\ target = 0 /\ selector = None

Runtime ==
  \/ HandlerFound \/ ContinueSearch \/ ContinueUnwind \/ InstallContext
  \/ _comma_unhandled_exception \/ EnterHandler \/ _comma_reraise_exception

Next ==
  \/ Runtime \/ call \/ return \/ leave
  \/ \E q \in Handled : enter(q)
  \/ \E e \in Exception : _comma_raise(e)

\* The program may run for ever, but the runtime's own steps go on.
Spec == Init /\ [][Next]_vars /\ WF_vars(Runtime)
-----------------------------------------------------------------------------
(* Properties *)

Propagating == mode \in {"search", "cleanup", "pad", "unhandled"}

\* The stack with the pad under way counted as still deciding.
Undecided ==
  [a \in DOMAIN stack |-> [r \in DOMAIN stack[a] |->
     IF stack[a][r].handler = InPad /\ mode = "pad"
     THEN [stack[a][r] EXCEPT !.handler = 0] ELSE stack[a][r]]]

\* While an exception is in flight the program is already where it will be
\* handled: the search, the unwinding and every pad entered and left again on
\* the way are invisible.
SeenCalls ==
  IF Propagating THEN AfterRaise(Undecided, exception.decl) ELSE stack

SeenOutcome ==
  CASE mode = "run" -> "running"
    [] Propagating -> IF Catching(Undecided, exception.decl) = {}
                      THEN "unhandled" ELSE "running"
    [] OTHER -> mode

Semantics == INSTANCE ExceptionSemantics WITH calls <- SeenCalls, outcome <- SeenOutcome

\* The search and cleanup phases, the selectors that always match and the pads
\* that raise again together do what the language says: every raise, from
\* statements, handlers or callees, reaches the first covering handler of the
\* innermost covering sequence, or ends the program.  In particular
\* _Unwind_RaiseException never returns to compiled code, where an unreachable
\* instruction follows every call of the raise and reraise routines.
ImplementsSemantics == Semantics!Spec

\* Every exception in flight comes to rest in a handler or at main: no pad
\* raises it to itself again.
PropagationEnds == (mode = "search") ~> (mode \in {"run", "unhandled"})
=============================================================================
