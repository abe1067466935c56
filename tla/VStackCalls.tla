----------------------------- MODULE VStackCalls -----------------------------
(***************************************************************************)
(* How compiled code uses the vstack: a function that returns an array of   *)
(* unconstrained type pushes the data and then the bounds                   *)
(* (CodeGenRoutine::emitVStackReturn), and whoever called it pops them      *)
(* again, in one of four ways, or leaves them for its own caller.           *)
(*                                                                          *)
(* Calls nest.  An exception abandons every evaluation inside the handled   *)
(* sequence it ends up in and does not touch the vstack.                    *)
(***************************************************************************)
EXTENDS VStack

CONSTANTS
  Result,     \* array values
  MaxPending, \* bound: depth of evaluations under way
  MaxLost     \* bound: abandoned entries

Data(v) == <<"data", v>>
Bounds(v) == <<"bounds", v>>
Unknown == "unknown"   \* the result of a call that has not returned

ASSUME ItemAssumption ==
  /\ Item = {Data(v) : v \in Result} \cup {Bounds(v) : v \in Result}
  /\ MaxPending \in Nat /\ MaxLost \in Nat
  \* malloc does not fail.
  /\ Cardinality(Address) >= MaxPending + MaxLost + 2

VARIABLES
  pending, \* the evaluations under way, innermost last
  lost     \* how many entries exceptions have left behind

callVars == <<vs, pending, lost>>

\* What a caller does with the result: copy it to a temporary, copy it to the
\* heap, index it, or return it.
Uses == {"emitVStackCall", "emitCallAllocator", "emitIndexedArrayRef", "emitVStackReturn"}

\* A call whose callee runs, is at its return statement or has returned, whose
\* result is being copied, or indexed while the index expression is evaluated;
\* or a handled sequence of statements.
Evaluation ==
  [state: {"call", "returning", "returned", "copying", "indexing"}, use: Uses, value: Result \cup {Unknown},
   ptr: Int]
    \cup [state: {"handled"}]

\* Types, and as many evaluations and lost entries as the bounds allow.
TypeOK ==
  /\ StackTypeOK
  /\ pending \in Seq(Evaluation) /\ Len(pending) =< MaxPending
  /\ lost \in 0..MaxLost
-----------------------------------------------------------------------------
\* Some code is running that may call and raise.
Running == pending # <<>> => Last(pending).state \in {"call", "indexing", "handled"}

\* The innermost evaluation but for handled sequences, 0 if none.
Enclosing(evals) ==
  SelectLastInSeq(evals, LAMBDA e : e.state # "handled")

\* The running code is the body of a function that returns an array.
InCallee(evals) == Enclosing(evals) # 0 /\ evals[Enclosing(evals)].state = "call"

\* That function returns v, out of the handled sequences it is in.
Returns(evals, v, state) ==
  Append(SubSeq(evals, 1, Enclosing(evals) - 1),
         [evals[Enclosing(evals)] EXCEPT !.state = state, !.value = v])

emitSimpleCall(use) ==
  /\ Running /\ Len(pending) < MaxPending
  /\ use = "emitVStackReturn" => InCallee(pending)
  /\ pending' = Append(pending, [state |-> "call", use |-> use, value |-> Unknown, ptr |-> 0])
  /\ UNCHANGED <<vs, lost>>

FirstItem(v) == Data(v)

\* The function's return statement pushes twice.
emitVStackReturn(v) ==
  /\ Running /\ InCallee(pending)
  /\ push(FirstItem(v))
  /\ pending' = Returns(pending, v, "returning")
  /\ UNCHANGED lost

\* The innermost evaluation is in the given state.
At(state) == pending # <<>> /\ Last(pending).state = state
Becomes(state) == pending' = [pending EXCEPT ![Len(pending)].state = state]

PushBounds ==
  /\ At("returning")
  /\ push(Bounds(Last(pending).value))
  /\ Becomes("returned")
  /\ UNCHANGED lost

\* The caller's turn, immediately after the call.
Consume(uses) == At("returned") /\ Last(pending).use \in uses

\* The result of the call is the result of the caller too.
PassOn ==
  /\ Consume({"emitVStackReturn"})
  /\ pending' = Returns(Front(pending), Last(pending).value, "returned")
  /\ UNCHANGED <<vs, lost>>

\* Bounds and data are copied, each before it is popped.
CopyBounds ==
  /\ Consume({"emitVStackCall", "emitCallAllocator"})
  /\ pop
  /\ Becomes("copying")
  /\ UNCHANGED lost

CopyData ==
  /\ At("copying")
  /\ pop
  /\ pending' = Front(pending)
  /\ UNCHANGED lost

\* Mutant: the bounds stay on the stack while the index is evaluated.
HoldBounds(s) == s

\* The bounds are loaded and popped; the data is left in place.
PopBounds(s) == _comma_vstack_pop(s)

BeginIndex ==
  /\ Consume({"emitIndexedArrayRef"})
  /\ vs' = PopBounds(vs)
  /\ pending' = [pending EXCEPT ![Len(pending)].state = "indexing",
                                ![Len(pending)].ptr = PopBounds(vs).top]
  /\ UNCHANGED lost

\* The index is there: the component is loaded and the data popped.
EndIndex ==
  /\ At("indexing")
  /\ pop
  /\ pending' = Front(pending)
  /\ UNCHANGED lost

enterHandled ==
  /\ Running /\ Len(pending) < MaxPending
  /\ pending' = Append(pending, [state |-> "handled"])
  /\ UNCHANGED <<vs, lost>>

leaveHandled ==
  /\ At("handled")
  /\ pending' = Front(pending)
  /\ UNCHANGED <<vs, lost>>

Held(evals) == Cardinality({i \in DOMAIN evals : evals[i].state = "indexing"})

\* Everything inside the innermost handled sequence is abandoned; without one
\* the program ends.
raise ==
  LET h == SelectLastInSeq(pending, LAMBDA e : e.state = "handled")
      outside == SubSeq(pending, 1, h - 1)
      abandoned == Held(pending) - Held(outside)
  IN  /\ Running /\ h # 0
      /\ lost + abandoned =< MaxLost
      /\ pending' = outside
      /\ lost' = lost + abandoned
      /\ UNCHANGED vs

Init == vs = EmptyStack /\ pending = <<>> /\ lost = 0

Next ==
  \/ \E use \in Uses : emitSimpleCall(use)
  \/ \E v \in Result : emitVStackReturn(v)
  \/ PushBounds \/ PassOn \/ CopyBounds \/ CopyData \/ BeginIndex \/ EndIndex
  \/ enterHandled \/ leaveHandled \/ raise

Spec == Init /\ [][Next]_callVars
-----------------------------------------------------------------------------
(* Properties *)

\* When a call returns, the bounds and the data on top of the stack are those
\* of its own result, through any number of callers that pass it on, and
\* whatever exceptions have left below.
ResultsOnTop ==
  /\ At("returned") => /\ vstack(vs) = Bounds(Last(pending).value)
                      /\ vstack(_comma_vstack_pop(vs)) = Data(Last(pending).value)
  /\ At("copying") => vstack(vs) = Data(Last(pending).value)

\* The data pointer that emitIndexedArrayRef keeps across the evaluation of
\* the index expression still points at the data when it is used: no pop of a
\* nested evaluation frees it, not even one that, after an exception, finds an
\* abandoned entry on top instead of its own.
HeldDataStaysValid ==
  \A i \in DOMAIN pending : pending[i].state = "indexing" =>
    /\ pending[i].ptr - DataOffset \in DOMAIN vs.heap
    /\ vs.heap[pending[i].ptr - DataOffset].data = Data(pending[i].value)

\* Every caller finds what it was returned, at once or when it comes to it.
ResultsReachTheirCallers == ResultsOnTop /\ HeldDataStaysValid

\* Every entry not freed is in the list, and is owed to an evaluation under way
\* or has been left behind by an exception.
EntriesAccounted ==
  /\ ListIsIntact
  /\ Cardinality(DOMAIN vs.heap) =
       Held(pending) + lost + (CASE At("returned") -> 2
                                 [] At("returning") \/ At("copying") -> 1
                                 [] OTHER -> 0)
=============================================================================
