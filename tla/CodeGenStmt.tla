----------------------------- MODULE CodeGenStmt -----------------------------
(***************************************************************************)
(* Emission of the body of one subroutine: lib/codegen/CodeGenStmt.cpp,     *)
(* HandlerEmitter.cpp, CodeGenRoutine.cpp and the raise and call sequences  *)
(* of CommaRT.cpp and CodeGenCall.cpp.                                      *)
(*                                                                          *)
(* The emitters recurse over the syntax tree.  Here the tree is not given:  *)
(* each step chooses the next statement among those that parser and type    *)
(* checker let through, and nest holds the statements whose emission has    *)
(* begun, innermost last.                                                   *)
(***************************************************************************)
EXTENDS Frame

CONSTANTS
  MaxStmts,   \* bound: statements in the subroutine
  MaxNesting, \* bound: depth of nested statements
  MaxChoices, \* bound: exceptions named by a handler
  Unchecked   \* which of the forms below the subroutine may use

\* Forms the type checker accepts and the emitters are not prepared for.
UncheckedForms == {"dead code in if", "allocation in for"}

ASSUME BoundAssumption ==
  /\ MaxStmts \in Nat /\ MaxNesting \in Nat /\ MaxChoices \in Nat
  /\ Unchecked \subseteq UncheckedForms

VARIABLES
  ir,     \* the emission state of module Frame
  nest,   \* the statements being emitted
  stmts,  \* how many statements have been begun
  phase   \* "start", "body", "done"

vars == <<ir, nest, stmts, phase>>

\* merge: the block emission continues in; next: the block to be filled in or
\* branched to next; tag: of a loop; pad: the landing pad of a handled block;
\* last: "empty", or whether the last statement emitted is a terminator;
\* more: for an if, what follows the branch; for handlers, "others" once the
\* catch-all has been emitted.
Nested == [stmt: {"block", "handlers", "handler", "if", "while", "for", "loop"},
           merge: Nat, next: Nat, tag: Tag \cup {NoName}, pad: Nat,
           last: {"empty", "open", "terminator"},
           more: {"none", "elsif", "else", "handler", "others"}]

\* Types, and every block referred to has been made.
TypeOK ==
  /\ ir \in Emission
  /\ ir.insert \in DOMAIN ir.blocks
  /\ \A f \in Range(ir.frames) :
       {f.entry, f.merge} \cup ({f.landingPad} \ {0}) \subseteq DOMAIN ir.blocks
  /\ nest \in Seq(Nested) /\ Len(nest) =< MaxNesting
  /\ stmts \in 0..MaxStmts
  /\ phase \in {"start", "body", "done"}
-----------------------------------------------------------------------------
(* The syntax tree *)

Inner == Last(nest)
Loops == {"while", "for", "loop"}

\* TypeCheck::acceptStmt drops a statement that follows a terminator.  The
\* branches of an if statement are collected by the parser and not checked.
Accepted ==
  /\ phase = "body" /\ stmts < MaxStmts
  /\ Inner.stmt # "handlers"
  /\ \/ Inner.last # "terminator"
     \/ Inner.stmt = "if" /\ "dead code in if" \in Unchecked

\* Sequences other than the one of a block have at least one statement.
Complete(kinds) ==
  /\ phase = "body" /\ Inner.stmt \in kinds
  /\ Inner.last # "empty" \/ Inner.stmt = "block"

\* The statement is emitted and leaves its sequence open or terminated.
Emitted(s, last) ==
  /\ ir' = s
  /\ stmts' = stmts + 1
  /\ nest' = [nest EXCEPT ![Len(nest)].last = last]
  /\ UNCHANGED phase

\* A compound statement becomes the innermost one.
Begin(s, n) ==
  /\ Len(nest) < MaxNesting
  /\ ir' = s
  /\ stmts' = stmts + 1
  /\ nest' = Append([nest EXCEPT ![Len(nest)].last = "open"], n)
  /\ UNCHANGED phase

Statement(stmt, merge, next, tag) ==
  [stmt |-> stmt, merge |-> merge, next |-> next, tag |-> tag, pad |-> 0,
   last |-> "empty", more |-> "none"]

\* The emission of the innermost statement goes on with n, or ends.
Continue(s, n) ==
  /\ ir' = s
  /\ nest' = [nest EXCEPT ![Len(nest)] = n]
  /\ UNCHANGED <<stmts, phase>>
End(s) ==
  /\ ir' = s
  /\ nest' = Front(nest)
  /\ UNCHANGED <<stmts, phase>>
-----------------------------------------------------------------------------
(* Calls, allocations and raises *)

\* CallEmitter::emitCall: an invoke where there is a landing pad.
emitCall(s) ==
  LET t == makeBasicBlock(s, NoName)
  IN  IF getLandingPad(s) = 0 THEN Instruction(s)
      ELSE SetInsertPoint(Terminator(t, {Newest(t)}, {getLandingPad(t)}), Newest(t))

\* The condition of a statement.  Taken to contain a call, the harder case: the
\* block it ends in may be another one than it begins in.
Condition(s) == emitCall(s)

\* CommaRT::raiseExinfo and reraise.
raiseExinfo(s) == Unreachable(emitCall(s))

\* An assignment, a procedure call, or a call whose array result or argument
\* is allocated on the stack (emitVStackCall, allocArray).  The declarations
\* of a block are emitted the same way.
emitSimpleStmt ==
  /\ Accepted
  /\ \/ Emitted(Instruction(ir), "open")
     \/ Emitted(emitCall(ir), "open")
     \/ /\ Inner.stmt = "for" => "allocation in for" \in Unchecked
        /\ Emitted(Instruction(stacksave(emitCall(ir))), "open")

emitReturnStmt == Accepted /\ Emitted(emitReturn(Instruction(ir)), "terminator")

emitRaiseStmt == Accepted /\ Emitted(raiseExinfo(ir), "terminator")

\* The failing branch raises, emission goes on in the other.
emitPragmaAssert ==
  /\ Accepted
  /\ LET s == makeBasicBlock(makeBasicBlock(Condition(ir), NoName), NoName)
         fail == Newest(s) - 1
         pass == Newest(s)
         t == SetInsertPoint(Terminator(s, {fail, pass}, {}), fail)
     IN  Emitted(SetInsertPoint(raiseExinfo(t), pass), "open")

\* TypeCheck::acceptExitStmt: some loop is active, one with this tag if given.
ActiveLoops == {i \in DOMAIN nest : nest[i].stmt \in Loops}
Tagged(tag) == {i \in ActiveLoops : tag = NoName \/ nest[i].tag = tag}

\* The subframe an exit statement leaves.
ExitFrame(tag) == IF tag = NoName THEN findFirstLoop(ir)
                                  ELSE findFirstNamedSubframe(ir, tag)

emitExitStmt(tag, conditional) ==
  /\ Accepted /\ Tagged(tag) # {}
  /\ ExitFrame(tag) # 0
  /\ LET target == ir.frames[ExitFrame(tag)].merge
         s == makeBasicBlock(ir, NoName)
         rest == Newest(s)
         t == Terminator(Condition(s), {target, rest}, {})
     IN  IF conditional
         THEN Emitted(SetInsertPoint(t, rest), "open")
         ELSE Emitted(Br(ir, target), "terminator")
-----------------------------------------------------------------------------
(* Blocks and their handlers *)

\* The beginning of emitBlockStmt, once its subframe is pushed.
Enter(s, handled) == IF handled THEN addLandingPad(s) ELSE s
BlockNest(s) ==
  [Statement("block", subframe(s).merge, subframe(s).entry, NoName)
     EXCEPT !.pad = subframe(s).landingPad]

\* CodeGenRoutine::emit and emitSubroutineBody up to the body's statements.
emitSubroutineBody(handled) ==
  /\ phase = "start"
  /\ LET s == Enter(pushNewFrame(ir, "Block", NoName), handled)
     IN  /\ ir' = SetInsertPoint(s, subframe(s).entry)
         /\ nest' = <<BlockNest(s)>>
  /\ phase' = "body"
  /\ UNCHANGED stmts

beginBlockStmt(label, handled) ==
  /\ Accepted
  /\ LET s == Enter(pushNewFrame(ir, "Block", label), handled)
     IN  Begin(SetInsertPoint(Br(s, subframe(s).entry), subframe(s).entry),
               BlockNest(s))

\* Mutant of endBlockStmt: the branch to the merge block is always emitted.
endBlockAlways ==
  /\ Complete({"block"}) /\ Inner.pad = 0 /\ Len(nest) > 1
  /\ End(SetInsertPoint(popFrame(Br(ir, Inner.merge)), Inner.merge))

endBlockStmt ==
  /\ Complete({"block"}) /\ Inner.pad = 0 /\ Len(nest) > 1
  /\ End(SetInsertPoint(popFrame(BrIfNeeded(ir, Inner.merge)), Inner.merge))

\* HandlerEmitter::emitHandlers up to the first handler: the landing pad is
\* removed, filled with the selector and continued in a fresh block.
emitHandlers ==
  /\ Complete({"block"}) /\ Inner.pad # 0
  /\ LET s == makeBasicBlock(removeLandingPad(BrIfNeeded(ir, Inner.merge)), "lpad")
         pad == getLandingPad(ir)
         t == Br(Instruction(SetInsertPoint(s, pad)), Newest(s))
     IN  Continue(SetInsertPoint(t, Newest(t)),
                  [Statement("handlers", Inner.merge, Newest(t), NoName)
                     EXCEPT !.more = "handler"])

\* The comparison with one choice, failing into a block of its own.
CompareChoice(s, body) ==
  LET t == makeBasicBlock(Instruction(s), "lpad")
  IN  SetInsertPoint(Terminator(t, {body, Newest(t)}, {}), Newest(t))

Compare(s, body, choices) ==
  LET compared[i \in 0..choices] ==
        IF i = 0 THEN s ELSE CompareChoice(compared[i - 1], body)
  IN  compared[choices]

\* A handler with the given number of choices, none for the catch-all.
beginHandler(choices) ==
  /\ phase = "body" /\ Inner.stmt = "handlers" /\ Inner.more = "handler"
  /\ stmts < MaxStmts /\ Len(nest) < MaxNesting
  /\ LET s == makeBasicBlock(ir, NoName)
         body == Newest(s)
         t == IF choices = 0 THEN Br(s, body) ELSE Compare(s, body, choices)
         handlers == [Inner EXCEPT !.next = t.insert, !.last = "open",
                                   !.more = IF choices = 0 THEN "others" ELSE "handler"]
     IN  /\ ir' = SetInsertPoint(t, body)
         /\ nest' = Append([nest EXCEPT ![Len(nest)] = handlers],
                           Statement("handler", Inner.merge, t.insert, NoName))
  /\ stmts' = stmts + 1
  /\ UNCHANGED phase

endHandler ==
  /\ Complete({"handler"})
  /\ End(SetInsertPoint(BrIfNeeded(ir, Inner.merge), Inner.next))

\* Without a catch-all the exception is raised again; then the end of
\* emitBlockStmt.
endHandlers ==
  /\ Complete({"handlers"}) /\ Len(nest) > 1
  /\ LET s == IF Inner.more = "others" THEN ir ELSE raiseExinfo(ir)
     IN  End(SetInsertPoint(popFrame(SetInsertPoint(s, Inner.merge)), Inner.merge))
-----------------------------------------------------------------------------
(* If statements *)

\* A branch gets its own subframe.
Branch(s, body, merge) == PushSubframe(SetInsertPoint(s, body), "Block", body, merge)

\* The block of what follows a branch, made in s unless that is the merge.
FollowUp(s, more) == IF more = "none" THEN s ELSE makeBasicBlock(s, more)

IfNest(merge, next, more) ==
  [Statement("if", merge, next, NoName) EXCEPT !.more = more]

beginIfStmt(more) ==
  /\ Accepted
  /\ LET s == makeBasicBlock(makeBasicBlock(Condition(ir), "then"), "merge")
         then == Newest(s) - 1
         merge == Newest(s)
         t == FollowUp(s, more)
         else == Newest(t)
     IN  Begin(Branch(Terminator(t, {then, else}, {}), then, merge),
               IfNest(merge, else, more))

\* The branch under way is finished: br to the merge block, pop.
Branched == popFrame(BrIfNeeded(ir, Inner.merge))

emitElsif(more) ==
  /\ Complete({"if"}) /\ Inner.more = "elsif" /\ stmts < MaxStmts
  /\ LET s == FollowUp(SetInsertPoint(Branched, Inner.next), more)
         else == IF more = "none" THEN Inner.merge ELSE Newest(s)
         t == makeBasicBlock(s, "body")
         body == Newest(t)
     IN  /\ ir' = Branch(Terminator(Condition(t), {body, else}, {}), body, Inner.merge)
         /\ nest' = [nest EXCEPT ![Len(nest)] = IfNest(Inner.merge, else, more)]
  /\ stmts' = stmts + 1
  /\ UNCHANGED phase

emitElse ==
  /\ Complete({"if"}) /\ Inner.more = "else"
  /\ Continue(Branch(Branched, Inner.next, Inner.merge),
              IfNest(Inner.merge, Inner.merge, "none"))

endIfStmt ==
  /\ Complete({"if"}) /\ Inner.more = "none"
  /\ End(SetInsertPoint(Branched, Inner.merge))
-----------------------------------------------------------------------------
(* Loops *)

LoopBody(s, stmt, body, merge, next, tag) ==
  Begin(PushSubframe(SetInsertPoint(s, body), "Loop", body, merge),
        Statement(stmt, merge, next, tag))

\* A block named after the tag, as bodyBB->setName does.
beginWhileStmt(tag) ==
  /\ Accepted
  /\ LET s == makeBasicBlock(makeBasicBlock(makeBasicBlock(ir, NoName), tag), NoName)
         top == Newest(s) - 2
         body == Newest(s) - 1
         merge == Newest(s)
         t == Condition(SetInsertPoint(Br(s, top), top))
     IN  LoopBody(Terminator(t, {body, merge}, {}), "while", body, merge, top, tag)

\* for.top tests for the last iteration, for.iter steps and re-enters the
\* body, whose first instruction is the PHI node of the loop parameter.
beginForStmt(tag) ==
  /\ Accepted
  /\ LET s == makeBasicBlock(makeBasicBlock(makeBasicBlock(
                makeBasicBlock(Condition(ir), NoName), NoName), tag), NoName)
         top == Newest(s) - 3
         iter == Newest(s) - 2
         body == Newest(s) - 1
         merge == Newest(s)
         t == Instruction(SetInsertPoint(Terminator(s, {merge, body}, {}), top))
         u == Instruction(SetInsertPoint(Terminator(t, {merge, iter}, {}), iter))
     IN  LoopBody([Br(u, body) EXCEPT !.blocks[body].phi = "first"],
                  "for", body, merge, top, tag)

beginLoopStmt(tag) ==
  /\ Accepted
  /\ LET s == makeBasicBlock(makeBasicBlock(ir, tag), NoName)
         body == Newest(s) - 1
         merge == Newest(s)
     IN  LoopBody(Br(s, body), "loop", body, merge, body, tag)

\* The end of the three loop emitters: the subframe is popped before the
\* branch back.
endLoopStmt ==
  /\ Complete(Loops)
  /\ End(SetInsertPoint(BrIfNeeded(popFrame(ir), Inner.next), Inner.merge))
-----------------------------------------------------------------------------
\* The end of the body's block, then emitSubroutineBody and ~Frame.
Finish(s) ==
  LET t == SetInsertPoint(popFrame(s), Inner.merge)
      u == IF hasTerminator(t) THEN t ELSE emitReturn(t)
  IN  /\ ir' = popFrame(emitEpilogue(emitPrologue(u, 3)))
      /\ nest' = <<>>
      /\ phase' = "done"
      /\ UNCHANGED stmts

endSubroutineBody ==
  /\ Len(nest) = 1
  /\ \/ /\ Complete({"block"}) /\ Inner.pad = 0
        /\ Finish(BrIfNeeded(ir, Inner.merge))
     \/ /\ Complete({"handlers"})
        /\ Finish(SetInsertPoint(IF Inner.more = "others" THEN ir ELSE raiseExinfo(ir),
                                 Inner.merge))

Init ==
  /\ ir = newFrame
  /\ nest = <<>> /\ stmts = 0 /\ phase = "start"

Next ==
  \/ \E handled \in BOOLEAN : emitSubroutineBody(handled)
  \/ emitSimpleStmt \/ emitReturnStmt \/ emitRaiseStmt \/ emitPragmaAssert
  \/ \E tag \in Tag \cup {NoName}, conditional \in BOOLEAN :
       emitExitStmt(tag, conditional)
  \/ \E label \in Tag \cup {NoName}, handled \in BOOLEAN :
       beginBlockStmt(label, handled)
  \/ endBlockStmt \/ emitHandlers \/ endHandler \/ endHandlers
  \/ \E choices \in 0..MaxChoices : beginHandler(choices)
  \/ \E more \in {"none", "elsif", "else"} : beginIfStmt(more) \/ emitElsif(more)
  \/ emitElse \/ endIfStmt
  \/ \E tag \in Tag \cup {NoName} :
       beginWhileStmt(tag) \/ beginForStmt(tag) \/ beginLoopStmt(tag)
  \/ endLoopStmt \/ endSubroutineBody

Spec == Init /\ [][Next]_vars /\ WF_vars(Next)
-----------------------------------------------------------------------------
(* Properties *)

BlockIds == DOMAIN ir.blocks
Successors(b) == ir.blocks[b].succ \cup ir.blocks[b].unwind

\* The blocks reachable from the function's entry without passing through the
\* blocks avoided.
ReachableAvoiding(avoided) ==
  LET grow(S) == (S \cup UNION {Successors(b) : b \in S}) \ avoided
      steps[n \in 0..Len(ir.blocks)] ==
        IF n = 0 THEN {allocaBB} \ avoided ELSE grow(steps[n - 1])
  IN  steps[Len(ir.blocks)]

\* llvm::verifyFunction (CodeGenRoutine.cpp:50) accepts the function: every
\* block ends in a terminator and has no other, the entry block has no
\* predecessor, PHI nodes come first, and a restored stack pointer has been
\* saved on every path.
FunctionVerifies ==
  phase = "done" =>
    /\ \A b \in BlockIds :
         /\ ir.blocks[b].term /\ ~ir.blocks[b].torn
         /\ ir.blocks[b].phi # "late"
         /\ Successors(b) \subseteq BlockIds \ {allocaBB}
    /\ \A e \in UNION {ir.blocks[b].restores : b \in BlockIds} :
         \A b \in ReachableAvoiding({e}) : e \notin ir.blocks[b].restores

\* The landing pad of the innermost block whose protected statements are
\* being emitted, as the nesting of statements says.
LexicalPad ==
  LET protecting == {i \in DOMAIN nest : nest[i].stmt = "block" /\ nest[i].pad # 0}
  IN  IF protecting = {} THEN 0 ELSE nest[Innermost(protecting)].pad

\* A call or raise unwinds to the handlers of the innermost block protecting
\* it; one in a handler, or a reraise, never to the handlers it belongs to.
LandingPadsAreLexical == phase = "body" => getLandingPad(ir) = LexicalPad

\* Whether an exit statement with this tag, or none, leaves the innermost loop
\* that has it, and whether the body of that loop still has the tag for its name.
ExitReachesLoop(tag) ==
  /\ ExitFrame(tag) # 0
  /\ ir.frames[ExitFrame(tag)].merge = nest[Innermost(Tagged(tag))].merge
BodyIsNamed(tag) ==
  \E f \in Range(ir.frames) :
    /\ f.kind = "Loop" /\ f.merge = nest[Innermost(Tagged(tag))].merge
    /\ ir.blocks[f.entry].name = tag

\* CodeGenStmt.cpp, emitExitStmt: without a tag it leaves the innermost loop.  With
\* one it leaves the loop the type checker found exactly where the body of that loop
\* kept the tag for its name, which a parameter, a block of the compiler or another
\* statement may have had before; then no subframe further in is taken for it.
ExitLeavesItsLoop ==
  phase = "body" => \A tag \in Tag \cup {NoName} : Tagged(tag) # {} =>
    (ExitReachesLoop(tag) <=> tag = NoName \/ BodyIsNamed(tag))

\* CodeGenStmt.cpp:478, "Invalid context for exit stmt!", and Frame.h:215, "Locates
\* the innermost subframe with the given name": whatever the tag is spelled like, an
\* exit that the type checker accepts leaves its loop.  Not so where LLVM renames the
\* body: as an invariant of MCCodeGenStmt this is violated.
ExitFindsItsLoop ==
  phase = "body" => \A tag \in Tag \cup {NoName} : Tagged(tag) # {} => ExitReachesLoop(tag)
=============================================================================
