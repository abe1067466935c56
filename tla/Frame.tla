-------------------------------- MODULE Frame --------------------------------
(***************************************************************************)
(* The code emitter's view of the function under construction:              *)
(* lib/codegen/Frame.{h,cpp} on top of the part of llvm::IRBuilder that the *)
(* emitters use.                                                            *)
(*                                                                          *)
(* An emission state is a record of the basic blocks made so far, the block *)
(* at whose end the builder inserts, and the stack of subframes, innermost  *)
(* last.  The operators below take an emission state to the next one, so    *)
(* that an emitter is their composition, in the order of its calls.         *)
(***************************************************************************)
EXTENDS Integers, Sequences, FiniteSets, SequencesExt

CONSTANTS
  Tag,             \* identifiers: loop tags and block labels
  Parameters,      \* those that name a parameter of the subroutine
  Suffixed(_, _)   \* the k-th block's name, with the number that makes it unique

NoName == "unnamed"

\* The names of the compiler's own blocks.  Those with a point or a hyphen can
\* never meet an identifier and are left out: such a block has no name here.
BlockNames == {"alloa", "return", "landingpad", "merge", "then", "else", "elsif", "body", "lpad"}
ReservedWords == {"return", "then", "else", "elsif", "body"}
Names == Tag \cup BlockNames \cup {NoName}

ASSUME TagAssumption == NoName \notin Tag /\ Tag \cap ReservedWords = {} /\ Parameters \subseteq Tag

\* What is recorded of a basic block.  torn: a terminator has been followed by
\* another instruction; phi: whether its PHI node, if it has one, comes first;
\* restores: the entry blocks of the subframes whose stack is restored here.
Block == [name: Names, term: BOOLEAN, torn: BOOLEAN,
          succ: SUBSET Nat, unwind: SUBSET Nat,
          phi: {"none", "first", "late"}, restores: SUBSET Nat]

\* saved: restorePtr is set.  A landing pad of 0 is the null pointer.
Subframe == [kind: {"Entry", "Block", "Loop"}, entry: Nat, merge: Nat,
             saved: BOOLEAN, landingPad: Nat]

Emission == [blocks: Seq(Block), insert: Nat, frames: Seq(Subframe)]
-----------------------------------------------------------------------------
(* llvm::IRBuilder and llvm::BasicBlock *)

\* A name that a block or a parameter has already is made unique by a number, of
\* which only matters whether it spells an identifier of the program.
Taken(s, name) == name \in Parameters \/ \E i \in DOMAIN s.blocks : s.blocks[i].name = name
UniqueName(s, name) ==
  LET suffixed == Suffixed(Len(s.blocks) + 1, name)
  IN  IF name = NoName \/ ~Taken(s, name) THEN name
      ELSE IF suffixed \in Names /\ ~Taken(s, suffixed) THEN suffixed ELSE NoName

makeBasicBlock(s, name) ==
  [s EXCEPT !.blocks = Append(@, [name |-> UniqueName(s, name), term |-> FALSE,
      torn |-> FALSE, succ |-> {}, unwind |-> {}, phi |-> "none", restores |-> {}])]

\* The block made last.
Newest(s) == Len(s.blocks)

SetInsertPoint(s, b) == [s EXCEPT !.insert = b]
hasTerminator(s) == s.blocks[s.insert].term

\* An instruction that is not a terminator is appended.
Instruction(s) ==
  LET b == s.blocks[s.insert]
  IN  [s EXCEPT !.blocks[s.insert] = [b EXCEPT !.torn = b.torn \/ b.term, !.term = FALSE]]

\* A terminator is appended, with its normal and its unwind successors.
Terminator(s, succ, unwind) ==
  LET b == s.blocks[s.insert]
  IN  [s EXCEPT !.blocks[s.insert] =
         [b EXCEPT !.torn = b.torn \/ b.term, !.term = TRUE,
                   !.succ = b.succ \cup succ, !.unwind = b.unwind \cup unwind]]

Br(s, b) == Terminator(s, {b}, {})
Unreachable(s) == Terminator(s, {}, {})
Ret(s) == Terminator(s, {}, {})
BrIfNeeded(s, b) == IF hasTerminator(s) THEN s ELSE Br(s, b)
-----------------------------------------------------------------------------
(* Subframe and Frame *)

subframe(s) == Last(s.frames)

PushSubframe(s, kind, entry, merge) ==
  [s EXCEPT !.frames = Append(@, [kind |-> kind, entry |-> entry, merge |-> merge,
                                  saved |-> FALSE, landingPad |-> 0])]

\* pushFrame(kind, name): the entry block Newest(s) - 1 and the merge block
\* Newest(s) are made by the Subframe.
pushNewFrame(s, kind, name) ==
  LET t == makeBasicBlock(makeBasicBlock(s, name), "merge")
  IN  PushSubframe(t, kind, Newest(t) - 1, Newest(t))

addLandingPad(s) ==
  IF subframe(s).landingPad # 0 THEN s
  ELSE LET t == makeBasicBlock(s, "landingpad")
       IN  [t EXCEPT !.frames[Len(t.frames)].landingPad = Newest(t)]

WithPad(s) == {i \in DOMAIN s.frames : s.frames[i].landingPad # 0}
Innermost(indices) == CHOOSE i \in indices : \A j \in indices : j =< i

getLandingPad(s) ==
  IF WithPad(s) = {} THEN 0 ELSE s.frames[Innermost(WithPad(s))].landingPad

\* Mutant: the landing pad is kept while its own handlers are emitted.
KeepLandingPad(s) == s

removeLandingPad(s) ==
  IF WithPad(s) = {} THEN s
  ELSE [s EXCEPT !.frames[Innermost(WithPad(s))].landingPad = 0]

\* The stack pointer is saved at the very beginning of the entry block.
stacksave(s) ==
  LET entry == subframe(s).entry
  IN  IF subframe(s).saved THEN s
      ELSE [s EXCEPT !.frames[Len(s.frames)].saved = TRUE,
                     !.blocks[entry].phi = IF @ = "first" THEN "late" ELSE @]

\* emitStackrestore for the frames given, as entry blocks.
Restore(s, entries) ==
  IF entries = {} \/ hasTerminator(s) THEN s
  ELSE [s EXCEPT !.blocks[s.insert].restores = @ \cup entries]
Saved(frames) == {f.entry : f \in {g \in Range(frames) : g.saved}}

popFrame(s) ==
  [Restore(s, Saved(<<subframe(s)>>)) EXCEPT !.frames = Front(s.frames)]

\* The blocks made by Frame::Frame.
allocaBB == 1
returnBB == 2

newFrame ==
  LET empty == [blocks |-> <<>>, insert |-> allocaBB, frames |-> <<>>]
  IN  PushSubframe(makeBasicBlock(makeBasicBlock(empty, "alloa"), "return"),
                   "Entry", allocaBB, returnBB)

emitReturn(s) == Br(Restore(s, Saved(Tail(s.frames))), returnBB)

emitPrologue(s, body) ==
  SetInsertPoint(Br(SetInsertPoint(s, allocaBB), body), s.insert)
emitEpilogue(s) ==
  SetInsertPoint(Ret(SetInsertPoint(s, returnBB)), s.insert)

\* findFirstSubframe(Loop) and findFirstNamedSubframe: the index of the
\* innermost subframe that matches, 0 if none does.
IndexOfInnermost(indices) == IF indices = {} THEN 0 ELSE Innermost(indices)

\* Mutant: the search starts at the outermost subframe.
OutermostLoop(s) ==
  LET loops == {i \in DOMAIN s.frames : s.frames[i].kind = "Loop"}
  IN  IF loops = {} THEN 0 ELSE CHOOSE i \in loops : \A j \in loops : i =< j

findFirstLoop(s) ==
  IndexOfInnermost({i \in DOMAIN s.frames : s.frames[i].kind = "Loop"})
findFirstNamedSubframe(s, tag) ==
  IndexOfInnermost({i \in DOMAIN s.frames : s.blocks[s.frames[i].entry].name = tag})
=============================================================================
