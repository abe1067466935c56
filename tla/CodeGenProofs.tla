---------------------------- MODULE CodeGenProofs ----------------------------
(***************************************************************************)
(* Proofs about CodeGenStmt.  The emitters keep a stack of subframes that   *)
(* they push and pop by hand; the landing pad of a call and the target of   *)
(* an exit statement are found by searching it.  The proofs show that at    *)
(* every step the stack mirrors the statements under way, and from that     *)
(* that both searches find what the nesting of the statements says.         *)
(*                                                                          *)
(* An operator of module Frame either grows the emission state, or pushes,  *)
(* pops or sets a pad; the first sections say which, the next ones what     *)
(* that does to the agreement, then one goes through the actions.           *)
(*                                                                          *)
(* The second half is about the graph of blocks the emitters leave behind:  *)
(* it gives every block a set of blocks that all paths to it pass, and      *)
(* every statement under way the blocks that wait for it to be filled, and  *)
(* shows that each emitter fills the blocks it promised and restores no     *)
(* stack pointer outside the subframe that saved it.                        *)
(***************************************************************************)
EXTENDS CodeGenStmt, OrderLemmas

\* A sound emission state: it is typed and inserts at the end of a block that
\* has been made.
Sound(s) == s \in Emission /\ s.insert \in 1..Len(s.blocks)

\* No two blocks have the same name.
NamesApart(s) ==
  \A b, c \in 1..Len(s.blocks) :
    s.blocks[b].name # NoName /\ s.blocks[b].name = s.blocks[c].name => b = c

\* The subframes of s and t agree, but for whether a stack pointer is saved.
SameFrames(s, t) ==
  /\ Len(t.frames) = Len(s.frames)
  /\ \A k \in 1..Len(s.frames) :
       /\ t.frames[k].kind = s.frames[k].kind
       /\ t.frames[k].entry = s.frames[k].entry
       /\ t.frames[k].merge = s.frames[k].merge
       /\ t.frames[k].landingPad = s.frames[k].landingPad

\* What an emitter does to an emission state unless it pushes, pops or changes
\* a landing pad: blocks are only added, with names of their own, keep their
\* names, and the stack of subframes stays.
Grows(s, t) ==
  /\ Sound(t)
  /\ Len(s.blocks) =< Len(t.blocks)
  /\ \A b \in 1..Len(s.blocks) : t.blocks[b].name = s.blocks[b].name
  /\ NamesApart(s) => NamesApart(t)
  /\ SameFrames(s, t)

\* Names stay apart where no block is added.
LEMMA SameNames ==
  ASSUME NEW s, NEW t, Len(t.blocks) = Len(s.blocks),
         \A b \in 1..Len(s.blocks) : t.blocks[b].name = s.blocks[b].name
  PROVE  NamesApart(s) => NamesApart(t)
BY DEF NamesApart

\* The names a block may be given.
LEMMA NameFacts ==
  /\ NoName \in Names /\ "alloa" \in Names /\ "return" \in Names /\ "landingpad" \in Names
  /\ "merge" \in Names /\ "then" \in Names /\ "else" \in Names /\ "elsif" \in Names
  /\ "body" \in Names /\ "lpad" \in Names
  /\ \A name \in Tag \cup {NoName} : name \in Names
BY DEF Names, BlockNames

\* A name made unique is that of no block made before, whatever number LLVM
\* appends to it.
LEMMA UniqueNameFacts ==
  ASSUME NEW s, NEW name \in Names
  PROVE  /\ UniqueName(s, name) \in Names
         /\ UniqueName(s, name) # NoName =>
              \A b \in DOMAIN s.blocks : s.blocks[b].name # UniqueName(s, name)
<1> DEFINE suffixed == Suffixed(Len(s.blocks) + 1, name)
<1>1. UniqueName(s, name) = IF name = NoName \/ ~Taken(s, name) THEN name
                            ELSE IF suffixed \in Names /\ ~Taken(s, suffixed) THEN suffixed ELSE NoName
  BY DEF UniqueName
<1> HIDE DEF suffixed
<1>2. \A x : ~Taken(s, x) => \A b \in DOMAIN s.blocks : s.blocks[b].name # x
  BY DEF Taken
<1> QED BY <1>1, <1>2, NameFacts

\* Emitters compose: a sequence of calls grows the state if each call does.
LEMMA GrowsTransitive ==
  ASSUME NEW s, NEW t, NEW u, Sound(s), Grows(s, t), Grows(t, u)
  PROVE  Grows(s, u)
<1>1. Len(s.blocks) \in Nat /\ Len(t.blocks) \in Nat /\ Len(u.blocks) \in Nat
  BY DEF Sound, Grows, Emission
<1>2. \A b \in 1..Len(s.blocks) : b \in 1..Len(t.blocks)
  BY <1>1 DEF Grows
<1>3. SameFrames(s, u)
  BY DEF Grows, SameFrames
<1> QED BY <1>1, <1>2, <1>3 DEF Grows

\* SetInsertPoint only moves to another block.
LEMMA SetInsertPointGrows ==
  ASSUME NEW s, Sound(s), NEW b \in 1..Len(s.blocks)
  PROVE  LET t == SetInsertPoint(s, b)
         IN  Grows(s, t) /\ t.blocks = s.blocks /\ t.insert = b /\ t.frames = s.frames
<1> DEFINE t == SetInsertPoint(s, b)
<1>1. s \in Emission /\ Len(s.blocks) \in Nat /\ b \in Nat
  BY DEF Sound, Emission
<1>2. t \in Emission /\ t.blocks = s.blocks /\ t.insert = b /\ t.frames = s.frames
  BY <1>1 DEF SetInsertPoint, Emission
<1> HIDE DEF t
<1>3. NamesApart(s) => NamesApart(t)
  BY <1>2, SameNames
<1>4. Grows(s, t)
  BY <1>1, <1>2, <1>3 DEF Grows, Sound, SameFrames
<1> QED BY <1>2, <1>4 DEF t

\* makeBasicBlock adds one block, whose name is made unique.
LEMMA makeBasicBlockGrows ==
  ASSUME NEW s, Sound(s), NEW name \in Names
  PROVE  LET t == makeBasicBlock(s, name)
         IN  /\ Grows(s, t)
             /\ Len(t.blocks) = Len(s.blocks) + 1 /\ Newest(t) = Len(s.blocks) + 1
             /\ t.insert = s.insert /\ t.frames = s.frames
<1> DEFINE t == makeBasicBlock(s, name)
           new == [name |-> UniqueName(s, name), term |-> FALSE,
                   torn |-> FALSE, succ |-> {}, unwind |-> {}, phi |-> "none", restores |-> {}]
<1>1. /\ s \in Emission /\ Len(s.blocks) \in Nat /\ s.insert \in 1..Len(s.blocks)
      /\ s.blocks \in Seq(Block)
  BY DEF Sound, Emission
<1>2. new \in Block /\ new.name = UniqueName(s, name)
  BY UniqueNameFacts DEF Block
<1>3. t = [s EXCEPT !.blocks = Append(@, new)]
  BY DEF makeBasicBlock
<1> HIDE DEF new, t
<1>4. t \in Emission /\ t.blocks = Append(s.blocks, new) /\ t.insert = s.insert /\ t.frames = s.frames
  <2> DEFINE blocks == Append(s.blocks, new)
  <2>1. blocks \in Seq(Block)
    BY <1>1, <1>2
  <2>2. t = [s EXCEPT !.blocks = blocks]
    BY <1>3
  <2> HIDE DEF blocks
  <2>3. t \in Emission /\ t.blocks = blocks /\ t.insert = s.insert /\ t.frames = s.frames
    BY <1>1, <2>1, <2>2 DEF Emission
  <2> QED BY <2>3 DEF blocks
<1>5. /\ Len(t.blocks) = Len(s.blocks) + 1 /\ t.blocks[Len(s.blocks) + 1] = new
      /\ \A b \in 1..Len(s.blocks) : t.blocks[b] = s.blocks[b]
  BY <1>1, <1>2, <1>4
<1>6. s.insert \in 1..Len(t.blocks) /\ Len(s.blocks) =< Len(t.blocks)
  BY <1>1, <1>5
<1>7. NamesApart(s) => NamesApart(t)
  <2>1. DOMAIN s.blocks = 1..Len(s.blocks)
    BY <1>1
  <2>2. new.name # NoName => \A b \in 1..Len(s.blocks) : s.blocks[b].name # new.name
    BY <1>2, <2>1, UniqueNameFacts
  <2>3. \A b \in 1..Len(t.blocks) : b \in 1..Len(s.blocks) \/ b = Len(s.blocks) + 1
    BY <1>1, <1>5
  <2> QED BY <1>5, <2>2, <2>3 DEF NamesApart
<1>8. Grows(s, t)
  BY <1>4, <1>5, <1>6, <1>7 DEF Grows, Sound, SameFrames
<1> QED BY <1>4, <1>5, <1>8 DEF t, Newest

\* Changing one block, but not its name, grows the state.
LEMMA BlockChange ==
  ASSUME NEW s, Sound(s), NEW b \in 1..Len(s.blocks), NEW new \in Block,
         new.name = s.blocks[b].name
  PROVE  LET t == [s EXCEPT !.blocks[b] = new]
         IN  Grows(s, t) /\ Len(t.blocks) = Len(s.blocks) /\ t.insert = s.insert /\ t.frames = s.frames
<1> DEFINE blocks == [s.blocks EXCEPT ![b] = new]
           t == [s EXCEPT !.blocks[b] = new]
<1>0. t = [s EXCEPT !.blocks = blocks]
  OBVIOUS
<1>1. /\ s \in Emission /\ Len(s.blocks) \in Nat /\ s.insert \in 1..Len(s.blocks)
      /\ s.blocks \in Seq(Block)
  BY DEF Sound, Emission
<1>2. /\ blocks \in Seq(Block) /\ Len(blocks) = Len(s.blocks)
      /\ \A c \in 1..Len(s.blocks) : blocks[c].name = s.blocks[c].name
  BY <1>1
<1> HIDE DEF blocks, t
<1>3. t \in Emission /\ t.blocks = blocks /\ t.insert = s.insert /\ t.frames = s.frames
  BY <1>0, <1>1, <1>2 DEF Emission
<1>4. NamesApart(s) => NamesApart(t)
  BY <1>2, <1>3, SameNames
<1>5. Grows(s, t)
  BY <1>1, <1>2, <1>3, <1>4 DEF Grows, Sound, SameFrames
<1> QED BY <1>2, <1>3, <1>5 DEF t, blocks

\* Appending an instruction grows the state.
LEMMA InstructionGrows ==
  ASSUME NEW s, Sound(s)
  PROVE  LET t == Instruction(s)
         IN  Grows(s, t) /\ Len(t.blocks) = Len(s.blocks) /\ t.insert = s.insert /\ t.frames = s.frames
<1> DEFINE b == s.insert
           new == [s.blocks[b] EXCEPT !.torn = s.blocks[b].torn \/ s.blocks[b].term, !.term = FALSE]
<1>1. s \in Emission /\ b \in 1..Len(s.blocks) /\ s.blocks[b] \in Block /\ s.blocks \in Seq(Block)
  BY DEF Sound, Emission
<1>2. new \in Block /\ new.name = s.blocks[b].name
  BY <1>1 DEF Block
<1>3. Instruction(s) = [s EXCEPT !.blocks[b] = new]
  BY Zenon DEF Instruction
<1> HIDE DEF new
<1> QED BY <1>1, <1>2, <1>3, BlockChange

\* Appending a terminator grows the state.
LEMMA TerminatorGrows ==
  ASSUME NEW s, Sound(s), NEW succ \in SUBSET Nat, NEW unwind \in SUBSET Nat
  PROVE  LET t == Terminator(s, succ, unwind)
         IN  Grows(s, t) /\ Len(t.blocks) = Len(s.blocks) /\ t.insert = s.insert /\ t.frames = s.frames
<1> DEFINE b == s.insert
           new == [s.blocks[b] EXCEPT !.torn = s.blocks[b].torn \/ s.blocks[b].term, !.term = TRUE,
                                      !.succ = s.blocks[b].succ \cup succ,
                                      !.unwind = s.blocks[b].unwind \cup unwind]
<1>1. s \in Emission /\ b \in 1..Len(s.blocks) /\ s.blocks[b] \in Block /\ s.blocks \in Seq(Block)
  BY DEF Sound, Emission
<1>2. new \in Block /\ new.name = s.blocks[b].name
  BY <1>1 DEF Block
<1>3. Terminator(s, succ, unwind) = [s EXCEPT !.blocks[b] = new]
  BY Zenon DEF Terminator
<1> HIDE DEF new
<1> QED BY <1>1, <1>2, <1>3, BlockChange

\* The innermost of a set of positions is a member and bounds the others.
LEMMA InnermostFacts ==
  ASSUME NEW n \in Nat, NEW S \in SUBSET (1..n), S # {}
  PROVE  Innermost(S) \in S /\ \A j \in S : j =< Innermost(S)
<1>1. S \in SUBSET (0..n)
  OBVIOUS
<1>2. \E m \in S : \A k \in S : k =< m
  BY <1>1, GreatestNatural
<1> QED BY <1>2 DEF Innermost

\* The landing pad found by getLandingPad is that of the innermost subframe
\* that has one.
LEMMA PadFacts ==
  ASSUME NEW s, Sound(s)
  PROVE  /\ getLandingPad(s) \in Nat
         /\ WithPad(s) # {} => /\ Innermost(WithPad(s)) \in WithPad(s)
                               /\ \A j \in WithPad(s) : j =< Innermost(WithPad(s))
         /\ WithPad(s) = {k \in 1..Len(s.frames) : s.frames[k].landingPad # 0}
<1>1. s.frames \in Seq(Subframe) /\ Len(s.frames) \in Nat /\ DOMAIN s.frames = 1..Len(s.frames)
  BY DEF Sound, Emission
<1>2. WithPad(s) = {k \in 1..Len(s.frames) : s.frames[k].landingPad # 0}
  BY <1>1 DEF WithPad
<1>3. WithPad(s) \in SUBSET (1..Len(s.frames))
  BY <1>2
<1>4. WithPad(s) # {} => /\ Innermost(WithPad(s)) \in WithPad(s)
                         /\ \A j \in WithPad(s) : j =< Innermost(WithPad(s))
  BY <1>1, <1>3, InnermostFacts
<1>5. \A k \in 1..Len(s.frames) : s.frames[k].landingPad \in Nat
  <2>1. \A k \in 1..Len(s.frames) : s.frames[k] \in Subframe
    BY <1>1
  <2>2. \A f \in Subframe : f.landingPad \in Nat
    BY DEF Subframe
  <2> QED BY <2>1, <2>2
<1> QED BY <1>2, <1>3, <1>4, <1>5 DEF getLandingPad

\* A branch, needed or not, grows the state.
LEMMA BrGrows ==
  ASSUME NEW s, Sound(s), NEW b \in Nat
  PROVE  /\ Grows(s, Br(s, b)) /\ Grows(s, BrIfNeeded(s, b))
         /\ Len(Br(s, b).blocks) = Len(s.blocks) /\ Br(s, b).frames = s.frames
         /\ Len(BrIfNeeded(s, b).blocks) = Len(s.blocks) /\ BrIfNeeded(s, b).frames = s.frames
<1>1. Grows(s, Br(s, b)) /\ Len(Br(s, b).blocks) = Len(s.blocks) /\ Br(s, b).frames = s.frames
  <2>1. {b} \in SUBSET Nat /\ {} \in SUBSET Nat
    OBVIOUS
  <2> QED BY <2>1, TerminatorGrows DEF Br
<1>2. Grows(s, s)
  BY DEF Grows, Sound, SameFrames, Emission
<1> QED BY <1>1, <1>2 DEF BrIfNeeded

\* A call, emitted as call or as invoke, grows the state.
LEMMA emitCallGrows ==
  ASSUME NEW s, Sound(s)
  PROVE  Grows(s, emitCall(s)) /\ emitCall(s).frames = s.frames
<1> DEFINE t == makeBasicBlock(s, NoName)
           u == Terminator(t, {Newest(t)}, {getLandingPad(t)})
<1>1. Grows(s, t) /\ Sound(t) /\ Newest(t) = Len(t.blocks) /\ t.frames = s.frames
  BY NameFacts, makeBasicBlockGrows DEF Grows, Newest
<1>2. Len(t.blocks) \in Nat /\ Len(t.blocks) >= 1
  BY <1>1 DEF Sound, Emission
<1> HIDE DEF t
<1>3. /\ Grows(t, u) /\ Sound(u) /\ Len(u.blocks) = Len(t.blocks) /\ u.frames = t.frames
  <2>1. {Newest(t)} \in SUBSET Nat /\ {getLandingPad(t)} \in SUBSET Nat
    BY <1>1, <1>2, PadFacts
  <2> QED BY <2>1, <1>1, TerminatorGrows DEF Grows
<1> HIDE DEF u
<1>4. /\ Grows(u, SetInsertPoint(u, Newest(t)))
      /\ SetInsertPoint(u, Newest(t)).frames = s.frames
  <2>1. Newest(t) \in 1..Len(u.blocks)
    BY <1>1, <1>2, <1>3
  <2> QED BY <2>1, <1>1, <1>3, SetInsertPointGrows
<1>5. Grows(s, SetInsertPoint(u, Newest(t)))
  BY <1>1, <1>3, <1>4, GrowsTransitive
<1> QED BY <1>4, <1>5, InstructionGrows DEF emitCall, t, u

\* A raise grows the state.
LEMMA raiseExinfoGrows ==
  ASSUME NEW s, Sound(s)
  PROVE  Grows(s, raiseExinfo(s)) /\ raiseExinfo(s).frames = s.frames
<1> DEFINE t == emitCall(s)
<1>1. Grows(s, t) /\ Sound(t) /\ t.frames = s.frames
  BY emitCallGrows DEF Grows
<1> HIDE DEF t
<1>2. Grows(t, Unreachable(t)) /\ Unreachable(t).frames = s.frames
  <2>1. {} \in SUBSET Nat
    OBVIOUS
  <2> QED BY <2>1, <1>1, TerminatorGrows DEF Unreachable
<1> QED BY <1>1, <1>2, GrowsTransitive DEF raiseExinfo, t

\* Restoring stack pointers grows the state.
LEMMA RestoreGrows ==
  ASSUME NEW s, Sound(s), NEW entries \in SUBSET Nat
  PROVE  LET t == Restore(s, entries)
         IN  Grows(s, t) /\ Len(t.blocks) = Len(s.blocks) /\ t.frames = s.frames
<1> DEFINE b == s.insert
           new == [s.blocks[b] EXCEPT !.restores = s.blocks[b].restores \cup entries]
           t == [s EXCEPT !.blocks[b] = new]
<1>1. s \in Emission /\ b \in 1..Len(s.blocks) /\ s.blocks[b] \in Block /\ s.blocks \in Seq(Block)
  BY DEF Sound, Emission
<1>2. new \in Block /\ new.name = s.blocks[b].name
  BY <1>1 DEF Block
<1>3. Restore(s, entries) = s \/ Restore(s, entries) = t
  BY DEF Restore
<1> HIDE DEF new
<1>4. Grows(s, t) /\ Len(t.blocks) = Len(s.blocks) /\ t.frames = s.frames
  BY <1>1, <1>2, BlockChange
<1>5. Grows(s, s)
  BY DEF Grows, Sound, SameFrames, Emission
<1> HIDE DEF t
<1> QED BY <1>3, <1>4, <1>5

\* The subframes with a saved stack pointer are named by block numbers.
LEMMA SavedFacts ==
  ASSUME NEW frames \in Seq(Subframe)
  PROVE  Saved(frames) \in SUBSET Nat
<1>1. \A f \in Range(frames) : f \in Subframe
  BY DEF Range
<1> QED BY <1>1 DEF Saved, Subframe

\* popFrame drops the innermost subframe and keeps blocks and names.
LEMMA popFrameFacts ==
  ASSUME NEW s, Sound(s), Len(s.frames) > 0
  PROVE  LET t == popFrame(s)
         IN  /\ Sound(t) /\ t.frames = Front(s.frames) /\ Len(t.blocks) = Len(s.blocks)
             /\ \A b \in 1..Len(s.blocks) : t.blocks[b].name = s.blocks[b].name
             /\ NamesApart(s) => NamesApart(t)
<1> DEFINE u == Restore(s, Saved(<<subframe(s)>>))
           t == [u EXCEPT !.frames = Front(s.frames)]
<1>1. s.frames \in Seq(Subframe)
  BY DEF Sound, Emission
<1>2. Saved(<<subframe(s)>>) \in SUBSET Nat
  <2>1. subframe(s) \in Subframe
    BY <1>1 DEF subframe, Last
  <2>2. <<subframe(s)>> \in Seq(Subframe)
    BY <2>1
  <2> QED BY <2>2, SavedFacts
<1>3. /\ Grows(s, u) /\ Sound(u) /\ Len(u.blocks) = Len(s.blocks) /\ u.frames = s.frames
  BY <1>2, RestoreGrows DEF Grows
<1>4. Front(s.frames) \in Seq(Subframe)
  BY <1>1, FrontFacts
<1>5. popFrame(s) = t
  BY DEF popFrame
<1> HIDE DEF u
<1>6. /\ t \in Emission /\ t.frames = Front(s.frames) /\ t.blocks = u.blocks /\ t.insert = u.insert
  BY <1>3, <1>4 DEF Sound, Emission
<1> HIDE DEF t
<1>7. Sound(t)
  BY <1>3, <1>6 DEF Sound
<1>8. NamesApart(s) => NamesApart(t)
  BY <1>3, <1>6, SameNames DEF Grows
<1> QED BY <1>3, <1>5, <1>6, <1>7, <1>8 DEF Grows

\* emitReturn, with the restores before it, grows the state.
LEMMA emitReturnGrows ==
  ASSUME NEW s, Sound(s), Len(s.frames) > 0
  PROVE  Grows(s, emitReturn(s)) /\ emitReturn(s).frames = s.frames
<1> DEFINE t == Restore(s, Saved(Tail(s.frames)))
<1>1. s.frames \in Seq(Subframe)
  BY DEF Sound, Emission
<1>2. Saved(Tail(s.frames)) \in SUBSET Nat
  <2>1. Tail(s.frames) \in Seq(Subframe)
    BY <1>1
  <2> QED BY <2>1, SavedFacts
<1>3. Grows(s, t) /\ Sound(t) /\ t.frames = s.frames
  BY <1>2, RestoreGrows DEF Grows
<1> HIDE DEF t
<1>4. Grows(t, Br(t, returnBB)) /\ Br(t, returnBB).frames = t.frames
  BY <1>3, BrGrows DEF returnBB
<1> QED BY <1>3, <1>4, GrowsTransitive DEF emitReturn, t

\* stacksave grows the state: kinds, blocks and pads of the subframes stay.
LEMMA stacksaveGrows ==
  ASSUME NEW s, Sound(s), Len(s.frames) > 0
  PROVE  Grows(s, stacksave(s))
<1> DEFINE n == Len(s.frames)
           entry == subframe(s).entry
           frames == [s.frames EXCEPT ![n] = [s.frames[n] EXCEPT !.saved = TRUE]]
           blocks == [s.blocks EXCEPT ![entry] =
                        [s.blocks[entry] EXCEPT
                           !.phi = IF s.blocks[entry].phi = "first" THEN "late"
                                   ELSE s.blocks[entry].phi]]
           t == [s EXCEPT !.frames = frames, !.blocks = blocks]
<1>1. /\ s \in Emission /\ s.frames \in Seq(Subframe) /\ s.blocks \in Seq(Block)
      /\ n \in 1..n /\ Len(s.blocks) \in Nat /\ s.insert \in 1..Len(s.blocks)
      /\ s.frames[n] \in Subframe /\ n \in Nat
  BY DEF Sound, Emission
<1>2. /\ frames \in Seq(Subframe) /\ Len(frames) = n
      /\ \A k \in 1..n : /\ frames[k].kind = s.frames[k].kind
                         /\ frames[k].entry = s.frames[k].entry
                         /\ frames[k].merge = s.frames[k].merge
                         /\ frames[k].landingPad = s.frames[k].landingPad
  <2> DEFINE new == [s.frames[n] EXCEPT !.saved = TRUE]
  <2>1. /\ new \in Subframe /\ new.kind = s.frames[n].kind /\ new.entry = s.frames[n].entry
        /\ new.merge = s.frames[n].merge /\ new.landingPad = s.frames[n].landingPad
    BY <1>1 DEF Subframe
  <2> HIDE DEF new
  <2>2. frames = [s.frames EXCEPT ![n] = new]
    BY DEF new
  <2> HIDE DEF frames
  <2> QED BY <1>1, <2>1, <2>2
<1>3. /\ blocks \in Seq(Block) /\ Len(blocks) = Len(s.blocks)
      /\ \A b \in 1..Len(s.blocks) : blocks[b].name = s.blocks[b].name
  <2> DEFINE new == [s.blocks[entry] EXCEPT
                       !.phi = IF s.blocks[entry].phi = "first" THEN "late"
                               ELSE s.blocks[entry].phi]
  <2>1. entry \in 1..Len(s.blocks) => new \in Block /\ new.name = s.blocks[entry].name
    <3> SUFFICES ASSUME entry \in 1..Len(s.blocks)
                 PROVE  new \in Block /\ new.name = s.blocks[entry].name
      OBVIOUS
    <3>1. s.blocks[entry] \in Block
      BY <1>1
    <3> QED BY <3>1 DEF Block
  <2> HIDE DEF new
  <2>2. blocks = [s.blocks EXCEPT ![entry] = new]
    BY DEF new
  <2> HIDE DEF blocks, entry
  <2>3. CASE entry \in 1..Len(s.blocks)
    BY <1>1, <2>1, <2>2, <2>3
  <2>4. CASE entry \notin 1..Len(s.blocks)
    <3>1. blocks = s.blocks
      BY <1>1, <2>2, <2>4
    <3> QED BY <3>1, <1>1
  <2> QED BY <2>3, <2>4
<1>4. stacksave(s) = s \/ stacksave(s) = t
  BY DEF stacksave
<1> HIDE DEF frames, blocks
<1>5. /\ t \in Emission /\ t.frames = frames /\ t.blocks = blocks /\ t.insert = s.insert
  BY <1>1, <1>2, <1>3 DEF Emission
<1> HIDE DEF t
<1>6. Grows(s, t)
  <2>1. NamesApart(s) => NamesApart(t)
    BY <1>3, <1>5, SameNames
  <2> QED BY <2>1, <1>1, <1>2, <1>3, <1>5 DEF Grows, Sound, SameFrames
<1>7. Grows(s, s)
  BY DEF Grows, Sound, SameFrames, Emission
<1> QED BY <1>4, <1>6, <1>7

\* One comparison of a handler grows the state.
LEMMA CompareChoiceGrows ==
  ASSUME NEW s, Sound(s), NEW body \in Nat
  PROVE  Grows(s, CompareChoice(s, body))
<1> DEFINE r == Instruction(s)
           t == makeBasicBlock(r, "lpad")
           u == Terminator(t, {body, Newest(t)}, {})
<1>1. Grows(s, r) /\ Sound(r)
  BY InstructionGrows DEF Grows
<1> HIDE DEF r
<1>2. Grows(r, t) /\ Sound(t) /\ Newest(t) = Len(t.blocks)
  BY <1>1, NameFacts, makeBasicBlockGrows DEF Grows, Newest
<1>3. Len(t.blocks) \in Nat /\ Len(t.blocks) >= 1
  BY <1>2 DEF Sound, Emission
<1> HIDE DEF t
<1>4. Grows(t, u) /\ Sound(u) /\ Len(u.blocks) = Len(t.blocks)
  <2>1. {body, Newest(t)} \in SUBSET Nat /\ {} \in SUBSET Nat
    BY <1>2, <1>3
  <2> QED BY <2>1, <1>2, TerminatorGrows DEF Grows
<1> HIDE DEF u
<1>5. Grows(u, SetInsertPoint(u, Newest(t)))
  <2>1. Newest(t) \in 1..Len(u.blocks)
    BY <1>2, <1>3, <1>4
  <2> QED BY <2>1, <1>4, SetInsertPointGrows
<1>6. Grows(s, SetInsertPoint(u, Newest(t)))
  BY <1>1, <1>2, <1>4, <1>5, GrowsTransitive
<1> QED BY <1>6 DEF CompareChoice, r, t, u

\* What the comparisons with the choices so far have led to.
Compares(f, s, body, n) ==
  \A i \in 0..n : f[i] = IF i = 0 THEN s ELSE CompareChoice(f[i - 1], body)

\* The recursive function of Compare is well defined.
LEMMA CompareUnfolds ==
  ASSUME NEW s, NEW body, NEW choices \in Nat
  PROVE  \E f : Compares(f, s, body, choices) /\ Compare(s, body, choices) = f[choices]
<1> DEFINE compared[i \in 0..choices] ==
             IF i = 0 THEN s ELSE CompareChoice(compared[i - 1], body)
           C(f, n) == f = [i \in 0..n |-> IF i = 0 THEN s ELSE CompareChoice(f[i - 1], body)]
           S == {n \in Nat : \E f : C(f, n)}
<1>1. 0 \in S
  <2> DEFINE g == [i \in 0..0 |-> s]
  <2>1. g = [i \in 0..0 |-> IF i = 0 THEN s ELSE CompareChoice(g[i - 1], body)]
    OBVIOUS
  <2> QED BY <2>1
<1>2. ASSUME NEW n \in Nat, n \in S PROVE n + 1 \in S
  <2>1. PICK f : C(f, n)
    BY <1>2
  <2> DEFINE g == [i \in 0..(n + 1) |-> IF i = n + 1 THEN CompareChoice(f[n], body) ELSE f[i]]
  <2>2. \A i \in 0..n : g[i] = f[i] /\ i # n + 1 /\ i \in 0..(n + 1)
    OBVIOUS
  <2>3. \A i \in 0..n : f[i] = IF i = 0 THEN s ELSE CompareChoice(f[i - 1], body)
    BY <2>1, Zenon
  <2>4. ASSUME NEW i \in 0..(n + 1)
        PROVE  g[i] = IF i = 0 THEN s ELSE CompareChoice(g[i - 1], body)
    <3>1. CASE i = n + 1
      <4>1. g[i] = CompareChoice(f[n], body) /\ i # 0 /\ i - 1 = n /\ n \in 0..n
        BY <3>1
      <4> HIDE DEF g
      <4> QED BY <4>1, <2>2
    <3>2. CASE i # n + 1
      <4>1. i \in 0..n /\ (i # 0 => i - 1 \in 0..n)
        BY <3>2
      <4> HIDE DEF g
      <4> QED BY <4>1, <2>2, <2>3
    <3> QED BY <3>1, <3>2
  <2>5. C(g, n + 1)
    BY <2>4, Zenon
  <2>6. \E h : C(h, n + 1)
    BY <2>5, Zenon
  <2>7. n + 1 \in Nat
    OBVIOUS
  <2> QED BY <2>6, <2>7, Zenon
<1>3. \E f : C(f, choices)
  <2> HIDE DEF S
  <2>1. choices \in S
    BY <1>1, <1>2, SetInduction
  <2> QED BY <2>1 DEF S
<1>4. C(compared, choices)
  <2>1. C(CHOOSE f : C(f, choices), choices)
    BY <1>3, Zenon
  <2> QED BY <2>1, Zenon
<1>5. Compare(s, body, choices) = compared[choices]
  BY Zenon DEF Compare
<1> HIDE DEF compared
<1>6. Compares(compared, s, body, choices)
  BY <1>4, Zenon DEF Compares
<1> QED BY <1>5, <1>6

\* The comparisons of a handler grow the state, however many choices it has.
LEMMA CompareGrows ==
  ASSUME NEW s, Sound(s), NEW body \in Nat, NEW choices \in Nat
  PROVE  Grows(s, Compare(s, body, choices))
<1>1. PICK compared : /\ Compares(compared, s, body, choices)
                      /\ Compare(s, body, choices) = compared[choices]
  BY CompareUnfolds
<1>2. \A i \in 0..choices : compared[i] = IF i = 0 THEN s ELSE CompareChoice(compared[i - 1], body)
  BY <1>1 DEF Compares
<1> DEFINE T == {n \in Nat : n \in 0..choices => Grows(s, compared[n])}
<1>3. 0 \in T
  <2>1. Grows(s, s)
    BY DEF Grows, Sound, SameFrames, Emission
  <2> QED BY <2>1, <1>2
<1>4. ASSUME NEW n \in Nat, n \in T PROVE n + 1 \in T
  <2> SUFFICES ASSUME n + 1 \in 0..choices PROVE Grows(s, compared[n + 1])
    OBVIOUS
  <2>1. n \in 0..choices /\ n + 1 # 0 /\ (n + 1) - 1 = n
    OBVIOUS
  <2>2. Grows(s, compared[n]) /\ compared[n + 1] = CompareChoice(compared[n], body)
    BY <1>2, <1>4, <2>1
  <2>3. Grows(compared[n], compared[n + 1])
    BY <2>2, CompareChoiceGrows DEF Grows
  <2> QED BY <2>2, <2>3, GrowsTransitive
<1> HIDE DEF T
<1>5. choices \in T
  BY <1>3, <1>4, SetInduction
<1> QED BY <1>1, <1>5 DEF T
-----------------------------------------------------------------------------
\* The name of the entry block of the k-th subframe, by which exits find it.
Name(s, k) == s.blocks[s.frames[k].entry].name

\* Neither end of subframe f is one of these blocks.
Apart(f, a, b) == f.entry # a /\ f.entry # b /\ f.merge # a /\ f.merge # b

\* Subframe f is that of the statement n being emitted: a loop has a loop frame
\* with its own merge block, and a landing pad stands exactly while the
\* protected statements of a handled block are emitted.
Matches(n, f) ==
  /\ n.stmt \in Loops <=> f.kind = "Loop"
  /\ n.stmt \in Loops => f.merge = n.merge
  /\ f.landingPad = IF n.stmt = "block" THEN n.pad ELSE 0

\* The subframes above the one of the function are those of the statements
\* being emitted, in the same order: pos[i] is the subframe of the i-th
\* statement.  A handler runs in the subframe of its block and has none.
FramesFollow(s, nst, pos) ==
  /\ \A i \in 1..Len(nst) : nst[i].stmt # "handler" =>
       pos[i] \in 2..Len(s.frames) /\ Matches(nst[i], s.frames[pos[i]])
  /\ \A i, j \in 1..Len(nst) :
       i < j /\ nst[i].stmt # "handler" /\ nst[j].stmt # "handler" => pos[i] < pos[j]
  /\ \A k \in 2..Len(s.frames) : \E i \in 1..Len(nst) : nst[i].stmt # "handler" /\ pos[i] = k

\* The outermost subframe is the function's, its blocks have been made, and no
\* other subframe shares a block with that of a loop.
FramesSound(s) ==
  /\ Len(s.frames) > 0
  /\ s.frames[1].kind = "Entry" /\ s.frames[1].landingPad = 0
  /\ \A k \in 1..Len(s.frames) : /\ s.frames[k].entry \in 1..Len(s.blocks)
                                 /\ s.frames[k].merge \in 1..Len(s.blocks)
                                 /\ s.frames[k].landingPad \in 0..Len(s.blocks)
  /\ \A k, l \in 1..Len(s.frames) : k # l /\ s.frames[k].kind = "Loop" =>
       Apart(s.frames[k], s.frames[l].entry, s.frames[l].merge)

\* The blocks noted for a statement under way have been made; those of an if
\* statement are not those of a loop, as they become the ends of subframes later.
NestSound(s, nst) ==
  /\ nst \in Seq(Nested)
  /\ \A i \in 1..Len(nst) : /\ nst[i].merge \in 1..Len(s.blocks)
                            /\ nst[i].next \in 1..Len(s.blocks)
  /\ \A i \in 1..Len(nst), k \in 1..Len(s.frames) :
       nst[i].stmt = "if" /\ s.frames[k].kind = "Loop" =>
         Apart(s.frames[k], nst[i].next, nst[i].merge)

\* The emission state and the nest of statements agree.
Consistent(s, nst) ==
  /\ Sound(s) /\ NamesApart(s) /\ FramesSound(s) /\ NestSound(s, nst)
  /\ \E pos : FramesFollow(s, nst, pos)

\* Whatever only grows the state keeps it in agreement with the nest.
LEMMA ConsistentGrows ==
  ASSUME NEW s, NEW nst, Consistent(s, nst), NEW t, Grows(s, t)
  PROVE  Consistent(t, nst)
<1>1. /\ Len(s.blocks) \in Nat /\ Len(t.blocks) \in Nat /\ Len(s.blocks) =< Len(t.blocks)
      /\ Len(s.frames) \in Nat /\ Len(t.frames) = Len(s.frames)
  BY DEF Consistent, Sound, Emission, Grows, SameFrames
<1>2. \A b \in 1..Len(s.blocks) : b \in 1..Len(t.blocks) /\ t.blocks[b].name = s.blocks[b].name
  BY <1>1 DEF Grows
<1>3. \A k \in 1..Len(s.frames) :
        /\ t.frames[k].kind = s.frames[k].kind
        /\ t.frames[k].entry = s.frames[k].entry
        /\ t.frames[k].merge = s.frames[k].merge
        /\ t.frames[k].landingPad = s.frames[k].landingPad
  BY DEF Grows, SameFrames
<1>4. \A k \in 1..Len(s.frames) : \A a, b :
        Apart(s.frames[k], a, b) => Apart(t.frames[k], a, b)
  BY <1>3 DEF Apart
<1>5. Sound(t) /\ NamesApart(t)
  BY DEF Grows, Consistent
<1>6. FramesSound(t)
  <2>1. \A p \in 0..Len(s.blocks) : p \in 0..Len(t.blocks)
    BY <1>1
  <2>2. 1 \in 1..Len(s.frames)
    BY <1>1 DEF Consistent, FramesSound
  <2> QED BY <2>1, <2>2, <1>1, <1>2, <1>3, <1>4 DEF Consistent, FramesSound
<1>7. NestSound(t, nst)
  BY <1>1, <1>2, <1>3, <1>4 DEF Consistent, NestSound
<1>8. PICK pos : FramesFollow(s, nst, pos)
  BY DEF Consistent
<1>9. FramesFollow(t, nst, pos)
  <2>1. \A k \in 2..Len(s.frames) : k \in 1..Len(s.frames)
    BY <1>1
  <2>2. ASSUME NEW k \in 2..Len(s.frames), NEW n, Matches(n, s.frames[k])
        PROVE  Matches(n, t.frames[k])
    BY <2>1, <2>2, <1>3 DEF Matches
  <2> QED BY <2>2, <1>1, <1>8 DEF FramesFollow
<1> QED BY <1>5, <1>6, <1>7, <1>9 DEF Consistent

\* Agreement does not depend on which statement comes next in a sequence, nor
\* on the next block of a statement other than an if.
LEMMA ConsistentTouch ==
  ASSUME NEW s, NEW nst, Consistent(s, nst), NEW p \in Seq(Nested), Len(p) = Len(nst),
         \A i \in 1..Len(nst) :
           /\ p[i].stmt = nst[i].stmt /\ p[i].merge = nst[i].merge
           /\ p[i].tag = nst[i].tag /\ p[i].pad = nst[i].pad
           /\ p[i].next = nst[i].next \/ (p[i].stmt # "if" /\ p[i].next \in 1..Len(s.blocks))
  PROVE  Consistent(s, p)
<1>1. NestSound(s, p)
  BY DEF Consistent, NestSound
<1>2. PICK pos : FramesFollow(s, nst, pos)
  BY DEF Consistent
<1>3. FramesFollow(s, p, pos)
  <2>1. \A i \in 1..Len(nst) : \A f : Matches(nst[i], f) => Matches(p[i], f)
    BY DEF Matches
  <2> QED BY <2>1, <1>2 DEF FramesFollow
<1> QED BY <1>1, <1>3 DEF Consistent

\* Pushing a subframe and beginning its statement keep the agreement, provided
\* that a loop shares no block with another subframe or a branch to come.
LEMMA ConsistentPush ==
  ASSUME NEW s, NEW nst, Consistent(s, nst),
         NEW kind \in {"Block", "Loop"},
         NEW entry \in 1..Len(s.blocks), NEW merge \in 1..Len(s.blocks),
         \A k \in 1..Len(s.frames) :
           kind = "Loop" \/ s.frames[k].kind = "Loop" => Apart(s.frames[k], entry, merge),
         \A i \in 1..Len(nst) : kind = "Loop" /\ nst[i].stmt = "if" =>
           {entry, merge} \cap {nst[i].next, nst[i].merge} = {},
         NEW n \in Nested, n.stmt # "handler",
         n.merge \in 1..Len(s.blocks), n.next \in 1..Len(s.blocks),
         n.stmt = "if" => \A k \in 1..Len(s.frames) :
           s.frames[k].kind = "Loop" => Apart(s.frames[k], n.next, n.merge),
         n.stmt \in Loops <=> kind = "Loop",
         n.stmt \in Loops => merge = n.merge,
         n.stmt = "block" => n.pad = 0
  PROVE  LET t == PushSubframe(s, kind, entry, merge)
         IN  Consistent(t, Append(nst, n)) /\ t.blocks = s.blocks /\ t.insert = s.insert
             /\ Len(t.frames) = Len(s.frames) + 1
             /\ t.frames[Len(t.frames)] = [kind |-> kind, entry |-> entry, merge |-> merge,
                                           saved |-> FALSE, landingPad |-> 0]
<1> DEFINE t == PushSubframe(s, kind, entry, merge)
           f == [kind |-> kind, entry |-> entry, merge |-> merge, saved |-> FALSE, landingPad |-> 0]
           m == Len(s.frames)
           p == Append(nst, n)
           l == Len(nst)
<1>1. /\ s \in Emission /\ s.insert \in 1..Len(s.blocks) /\ s.frames \in Seq(Subframe)
      /\ m \in Nat /\ m > 0 /\ Len(s.blocks) \in Nat /\ entry \in Nat /\ merge \in Nat
      /\ nst \in Seq(Nested) /\ l \in Nat
  BY DEF Consistent, Sound, Emission, FramesSound, NestSound
<1>2. /\ f \in Subframe /\ f.kind = kind /\ f.entry = entry /\ f.merge = merge /\ f.landingPad = 0
  BY <1>1 DEF Subframe
<1>3. t = [s EXCEPT !.frames = Append(s.frames, f)]
  BY DEF PushSubframe
<1> HIDE DEF t, f
<1>4. t \in Emission /\ t.blocks = s.blocks /\ t.insert = s.insert /\ t.frames = Append(s.frames, f)
  <2> DEFINE frames == Append(s.frames, f)
  <2>1. frames \in Seq(Subframe)
    BY <1>1, <1>2
  <2> HIDE DEF frames
  <2>2. t = [s EXCEPT !.frames = frames]
    BY <1>3 DEF frames
  <2>3. t \in Emission /\ t.blocks = s.blocks /\ t.insert = s.insert /\ t.frames = frames
    BY <1>1, <2>1, <2>2 DEF Emission
  <2> QED BY <2>3 DEF frames
<1>5. /\ Len(t.frames) = m + 1 /\ t.frames[m + 1] = f
      /\ \A k \in 1..m : t.frames[k] = s.frames[k]
  BY <1>1, <1>2, <1>4
<1>6. Sound(t) /\ NamesApart(t)
  BY <1>1, <1>4, SameNames DEF Sound, Consistent
<1>7. \A k \in 1..m : /\ kind = "Loop" \/ s.frames[k].kind = "Loop" => Apart(s.frames[k], entry, merge)
                      /\ kind = "Loop" => Apart(f, s.frames[k].entry, s.frames[k].merge)
  BY <1>2 DEF Apart
<1>8. \A k \in 1..(m + 1) : k = m + 1 \/ k \in 1..m
  BY <1>1
<1> HIDE DEF m, l, p
<1>9. FramesSound(t)
  <2>1. /\ s.frames[1].kind = "Entry" /\ s.frames[1].landingPad = 0
        /\ \A k \in 1..m : /\ s.frames[k].entry \in 1..Len(s.blocks)
                           /\ s.frames[k].merge \in 1..Len(s.blocks)
                           /\ s.frames[k].landingPad \in 0..Len(s.blocks)
        /\ \A j, k \in 1..m : j # k /\ s.frames[j].kind = "Loop" =>
             Apart(s.frames[j], s.frames[k].entry, s.frames[k].merge)
    BY DEF Consistent, FramesSound, m
  <2>2. 1 \in 1..m /\ m + 1 > 0 /\ 0 \in 0..Len(s.blocks)
    BY <1>1
  <2>3. \A j, k \in 1..(m + 1) : j # k /\ t.frames[j].kind = "Loop" =>
          Apart(t.frames[j], t.frames[k].entry, t.frames[k].merge)
    BY <2>1, <1>2, <1>5, <1>7, <1>8
  <2>4. \A k \in 1..(m + 1) : /\ t.frames[k].entry \in 1..Len(t.blocks)
                              /\ t.frames[k].merge \in 1..Len(t.blocks)
                              /\ t.frames[k].landingPad \in 0..Len(t.blocks)
    BY <2>1, <2>2, <1>2, <1>4, <1>5, <1>8
  <2> QED BY <2>1, <2>2, <2>3, <2>4, <1>5 DEF FramesSound
<1>10. p \in Seq(Nested) /\ Len(p) = l + 1 /\ p[l + 1] = n /\ \A i \in 1..l : p[i] = nst[i]
  BY <1>1 DEF p, l
<1>11. \A i \in 1..(l + 1) : i = l + 1 \/ i \in 1..l
  BY <1>1
<1>12. NestSound(t, p)
  <2>1. /\ \A i \in 1..l : /\ nst[i].merge \in 1..Len(s.blocks)
                           /\ nst[i].next \in 1..Len(s.blocks)
        /\ \A i \in 1..l, k \in 1..m : nst[i].stmt = "if" /\ s.frames[k].kind = "Loop" =>
             Apart(s.frames[k], nst[i].next, nst[i].merge)
    BY DEF Consistent, NestSound, l, m
  <2>2. \A i \in 1..l : nst[i].stmt = "if" /\ f.kind = "Loop" => Apart(f, nst[i].next, nst[i].merge)
    BY <1>2 DEF Apart, l
  <2>3. n.stmt = "if" => /\ f.kind # "Loop"
                         /\ \A k \in 1..m : s.frames[k].kind = "Loop" =>
                              Apart(s.frames[k], n.next, n.merge)
    BY <1>2 DEF Loops, m
  <2>4. \A i \in 1..(l + 1), k \in 1..(m + 1) : p[i].stmt = "if" /\ t.frames[k].kind = "Loop" =>
          Apart(t.frames[k], p[i].next, p[i].merge)
    BY <2>1, <2>2, <2>3, <1>5, <1>8, <1>10, <1>11
  <2>5. \A i \in 1..(l + 1) : p[i].merge \in 1..Len(t.blocks) /\ p[i].next \in 1..Len(t.blocks)
    BY <2>1, <1>4, <1>10, <1>11
  <2> QED BY <2>4, <2>5, <1>5, <1>10 DEF NestSound
<1>13. PICK pos : FramesFollow(s, nst, pos)
  BY DEF Consistent
<1> DEFINE q == [i \in 1..(l + 1) |-> IF i = l + 1 THEN m + 1 ELSE pos[i]]
<1>14. q[l + 1] = m + 1 /\ \A i \in 1..l : q[i] = pos[i] /\ i < l + 1 /\ i \in 1..(l + 1)
  BY <1>1
<1> HIDE DEF q
<1>15. FramesFollow(t, p, q)
  <2>1. /\ \A i \in 1..l : nst[i].stmt # "handler" =>
             pos[i] \in 2..m /\ Matches(nst[i], s.frames[pos[i]])
        /\ \A i, j \in 1..l :
             i < j /\ nst[i].stmt # "handler" /\ nst[j].stmt # "handler" => pos[i] < pos[j]
        /\ \A k \in 2..m : \E i \in 1..l : nst[i].stmt # "handler" /\ pos[i] = k
    BY <1>13 DEF FramesFollow, m, l
  <2>2. \A k \in 2..m : k \in 1..m /\ k \in 2..(m + 1) /\ k < m + 1
    BY <1>1
  <2>3. ASSUME NEW i \in 1..(l + 1), p[i].stmt # "handler"
        PROVE  q[i] \in 2..(m + 1) /\ Matches(p[i], t.frames[q[i]])
    <3>1. CASE i = l + 1
      <4>1. m + 1 \in 2..(m + 1)
        BY <1>1
      <4>2. Matches(n, f)
        BY <1>2, <1>4 DEF Matches
      <4> QED BY <3>1, <4>1, <4>2, <1>5, <1>10, <1>14
    <3>2. CASE i \in 1..l
      <4>1. pos[i] \in 2..m /\ Matches(nst[i], s.frames[pos[i]])
        BY <2>1, <2>3, <3>2, <1>10
      <4>2. Matches(nst[i], t.frames[pos[i]])
        BY <4>1, <2>2, <1>4, <1>5 DEF Matches
      <4> QED BY <3>2, <4>1, <4>2, <2>2, <1>10, <1>14
    <3> QED BY <3>1, <3>2, <1>11
  <2>4. ASSUME NEW i \in 1..(l + 1), NEW j \in 1..(l + 1), i < j,
               p[i].stmt # "handler", p[j].stmt # "handler"
        PROVE  q[i] < q[j]
    <3>1. i \in 1..l
      BY <2>4, <1>1
    <3>2. CASE j = l + 1
      BY <2>1, <2>2, <2>4, <3>1, <3>2, <1>10, <1>14
    <3>3. CASE j \in 1..l
      BY <2>1, <2>4, <3>1, <3>3, <1>10, <1>14
    <3> QED BY <3>2, <3>3, <1>11
  <2>5. ASSUME NEW k \in 2..(m + 1)
        PROVE  \E i \in 1..(l + 1) : p[i].stmt # "handler" /\ q[i] = k
    <3>1. CASE k = m + 1
      <4>1. l + 1 \in 1..(l + 1)
        BY <1>1
      <4> QED BY <3>1, <4>1, <1>10, <1>14
    <3>2. CASE k \in 2..m
      <4>1. PICK i \in 1..l : nst[i].stmt # "handler" /\ pos[i] = k
        BY <2>1, <3>2
      <4> QED BY <4>1, <1>10, <1>14
    <3> QED BY <3>1, <3>2, <1>1
  <2> QED BY <2>3, <2>4, <2>5, <1>5, <1>10 DEF FramesFollow
<1>16. Consistent(t, p)
  BY <1>6, <1>9, <1>12, <1>15 DEF Consistent
<1> QED BY <1>4, <1>5, <1>16 DEF t, p, f, m

\* The innermost subframe belongs to the innermost statement, unless that is a
\* handler.
LEMMA TopFrame ==
  ASSUME NEW s, NEW nst, Consistent(s, nst), Len(nst) > 0, nst[Len(nst)].stmt # "handler",
         NEW pos, FramesFollow(s, nst, pos)
  PROVE  /\ pos[Len(nst)] = Len(s.frames) /\ Len(s.frames) \in Nat /\ Len(s.frames) > 1
         /\ Matches(nst[Len(nst)], s.frames[Len(s.frames)])
         /\ \A i \in 1..(Len(nst) - 1) : nst[i].stmt # "handler" => pos[i] < Len(s.frames)
<1> DEFINE l == Len(nst)
           m == Len(s.frames)
<1>1. l \in Nat /\ l > 0 /\ m \in Nat /\ m > 0 /\ l \in 1..l
  BY DEF Consistent, NestSound, FramesSound, Sound, Emission
<1>2. pos[l] \in 2..m /\ Matches(nst[l], s.frames[pos[l]])
  BY <1>1 DEF FramesFollow
<1>3. m \in 2..m
  BY <1>1, <1>2
<1>4. PICK i \in 1..l : nst[i].stmt # "handler" /\ pos[i] = m
  BY <1>3 DEF FramesFollow
<1>5. i = l
  <2>1. ~(i < l)
    <3>1. i < l => pos[i] < pos[l]
      BY <1>1, <1>4 DEF FramesFollow
    <3> QED BY <3>1, <1>1, <1>2, <1>4
  <2> QED BY <2>1, <1>1
<1>6. \A j \in 1..(l - 1) : j \in 1..l /\ j < l
  BY <1>1
<1>7. \A j \in 1..(l - 1) : nst[j].stmt # "handler" => pos[j] < m
  BY <1>1, <1>4, <1>5, <1>6 DEF FramesFollow
<1> QED BY <1>1, <1>2, <1>3, <1>4, <1>5, <1>7

\* Popping a subframe and ending its statement keep the agreement.
LEMMA ConsistentPop ==
  ASSUME NEW s, NEW nst, Consistent(s, nst), Len(nst) > 0, nst[Len(nst)].stmt # "handler",
         NEW t, Sound(t), NamesApart(t), t.frames = Front(s.frames), Len(s.blocks) =< Len(t.blocks)
  PROVE  Consistent(t, Front(nst))
<1> DEFINE l == Len(nst)
           m == Len(s.frames)
           p == Front(nst)
<1>1. /\ l \in Nat /\ l > 0 /\ m \in Nat /\ nst \in Seq(Nested) /\ s.frames \in Seq(Subframe)
      /\ Len(s.blocks) \in Nat /\ Len(t.blocks) \in Nat
  BY DEF Consistent, NestSound, Sound, Emission
<1>2. PICK pos : FramesFollow(s, nst, pos)
  BY DEF Consistent
<1>3. /\ pos[l] = m /\ m > 1
      /\ \A i \in 1..(l - 1) : nst[i].stmt # "handler" => pos[i] < m
  BY <1>1, <1>2, TopFrame
<1>4. /\ p \in Seq(Nested) /\ Len(p) = l - 1 /\ \A i \in 1..(l - 1) : p[i] = nst[i]
  BY <1>1, FrontFacts
<1>5. /\ Len(t.frames) = m - 1 /\ \A k \in 1..(m - 1) : t.frames[k] = s.frames[k]
  BY <1>1, <1>3, FrontFacts
<1>6. \A b \in 1..Len(s.blocks) : b \in 1..Len(t.blocks)
  BY <1>1
<1> HIDE DEF l, m, p
<1>7. \A k \in 1..(m - 1) : k \in 1..m
  BY <1>1
<1>8. /\ s.frames[1].kind = "Entry" /\ s.frames[1].landingPad = 0
      /\ \A k \in 1..m : /\ s.frames[k].entry \in 1..Len(s.blocks)
                         /\ s.frames[k].merge \in 1..Len(s.blocks)
                         /\ s.frames[k].landingPad \in 0..Len(s.blocks)
      /\ \A j, k \in 1..m : j # k /\ s.frames[j].kind = "Loop" =>
           Apart(s.frames[j], s.frames[k].entry, s.frames[k].merge)
  BY DEF Consistent, FramesSound, m
<1>10. FramesSound(t)
  <2>1. 1 \in 1..(m - 1) /\ m - 1 > 0
    BY <1>1, <1>3
  <2>2. \A b \in 0..Len(s.blocks) : b \in 0..Len(t.blocks)
    BY <1>1
  <2>3. \A k \in 1..(m - 1) : /\ t.frames[k].entry \in 1..Len(t.blocks)
                              /\ t.frames[k].merge \in 1..Len(t.blocks)
                              /\ t.frames[k].landingPad \in 0..Len(t.blocks)
    BY <2>2, <1>5, <1>6, <1>7, <1>8
  <2>4. \A j, k \in 1..(m - 1) : j # k /\ t.frames[j].kind = "Loop" =>
          Apart(t.frames[j], t.frames[k].entry, t.frames[k].merge)
    BY <1>5, <1>7, <1>8
  <2> QED BY <2>1, <2>3, <2>4, <1>5, <1>8 DEF FramesSound
<1>11. \A i \in 1..(l - 1) : i \in 1..l
  BY <1>1
<1>12. NestSound(t, p)
  <2>1. /\ \A i \in 1..l : /\ nst[i].merge \in 1..Len(s.blocks)
                           /\ nst[i].next \in 1..Len(s.blocks)
        /\ \A i \in 1..l, k \in 1..m : nst[i].stmt = "if" /\ s.frames[k].kind = "Loop" =>
             Apart(s.frames[k], nst[i].next, nst[i].merge)
    BY DEF Consistent, NestSound, l, m
  <2>2. \A i \in 1..(l - 1) : p[i].merge \in 1..Len(t.blocks) /\ p[i].next \in 1..Len(t.blocks)
    BY <2>1, <1>4, <1>6, <1>11
  <2>3. \A i \in 1..(l - 1), k \in 1..(m - 1) : p[i].stmt = "if" /\ t.frames[k].kind = "Loop" =>
          Apart(t.frames[k], p[i].next, p[i].merge)
    BY <2>1, <1>4, <1>5, <1>7, <1>11
  <2> QED BY <2>2, <2>3, <1>4, <1>5 DEF NestSound
<1>13. FramesFollow(t, p, pos)
  <2>1. /\ \A i \in 1..l : nst[i].stmt # "handler" =>
             pos[i] \in 2..m /\ Matches(nst[i], s.frames[pos[i]])
        /\ \A i, j \in 1..l :
             i < j /\ nst[i].stmt # "handler" /\ nst[j].stmt # "handler" => pos[i] < pos[j]
        /\ \A k \in 2..m : \E i \in 1..l : nst[i].stmt # "handler" /\ pos[i] = k
    BY <1>2 DEF FramesFollow, m, l
  <2>2. ASSUME NEW i \in 1..(l - 1), nst[i].stmt # "handler"
        PROVE  pos[i] \in 2..(m - 1) /\ Matches(nst[i], t.frames[pos[i]])
    <3>1. pos[i] \in 2..m /\ pos[i] < m /\ Matches(nst[i], s.frames[pos[i]])
      BY <2>1, <2>2, <1>3, <1>11
    <3>2. pos[i] \in 1..(m - 1) /\ pos[i] \in 2..(m - 1)
      BY <3>1, <1>1
    <3>3. Matches(nst[i], t.frames[pos[i]])
      BY <3>1, <3>2, <1>5
    <3> QED BY <3>2, <3>3
  <2>3. ASSUME NEW k \in 2..(m - 1)
        PROVE  \E i \in 1..(l - 1) : nst[i].stmt # "handler" /\ pos[i] = k
    <3>1. k \in 2..m /\ k # m
      BY <1>1
    <3>2. PICK i \in 1..l : nst[i].stmt # "handler" /\ pos[i] = k
      BY <2>1, <3>1
    <3>3. i # l
      BY <3>1, <3>2, <1>3
    <3>4. i \in 1..(l - 1)
      BY <3>3, <1>1
    <3> QED BY <3>2, <3>4
  <2>4. /\ \A i \in 1..Len(p) : p[i].stmt # "handler" =>
             pos[i] \in 2..Len(t.frames) /\ Matches(p[i], t.frames[pos[i]])
        /\ \A k \in 2..Len(t.frames) : \E i \in 1..Len(p) : p[i].stmt # "handler" /\ pos[i] = k
    BY <2>2, <2>3, <1>4, <1>5
  <2>5. \A i, j \in 1..Len(p) :
             i < j /\ p[i].stmt # "handler" /\ p[j].stmt # "handler" => pos[i] < pos[j]
    BY <2>1, <1>4, <1>11
  <2> QED BY <2>4, <2>5 DEF FramesFollow
<1> QED BY <1>10, <1>12, <1>13 DEF Consistent, p

\* Setting or removing the landing pad of the innermost subframe agrees with
\* entering a handled block or its handlers.
LEMMA ConsistentPad ==
  ASSUME NEW s, NEW nst, Consistent(s, nst), Len(nst) > 0, nst[Len(nst)].stmt = "block",
         NEW pad \in 0..Len(s.blocks), NEW n \in Nested,
         (n.stmt = "block" /\ n.pad = pad) \/ (n.stmt = "handlers" /\ pad = 0),
         n.merge \in 1..Len(s.blocks), n.next \in 1..Len(s.blocks)
  PROVE  /\ Consistent([s EXCEPT !.frames[Len(s.frames)].landingPad = pad],
                       [nst EXCEPT ![Len(nst)] = n])
         /\ [s EXCEPT !.frames[Len(s.frames)].landingPad = pad].blocks = s.blocks
<1> DEFINE l == Len(nst)
           m == Len(s.frames)
           f == [s.frames[m] EXCEPT !.landingPad = pad]
           frames == [s.frames EXCEPT ![m] = f]
           t == [s EXCEPT !.frames = frames]
           p == [nst EXCEPT ![l] = n]
<1>1. /\ s \in Emission /\ s.insert \in 1..Len(s.blocks) /\ s.blocks \in Seq(Block)
      /\ l \in Nat /\ l > 0 /\ m \in Nat /\ m > 0 /\ nst \in Seq(Nested) /\ s.frames \in Seq(Subframe)
      /\ Len(s.blocks) \in Nat /\ m \in 1..m /\ l \in 1..l /\ s.frames[m] \in Subframe
  BY DEF Consistent, NestSound, FramesSound, Sound, Emission
<1>2. PICK pos : FramesFollow(s, nst, pos)
  BY DEF Consistent
<1>3. /\ pos[l] = m /\ m > 1 /\ Matches(nst[l], s.frames[m])
      /\ \A i \in 1..(l - 1) : nst[i].stmt # "handler" => pos[i] < m
  BY <1>1, <1>2, TopFrame
<1>4. /\ f \in Subframe /\ f.kind = s.frames[m].kind /\ f.entry = s.frames[m].entry
      /\ f.merge = s.frames[m].merge /\ f.landingPad = pad
  <2>1. pad \in Nat
    BY <1>1
  <2> QED BY <2>1, <1>1 DEF Subframe
<1>5. t = [s EXCEPT !.frames[Len(s.frames)].landingPad = pad]
  OBVIOUS
<1> HIDE DEF f
<1>6. /\ frames \in Seq(Subframe) /\ Len(frames) = m /\ frames[m] = f
      /\ \A k \in 1..m : k # m => frames[k] = s.frames[k]
  BY <1>1, <1>4
<1> HIDE DEF frames
<1>7. t \in Emission /\ t.blocks = s.blocks /\ t.insert = s.insert /\ t.frames = frames
  BY <1>1, <1>6 DEF Emission
<1>8. /\ p \in Seq(Nested) /\ Len(p) = l /\ p[l] = n /\ \A i \in 1..l : i # l => p[i] = nst[i]
  BY <1>1
<1> HIDE DEF t, l, m, p
<1>9. Sound(t) /\ NamesApart(t)
  BY <1>1, <1>7, SameNames DEF Sound, Consistent
<1>10. \A k \in 1..m : /\ t.frames[k].kind = s.frames[k].kind
                       /\ t.frames[k].entry = s.frames[k].entry
                       /\ t.frames[k].merge = s.frames[k].merge
                       /\ \A a, b : Apart(s.frames[k], a, b) => Apart(t.frames[k], a, b)
  BY <1>4, <1>6, <1>7 DEF Apart
<1>11. FramesSound(t)
  <2>1. 1 \in 1..m /\ 1 # m
    BY <1>1, <1>3
  <2>2. /\ Len(s.frames) > 0
        /\ s.frames[1].kind = "Entry" /\ s.frames[1].landingPad = 0
        /\ \A k \in 1..m : /\ s.frames[k].entry \in 1..Len(s.blocks)
                           /\ s.frames[k].merge \in 1..Len(s.blocks)
                           /\ s.frames[k].landingPad \in 0..Len(s.blocks)
        /\ \A k, j \in 1..m : k # j /\ s.frames[k].kind = "Loop" =>
             Apart(s.frames[k], s.frames[j].entry, s.frames[j].merge)
    BY DEF Consistent, FramesSound, m
  <2>3. \A k \in 1..m : /\ t.frames[k].entry \in 1..Len(t.blocks)
                        /\ t.frames[k].merge \in 1..Len(t.blocks)
                        /\ t.frames[k].landingPad \in 0..Len(t.blocks)
    BY <2>2, <1>4, <1>6, <1>7
  <2>4. t.frames[1].kind = "Entry" /\ t.frames[1].landingPad = 0
    BY <2>1, <2>2, <1>6, <1>7
  <2>5. Len(t.frames) = m /\ m > 0
    BY <1>1, <1>6, <1>7
  <2>6. \A k, j \in 1..m : k # j /\ t.frames[k].kind = "Loop" =>
          Apart(t.frames[k], t.frames[j].entry, t.frames[j].merge)
    BY <2>2, <1>10
  <2> QED BY <2>3, <2>4, <2>5, <2>6 DEF FramesSound
<1>12. NestSound(t, p)
  <2>1. /\ \A i \in 1..l : /\ nst[i].merge \in 1..Len(s.blocks)
                           /\ nst[i].next \in 1..Len(s.blocks)
        /\ \A i \in 1..l, k \in 1..m : nst[i].stmt = "if" /\ s.frames[k].kind = "Loop" =>
             Apart(s.frames[k], nst[i].next, nst[i].merge)
    BY DEF Consistent, NestSound, l, m
  <2>2. n.stmt # "if"
    OBVIOUS
  <2>3. \A i \in 1..l, k \in 1..m : p[i].stmt = "if" /\ t.frames[k].kind = "Loop" =>
          Apart(t.frames[k], p[i].next, p[i].merge)
    <3> SUFFICES ASSUME NEW i \in 1..l, NEW k \in 1..m, p[i].stmt = "if", t.frames[k].kind = "Loop"
                 PROVE  Apart(t.frames[k], p[i].next, p[i].merge)
      OBVIOUS
    <3>1. i # l /\ p[i] = nst[i]
      BY <2>2, <1>8
    <3>2. s.frames[k].kind = "Loop"
      BY <1>10
    <3>3. Apart(s.frames[k], nst[i].next, nst[i].merge)
      BY <2>1, <3>1, <3>2
    <3>4. Apart(t.frames[k], nst[i].next, nst[i].merge)
      BY <3>3, <1>10
    <3> QED BY <3>1, <3>4
  <2>4. \A i \in 1..l : p[i].merge \in 1..Len(t.blocks) /\ p[i].next \in 1..Len(t.blocks)
    BY <2>1, <1>7, <1>8
  <2>5. Len(t.frames) = m
    BY <1>6, <1>7
  <2> QED BY <2>3, <2>4, <2>5, <1>8 DEF NestSound
<1>13. FramesFollow(t, p, pos)
  <2>1. /\ \A i \in 1..l : nst[i].stmt # "handler" =>
             pos[i] \in 2..m /\ Matches(nst[i], s.frames[pos[i]])
        /\ \A i, j \in 1..l :
             i < j /\ nst[i].stmt # "handler" /\ nst[j].stmt # "handler" => pos[i] < pos[j]
        /\ \A k \in 2..m : \E i \in 1..l : nst[i].stmt # "handler" /\ pos[i] = k
    BY <1>2 DEF FramesFollow, m, l
  <2>2. \A i \in 1..l : p[i].stmt # "handler" <=> nst[i].stmt # "handler"
    <3>1. n.stmt # "handler" /\ nst[l].stmt # "handler"
      BY DEF l
    <3> QED BY <3>1, <1>8
  <2>3. ASSUME NEW i \in 1..l, nst[i].stmt # "handler"
        PROVE  Matches(p[i], t.frames[pos[i]])
    <3>1. CASE i = l
      <4>1. n.stmt \notin Loops /\ f.kind # "Loop"
        <5>1. nst[l].stmt \notin Loops
          BY DEF Loops, l
        <5> QED BY <5>1, <1>3, <1>4 DEF Matches, Loops
      <4>2. Matches(n, f)
        BY <4>1, <1>4 DEF Matches
      <4> QED BY <3>1, <4>2, <1>3, <1>6, <1>7, <1>8
    <3>2. CASE i # l
      <4>1. pos[i] \in 2..m /\ pos[i] # m /\ Matches(nst[i], s.frames[pos[i]])
        <5>1. i \in 1..(l - 1)
          BY <3>2, <1>1
        <5> QED BY <5>1, <2>1, <2>3, <1>3
      <4>2. pos[i] \in 1..m
        BY <4>1, <1>1
      <4>3. t.frames[pos[i]] = s.frames[pos[i]]
        BY <4>1, <4>2, <1>6, <1>7
      <4> QED BY <3>2, <4>1, <4>3, <1>8
    <3> QED BY <3>1, <3>2
  <2> QED BY <2>1, <2>2, <2>3, <1>6, <1>7, <1>8 DEF FramesFollow
<1>14. Consistent(t, p)
  BY <1>9, <1>11, <1>12, <1>13 DEF Consistent
<1> QED BY <1>5, <1>7, <1>14 DEF p, l, m

\* Beginning a handler needs no subframe.
LEMMA ConsistentHandler ==
  ASSUME NEW s, NEW nst, Consistent(s, nst), NEW n \in Nested, n.stmt = "handler",
         n.merge \in 1..Len(s.blocks), n.next \in 1..Len(s.blocks)
  PROVE  Consistent(s, Append(nst, n))
<1> DEFINE l == Len(nst)
           p == Append(nst, n)
<1>1. nst \in Seq(Nested) /\ l \in Nat
  BY DEF Consistent, NestSound
<1>2. p \in Seq(Nested) /\ Len(p) = l + 1 /\ p[l + 1] = n /\ \A i \in 1..l : p[i] = nst[i]
  BY <1>1
<1> HIDE DEF p, l
<1>3. /\ \A i \in 1..(l + 1) : i = l + 1 \/ i \in 1..l
      /\ \A i \in 1..l : i \in 1..(l + 1)
  BY <1>1
<1>4. NestSound(s, p)
  <2>1. n.stmt # "if"
    OBVIOUS
  <2> QED BY <2>1, <1>2, <1>3 DEF Consistent, NestSound, l
<1>5. PICK pos : FramesFollow(s, nst, pos)
  BY DEF Consistent
<1>6. FramesFollow(s, p, pos)
  BY <1>2, <1>3, <1>5 DEF FramesFollow, l
<1> QED BY <1>4, <1>6 DEF Consistent, p

\* Ending a handler needs none either.
LEMMA ConsistentEndHandler ==
  ASSUME NEW s, NEW nst, Consistent(s, nst), Len(nst) > 0, nst[Len(nst)].stmt = "handler"
  PROVE  Consistent(s, Front(nst))
<1> DEFINE l == Len(nst)
           p == Front(nst)
<1>1. nst \in Seq(Nested) /\ l \in Nat /\ l > 0
  BY DEF Consistent, NestSound
<1>2. p \in Seq(Nested) /\ Len(p) = l - 1 /\ \A i \in 1..(l - 1) : p[i] = nst[i]
  BY <1>1, FrontFacts
<1> HIDE DEF p, l
<1>3. /\ \A i \in 1..l : i = l \/ i \in 1..(l - 1)
      /\ \A i \in 1..(l - 1) : i \in 1..l
  BY <1>1
<1>4. NestSound(s, p)
  BY <1>2, <1>3 DEF Consistent, NestSound, l
<1>5. PICK pos : FramesFollow(s, nst, pos)
  BY DEF Consistent
<1>6. FramesFollow(s, p, pos)
  BY <1>2, <1>3, <1>5 DEF FramesFollow, l
<1> QED BY <1>4, <1>6 DEF Consistent, p

\* In a handled block whose statements are being emitted, getLandingPad finds
\* the landing pad of that block.
LEMMA TopPad ==
  ASSUME NEW s, NEW nst, Consistent(s, nst), Len(nst) > 0,
         nst[Len(nst)].stmt = "block", nst[Len(nst)].pad # 0
  PROVE  /\ WithPad(s) # {} /\ Innermost(WithPad(s)) = Len(s.frames)
         /\ getLandingPad(s) = nst[Len(nst)].pad /\ getLandingPad(s) \in 1..Len(s.blocks)
<1> DEFINE m == Len(s.frames)
<1>1. PICK pos : FramesFollow(s, nst, pos)
  BY DEF Consistent
<1>2. m \in Nat /\ m > 1 /\ Matches(nst[Len(nst)], s.frames[m])
  BY <1>1, TopFrame
<1>3. s.frames[m].landingPad = nst[Len(nst)].pad /\ m \in 1..m
  BY <1>2 DEF Matches
<1>4. Sound(s) /\ s.frames[m].landingPad \in 0..Len(s.blocks)
  BY <1>3 DEF Consistent, FramesSound
<1>5. /\ WithPad(s) = {k \in 1..m : s.frames[k].landingPad # 0}
      /\ WithPad(s) # {} => /\ Innermost(WithPad(s)) \in WithPad(s)
                            /\ \A j \in WithPad(s) : j =< Innermost(WithPad(s))
  BY <1>4, PadFacts
<1>6. m \in WithPad(s)
  BY <1>3, <1>5
<1>7. Innermost(WithPad(s)) \in 1..m /\ m =< Innermost(WithPad(s))
  BY <1>5, <1>6
<1>8. Innermost(WithPad(s)) = m
  BY <1>2, <1>7
<1>9. getLandingPad(s) = s.frames[m].landingPad
  BY <1>6, <1>8 DEF getLandingPad
<1> QED BY <1>3, <1>4, <1>6, <1>8, <1>9

\* Where state and nest agree, the landing pad found is the lexical one.
LEMMA PadsAreLexical ==
  ASSUME Consistent(ir, nest)
  PROVE  getLandingPad(ir) = LexicalPad
<1> DEFINE P == {i \in 1..Len(nest) : nest[i].stmt = "block" /\ nest[i].pad # 0}
           W == WithPad(ir)
           l == Len(nest)
           m == Len(ir.frames)
<1>1. nest \in Seq(Nested) /\ l \in Nat /\ Sound(ir) /\ m \in Nat /\ DOMAIN nest = 1..l
  BY DEF Consistent, NestSound, Sound, Emission
<1>2. PICK pos : FramesFollow(ir, nest, pos)
  BY DEF Consistent
<1>3. LexicalPad = IF P = {} THEN 0 ELSE nest[Innermost(P)].pad
  BY <1>1 DEF LexicalPad
<1>4. /\ W = {k \in 1..m : ir.frames[k].landingPad # 0}
      /\ W # {} => Innermost(W) \in W /\ \A j \in W : j =< Innermost(W)
  BY <1>1, PadFacts
<1>5. P # {} => Innermost(P) \in P /\ \A j \in P : j =< Innermost(P)
  <2>1. P \in SUBSET (1..l)
    OBVIOUS
  <2> QED BY <2>1, <1>1, InnermostFacts
<1>6. ASSUME NEW i \in P
      PROVE  /\ i \in 1..l /\ nest[i].stmt # "handler" /\ pos[i] \in W
             /\ ir.frames[pos[i]].landingPad = nest[i].pad
  <2>1. i \in 1..l /\ nest[i].stmt = "block" /\ nest[i].pad # 0 /\ nest[i].stmt # "handler"
    OBVIOUS
  <2>2. pos[i] \in 2..m /\ Matches(nest[i], ir.frames[pos[i]])
    BY <2>1, <1>2 DEF FramesFollow
  <2>3. pos[i] \in 1..m /\ ir.frames[pos[i]].landingPad = nest[i].pad
    BY <2>1, <2>2, <1>1 DEF Matches
  <2> QED BY <2>1, <2>3, <1>4
<1>7. ASSUME NEW k \in W
      PROVE  \E i \in P : pos[i] = k
  <2>1. k \in 1..m /\ ir.frames[k].landingPad # 0
    BY <1>4
  <2>2. k # 1
    BY <2>1 DEF Consistent, FramesSound
  <2>3. k \in 2..m
    BY <2>1, <2>2, <1>1
  <2>4. PICK i \in 1..l : nest[i].stmt # "handler" /\ pos[i] = k
    BY <2>3, <1>2 DEF FramesFollow
  <2>5. Matches(nest[i], ir.frames[k])
    BY <2>4, <1>2 DEF FramesFollow
  <2>6. i \in P
    BY <2>1, <2>5 DEF Matches
  <2> QED BY <2>4, <2>6
<1> HIDE DEF P, W
<1>8. CASE P = {}
  <2>1. W = {}
    BY <1>7, <1>8
  <2> QED BY <2>1, <1>3, <1>8 DEF getLandingPad, W
<1>9. CASE P # {}
  <2> DEFINE i == Innermost(P)
             k == Innermost(W)
  <2>1. i \in P /\ (\A j \in P : j =< i) /\ pos[i] \in W
        /\ ir.frames[pos[i]].landingPad = nest[i].pad
    BY <1>5, <1>6, <1>9
  <2>2. k \in W /\ \A j \in W : j =< k
    BY <2>1, <1>4
  <2>3. PICK j \in P : pos[j] = k
    BY <2>2, <1>7
  <2> HIDE DEF i, k
  <2>4. j = i
    <3>1. j =< i /\ i \in 1..l /\ j \in 1..l /\ nest[i].stmt # "handler" /\ nest[j].stmt # "handler"
      BY <2>1, <1>6
    <3>2. j < i => pos[j] < pos[i]
      BY <3>1, <1>2 DEF FramesFollow
    <3>3. pos[i] =< pos[j]
      BY <2>1, <2>2, <2>3
    <3>4. pos[i] \in 1..m /\ pos[j] \in 1..m
      BY <2>1, <2>2, <2>3, <1>4
    <3> QED BY <3>1, <3>2, <3>3, <3>4, <1>1
  <2>5. getLandingPad(ir) = ir.frames[k].landingPad
    BY <2>2 DEF getLandingPad, W, k
  <2> QED BY <2>1, <2>3, <2>4, <2>5, <1>3, <1>9 DEF i
<1> QED BY <1>8, <1>9

\* Where state and nest agree, an exit without a tag finds the loop the type
\* checker found, and one with a tag exactly if the body of that loop has it.
LEMMA ExitsAreRight ==
  ASSUME Consistent(ir, nest), NEW tag \in Tag \cup {NoName}, Tagged(tag) # {}
  PROVE  ExitReachesLoop(tag) <=> tag = NoName \/ BodyIsNamed(tag)
<1> DEFINE T == Tagged(tag)
           l == Len(nest)
           m == Len(ir.frames)
           F == IF tag = NoName THEN {k \in 1..m : ir.frames[k].kind = "Loop"}
                ELSE {k \in 1..m : Name(ir, k) = tag}
           i == Innermost(T)
           target == nest[i].merge
<1>1. /\ nest \in Seq(Nested) /\ l \in Nat /\ Sound(ir) /\ m \in Nat
      /\ DOMAIN nest = 1..l /\ DOMAIN ir.frames = 1..m
  BY DEF Consistent, NestSound, Sound, Emission
<1>2. PICK pos : FramesFollow(ir, nest, pos)
  BY DEF Consistent
<1>3. T = {j \in 1..l : nest[j].stmt \in Loops /\ (tag = NoName \/ nest[j].tag = tag)}
  BY <1>1 DEF Tagged, ActiveLoops
<1>4. ExitFrame(tag) = IF F = {} THEN 0 ELSE Innermost(F)
  <2>1. CASE tag = NoName
    BY <2>1, <1>1 DEF ExitFrame, findFirstLoop, IndexOfInnermost
  <2>2. CASE tag # NoName
    BY <2>2, <1>1 DEF ExitFrame, findFirstNamedSubframe, IndexOfInnermost, Name
  <2> QED BY <2>1, <2>2
<1>5. F \in SUBSET (1..m) /\ T \in SUBSET (1..l) /\ T # {}
  BY <1>3
<1>6. ASSUME NEW j \in T
      PROVE  /\ j \in 1..l /\ nest[j].stmt # "handler" /\ pos[j] \in 1..m
             /\ ir.frames[pos[j]].kind = "Loop" /\ ir.frames[pos[j]].merge = nest[j].merge
  <2>1. j \in 1..l /\ nest[j].stmt \in Loops
    BY <1>3
  <2>2. nest[j].stmt # "handler"
    BY <2>1 DEF Loops
  <2>3. pos[j] \in 2..m /\ Matches(nest[j], ir.frames[pos[j]])
    BY <2>1, <2>2, <1>2 DEF FramesFollow
  <2> QED BY <2>1, <2>2, <2>3, <1>1 DEF Matches
<1>7. i \in T /\ \A j \in T : j =< i
  BY <1>1, <1>5, InnermostFacts
<1> DEFINE h == pos[i]
<1>8. /\ i \in 1..l /\ h \in 1..m /\ nest[i].stmt # "handler"
      /\ ir.frames[h].kind = "Loop" /\ ir.frames[h].merge = target
  BY <1>6, <1>7
<1>9. \A k \in 1..m : /\ ir.frames[k].merge = target => k = h
                      /\ ir.frames[k].entry = ir.frames[h].entry => k = h
  <2>1. \A k \in 1..m : k # h => Apart(ir.frames[h], ir.frames[k].entry, ir.frames[k].merge)
    BY <1>8 DEF Consistent, FramesSound
  <2> QED BY <2>1, <1>8 DEF Apart
<1>10. BodyIsNamed(tag) <=> Name(ir, h) = tag
  <2>1. BodyIsNamed(tag) <=>
          \E k \in 1..m : /\ ir.frames[k].kind = "Loop" /\ ir.frames[k].merge = target
                          /\ ir.blocks[ir.frames[k].entry].name = tag
    BY <1>1 DEF BodyIsNamed, Range
  <2> HIDE DEF h, target
  <2> QED BY <2>1, <1>8, <1>9 DEF Name
<1>11. ExitReachesLoop(tag) <=> ExitFrame(tag) # 0 /\ ir.frames[ExitFrame(tag)].merge = target
  BY DEF ExitReachesLoop
<1> HIDE DEF F, T, i, h, target
<1>12. F # {} => /\ ExitFrame(tag) \in F /\ (\A k \in F : k =< ExitFrame(tag))
                 /\ ExitFrame(tag) \in 1..m /\ ExitFrame(tag) # 0
  <2>1. F # {} => Innermost(F) \in F /\ \A k \in F : k =< Innermost(F)
    BY <1>1, <1>5, InnermostFacts
  <2>2. F # {} => ExitFrame(tag) \in F /\ \A k \in F : k =< ExitFrame(tag)
    BY <2>1, <1>4
  <2>3. \A k \in F : k \in 1..m /\ k # 0
    BY <1>1, <1>5
  <2> QED BY <2>2, <2>3
<1>13. CASE tag = NoName
  <2>1. F = {k \in 1..m : ir.frames[k].kind = "Loop"}
    BY <1>13 DEF F
  <2> DEFINE k == ExitFrame(tag)
  <2>2. h \in F
    BY <2>1, <1>8
  <2>3. k \in 1..m /\ ir.frames[k].kind = "Loop" /\ h =< k /\ k # 0
    BY <2>1, <2>2, <1>12
  <2> HIDE DEF k
  <2>4. k # 1
    BY <2>3 DEF Consistent, FramesSound
  <2>5. k \in 2..m
    BY <2>3, <2>4, <1>1
  <2>6. PICK j \in 1..l : nest[j].stmt # "handler" /\ pos[j] = k
    BY <2>5, <1>2 DEF FramesFollow
  <2>7. Matches(nest[j], ir.frames[k])
    BY <2>6, <1>2 DEF FramesFollow
  <2>8. j \in T
    BY <2>3, <2>6, <2>7, <1>3, <1>13 DEF Matches
  <2>9. j =< i /\ j \in Int /\ i \in Int /\ h \in Int /\ k \in Int
    BY <2>3, <2>8, <1>7, <1>8
  <2>10. j < i => pos[j] < h
    BY <2>6, <1>2, <1>8 DEF FramesFollow, h
  <2>11. j = i
    BY <2>3, <2>6, <2>9, <2>10
  <2>12. k = h
    BY <2>6, <2>11 DEF h
  <2> QED BY <2>3, <2>12, <1>8, <1>11, <1>13 DEF k
<1>14. CASE tag # NoName
  <2>1. F = {k \in 1..m : Name(ir, k) = tag}
    BY <1>14 DEF F
  <2>2. ASSUME Name(ir, h) = tag PROVE ExitReachesLoop(tag)
    <3>1. h \in F
      BY <2>1, <2>2, <1>8
    <3> DEFINE k == ExitFrame(tag)
    <3>2. k \in 1..m /\ Name(ir, k) = tag /\ k # 0
      BY <2>1, <3>1, <1>12
    <3> HIDE DEF k
    <3>3. ir.frames[k].entry \in 1..Len(ir.blocks) /\ ir.frames[h].entry \in 1..Len(ir.blocks)
      BY <3>2, <1>8 DEF Consistent, FramesSound
    <3>4. ir.frames[k].entry = ir.frames[h].entry
      BY <2>2, <3>2, <3>3, <1>14 DEF Consistent, NamesApart, Name
    <3>5. k = h
      BY <3>2, <3>4, <1>9
    <3> QED BY <3>2, <3>5, <1>8, <1>11 DEF k
  <2>3. ASSUME ExitReachesLoop(tag) PROVE Name(ir, h) = tag
    <3>1. F # {}
      BY <2>3, <1>4, <1>11
    <3>2. ExitFrame(tag) \in 1..m /\ Name(ir, ExitFrame(tag)) = tag
      BY <2>1, <3>1, <1>12
    <3>3. ExitFrame(tag) = h
      BY <2>3, <3>2, <1>9, <1>11
    <3> QED BY <3>2, <3>3
  <2> QED BY <2>2, <2>3, <1>10, <1>14
<1> QED BY <1>13, <1>14
-----------------------------------------------------------------------------
\* Agreement inside of a body: the outermost statement is the body's block.
Good(s, nst) ==
  /\ Len(nst) > 0 /\ nst[1].stmt \in {"block", "handlers"}
  /\ Consistent(s, nst)

\* Doing nothing grows a sound state.
LEMMA GrowsRefl ==
  ASSUME NEW s, Sound(s)
  PROVE  Grows(s, s)
BY DEF Grows, Sound, SameFrames, Emission

\* Noting how a sequence ends changes nothing else in the nest.
LEMMA TouchLast ==
  ASSUME NEW nst \in Seq(Nested), Len(nst) > 0, NEW last \in {"empty", "open", "terminator"}
  PROVE  LET p == [nst EXCEPT ![Len(nst)].last = last]
         IN  /\ p \in Seq(Nested) /\ Len(p) = Len(nst)
             /\ \A i \in 1..Len(nst) :
                  /\ p[i].stmt = nst[i].stmt /\ p[i].merge = nst[i].merge
                  /\ p[i].tag = nst[i].tag /\ p[i].pad = nst[i].pad /\ p[i].next = nst[i].next
<1> DEFINE n == [nst[Len(nst)] EXCEPT !.last = last]
           p == [nst EXCEPT ![Len(nst)] = n]
<1>1. Len(nst) \in 1..Len(nst) /\ nst[Len(nst)] \in Nested
  OBVIOUS
<1>2. /\ n \in Nested /\ n.stmt = nst[Len(nst)].stmt /\ n.merge = nst[Len(nst)].merge
      /\ n.tag = nst[Len(nst)].tag /\ n.pad = nst[Len(nst)].pad /\ n.next = nst[Len(nst)].next
  BY <1>1 DEF Nested
<1> HIDE DEF n
<1>3. /\ p \in Seq(Nested) /\ Len(p) = Len(nst) /\ p[Len(nst)] = n
      /\ \A i \in 1..Len(nst) : i # Len(nst) => p[i] = nst[i]
  BY <1>1, <1>2
<1>4. p = [nst EXCEPT ![Len(nst)].last = last]
  BY DEF n
<1> HIDE DEF p
<1> QED BY <1>2, <1>3, <1>4

\* A simple statement keeps the agreement.
LEMMA GoodTouch ==
  ASSUME NEW s, NEW nst, Good(s, nst), NEW t, Grows(s, t),
         NEW last \in {"empty", "open", "terminator"}
  PROVE  Good(t, [nst EXCEPT ![Len(nst)].last = last])
<1> DEFINE p == [nst EXCEPT ![Len(nst)].last = last]
<1>1. nst \in Seq(Nested) /\ Len(nst) > 0 /\ 1 \in 1..Len(nst)
  BY DEF Good, Consistent, NestSound
<1>2. /\ p \in Seq(Nested) /\ Len(p) = Len(nst)
      /\ \A i \in 1..Len(nst) :
           /\ p[i].stmt = nst[i].stmt /\ p[i].merge = nst[i].merge
           /\ p[i].tag = nst[i].tag /\ p[i].pad = nst[i].pad /\ p[i].next = nst[i].next
  BY <1>1, TouchLast
<1> HIDE DEF p
<1>3. Consistent(t, nst)
  BY ConsistentGrows DEF Good
<1>4. Consistent(t, p)
  <2>1. ASSUME NEW i \in 1..Len(nst)
        PROVE  /\ p[i].stmt = nst[i].stmt /\ p[i].merge = nst[i].merge
               /\ p[i].tag = nst[i].tag /\ p[i].pad = nst[i].pad
               /\ p[i].next = nst[i].next \/ (p[i].stmt # "if" /\ p[i].next \in 1..Len(t.blocks))
    BY <1>2, Zenon
  <2> QED BY <1>2, <1>3, <2>1, ConsistentTouch
<1> QED BY <1>1, <1>2, <1>4 DEF Good, p

\* A compound statement that pushes a subframe of blocks made for it keeps the
\* agreement.
LEMMA GoodBegin ==
  ASSUME NEW s, NEW nst, Good(s, nst), NEW v, Grows(s, v),
         NEW kind \in {"Block", "Loop"},
         NEW entry \in 1..Len(v.blocks), NEW merge \in 1..Len(v.blocks),
         entry \notin 1..Len(s.blocks), merge \notin 1..Len(s.blocks),
         NEW n \in Nested, n.stmt # "handler",
         n.merge \in 1..Len(v.blocks), n.next \in 1..Len(v.blocks),
         n.stmt = "if" => n.next \notin 1..Len(s.blocks) /\ n.merge \notin 1..Len(s.blocks),
         n.stmt \in Loops <=> kind = "Loop",
         n.stmt \in Loops => merge = n.merge,
         n.stmt = "block" => n.pad = 0,
         NEW p, p = [nst EXCEPT ![Len(nst)].last = "open"]
  PROVE  Good(PushSubframe(v, kind, entry, merge), Append(p, n))
<1> DEFINE t == PushSubframe(v, kind, entry, merge)
<1>1. Good(v, p)
  BY GoodTouch
<1>2. p \in Seq(Nested) /\ Len(p) > 0
  BY <1>1 DEF Good, Consistent, NestSound
<1>3. /\ \A k \in 1..Len(v.frames) : \A a, b :
           a \notin 1..Len(s.blocks) /\ b \notin 1..Len(s.blocks) => Apart(v.frames[k], a, b)
      /\ \A i \in 1..Len(p) : {entry, merge} \cap {p[i].next, p[i].merge} = {}
  <2>1. \A k \in 1..Len(v.frames) : v.frames[k].entry \in 1..Len(s.blocks)
                                  /\ v.frames[k].merge \in 1..Len(s.blocks)
    BY DEF Grows, SameFrames, Good, Consistent, FramesSound
  <2>2. nst \in Seq(Nested) /\ Len(nst) > 0
    BY DEF Good, Consistent, NestSound
  <2>3. Len(p) = Len(nst) /\ \A i \in 1..Len(nst) : p[i].next = nst[i].next /\ p[i].merge = nst[i].merge
    BY <2>2, TouchLast
  <2>4. \A i \in 1..Len(nst) : nst[i].next \in 1..Len(s.blocks) /\ nst[i].merge \in 1..Len(s.blocks)
    BY DEF Good, Consistent, NestSound
  <2>5. \A k \in 1..Len(v.frames) : \A a, b :
          a \notin 1..Len(s.blocks) /\ b \notin 1..Len(s.blocks) => Apart(v.frames[k], a, b)
    BY <2>1, Zenon DEF Apart
  <2> QED BY <2>3, <2>4, <2>5
<1>4. Consistent(t, Append(p, n))
  BY <1>1, <1>3, ConsistentPush DEF Good
<1>5. Len(Append(p, n)) > 0 /\ Append(p, n)[1] = p[1]
  BY <1>2
<1> HIDE DEF t
<1>6. Good(t, Append(p, n))
  BY <1>1, <1>4, <1>5 DEF Good
<1> QED BY <1>6 DEF t

\* So does the end of a compound statement that pops it.
LEMMA GoodEnd ==
  ASSUME NEW s, NEW nst, Good(s, nst), Len(nst) > 1, nst[Len(nst)].stmt # "handler",
         NEW t, Sound(t), NamesApart(t), t.frames = Front(s.frames), Len(s.blocks) =< Len(t.blocks)
  PROVE  Good(t, Front(nst))
<1>1. nst \in Seq(Nested) /\ Len(nst) \in Nat
  BY DEF Good, Consistent, NestSound
<1>2. Len(Front(nst)) > 0 /\ Front(nst)[1] = nst[1]
  BY <1>1, FrontFacts
<1>3. Consistent(t, Front(nst))
  BY <1>1, ConsistentPop DEF Good
<1> QED BY <1>2, <1>3 DEF Good

\* What agreement says of the innermost statement.
LEMMA InnerFacts ==
  ASSUME Good(ir, nest)
  PROVE  /\ Inner = nest[Len(nest)] /\ Inner \in Nested /\ Sound(ir)
         /\ Inner.merge \in 1..Len(ir.blocks) /\ Inner.next \in 1..Len(ir.blocks)
         /\ Inner.stmt = "if" => \A k \in 1..Len(ir.frames) :
              ir.frames[k].kind = "Loop" => Apart(ir.frames[k], Inner.next, Inner.merge)
         /\ Len(ir.frames) > 0 /\ Len(nest) > 0 /\ nest \in Seq(Nested)
         /\ Len(ir.blocks) \in Nat
         /\ Inner.stmt \notin {"block", "handlers"} => Len(nest) > 1
<1>1. nest \in Seq(Nested) /\ Len(nest) > 0 /\ Len(nest) \in 1..Len(nest) /\ Len(nest) \in Nat
  BY DEF Good, Consistent, NestSound
<1>2. Inner = nest[Len(nest)]
  BY <1>1 DEF Inner, Last
<1>3. nest[Len(nest)].stmt \notin {"block", "handlers"} => Len(nest) > 1
  BY <1>1 DEF Good
<1>4. Len(ir.frames) > 0 /\ Sound(ir) /\ Len(ir.blocks) \in Nat
  BY DEF Good, Consistent, FramesSound, Sound, Emission
<1>5. /\ nest[Len(nest)].merge \in 1..Len(ir.blocks) /\ nest[Len(nest)].next \in 1..Len(ir.blocks)
      /\ nest[Len(nest)].stmt = "if" => \A k \in 1..Len(ir.frames) :
           ir.frames[k].kind = "Loop" => Apart(ir.frames[k], nest[Len(nest)].next, nest[Len(nest)].merge)
  BY <1>1 DEF Good, Consistent, NestSound
<1>6. nest[Len(nest)] \in Nested
  BY <1>1
<1> QED BY <1>1, <1>2, <1>3, <1>4, <1>5, <1>6

-----------------------------------------------------------------------------
\* The nest entry made by Statement.
LEMMA StatementFacts ==
  ASSUME NEW stmt \in {"block", "handlers", "handler", "if", "while", "for", "loop"},
         NEW merge \in Nat, NEW next \in Nat, NEW tag \in Tag \cup {NoName}
  PROVE  LET n == Statement(stmt, merge, next, tag)
         IN  /\ n \in Nested /\ n.stmt = stmt /\ n.merge = merge /\ n.next = next
             /\ n.tag = tag /\ n.pad = 0
BY DEF Statement, Nested

\* The nest entry of an if statement.
LEMMA IfNestFacts ==
  ASSUME NEW merge \in Nat, NEW next \in Nat, NEW more \in {"none", "elsif", "else"}
  PROVE  LET n == IfNest(merge, next, more)
         IN  n \in Nested /\ n.stmt = "if" /\ n.merge = merge /\ n.next = next /\ n.pad = 0
BY DEF IfNest, Statement, Nested

\* Replacing the last element is appending to the front.
LEMMA ReplaceLast ==
  ASSUME NEW T, NEW q \in Seq(T), Len(q) > 0, NEW x \in T
  PROVE  Append(Front(q), x) = [q EXCEPT ![Len(q)] = x]
<1> DEFINE l == Len(q)
           a == Append(Front(q), x)
           b == [q EXCEPT ![l] = x]
<1>1. l \in Nat /\ l \in 1..l
  OBVIOUS
<1>2. Front(q) \in Seq(T) /\ Len(Front(q)) = l - 1 /\ \A i \in 1..(l - 1) : Front(q)[i] = q[i]
  BY <1>1, FrontFacts
<1>3. a \in Seq(T) /\ Len(a) = l /\ a[l] = x /\ \A i \in 1..(l - 1) : a[i] = Front(q)[i]
  BY <1>1, <1>2
<1>4. b \in Seq(T) /\ Len(b) = l /\ b[l] = x /\ \A i \in 1..l : i # l => b[i] = q[i]
  BY <1>1
<1> HIDE DEF a, b, l
<1>5. \A i \in 1..l : i = l \/ i \in 1..(l - 1)
  BY <1>1
<1>6. \A i \in 1..(l - 1) : i \in 1..l /\ i # l
  BY <1>1
<1>7. \A i \in 1..l : a[i] = b[i]
  BY <1>2, <1>3, <1>4, <1>5, <1>6
<1>8. a = b
  BY <1>3, <1>4, <1>7
<1> QED BY <1>8 DEF a, b, l

\* From one branch of an if to the next: the subframe of the finished branch is
\* popped and another one pushed for the same statement.
LEMMA GoodReplace ==
  ASSUME NEW s, NEW nst, Good(s, nst), Len(nst) > 1, nst[Len(nst)].stmt # "handler",
         NEW t, Sound(t), NamesApart(t), t.frames = Front(s.frames), Len(s.blocks) =< Len(t.blocks),
         NEW v, Grows(t, v), NEW entry \in 1..Len(v.blocks), NEW merge \in 1..Len(v.blocks),
         NEW n \in Nested, n.stmt = "if", n.merge \in 1..Len(v.blocks),
         n.next \in 1..Len(v.blocks),
         \A k \in 1..Len(s.frames) : s.frames[k].kind = "Loop" =>
           Apart(s.frames[k], entry, merge) /\ Apart(s.frames[k], n.next, n.merge)
  PROVE  Good(PushSubframe(v, "Block", entry, merge), [nst EXCEPT ![Len(nst)] = n])
<1> DEFINE u == PushSubframe(v, "Block", entry, merge)
           p == Front(nst)
<1>1. nst \in Seq(Nested) /\ Len(nst) \in Nat
  BY DEF Good, Consistent, NestSound
<1>2. p \in Seq(Nested) /\ Len(p) > 0 /\ p[1] = nst[1]
  BY <1>1, FrontFacts
<1>3. Consistent(v, p)
  BY GoodEnd, ConsistentGrows DEF Good
<1>4. n.stmt \notin Loops
  BY DEF Loops
<1> HIDE DEF p
<1>5. Consistent(u, Append(p, n))
  <2>1. s.frames \in Seq(Subframe) /\ Len(s.frames) > 0 /\ Len(s.frames) \in Nat
    BY DEF Good, Consistent, FramesSound, Sound, Emission
  <2>2. Len(t.frames) = Len(s.frames) - 1 /\ \A k \in 1..Len(t.frames) : t.frames[k] = s.frames[k]
    <3>1. /\ Len(Front(s.frames)) = Len(s.frames) - 1
          /\ \A k \in 1..(Len(s.frames) - 1) : Front(s.frames)[k] = s.frames[k]
      BY <2>1, FrontFacts
    <3> QED BY <3>1
  <2>3. \A k \in 1..Len(t.frames) : k \in 1..Len(s.frames)
    BY <2>1, <2>2
  <2>4. \A k \in 1..Len(v.frames) : v.frames[k].kind = "Loop" =>
          Apart(v.frames[k], entry, merge) /\ Apart(v.frames[k], n.next, n.merge)
    <3> SUFFICES ASSUME NEW k \in 1..Len(v.frames), v.frames[k].kind = "Loop"
                 PROVE  Apart(v.frames[k], entry, merge) /\ Apart(v.frames[k], n.next, n.merge)
      OBVIOUS
    <3>1. Len(v.frames) = Len(t.frames)
      BY DEF Grows, SameFrames
    <3>2. k \in 1..Len(t.frames) /\ k \in 1..Len(s.frames)
      BY <2>3, <3>1
    <3>3. /\ v.frames[k].kind = t.frames[k].kind
          /\ v.frames[k].entry = t.frames[k].entry
          /\ v.frames[k].merge = t.frames[k].merge
      BY <3>2 DEF Grows, SameFrames
    <3>4. t.frames[k] = s.frames[k]
      BY <2>2, <3>2
    <3>5. Apart(s.frames[k], entry, merge) /\ Apart(s.frames[k], n.next, n.merge)
      BY <3>2, <3>3, <3>4
    <3> QED BY <3>3, <3>4, <3>5 DEF Apart
  <2> QED BY <1>3, <1>4, <2>4, ConsistentPush
<1>6. Append(p, n) = [nst EXCEPT ![Len(nst)] = n]
  BY <1>1, ReplaceLast DEF p
<1>7. Len(Append(p, n)) > 0 /\ Append(p, n)[1] = nst[1]
  BY <1>2
<1> HIDE DEF u
<1>8. Good(u, Append(p, n))
  BY <1>5, <1>7 DEF Good
<1> QED BY <1>6, <1>8 DEF u

\* Entering a block, with the landing pad of a handled one, keeps the agreement.
LEMMA EnterFacts ==
  ASSUME NEW s, NEW p \in Seq(Nested), NEW entry \in 1..Len(s.blocks),
         NEW merge \in 1..Len(s.blocks), NEW handled \in BOOLEAN,
         Consistent(s, Append(p, Statement("block", merge, entry, NoName))),
         s.frames[Len(s.frames)] = [kind |-> "Block", entry |-> entry, merge |-> merge,
                                    saved |-> FALSE, landingPad |-> 0]
  PROVE  LET t == Enter(s, handled)
         IN  /\ Consistent(t, Append(p, BlockNest(t)))
             /\ Sound(t) /\ subframe(t).entry \in 1..Len(t.blocks)
             /\ BlockNest(t).stmt = "block"
<1> DEFINE n == Statement("block", merge, entry, NoName)
           m == Len(s.frames)
           f == s.frames[m]
           q == Append(p, n)
<1>1. /\ n \in Nested /\ n.stmt = "block" /\ n.merge = merge /\ n.next = entry
      /\ n.tag = NoName /\ n.pad = 0
  BY StatementFacts
<1>2. /\ Sound(s) /\ Len(s.blocks) \in Nat /\ m \in Nat /\ m > 0 /\ m \in 1..m
      /\ s.frames \in Seq(Subframe)
  BY DEF Consistent, FramesSound, Sound, Emission
<1>3. subframe(s) = f
  BY <1>2 DEF subframe, Last
<1>4. /\ f.kind = "Block" /\ f.entry = entry /\ f.merge = merge /\ f.landingPad = 0
  OBVIOUS
<1>5. CASE ~handled
  <2>1. Enter(s, handled) = s
    BY <1>5 DEF Enter
  <2>2. BlockNest(s) = n
    BY <1>1, <1>3, <1>4 DEF BlockNest, Nested, Statement
  <2> QED BY <2>1, <2>2, <1>1, <1>2, <1>3, <1>4
<1>6. CASE handled
  <2> DEFINE t == makeBasicBlock(s, "landingpad")
             u == [t EXCEPT !.frames[Len(t.frames)].landingPad = Newest(t)]
             g == [f EXCEPT !.landingPad = Newest(t)]
             k == [n EXCEPT !.pad = Newest(t)]
  <2>1. Enter(s, handled) = u
    BY <1>3, <1>4, <1>6 DEF Enter, addLandingPad
  <2>2. /\ Grows(s, t) /\ Newest(t) = Len(s.blocks) + 1 /\ Len(t.blocks) = Len(s.blocks) + 1
        /\ t.frames = s.frames
    BY <1>2, NameFacts, makeBasicBlockGrows
  <2>3. Newest(t) \in 0..Len(t.blocks) /\ Newest(t) \in Nat
    BY <2>2, <1>2
  <2>4. /\ k \in Nested /\ k.stmt = "block" /\ k.pad = Newest(t) /\ k.merge = merge /\ k.next = entry
    BY <1>1, <2>3 DEF Nested
  <2>5. /\ q \in Seq(Nested) /\ Len(q) > 0 /\ q[Len(q)] = n
        /\ [q EXCEPT ![Len(q)] = k] = Append(p, k)
    <3>1. q \in Seq(Nested) /\ Len(q) = Len(p) + 1 /\ q[Len(p) + 1] = n /\ Len(p) \in Nat
      BY <1>1
    <3>2. Front(q) = p
      <4>1. Front(q) = SubSeq(q, 1, Len(p))
        BY <3>1 DEF Front
      <4> QED BY <4>1, <1>1
    <3> HIDE DEF q, k
    <3>3. [q EXCEPT ![Len(q)] = k] = Append(p, k)
      BY <3>1, <3>2, <2>4, ReplaceLast
    <3> QED BY <3>1, <3>3
  <2>6. Consistent(t, q)
    BY <2>2, ConsistentGrows
  <2>7. entry \in 1..Len(t.blocks) /\ merge \in 1..Len(t.blocks)
    BY <2>2, <1>2
  <2> HIDE DEF t, k, n, q
  <2>8. Consistent(u, [q EXCEPT ![Len(q)] = k]) /\ u.blocks = t.blocks
    <3>1. q[Len(q)].stmt = "block" /\ k.merge \in 1..Len(t.blocks) /\ k.next \in 1..Len(t.blocks)
      BY <2>4, <2>5, <2>7, <1>1
    <3> QED BY <3>1, <2>3, <2>4, <2>5, <2>6, ConsistentPad
  <2>9. subframe(u) = g
    <3>1. u = [t EXCEPT !.frames = [t.frames EXCEPT ![Len(t.frames)] = [t.frames[Len(t.frames)] EXCEPT !.landingPad = Newest(t)]]]
      OBVIOUS
    <3>2. t \in Emission
      BY <2>2 DEF Grows, Sound
    <3> DEFINE fs == [t.frames EXCEPT ![Len(t.frames)] = [t.frames[Len(t.frames)] EXCEPT !.landingPad = Newest(t)]]
    <3>3. fs = [s.frames EXCEPT ![m] = g]
      BY <2>2
    <3> HIDE DEF fs, g
    <3>4. u.frames = fs
      BY <3>1, <3>2 DEF Emission, fs
    <3>5. g \in Subframe
      <4>1. f \in Subframe
        BY <1>2
      <4> QED BY <4>1, <2>3 DEF g, Subframe
    <3>6. fs \in Seq(Subframe) /\ Len(fs) = m /\ fs[m] = g
      BY <1>2, <3>3, <3>5
    <3> QED BY <3>4, <3>6, <1>2 DEF subframe, Last
  <2> HIDE DEF u
  <2>10. g.merge = merge /\ g.entry = entry /\ g.landingPad = Newest(t)
    <3>1. f \in Subframe
      BY <1>2
    <3> QED BY <3>1, <1>4 DEF Subframe
  <2>11. BlockNest(u) = k
    BY <2>9, <2>10 DEF BlockNest, k, n, Statement
  <2>12. Sound(u)
    BY <2>8 DEF Consistent
  <2> QED BY <2>1, <2>4, <2>5, <2>7, <2>8, <2>9, <2>10, <2>11, <2>12
<1> QED BY <1>5, <1>6
-----------------------------------------------------------------------------
\* A sound state has a block.
LEMMA SoundLength ==
  ASSUME NEW s, Sound(s)
  PROVE  Len(s.blocks) \in Nat /\ Len(s.blocks) >= 1
BY DEF Sound, Emission

\* A statement that only grows the state keeps the agreement.
LEMMA EmittedGood ==
  ASSUME Good(ir, nest), NEW s, Grows(ir, s), NEW last \in {"open", "terminator"},
         Emitted(s, last)
  PROVE  Good(ir', nest')
<1>1. ir' = s /\ nest' = [nest EXCEPT ![Len(nest)].last = last]
  BY DEF Emitted
<1>2. Good(s, [nest EXCEPT ![Len(nest)].last = last])
  BY GoodTouch
<1> QED BY <1>1, <1>2

\* emitSimpleStmt keeps the agreement.
LEMMA SimpleStmtGood ==
  ASSUME Good(ir, nest), emitSimpleStmt
  PROVE  Good(ir', nest')
<1>1. Sound(ir) /\ Len(ir.frames) > 0
  BY InnerFacts
<1>2. CASE Emitted(Instruction(ir), "open")
  BY <1>1, <1>2, InstructionGrows, EmittedGood
<1>3. CASE Emitted(emitCall(ir), "open")
  BY <1>1, <1>3, emitCallGrows, EmittedGood
<1>4. CASE Emitted(Instruction(stacksave(emitCall(ir))), "open")
  <2> DEFINE s == emitCall(ir)
             t == stacksave(s)
             u == Instruction(t)
  <2>1. Grows(ir, s) /\ Sound(s) /\ Len(s.frames) > 0
    BY <1>1, emitCallGrows DEF Grows
  <2> HIDE DEF s
  <2>2. Grows(s, t) /\ Sound(t)
    BY <2>1, stacksaveGrows DEF Grows
  <2> HIDE DEF t
  <2>3. Grows(t, u)
    BY <2>2, InstructionGrows
  <2> HIDE DEF u
  <2>4. Grows(ir, t)
    BY <1>1, <2>1, <2>2, GrowsTransitive
  <2>5. Grows(ir, u)
    BY <1>1, <2>3, <2>4, GrowsTransitive
  <2>6. Emitted(u, "open")
    BY <1>4 DEF s, t, u
  <2> QED BY <2>5, <2>6, EmittedGood
<1> QED BY <1>2, <1>3, <1>4 DEF emitSimpleStmt

\* emitReturnStmt keeps the agreement.
LEMMA ReturnStmtGood ==
  ASSUME Good(ir, nest), emitReturnStmt
  PROVE  Good(ir', nest')
<1> DEFINE s == Instruction(ir)
           t == emitReturn(s)
<1>1. Sound(ir) /\ Len(ir.frames) > 0
  BY InnerFacts
<1>2. Grows(ir, s) /\ Sound(s) /\ Len(s.frames) > 0
  BY <1>1, InstructionGrows DEF Grows
<1>3. Emitted(t, "terminator")
  BY DEF emitReturnStmt
<1> HIDE DEF s
<1>4. Grows(s, t)
  BY <1>2, emitReturnGrows
<1> HIDE DEF t
<1>5. Grows(ir, t)
  BY <1>1, <1>2, <1>4, GrowsTransitive
<1> QED BY <1>3, <1>5, EmittedGood

\* emitRaiseStmt keeps the agreement.
LEMMA RaiseStmtGood ==
  ASSUME Good(ir, nest), emitRaiseStmt
  PROVE  Good(ir', nest')
<1>1. Grows(ir, raiseExinfo(ir))
  BY InnerFacts, raiseExinfoGrows
<1>2. Emitted(raiseExinfo(ir), "terminator")
  BY DEF emitRaiseStmt
<1> QED BY <1>1, <1>2, EmittedGood

\* Two blocks made one after the other.
LEMMA TwoBlocks ==
  ASSUME NEW s, Sound(s), NEW name \in Names, NEW name2 \in Names
  PROVE  LET t == makeBasicBlock(makeBasicBlock(s, name), name2)
             n == Newest(t)
         IN  /\ Grows(s, t) /\ Sound(t) /\ n = Len(t.blocks) /\ n = Len(s.blocks) + 2
             /\ n \in 1..Len(t.blocks) /\ n - 1 \in 1..Len(t.blocks)
             /\ n \in Nat /\ n - 1 \in Nat /\ t.frames = s.frames
             /\ n \notin 1..Len(s.blocks) /\ n - 1 \notin 1..Len(s.blocks)
<1> DEFINE r == makeBasicBlock(s, name)
           t == makeBasicBlock(r, name2)
<1>1. Len(s.blocks) \in Nat /\ Len(s.blocks) >= 1
  BY SoundLength
<1>2. Grows(s, r) /\ Sound(r) /\ Len(r.blocks) = Len(s.blocks) + 1 /\ r.frames = s.frames
  BY makeBasicBlockGrows DEF Grows
<1> HIDE DEF r
<1>3. /\ Grows(r, t) /\ Sound(t) /\ Len(t.blocks) = Len(r.blocks) + 1
      /\ Newest(t) = Len(r.blocks) + 1 /\ t.frames = r.frames
  <2>1. Grows(r, t) => Sound(t)
    BY DEF Grows
  <2> QED BY <1>2, <2>1, makeBasicBlockGrows
<1> HIDE DEF t
<1>4. Grows(s, t)
  BY <1>2, <1>3, GrowsTransitive
<1>5. /\ Newest(t) = Len(t.blocks) /\ Newest(t) = Len(s.blocks) + 2
      /\ Newest(t) \in 1..Len(t.blocks) /\ Newest(t) - 1 \in 1..Len(t.blocks)
      /\ Newest(t) \in Nat /\ Newest(t) - 1 \in Nat
      /\ Newest(t) \notin 1..Len(s.blocks) /\ Newest(t) - 1 \notin 1..Len(s.blocks)
  BY <1>1, <1>2, <1>3
<1> QED BY <1>2, <1>3, <1>4, <1>5 DEF r, t

\* emitPragmaAssert keeps the agreement.
LEMMA PragmaAssertGood ==
  ASSUME Good(ir, nest), emitPragmaAssert
  PROVE  Good(ir', nest')
<1> DEFINE c == Condition(ir)
           s == makeBasicBlock(makeBasicBlock(c, NoName), NoName)
           n == Newest(s)
           r == Terminator(s, {n - 1, n}, {})
           t == SetInsertPoint(r, n - 1)
           u == raiseExinfo(t)
           v == SetInsertPoint(u, n)
<1>1. Sound(ir)
  BY InnerFacts
<1>2. Grows(ir, c) /\ Sound(c)
  BY <1>1, emitCallGrows DEF Grows, Condition
<1>3. Emitted(v, "open")
  BY DEF emitPragmaAssert
<1> HIDE DEF c
<1>4. /\ Grows(c, s) /\ Sound(s) /\ n \in 1..Len(s.blocks) /\ n - 1 \in 1..Len(s.blocks)
      /\ n \in Nat /\ n - 1 \in Nat
  BY <1>2, NameFacts, TwoBlocks
<1> HIDE DEF s, n
<1>5. Grows(s, r) /\ Sound(r) /\ Len(r.blocks) = Len(s.blocks)
  <2>1. {n - 1, n} \in SUBSET Nat /\ {} \in SUBSET Nat
    BY <1>4
  <2> QED BY <2>1, <1>4, TerminatorGrows DEF Grows
<1> HIDE DEF r
<1>6. Grows(r, t) /\ Sound(t)
  BY <1>4, <1>5, SetInsertPointGrows DEF Grows
<1> HIDE DEF t
<1>7. Grows(t, u) /\ Sound(u)
  BY <1>6, raiseExinfoGrows DEF Grows
<1> HIDE DEF u
<1>8. Grows(ir, s)
  BY <1>1, <1>2, <1>4, GrowsTransitive
<1>9. Grows(ir, r)
  BY <1>1, <1>5, <1>8, GrowsTransitive
<1>10. Grows(ir, t)
  BY <1>1, <1>6, <1>9, GrowsTransitive
<1>11. Grows(ir, u)
  BY <1>1, <1>7, <1>10, GrowsTransitive
<1>12. n \in 1..Len(u.blocks)
  <2>1. Len(s.blocks) \in Nat /\ Len(u.blocks) \in Nat
    BY <1>4, <1>7, SoundLength
  <2>2. Len(s.blocks) =< Len(u.blocks)
    <3>1. Grows(s, t)
      BY <1>4, <1>5, <1>6, GrowsTransitive
    <3>2. Grows(s, u)
      BY <1>4, <1>7, <3>1, GrowsTransitive
    <3> QED BY <3>2 DEF Grows
  <2> QED BY <1>4, <2>1, <2>2
<1>13. Grows(u, v)
  BY <1>7, <1>12, SetInsertPointGrows
<1> HIDE DEF v
<1>14. Grows(ir, v)
  BY <1>1, <1>11, <1>13, GrowsTransitive
<1> QED BY <1>3, <1>14, EmittedGood

\* emitExitStmt keeps the agreement.
LEMMA ExitStmtGood ==
  ASSUME Good(ir, nest), NEW tag \in Tag \cup {NoName}, NEW conditional \in BOOLEAN,
         emitExitStmt(tag, conditional)
  PROVE  Good(ir', nest')
<1> DEFINE target == ir.frames[ExitFrame(tag)].merge
           s == makeBasicBlock(ir, NoName)
           rest == Newest(s)
           c == Condition(s)
           t == Terminator(c, {target, rest}, {})
           u == SetInsertPoint(t, rest)
<1>1. Sound(ir) /\ Len(ir.blocks) \in Nat
  BY InnerFacts
<1>2. target \in Nat
  <2>1. ir.frames \in Seq(Subframe) /\ DOMAIN ir.frames = 1..Len(ir.frames) /\ Len(ir.frames) \in Nat
    BY <1>1 DEF Sound, Emission
  <2>2. ExitFrame(tag) # 0
    BY DEF emitExitStmt
  <2>3. \A S \in SUBSET (1..Len(ir.frames)) : IndexOfInnermost(S) # 0 => IndexOfInnermost(S) \in S
    BY <2>1, InnermostFacts DEF IndexOfInnermost
  <2>4. ExitFrame(tag) \in 1..Len(ir.frames)
    <3>1. findFirstLoop(ir) # 0 => findFirstLoop(ir) \in 1..Len(ir.frames)
      BY <2>1, <2>3 DEF findFirstLoop
    <3>2. findFirstNamedSubframe(ir, tag) # 0 => findFirstNamedSubframe(ir, tag) \in 1..Len(ir.frames)
      BY <2>1, <2>3 DEF findFirstNamedSubframe
    <3> QED BY <3>1, <3>2, <2>2 DEF ExitFrame
  <2>5. ir.frames[ExitFrame(tag)] \in Subframe
    BY <2>1, <2>4
  <2> QED BY <2>5 DEF Subframe
<1> HIDE DEF target
<1>3. CASE ~conditional
  <2>1. Emitted(Br(ir, target), "terminator")
    BY <1>3 DEF emitExitStmt, target
  <2>2. Grows(ir, Br(ir, target))
    BY <1>1, <1>2, BrGrows
  <2> QED BY <2>1, <2>2, EmittedGood
<1>4. CASE conditional
  <2>1. Emitted(u, "open")
    BY <1>4 DEF emitExitStmt, target
  <2>2. Grows(ir, s) /\ Sound(s) /\ rest \in Nat /\ rest \in 1..Len(s.blocks)
    <3>1. Grows(ir, s) /\ Len(s.blocks) = Len(ir.blocks) + 1 /\ rest = Len(ir.blocks) + 1
      BY <1>1, NameFacts, makeBasicBlockGrows
    <3> HIDE DEF s, rest
    <3> QED BY <3>1, <1>1 DEF Grows
  <2> HIDE DEF s, rest
  <2>3. Grows(s, c) /\ Sound(c)
    BY <2>2, emitCallGrows DEF Grows, Condition
  <2> HIDE DEF c
  <2>4. Grows(c, t) /\ Sound(t)
    <3>1. {target, rest} \in SUBSET Nat /\ {} \in SUBSET Nat
      BY <2>2, <1>2
    <3> QED BY <3>1, <2>3, TerminatorGrows DEF Grows
  <2> HIDE DEF t
  <2>5. Grows(s, t)
    BY <2>2, <2>3, <2>4, GrowsTransitive
  <2>6. Grows(ir, t)
    BY <1>1, <2>2, <2>5, GrowsTransitive
  <2>7. rest \in 1..Len(t.blocks)
    <3>1. Len(s.blocks) \in Nat /\ Len(t.blocks) \in Nat /\ Len(s.blocks) =< Len(t.blocks)
      BY <2>2, <2>4, <2>5, SoundLength DEF Grows
    <3> QED BY <3>1, <2>2
  <2>8. Grows(t, u)
    BY <2>4, <2>7, SetInsertPointGrows
  <2> HIDE DEF u
  <2>9. Grows(ir, u)
    BY <1>1, <2>6, <2>8, GrowsTransitive
  <2> QED BY <2>1, <2>9, EmittedGood
<1> QED BY <1>3, <1>4
-----------------------------------------------------------------------------
\* A block as it is made, and the state Frame::Frame leaves, with the names its
\* two blocks get.
Bare(name) == [name |-> name, term |-> FALSE, torn |-> FALSE, succ |-> {}, unwind |-> {},
               phi |-> "none", restores |-> {}]
EntryFrame == [kind |-> "Entry", entry |-> 1, merge |-> 2, saved |-> FALSE, landingPad |-> 0]

LEMMA NewFrameFacts ==
  \E a, b \in Names :
    /\ a # NoName => a # b
    /\ newFrame = [blocks |-> <<Bare(a), Bare(b)>>, insert |-> 1, frames |-> <<EntryFrame>>]
<1> DEFINE empty == [blocks |-> <<>>, insert |-> 1, frames |-> <<>>]
           a == UniqueName(empty, "alloa")
           r == [blocks |-> <<Bare(a)>>, insert |-> 1, frames |-> <<>>]
           b == UniqueName(r, "return")
           q == [blocks |-> <<Bare(a), Bare(b)>>, insert |-> 1, frames |-> <<>>]
<1>1. a \in Names /\ b \in Names
  BY NameFacts, UniqueNameFacts
<1>2. a # NoName => a # b
  <2> HIDE DEF a
  <2>1. DOMAIN r.blocks = 1..1 /\ r.blocks[1].name = a
    BY DEF Bare
  <2> HIDE DEF r
  <2>2. b # NoName => r.blocks[1].name # b
    BY <2>1, NameFacts, UniqueNameFacts
  <2> QED BY <2>1, <2>2
<1>3. makeBasicBlock(empty, "alloa") = r
  <2>1. makeBasicBlock(empty, "alloa") = [empty EXCEPT !.blocks = Append(<<>>, Bare(a))]
    BY DEF makeBasicBlock, Bare
  <2> HIDE DEF a
  <2> QED BY <2>1
<1>4. makeBasicBlock(r, "return") = q
  <2> HIDE DEF a
  <2>1. makeBasicBlock(r, "return") = [r EXCEPT !.blocks = Append(<<Bare(a)>>, Bare(b))]
    BY DEF makeBasicBlock, Bare
  <2> HIDE DEF b
  <2> QED BY <2>1
<1> HIDE DEF a, b
<1>5. PushSubframe(q, "Entry", 1, 2) =
        [blocks |-> <<Bare(a), Bare(b)>>, insert |-> 1, frames |-> <<EntryFrame>>]
  <2>1. PushSubframe(q, "Entry", 1, 2) = [q EXCEPT !.frames = Append(<<>>, EntryFrame)]
    BY DEF PushSubframe, EntryFrame
  <2> QED BY <2>1
<1>6. newFrame = PushSubframe(q, "Entry", 1, 2)
  BY <1>3, <1>4 DEF newFrame, allocaBB, returnBB
<1> QED BY <1>1, <1>2, <1>5, <1>6

\* It agrees with an empty nest.
LEMMA NewFrameConsistent == Consistent(newFrame, <<>>)
<1>1. PICK a, b \in Names :
        /\ a # NoName => a # b
        /\ newFrame = [blocks |-> <<Bare(a), Bare(b)>>, insert |-> 1, frames |-> <<EntryFrame>>]
  BY NewFrameFacts
<1> DEFINE f == EntryFrame
           s == [blocks |-> <<Bare(a), Bare(b)>>, insert |-> 1, frames |-> <<f>>]
<1>2. /\ Bare(a) \in Block /\ Bare(b) \in Block /\ f \in Subframe
      /\ Bare(a).name = a /\ Bare(b).name = b
      /\ f.kind = "Entry" /\ f.entry = 1 /\ f.merge = 2 /\ f.landingPad = 0
  BY DEF Bare, Block, EntryFrame, Subframe
<1> HIDE DEF f
<1>3. /\ s \in Emission /\ s.insert = 1 /\ Len(s.blocks) = 2 /\ Len(s.frames) = 1
      /\ s.frames[1] = f /\ s.blocks[1] = Bare(a) /\ s.blocks[2] = Bare(b)
  BY <1>2 DEF Emission
<1> HIDE DEF s
<1>4. Sound(s)
  BY <1>3 DEF Sound
<1>5. NamesApart(s)
  <2>1. \A c \in 1..Len(s.blocks) : c = 1 \/ c = 2
    BY <1>3
  <2> QED BY <2>1, <1>1, <1>2, <1>3 DEF NamesApart
<1>6. FramesSound(s)
  <2>1. \A k \in 1..Len(s.frames) : k = 1
    BY <1>3
  <2> QED BY <2>1, <1>2, <1>3 DEF FramesSound
<1>7. NestSound(s, <<>>)
  BY DEF NestSound
<1>8. FramesFollow(s, <<>>, <<>>)
  <2>1. Len(<<>>) = 0
    OBVIOUS
  <2>2. \A k \in 2..Len(s.frames) : FALSE
    BY <1>3
  <2> QED BY <2>1, <2>2 DEF FramesFollow
<1> QED BY <1>1, <1>4, <1>5, <1>6, <1>7, <1>8 DEF Consistent, s, f

\* PushSubframe leaves the blocks alone and puts the subframe on top.
LEMMA PushFacts ==
  ASSUME NEW s, Sound(s), NEW kind \in {"Block", "Loop"}, NEW entry \in Nat, NEW merge \in Nat
  PROVE  LET t == PushSubframe(s, kind, entry, merge)
         IN  /\ t.blocks = s.blocks
             /\ t.frames[Len(t.frames)] = [kind |-> kind, entry |-> entry, merge |-> merge,
                                           saved |-> FALSE, landingPad |-> 0]
<1> DEFINE f == [kind |-> kind, entry |-> entry, merge |-> merge, saved |-> FALSE, landingPad |-> 0]
           t == PushSubframe(s, kind, entry, merge)
           frames == Append(s.frames, f)
<1>1. s \in Emission /\ s.frames \in Seq(Subframe)
  BY DEF Sound, Emission
<1>2. f \in Subframe
  BY DEF Subframe
<1>3. t = [s EXCEPT !.frames = frames]
  BY DEF PushSubframe
<1> HIDE DEF f
<1>4. frames[Len(frames)] = f
  BY <1>1, <1>2
<1> HIDE DEF frames, t
<1>5. t.blocks = s.blocks /\ t.frames = frames
  BY <1>1, <1>3 DEF Emission
<1> QED BY <1>4, <1>5 DEF t, f

\* emitSubroutineBody establishes the agreement.
LEMMA SubroutineBodyGood ==
  ASSUME ir = newFrame, nest = <<>>, NEW handled \in BOOLEAN, emitSubroutineBody(handled)
  PROVE  Good(ir', nest')
<1> DEFINE v == makeBasicBlock(makeBasicBlock(ir, NoName), "merge")
           n == Newest(v)
           a == n - 1
           k == Statement("block", n, a, NoName)
           r == PushSubframe(v, "Block", a, n)
           s == Enter(r, handled)
           t == SetInsertPoint(s, subframe(s).entry)
<1>1. Consistent(ir, <<>>) /\ Sound(ir)
  BY NewFrameConsistent DEF Consistent
<1>2. ir' = t /\ nest' = <<BlockNest(s)>>
  BY DEF emitSubroutineBody, pushNewFrame
<1>3. /\ Grows(ir, v) /\ Sound(v) /\ n \in 1..Len(v.blocks) /\ a \in 1..Len(v.blocks)
      /\ n \in Nat /\ a \in Nat /\ v.frames = ir.frames
  BY <1>1, NameFacts, TwoBlocks
<1>4. \A i \in 1..Len(v.frames) : v.frames[i].kind # "Loop"
  <2>1. PICK x, y \in Names :
          newFrame = [blocks |-> <<Bare(x), Bare(y)>>, insert |-> 1, frames |-> <<EntryFrame>>]
    BY NewFrameFacts
  <2>2. ir.frames = <<EntryFrame>> /\ EntryFrame.kind = "Entry"
    BY <2>1 DEF EntryFrame
  <2> HIDE DEF v
  <2>3. v.frames = <<EntryFrame>>
    BY <2>2, <1>3
  <2> QED BY <2>2, <2>3
<1> HIDE DEF v, n, a
<1>5. k \in Nested /\ k.stmt = "block" /\ k.merge = n /\ k.next = a /\ k.pad = 0
  <2>1. n \in Nat /\ a \in Nat /\ NoName \in Tag \cup {NoName}
    BY <1>3
  <2> QED BY <2>1, StatementFacts
<1>6. Consistent(v, <<>>)
  BY <1>1, <1>3, ConsistentGrows
<1> HIDE DEF k
<1>7. /\ Consistent(r, Append(<<>>, k)) /\ r.blocks = v.blocks
      /\ r.frames[Len(r.frames)] = [kind |-> "Block", entry |-> a, merge |-> n,
                                    saved |-> FALSE, landingPad |-> 0]
  <2>1. k.stmt \notin Loops /\ k.stmt # "handler" /\ k.stmt # "if"
    BY <1>5 DEF Loops
  <2>2. "Block" \in {"Block", "Loop"} /\ (k.stmt \in Loops <=> "Block" = "Loop")
    BY <2>1
  <2>3. k.merge \in 1..Len(v.blocks) /\ k.next \in 1..Len(v.blocks)
    BY <1>3, <1>5
  <2>4. Len(<<>>) = 0
    OBVIOUS
  <2>5. a \in 1..Len(v.blocks) /\ n \in 1..Len(v.blocks)
    BY <1>3
  <2>6. k \in Nested /\ (k.stmt = "block" => k.pad = 0)
    BY <1>5
  <2>7. Consistent(r, Append(<<>>, k))
    BY <1>4, <1>6, <2>1, <2>2, <2>3, <2>4, <2>5, <2>6, ConsistentPush
  <2>8. a \in Nat /\ n \in Nat /\ Sound(v)
    BY <1>3
  <2> QED BY <2>7, <2>8, PushFacts
<1> HIDE DEF r
<1>8. /\ Consistent(s, Append(<<>>, BlockNest(s)))
      /\ Sound(s) /\ subframe(s).entry \in 1..Len(s.blocks) /\ BlockNest(s).stmt = "block"
  <2>1. n \in 1..Len(r.blocks) /\ a \in 1..Len(r.blocks) /\ <<>> \in Seq(Nested)
    BY <1>3, <1>7
  <2> QED BY <1>7, <2>1, EnterFacts DEF k
<1> HIDE DEF s
<1>9. Grows(s, t)
  BY <1>8, SetInsertPointGrows
<1> HIDE DEF t
<1>10. Append(<<>>, BlockNest(s)) = <<BlockNest(s)>>
  OBVIOUS
<1>11. Consistent(t, <<BlockNest(s)>>)
  BY <1>8, <1>9, <1>10, ConsistentGrows
<1> QED BY <1>2, <1>8, <1>11 DEF Good

\* beginBlockStmt keeps the agreement.
LEMMA beginBlockGood ==
  ASSUME Good(ir, nest), NEW label \in Tag \cup {NoName}, NEW handled \in BOOLEAN,
         beginBlockStmt(label, handled)
  PROVE  Good(ir', nest')
<1> DEFINE v == makeBasicBlock(makeBasicBlock(ir, label), "merge")
           n == Newest(v)
           a == n - 1
           k == Statement("block", n, a, NoName)
           r == PushSubframe(v, "Block", a, n)
           s == Enter(r, handled)
           t == SetInsertPoint(Br(s, subframe(s).entry), subframe(s).entry)
           p == [nest EXCEPT ![Len(nest)].last = "open"]
<1>1. Sound(ir) /\ Len(nest) > 0 /\ nest \in Seq(Nested)
  BY InnerFacts
<1>2. ir' = t /\ nest' = Append(p, BlockNest(s))
  BY DEF beginBlockStmt, pushNewFrame, Begin
<1>3. /\ Grows(ir, v) /\ Sound(v) /\ n \in 1..Len(v.blocks) /\ a \in 1..Len(v.blocks)
      /\ n \in Nat /\ a \in Nat
      /\ n \notin 1..Len(ir.blocks) /\ a \notin 1..Len(ir.blocks)
  BY <1>1, NameFacts, TwoBlocks
<1> HIDE DEF v, n, a
<1>5. k \in Nested /\ k.stmt = "block" /\ k.merge = n /\ k.next = a /\ k.pad = 0
  <2>1. n \in Nat /\ a \in Nat /\ NoName \in Tag \cup {NoName}
    BY <1>3
  <2> QED BY <2>1, StatementFacts
<1> HIDE DEF k
<1>6. /\ Good(r, Append(p, k)) /\ p \in Seq(Nested) /\ r.blocks = v.blocks
      /\ r.frames[Len(r.frames)] = [kind |-> "Block", entry |-> a, merge |-> n,
                                    saved |-> FALSE, landingPad |-> 0]
  <2>1. k.stmt \notin Loops /\ k.stmt # "handler" /\ k.stmt # "if"
    BY <1>5 DEF Loops
  <2>2. "Block" \in {"Block", "Loop"} /\ (k.stmt \in Loops <=> "Block" = "Loop")
    BY <2>1
  <2>3. k.merge \in 1..Len(v.blocks) /\ k.next \in 1..Len(v.blocks)
    BY <1>3, <1>5
  <2>5. a \in 1..Len(v.blocks) /\ n \in 1..Len(v.blocks) /\ Grows(ir, v)
    BY <1>3
  <2>6. k \in Nested /\ (k.stmt = "block" => k.pad = 0)
    BY <1>5
  <2>7. Good(r, Append(p, k))
    <3>1. p = [nest EXCEPT ![Len(nest)].last = "open"]
      OBVIOUS
    <3> HIDE DEF p
    <3> QED BY <3>1, <1>3, <2>1, <2>2, <2>3, <2>5, <2>6, GoodBegin
  <2>8. a \in Nat /\ n \in Nat /\ Sound(v) /\ p \in Seq(Nested)
    BY <1>1, <1>3, TouchLast
  <2> QED BY <2>7, <2>8, PushFacts
<1> HIDE DEF r, p
<1>7. /\ Consistent(s, Append(p, BlockNest(s)))
      /\ Sound(s) /\ subframe(s).entry \in 1..Len(s.blocks) /\ BlockNest(s).stmt = "block"
  <2>1. n \in 1..Len(r.blocks) /\ a \in 1..Len(r.blocks)
    BY <1>3, <1>6
  <2>2. Consistent(r, Append(p, k))
    BY <1>6 DEF Good
  <2> QED BY <1>6, <2>1, <2>2, EnterFacts DEF k
<1>8. Len(p) > 0 /\ p[1].stmt \in {"block", "handlers"}
  BY <1>1, GoodTouch, GrowsRefl DEF Good, p
<1> DEFINE e == subframe(s).entry
           w == Br(s, e)
<1> HIDE DEF s
<1>9. Grows(s, t)
  <2>1. e \in Nat /\ e \in 1..Len(s.blocks)
    BY <1>7
  <2> HIDE DEF e
  <2>2. Grows(s, w) /\ Sound(w) /\ Len(w.blocks) = Len(s.blocks)
    BY <1>7, <2>1, BrGrows DEF Grows
  <2> HIDE DEF w
  <2>3. Grows(w, SetInsertPoint(w, e))
    BY <2>1, <2>2, SetInsertPointGrows
  <2>4. Grows(s, SetInsertPoint(w, e))
    BY <1>7, <2>2, <2>3, GrowsTransitive
  <2> QED BY <2>4 DEF w, e
<1> HIDE DEF t
<1>10. Consistent(t, Append(p, BlockNest(s)))
  BY <1>7, <1>9, ConsistentGrows
<1>11. Len(Append(p, BlockNest(s))) > 0 /\ Append(p, BlockNest(s))[1] = p[1]
  <2>1. Append(p, BlockNest(s)) \in Seq(Nested)
    BY <1>7 DEF Consistent, NestSound
  <2>2. p \in Seq(Nested)
    BY <1>6
  <2> QED BY <1>8, <2>2
<1> QED BY <1>2, <1>8, <1>10, <1>11 DEF Good
-----------------------------------------------------------------------------
\* Blocks are never lost, and what has not been made yet was not made before.
LEMMA Kept ==
  ASSUME NEW s, NEW t, Sound(s), Grows(s, t), NEW b
  PROVE  /\ b \in 1..Len(s.blocks) => b \in 1..Len(t.blocks)
         /\ b \notin 1..Len(t.blocks) => b \notin 1..Len(s.blocks)
<1>1. Len(s.blocks) \in Nat /\ Len(t.blocks) \in Nat /\ Len(s.blocks) =< Len(t.blocks)
  BY SoundLength DEF Grows
<1> QED BY <1>1 DEF Grows

\* Whatever only grows the state keeps the agreement.
LEMMA GoodGrows ==
  ASSUME NEW s, NEW nst, Good(s, nst), NEW t, Grows(s, t)
  PROVE  Good(t, nst)
BY ConsistentGrows DEF Good

\* The pop and the branches that end a compound statement keep the agreement.
LEMMA EndGood ==
  ASSUME Good(ir, nest), Len(nest) > 1, nest[Len(nest)].stmt # "handler",
         NEW s, Grows(ir, s), NEW t, Grows(popFrame(s), t), End(t)
  PROVE  Good(ir', nest')
<1> DEFINE u == popFrame(s)
<1>1. ir' = t /\ nest' = Front(nest)
  BY DEF End
<1>2. Good(s, nest)
  BY GoodGrows
<1>3. Sound(s) /\ Len(s.frames) > 0
  BY <1>2 DEF Good, Consistent, FramesSound
<1>4. Sound(u) /\ NamesApart(u) /\ u.frames = Front(s.frames) /\ Len(u.blocks) = Len(s.blocks)
  BY <1>2, <1>3, popFrameFacts DEF Good, Consistent
<1> HIDE DEF u
<1>5. Len(s.blocks) =< Len(u.blocks)
  BY <1>3, <1>4, SoundLength
<1>6. Good(u, Front(nest))
  BY <1>2, <1>4, <1>5, GoodEnd
<1>7. Good(t, Front(nest))
  BY <1>6, GoodGrows DEF u
<1> QED BY <1>1, <1>7

\* Going on in another block after a pop.
LEMMA PopThenSetInsert ==
  ASSUME NEW s, Sound(s), Len(s.frames) > 0, NEW b \in 1..Len(s.blocks)
  PROVE  Grows(popFrame(s), SetInsertPoint(popFrame(s), b))
<1> DEFINE u == popFrame(s)
<1>1. Sound(u) /\ Len(u.blocks) = Len(s.blocks)
  BY popFrameFacts
<1> HIDE DEF u
<1>2. Grows(u, SetInsertPoint(u, b))
  BY <1>1, SetInsertPointGrows
<1> QED BY <1>2 DEF u

\* endBlockStmt keeps the agreement.
LEMMA endBlockGood ==
  ASSUME Good(ir, nest), endBlockStmt
  PROVE  Good(ir', nest')
<1> DEFINE s == BrIfNeeded(ir, Inner.merge)
           t == SetInsertPoint(popFrame(s), Inner.merge)
<1>1. Sound(ir) /\ Inner.merge \in 1..Len(ir.blocks) /\ Len(ir.frames) > 0 /\ Inner = nest[Len(nest)]
  BY InnerFacts
<1>2. Len(nest) > 1 /\ Inner.stmt = "block" /\ End(t)
  BY DEF endBlockStmt, Complete
<1>3. Grows(ir, s) /\ Sound(s) /\ Len(s.blocks) = Len(ir.blocks) /\ s.frames = ir.frames
  BY <1>1, BrGrows DEF Grows
<1> HIDE DEF s
<1>4. Grows(popFrame(s), t)
  BY <1>1, <1>3, PopThenSetInsert
<1>5. nest[Len(nest)].stmt # "handler"
  BY <1>1, <1>2
<1> HIDE DEF t
<1> QED BY <1>2, <1>3, <1>4, <1>5, EndGood

\* endLoopStmt keeps the agreement, although it branches after the pop.
LEMMA endLoopGood ==
  ASSUME Good(ir, nest), endLoopStmt
  PROVE  Good(ir', nest')
<1> DEFINE s == popFrame(ir)
           r == BrIfNeeded(s, Inner.next)
           t == SetInsertPoint(r, Inner.merge)
<1>1. /\ Sound(ir) /\ Inner.merge \in 1..Len(ir.blocks) /\ Len(ir.frames) > 0
      /\ Inner = nest[Len(nest)] /\ Inner.next \in 1..Len(ir.blocks)
      /\ Inner.stmt \notin {"block", "handlers"} => Len(nest) > 1
  BY InnerFacts
<1>2. Inner.stmt \in Loops /\ End(t)
  BY DEF endLoopStmt, Complete
<1>3. Sound(s) /\ Len(s.blocks) = Len(ir.blocks)
  BY <1>1, popFrameFacts
<1> HIDE DEF s
<1>4. Grows(s, r) /\ Sound(r) /\ Len(r.blocks) = Len(s.blocks)
  BY <1>1, <1>3, BrGrows DEF Grows
<1> HIDE DEF r
<1>5. Grows(r, t)
  BY <1>1, <1>3, <1>4, SetInsertPointGrows
<1> HIDE DEF t
<1>6. Grows(s, t)
  BY <1>3, <1>4, <1>5, GrowsTransitive
<1>7. Len(nest) > 1 /\ nest[Len(nest)].stmt # "handler"
  BY <1>1, <1>2 DEF Loops
<1>8. Grows(ir, ir) /\ Grows(popFrame(ir), t)
  BY <1>1, <1>6, GrowsRefl DEF s
<1> QED BY <1>2, <1>7, <1>8, EndGood

\* endIfStmt keeps the agreement.
LEMMA endIfGood ==
  ASSUME Good(ir, nest), endIfStmt
  PROVE  Good(ir', nest')
<1> DEFINE s == BrIfNeeded(ir, Inner.merge)
           t == SetInsertPoint(popFrame(s), Inner.merge)
<1>1. /\ Sound(ir) /\ Inner.merge \in 1..Len(ir.blocks) /\ Len(ir.frames) > 0
      /\ Inner = nest[Len(nest)]
      /\ Inner.stmt \notin {"block", "handlers"} => Len(nest) > 1
  BY InnerFacts
<1>2. Inner.stmt = "if" /\ End(t)
  BY DEF endIfStmt, Complete, Branched
<1>3. Grows(ir, s) /\ Sound(s) /\ Len(s.blocks) = Len(ir.blocks) /\ s.frames = ir.frames
  BY <1>1, BrGrows DEF Grows
<1> HIDE DEF s
<1>4. Grows(popFrame(s), t)
  BY <1>1, <1>3, PopThenSetInsert
<1>5. nest[Len(nest)].stmt # "handler" /\ Len(nest) > 1
  BY <1>1, <1>2
<1> HIDE DEF t
<1> QED BY <1>2, <1>3, <1>4, <1>5, EndGood

\* endHandlers keeps the agreement.
LEMMA endHandlersGood ==
  ASSUME Good(ir, nest), endHandlers
  PROVE  Good(ir', nest')
<1> DEFINE r == IF Inner.more = "others" THEN ir ELSE raiseExinfo(ir)
           s == SetInsertPoint(r, Inner.merge)
           t == SetInsertPoint(popFrame(s), Inner.merge)
<1>1. /\ Sound(ir) /\ Inner.merge \in 1..Len(ir.blocks) /\ Len(ir.frames) > 0
      /\ Inner = nest[Len(nest)]
  BY InnerFacts
<1>2. Inner.stmt = "handlers" /\ Len(nest) > 1 /\ End(t)
  BY DEF endHandlers, Complete
<1>3. Grows(ir, r) /\ Sound(r) /\ r.frames = ir.frames
  <2>1. Grows(ir, ir) /\ Grows(ir, raiseExinfo(ir)) /\ raiseExinfo(ir).frames = ir.frames
    BY <1>1, GrowsRefl, raiseExinfoGrows
  <2> QED BY <2>1 DEF Grows
<1> HIDE DEF r
<1>4. Inner.merge \in 1..Len(r.blocks)
  BY <1>1, <1>3, Kept
<1>5. Grows(r, s) /\ Sound(s) /\ s.blocks = r.blocks /\ s.frames = r.frames
  BY <1>3, <1>4, SetInsertPointGrows DEF Grows
<1> HIDE DEF s
<1>6. Grows(ir, s)
  BY <1>1, <1>3, <1>5, GrowsTransitive
<1>7. Grows(popFrame(s), t)
  BY <1>1, <1>3, <1>4, <1>5, PopThenSetInsert
<1>8. nest[Len(nest)].stmt # "handler"
  BY <1>1, <1>2
<1> HIDE DEF t
<1> QED BY <1>2, <1>6, <1>7, <1>8, EndGood

\* endHandler keeps the agreement: it pops no subframe.
LEMMA endHandlerGood ==
  ASSUME Good(ir, nest), endHandler
  PROVE  Good(ir', nest')
<1> DEFINE s == BrIfNeeded(ir, Inner.merge)
           t == SetInsertPoint(s, Inner.next)
<1>1. /\ Sound(ir) /\ Inner.merge \in 1..Len(ir.blocks) /\ Inner.next \in 1..Len(ir.blocks)
      /\ Inner = nest[Len(nest)] /\ nest \in Seq(Nested) /\ Len(nest) > 0
      /\ Inner.stmt \notin {"block", "handlers"} => Len(nest) > 1
  BY InnerFacts
<1>2. Inner.stmt = "handler" /\ ir' = t /\ nest' = Front(nest)
  BY DEF endHandler, Complete, End
<1>3. Grows(ir, s) /\ Sound(s) /\ Len(s.blocks) = Len(ir.blocks)
  BY <1>1, BrGrows DEF Grows
<1> HIDE DEF s
<1>4. Grows(s, t)
  BY <1>1, <1>3, SetInsertPointGrows
<1> HIDE DEF t
<1>5. Consistent(t, nest)
  BY <1>1, <1>3, <1>4, GrowsTransitive, ConsistentGrows DEF Good
<1>6. nest[Len(nest)].stmt = "handler" /\ Len(nest) > 1 /\ Len(nest) \in Nat
  BY <1>1, <1>2
<1>7. Consistent(t, Front(nest))
  BY <1>1, <1>5, <1>6, ConsistentEndHandler
<1>8. Len(Front(nest)) > 0 /\ Front(nest)[1] = nest[1]
  BY <1>1, <1>6, FrontFacts
<1> QED BY <1>2, <1>7, <1>8 DEF Good
-----------------------------------------------------------------------------
\* Replacing the innermost statement leaves the others alone.
LEMMA SetLast ==
  ASSUME NEW q \in Seq(Nested), Len(q) > 0, NEW n \in Nested
  PROVE  LET p == [q EXCEPT ![Len(q)] = n]
         IN  /\ p \in Seq(Nested) /\ Len(p) = Len(q) /\ p[Len(q)] = n
             /\ \A i \in 1..Len(q) : i # Len(q) => p[i] = q[i]
OBVIOUS

\* emitHandlers keeps the agreement: the pad it removes is that of its own
\* block.
LEMMA emitHandlersGood ==
  ASSUME Good(ir, nest), emitHandlers
  PROVE  Good(ir', nest')
<1> DEFINE g == BrIfNeeded(ir, Inner.merge)
           r == removeLandingPad(g)
           s == makeBasicBlock(r, "lpad")
           pad == getLandingPad(ir)
           a == SetInsertPoint(s, pad)
           b == Instruction(a)
           t == Br(b, Newest(s))
           u == SetInsertPoint(t, Newest(t))
           n == [Statement("handlers", Inner.merge, Newest(t), NoName) EXCEPT !.more = "handler"]
           k == Statement("handlers", Inner.merge, Inner.merge, NoName)
           l == Len(nest)
<1>1. /\ Sound(ir) /\ Inner.merge \in 1..Len(ir.blocks) /\ Inner = nest[l]
      /\ nest \in Seq(Nested) /\ l > 0 /\ Len(ir.blocks) \in Nat
  BY InnerFacts
<1>2. Inner.stmt = "block" /\ Inner.pad # 0 /\ ir' = u /\ nest' = [nest EXCEPT ![l] = n]
  BY DEF emitHandlers, Complete, Continue
<1>3. pad \in 1..Len(ir.blocks)
  BY <1>1, <1>2, TopPad DEF Good
<1>4. Grows(ir, g) /\ Sound(g) /\ Len(g.blocks) = Len(ir.blocks)
  BY <1>1, BrGrows DEF Grows
<1> HIDE DEF g, pad
<1>5. Consistent(g, nest)
  BY <1>4, ConsistentGrows DEF Good
<1>6. r = [g EXCEPT !.frames[Len(g.frames)].landingPad = 0]
  BY <1>1, <1>2, <1>5, TopPad DEF removeLandingPad
<1>7. k \in Nested /\ k.stmt = "handlers" /\ k.merge = Inner.merge /\ k.next = Inner.merge
      /\ k.tag = NoName /\ k.pad = 0
  BY <1>1, StatementFacts
<1> HIDE DEF k, r
<1>8. Consistent(r, [nest EXCEPT ![l] = k]) /\ r.blocks = g.blocks
  <2>1. 0 \in 0..Len(g.blocks) /\ k.merge \in 1..Len(g.blocks) /\ k.next \in 1..Len(g.blocks)
    BY <1>1, <1>4, <1>7
  <2>2. nest[Len(nest)].stmt = "block" /\ Len(nest) > 0
    BY <1>1, <1>2
  <2> QED BY <1>5, <1>6, <1>7, <2>1, <2>2, ConsistentPad
<1>9. Sound(r)
  BY <1>8 DEF Consistent
<1>10. /\ Grows(r, s) /\ Sound(s) /\ Len(s.blocks) = Len(ir.blocks) + 1
       /\ Newest(s) = Len(ir.blocks) + 1
  <2>1. /\ Grows(r, s) /\ Len(s.blocks) = Len(r.blocks) + 1 /\ Newest(s) = Len(r.blocks) + 1
    BY <1>9, NameFacts, makeBasicBlockGrows
  <2> HIDE DEF s
  <2> QED BY <2>1, <1>4, <1>8 DEF Grows
<1> HIDE DEF s
<1>11. pad \in 1..Len(s.blocks) /\ Newest(s) \in Nat
  BY <1>1, <1>3, <1>10
<1>12. Grows(s, a) /\ Sound(a) /\ a.blocks = s.blocks
  BY <1>10, <1>11, SetInsertPointGrows DEF Grows
<1> HIDE DEF a
<1>13. Grows(a, b) /\ Sound(b) /\ Len(b.blocks) = Len(a.blocks)
  BY <1>12, InstructionGrows DEF Grows
<1> HIDE DEF b
<1>14. Grows(b, t) /\ Sound(t) /\ Len(t.blocks) = Len(b.blocks)
  BY <1>11, <1>13, BrGrows DEF Grows
<1> HIDE DEF t
<1>15. Newest(t) \in 1..Len(t.blocks)
  BY <1>14, SoundLength DEF Newest
<1>16. Grows(t, u) /\ u.blocks = t.blocks
  BY <1>14, <1>15, SetInsertPointGrows
<1> HIDE DEF u
<1>17. Grows(r, u)
  <2>1. Grows(r, a)
    BY <1>9, <1>10, <1>12, GrowsTransitive
  <2>2. Grows(r, b)
    BY <1>9, <1>13, <2>1, GrowsTransitive
  <2>3. Grows(r, t)
    BY <1>9, <1>14, <2>2, GrowsTransitive
  <2> QED BY <1>9, <1>16, <2>3, GrowsTransitive
<1>18. /\ n \in Nested /\ n.stmt = "handlers" /\ n.merge = Inner.merge /\ n.next = Newest(t)
       /\ n.tag = NoName /\ n.pad = 0
  <2>1. Newest(t) \in Nat /\ Inner.merge \in Nat /\ NoName \in Tag \cup {NoName}
    BY <1>1, <1>15
  <2> DEFINE w == Statement("handlers", Inner.merge, Newest(t), NoName)
  <2>2. /\ w \in Nested /\ w.stmt = "handlers" /\ w.merge = Inner.merge /\ w.next = Newest(t)
        /\ w.tag = NoName /\ w.pad = 0
    BY <2>1, StatementFacts
  <2> HIDE DEF w
  <2> QED BY <2>2 DEF Nested, w
<1> HIDE DEF n
<1> DEFINE p == [nest EXCEPT ![l] = k]
           q == [nest EXCEPT ![l] = n]
<1>19. /\ p \in Seq(Nested) /\ Len(p) = l /\ p[l] = k
       /\ \A i \in 1..l : i # l => p[i] = nest[i]
  BY <1>1, <1>7, SetLast
<1>20. /\ q \in Seq(Nested) /\ Len(q) = l /\ q[l] = n
       /\ \A i \in 1..l : i # l => q[i] = nest[i]
  BY <1>1, <1>18, SetLast
<1>21. Consistent(u, p)
  BY <1>8, <1>17, ConsistentGrows
<1> HIDE DEF p, q
<1>22. Consistent(u, q)
  <2>1. Newest(t) \in 1..Len(u.blocks)
    BY <1>15, <1>16
  <2>2. ASSUME NEW i \in 1..Len(p)
        PROVE  /\ q[i].stmt = p[i].stmt /\ q[i].merge = p[i].merge
               /\ q[i].tag = p[i].tag /\ q[i].pad = p[i].pad
               /\ q[i].next = p[i].next \/ (q[i].stmt # "if" /\ q[i].next \in 1..Len(u.blocks))
    <3>1. CASE i = l
      BY <3>1, <2>1, <1>7, <1>18, <1>19, <1>20
    <3>2. CASE i # l
      BY <3>2, <1>19, <1>20
    <3> QED BY <3>1, <3>2
  <2> QED BY <1>19, <1>20, <1>21, <2>2, ConsistentTouch
<1>23. Len(q) > 0 /\ q[1].stmt \in {"block", "handlers"}
  <2>1. 1 \in 1..l /\ nest[1].stmt \in {"block", "handlers"}
    BY <1>1 DEF Good
  <2> QED BY <1>1, <1>18, <1>20, <2>1
<1> QED BY <1>2, <1>22, <1>23 DEF Good, q

\* beginHandler keeps the agreement.
LEMMA beginHandlerGood ==
  ASSUME Good(ir, nest), NEW choices \in 0..MaxChoices, beginHandler(choices)
  PROVE  Good(ir', nest')
<1> DEFINE s == makeBasicBlock(ir, NoName)
           body == Newest(s)
           t == IF choices = 0 THEN Br(s, body) ELSE Compare(s, body, choices)
           h == [Inner EXCEPT !.next = t.insert, !.last = "open",
                              !.more = IF choices = 0 THEN "others" ELSE "handler"]
           u == SetInsertPoint(t, body)
           l == Len(nest)
           p == [nest EXCEPT ![l] = h]
           n == Statement("handler", Inner.merge, t.insert, NoName)
<1>1. /\ Sound(ir) /\ Inner.merge \in 1..Len(ir.blocks) /\ Inner = nest[l]
      /\ nest \in Seq(Nested) /\ l > 0 /\ Len(ir.blocks) \in Nat /\ Inner \in Nested
  BY InnerFacts
<1>2. Inner.stmt = "handlers" /\ ir' = u /\ nest' = Append(p, n)
  BY DEF beginHandler
<1>3. Grows(ir, s) /\ Sound(s) /\ body \in 1..Len(s.blocks) /\ body \in Nat
  <2>1. Grows(ir, s) /\ Len(s.blocks) = Len(ir.blocks) + 1 /\ body = Len(ir.blocks) + 1
    BY <1>1, NameFacts, makeBasicBlockGrows
  <2> HIDE DEF s, body
  <2> QED BY <2>1, <1>1 DEF Grows
<1> HIDE DEF s, body
<1>4. Grows(s, t) /\ Sound(t)
  <2>1. choices \in Nat
    BY BoundAssumption
  <2>2. Grows(s, Compare(s, body, choices)) /\ Grows(s, Br(s, body))
    BY <1>3, <2>1, CompareGrows, BrGrows
  <2> QED BY <2>2 DEF Grows
<1> HIDE DEF t
<1>5. body \in 1..Len(t.blocks)
  BY <1>3, <1>4, Kept
<1>6. Grows(t, u) /\ u.blocks = t.blocks
  BY <1>4, <1>5, SetInsertPointGrows
<1> HIDE DEF u
<1>7. Grows(ir, u)
  <2>1. Grows(ir, t)
    BY <1>1, <1>3, <1>4, GrowsTransitive
  <2> QED BY <1>1, <1>6, <2>1, GrowsTransitive
<1>8. t.insert \in 1..Len(u.blocks) /\ t.insert \in Nat
  BY <1>4, <1>6, SoundLength DEF Sound
<1>9. /\ h \in Nested /\ h.stmt = Inner.stmt /\ h.merge = Inner.merge /\ h.next = t.insert
      /\ h.tag = Inner.tag /\ h.pad = Inner.pad
  <2>1. PICK k \in Nested : k = Inner
    BY <1>1
  <2>2. PICK m \in {"handler", "others"} : m = IF choices = 0 THEN "others" ELSE "handler"
    OBVIOUS
  <2>3. PICK e \in Nat : e = t.insert
    BY <1>8
  <2>4. h = [k EXCEPT !.next = e, !.last = "open", !.more = m]
    BY <2>1, <2>2, <2>3
  <2> HIDE DEF h
  <2>5. /\ [k EXCEPT !.next = e, !.last = "open", !.more = m] \in Nested
        /\ h.stmt = k.stmt /\ h.merge = k.merge /\ h.next = e
        /\ h.tag = k.tag /\ h.pad = k.pad
    BY <2>4 DEF Nested
  <2> QED BY <2>1, <2>3, <2>4, <2>5
<1> HIDE DEF h
<1>10. n \in Nested /\ n.stmt = "handler" /\ n.merge = Inner.merge /\ n.next = t.insert
  <2>1. Inner.merge \in Nat /\ NoName \in Tag \cup {NoName}
    BY <1>1
  <2> QED BY <1>8, <2>1, StatementFacts
<1> HIDE DEF n
<1>11. /\ p \in Seq(Nested) /\ Len(p) = l /\ p[l] = h
       /\ \A i \in 1..l : i # l => p[i] = nest[i]
  BY <1>1, <1>9, SetLast
<1> HIDE DEF p
<1>12. Consistent(u, nest)
  BY <1>7, ConsistentGrows DEF Good
<1>13. Consistent(u, p)
  <2>1. ASSUME NEW i \in 1..Len(nest)
        PROVE  /\ p[i].stmt = nest[i].stmt /\ p[i].merge = nest[i].merge
               /\ p[i].tag = nest[i].tag /\ p[i].pad = nest[i].pad
               /\ p[i].next = nest[i].next \/ (p[i].stmt # "if" /\ p[i].next \in 1..Len(u.blocks))
    <3>1. CASE i = l
      BY <3>1, <1>1, <1>2, <1>8, <1>9, <1>11
    <3>2. CASE i # l
      BY <3>2, <1>11
    <3> QED BY <3>1, <3>2
  <2> QED BY <1>11, <1>12, <2>1, ConsistentTouch
<1>14. n.merge \in 1..Len(u.blocks) /\ n.next \in 1..Len(u.blocks)
  BY <1>1, <1>7, <1>8, <1>10, Kept
<1>15. Consistent(u, Append(p, n))
  BY <1>10, <1>13, <1>14, ConsistentHandler
<1>16. Len(Append(p, n)) > 0 /\ Append(p, n)[1] = p[1] /\ p[1].stmt \in {"block", "handlers"}
  <2>1. 1 \in 1..l /\ nest[1].stmt \in {"block", "handlers"}
    BY <1>1 DEF Good
  <2>2. p[1].stmt \in {"block", "handlers"}
    BY <1>2, <1>9, <1>11, <2>1
  <2> QED BY <1>1, <1>10, <1>11, <2>2
<1> QED BY <1>2, <1>15, <1>16 DEF Good
-----------------------------------------------------------------------------
\* The block for what follows a branch is made for it.
LEMMA FollowUpFacts ==
  ASSUME NEW s, Sound(s), NEW more \in {"none", "elsif", "else"}
  PROVE  LET t == FollowUp(s, more)
         IN  /\ Grows(s, t) /\ Sound(t) /\ Newest(t) \in 1..Len(t.blocks)
             /\ more = "none" => Newest(t) = Newest(s)
             /\ more # "none" => Newest(t) \notin 1..Len(s.blocks)
<1> DEFINE u == makeBasicBlock(s, more)
<1>1. more # "none" => /\ Grows(s, u) /\ Newest(u) = Len(s.blocks) + 1
                       /\ Len(u.blocks) = Len(s.blocks) + 1
  BY NameFacts, makeBasicBlockGrows
<1> HIDE DEF u
<1>2. more # "none" => /\ Sound(u) /\ Newest(u) \in 1..Len(u.blocks)
                       /\ Newest(u) \notin 1..Len(s.blocks)
  BY <1>1, SoundLength DEF Grows
<1>3. Grows(s, s) /\ Newest(s) \in 1..Len(s.blocks)
  BY GrowsRefl, SoundLength DEF Newest
<1> QED BY <1>1, <1>2, <1>3 DEF FollowUp, u

\* beginIfStmt keeps the agreement.
LEMMA beginIfGood ==
  ASSUME Good(ir, nest), NEW more \in {"none", "elsif", "else"}, beginIfStmt(more)
  PROVE  Good(ir', nest')
<1> DEFINE c == Condition(ir)
           s == makeBasicBlock(makeBasicBlock(c, "then"), "merge")
           m == Newest(s)
           b == m - 1
           t == FollowUp(s, more)
           e == Newest(t)
           r == Terminator(t, {b, e}, {})
           v == SetInsertPoint(r, b)
           n == IfNest(m, e, more)
           p == [nest EXCEPT ![Len(nest)].last = "open"]
<1>1. Sound(ir)
  BY InnerFacts
<1>2. ir' = PushSubframe(v, "Block", b, m) /\ nest' = Append(p, n)
  BY DEF beginIfStmt, Begin, Branch
<1>3. Grows(ir, c) /\ Sound(c)
  BY <1>1, emitCallGrows DEF Grows, Condition
<1> HIDE DEF c
<1>4. /\ Grows(c, s) /\ Sound(s) /\ m \in 1..Len(s.blocks) /\ b \in 1..Len(s.blocks)
      /\ m \in Nat /\ b \in Nat /\ m \notin 1..Len(c.blocks) /\ b \notin 1..Len(c.blocks)
  BY <1>3, NameFacts, TwoBlocks
<1>6. /\ Grows(s, t) /\ Sound(t) /\ e \in 1..Len(t.blocks)
      /\ more = "none" => e = m
      /\ more # "none" => e \notin 1..Len(s.blocks)
  <2> HIDE DEF s
  <2> QED BY <1>4, FollowUpFacts
<1> HIDE DEF s, m, b, t, e
<1>7. m \in 1..Len(t.blocks) /\ b \in 1..Len(t.blocks)
  BY <1>4, <1>6, Kept
<1>8. Grows(t, r) /\ Sound(r) /\ Len(r.blocks) = Len(t.blocks)
  <2>1. {b, e} \in SUBSET Nat /\ {} \in SUBSET Nat
    BY <1>4, <1>6
  <2> QED BY <2>1, <1>6, TerminatorGrows DEF Grows
<1> HIDE DEF r
<1>9. Grows(r, v)
  BY <1>7, <1>8, SetInsertPointGrows
<1> HIDE DEF v
<1>10. Grows(t, v)
  BY <1>6, <1>8, <1>9, GrowsTransitive
<1>11. Grows(ir, v)
  <2>1. Grows(ir, s)
    BY <1>1, <1>3, <1>4, GrowsTransitive
  <2>2. Grows(ir, t)
    BY <1>1, <1>6, <2>1, GrowsTransitive
  <2> QED BY <1>1, <1>10, <2>2, GrowsTransitive
<1>12. /\ m \in 1..Len(v.blocks) /\ b \in 1..Len(v.blocks) /\ e \in 1..Len(v.blocks)
       /\ m \notin 1..Len(ir.blocks) /\ b \notin 1..Len(ir.blocks) /\ e \notin 1..Len(ir.blocks)
  <2>1. Grows(ir, s)
    BY <1>1, <1>3, <1>4, GrowsTransitive
  <2> QED BY <2>1, <1>1, <1>3, <1>4, <1>6, <1>7, <1>10, Kept
<1>13. n \in Nested /\ n.stmt = "if" /\ n.merge = m /\ n.next = e
  <2>1. e \in Nat /\ m \in Nat
    BY <1>4, <1>6
  <2> QED BY <2>1, IfNestFacts
<1> HIDE DEF n
<1>14. Good(PushSubframe(v, "Block", b, m), Append(p, n))
  <2>1. n.stmt \notin Loops /\ n.stmt # "handler" /\ n.stmt # "block"
    BY <1>13 DEF Loops
  <2>2. "Block" \in {"Block", "Loop"} /\ (n.stmt \in Loops <=> "Block" = "Loop")
    BY <2>1
  <2>3. /\ n.merge \in 1..Len(v.blocks) /\ n.next \in 1..Len(v.blocks)
        /\ n.next \notin 1..Len(ir.blocks) /\ n.merge \notin 1..Len(ir.blocks)
    BY <1>12, <1>13
  <2>4. b \notin 1..Len(ir.blocks) /\ m \notin 1..Len(ir.blocks)
    BY <1>12
  <2>5. p = [nest EXCEPT ![Len(nest)].last = "open"]
    OBVIOUS
  <2>6. b \in 1..Len(v.blocks) /\ m \in 1..Len(v.blocks) /\ n \in Nested
    BY <1>12, <1>13
  <2> HIDE DEF p
  <2> QED BY <1>11, <2>1, <2>2, <2>3, <2>4, <2>5, <2>6, GoodBegin
<1> QED BY <1>2, <1>14

\* The state once a branch of an if statement is finished.
LEMMA BranchedFacts ==
  ASSUME Good(ir, nest), Inner.stmt = "if"
  PROVE  LET g == BrIfNeeded(ir, Inner.merge)
         IN  /\ Good(g, nest) /\ Sound(Branched) /\ NamesApart(Branched)
             /\ Branched.frames = Front(g.frames) /\ Len(g.blocks) =< Len(Branched.blocks)
             /\ Inner.merge \in 1..Len(Branched.blocks) /\ Inner.next \in 1..Len(Branched.blocks)
             /\ \A k \in 1..Len(g.frames) : g.frames[k].kind = "Loop" =>
                  Apart(g.frames[k], Inner.next, Inner.merge)
             /\ Len(nest) > 1 /\ nest[Len(nest)].stmt # "handler" /\ Inner.merge \in Nat
<1> DEFINE g == BrIfNeeded(ir, Inner.merge)
<1>1. /\ Sound(ir) /\ Inner.merge \in 1..Len(ir.blocks) /\ Inner.next \in 1..Len(ir.blocks)
      /\ Inner = nest[Len(nest)] /\ Len(ir.frames) > 0 /\ Inner.merge \in Nat
      /\ \A k \in 1..Len(ir.frames) : ir.frames[k].kind = "Loop" =>
           Apart(ir.frames[k], Inner.next, Inner.merge)
      /\ Len(nest) > 1 /\ nest[Len(nest)].stmt # "handler"
  <2>1. Inner.stmt \notin {"block", "handlers"} /\ Inner.stmt # "handler"
    OBVIOUS
  <2> QED BY <2>1, InnerFacts
<1>2. Grows(ir, g) /\ Sound(g) /\ Len(g.blocks) = Len(ir.blocks) /\ g.frames = ir.frames
  BY <1>1, BrGrows DEF Grows
<1>3. Branched = popFrame(g)
  BY DEF Branched
<1> HIDE DEF g
<1>4. Good(g, nest)
  BY <1>2, GoodGrows
<1>5. /\ Sound(Branched) /\ NamesApart(Branched)
      /\ Branched.frames = Front(g.frames) /\ Len(Branched.blocks) = Len(g.blocks)
  BY <1>1, <1>2, <1>3, <1>4, popFrameFacts DEF Good, Consistent
<1>6. Len(g.blocks) =< Len(Branched.blocks)
  BY <1>2, <1>5, SoundLength
<1>7. Inner.merge \in 1..Len(Branched.blocks) /\ Inner.next \in 1..Len(Branched.blocks)
  BY <1>1, <1>2, <1>5
<1> QED BY <1>1, <1>2, <1>4, <1>5, <1>6, <1>7 DEF g

\* emitElse keeps the agreement.
LEMMA emitElseGood ==
  ASSUME Good(ir, nest), emitElse
  PROVE  Good(ir', nest')
<1> DEFINE g == BrIfNeeded(ir, Inner.merge)
           v == SetInsertPoint(Branched, Inner.next)
           n == IfNest(Inner.merge, Inner.merge, "none")
<1>1. /\ Inner.stmt = "if" /\ ir' = PushSubframe(v, "Block", Inner.next, Inner.merge)
      /\ nest' = [nest EXCEPT ![Len(nest)] = n]
  BY DEF emitElse, Complete, Continue, Branch
<1>2. /\ Good(g, nest) /\ Sound(Branched) /\ NamesApart(Branched)
      /\ Branched.frames = Front(g.frames) /\ Len(g.blocks) =< Len(Branched.blocks)
      /\ Inner.merge \in 1..Len(Branched.blocks) /\ Inner.next \in 1..Len(Branched.blocks)
      /\ \A k \in 1..Len(g.frames) : g.frames[k].kind = "Loop" =>
           Apart(g.frames[k], Inner.next, Inner.merge)
      /\ Len(nest) > 1 /\ nest[Len(nest)].stmt # "handler" /\ Inner.merge \in Nat
  BY <1>1, BranchedFacts
<1> HIDE DEF g
<1>3. Grows(Branched, v) /\ v.blocks = Branched.blocks
  BY <1>2, SetInsertPointGrows
<1>4. n \in Nested /\ n.stmt = "if" /\ n.merge = Inner.merge /\ n.next = Inner.merge
  BY <1>2, IfNestFacts
<1> HIDE DEF v, n
<1>5. /\ Inner.next \in 1..Len(v.blocks) /\ Inner.merge \in 1..Len(v.blocks)
      /\ n.merge \in 1..Len(v.blocks) /\ n.next \in 1..Len(v.blocks)
      /\ \A k \in 1..Len(g.frames) : g.frames[k].kind = "Loop" =>
           Apart(g.frames[k], Inner.next, Inner.merge) /\ Apart(g.frames[k], n.next, n.merge)
  BY <1>2, <1>3, <1>4 DEF Apart
<1>6. Good(PushSubframe(v, "Block", Inner.next, Inner.merge), [nest EXCEPT ![Len(nest)] = n])
  BY <1>2, <1>3, <1>4, <1>5, GoodReplace
<1> QED BY <1>1, <1>6

\* emitElsif keeps the agreement.
LEMMA emitElsifGood ==
  ASSUME Good(ir, nest), NEW more \in {"none", "elsif", "else"}, emitElsif(more)
  PROVE  Good(ir', nest')
<1> DEFINE g == BrIfNeeded(ir, Inner.merge)
           a == SetInsertPoint(Branched, Inner.next)
           s == FollowUp(a, more)
           e == IF more = "none" THEN Inner.merge ELSE Newest(s)
           t == makeBasicBlock(s, "body")
           b == Newest(t)
           c == Condition(t)
           r == Terminator(c, {b, e}, {})
           v == SetInsertPoint(r, b)
           n == IfNest(Inner.merge, e, more)
<1>1. /\ Inner.stmt = "if" /\ ir' = PushSubframe(v, "Block", b, Inner.merge)
      /\ nest' = [nest EXCEPT ![Len(nest)] = n]
  BY DEF emitElsif, Complete, Branch
<1>2. /\ Good(g, nest) /\ Sound(Branched) /\ NamesApart(Branched)
      /\ Branched.frames = Front(g.frames) /\ Len(g.blocks) =< Len(Branched.blocks)
      /\ Inner.merge \in 1..Len(Branched.blocks) /\ Inner.next \in 1..Len(Branched.blocks)
      /\ \A k \in 1..Len(g.frames) : g.frames[k].kind = "Loop" =>
           Apart(g.frames[k], Inner.next, Inner.merge)
      /\ Len(nest) > 1 /\ nest[Len(nest)].stmt # "handler" /\ Inner.merge \in Nat
  BY <1>1, BranchedFacts
<1> HIDE DEF g
<1>3. Grows(Branched, a) /\ Sound(a) /\ a.blocks = Branched.blocks
  BY <1>2, SetInsertPointGrows DEF Grows
<1> HIDE DEF a
<1>4. /\ Grows(a, s) /\ Sound(s) /\ Newest(s) \in 1..Len(s.blocks)
      /\ more # "none" => Newest(s) \notin 1..Len(a.blocks)
  BY <1>3, FollowUpFacts
<1> HIDE DEF s
<1>5. /\ Inner.merge \in 1..Len(s.blocks) /\ e \in 1..Len(s.blocks)
      /\ e = Inner.merge \/ e \notin 1..Len(Branched.blocks)
  BY <1>2, <1>3, <1>4, Kept
<1> HIDE DEF e
<1>6. /\ Grows(s, t) /\ Sound(t) /\ b \in 1..Len(t.blocks) /\ b \notin 1..Len(s.blocks)
  <2>1. Len(s.blocks) \in Nat
    BY <1>4, SoundLength
  <2>2. Grows(s, t) /\ Newest(t) = Len(s.blocks) + 1 /\ Len(t.blocks) = Len(s.blocks) + 1
    BY <1>4, NameFacts, makeBasicBlockGrows
  <2> HIDE DEF t
  <2> QED BY <2>1, <2>2 DEF Grows
<1> HIDE DEF t, b
<1>7. Grows(t, c) /\ Sound(c)
  BY <1>6, emitCallGrows DEF Grows, Condition
<1> HIDE DEF c
<1>8. Grows(c, r) /\ Sound(r)
  <2>1. {b, e} \in SUBSET Nat /\ {} \in SUBSET Nat
    BY <1>5, <1>6
  <2> QED BY <2>1, <1>7, TerminatorGrows DEF Grows
<1> HIDE DEF r
<1>9. Grows(t, r)
  BY <1>6, <1>7, <1>8, GrowsTransitive
<1>10. b \in 1..Len(r.blocks)
  BY <1>6, <1>9, Kept
<1>11. Grows(r, v)
  BY <1>8, <1>10, SetInsertPointGrows
<1> HIDE DEF v
<1>12. Grows(t, v)
  BY <1>6, <1>9, <1>11, GrowsTransitive
<1>13. Grows(s, v)
  BY <1>4, <1>6, <1>12, GrowsTransitive
<1>14. Grows(Branched, v)
  <2>1. Grows(Branched, s)
    BY <1>2, <1>3, <1>4, GrowsTransitive
  <2> QED BY <1>2, <1>13, <2>1, GrowsTransitive
<1>15. n \in Nested /\ n.stmt = "if" /\ n.merge = Inner.merge /\ n.next = e
  <2>1. e \in Nat /\ Inner.merge \in Nat
    BY <1>2, <1>5
  <2> QED BY <2>1, IfNestFacts
<1> HIDE DEF n
<1>16. b \in 1..Len(v.blocks)
  BY <1>6, <1>12, Kept
<1>17. Inner.merge \in 1..Len(v.blocks) /\ e \in 1..Len(v.blocks)
  BY <1>4, <1>5, <1>13, Kept
<1>18. /\ n.merge \in 1..Len(v.blocks) /\ n.next \in 1..Len(v.blocks)
       /\ \A k \in 1..Len(g.frames) : g.frames[k].kind = "Loop" =>
            Apart(g.frames[k], b, Inner.merge) /\ Apart(g.frames[k], n.next, n.merge)
  <2>1. \A k \in 1..Len(g.frames) : /\ g.frames[k].entry \in 1..Len(Branched.blocks)
                                    /\ g.frames[k].merge \in 1..Len(Branched.blocks)
    <3>1. Len(g.blocks) \in Nat /\ Len(Branched.blocks) \in Nat /\ Len(g.blocks) =< Len(Branched.blocks)
      BY <1>2, SoundLength DEF Good, Consistent
    <3> QED BY <3>1, <1>2 DEF Good, Consistent, FramesSound
  <2>2. b \notin 1..Len(Branched.blocks)
    BY <1>2, <1>3, <1>4, <1>6, Kept
  <2>3. \A k \in 1..Len(g.frames) : g.frames[k].kind = "Loop" =>
          Apart(g.frames[k], b, Inner.merge) /\ Apart(g.frames[k], e, Inner.merge)
    <3>1. \A k \in 1..Len(g.frames) : \A x :
            /\ g.frames[k].kind = "Loop"
            /\ x = Inner.merge \/ x \notin 1..Len(Branched.blocks)
            => Apart(g.frames[k], x, Inner.merge)
      BY <2>1, <1>2, Zenon DEF Apart
    <3> QED BY <3>1, <2>2, <1>5
  <2> QED BY <2>3, <1>15, <1>17
<1>19. Good(PushSubframe(v, "Block", b, Inner.merge), [nest EXCEPT ![Len(nest)] = n])
  BY <1>2, <1>14, <1>15, <1>16, <1>17, <1>18, GoodReplace
<1> QED BY <1>1, <1>19
-----------------------------------------------------------------------------
\* The common end of the three loop emitters keeps the agreement.
LEMMA LoopGood ==
  ASSUME Good(ir, nest), NEW w, Grows(ir, w), NEW stmt \in Loops,
         NEW body \in 1..Len(w.blocks), NEW merge \in 1..Len(w.blocks),
         NEW next \in 1..Len(w.blocks), NEW tag \in Tag \cup {NoName},
         body \notin 1..Len(ir.blocks), merge \notin 1..Len(ir.blocks),
         LoopBody(w, stmt, body, merge, next, tag)
  PROVE  Good(ir', nest')
<1> DEFINE v == SetInsertPoint(w, body)
           n == Statement(stmt, merge, next, tag)
           p == [nest EXCEPT ![Len(nest)].last = "open"]
<1>1. ir' = PushSubframe(v, "Loop", body, merge) /\ nest' = Append(p, n)
  BY DEF LoopBody, Begin
<1>2. Sound(ir) /\ Sound(w)
  BY InnerFacts DEF Grows
<1>3. Grows(w, v) /\ v.blocks = w.blocks
  BY <1>2, SetInsertPointGrows
<1> HIDE DEF v
<1>4. Grows(ir, v)
  BY <1>2, <1>3, GrowsTransitive
<1>5. merge \in Nat /\ next \in Nat
  BY <1>2, SoundLength
<1>6. stmt \in {"block", "handlers", "handler", "if", "while", "for", "loop"}
      /\ stmt # "handler" /\ stmt # "if" /\ stmt # "block"
  BY DEF Loops
<1>7. n \in Nested /\ n.stmt = stmt /\ n.merge = merge /\ n.next = next /\ n.tag = tag
  BY <1>5, <1>6, StatementFacts
<1> HIDE DEF n
<1>8. Good(PushSubframe(v, "Loop", body, merge), Append(p, n))
  <2>1. n.stmt \in Loops /\ n.stmt # "handler" /\ n.stmt # "if" /\ n.stmt # "block"
    BY <1>6, <1>7
  <2>2. "Loop" \in {"Block", "Loop"} /\ (n.stmt \in Loops <=> "Loop" = "Loop")
    BY <2>1
  <2>3. n.merge \in 1..Len(v.blocks) /\ n.next \in 1..Len(v.blocks) /\ body \in 1..Len(v.blocks)
    BY <1>3, <1>7
  <2>5. merge = n.merge /\ merge \in 1..Len(v.blocks)
    BY <1>3, <1>7
  <2>6. p = [nest EXCEPT ![Len(nest)].last = "open"]
    OBVIOUS
  <2> HIDE DEF p
  <2> QED BY <1>4, <1>5, <1>7, <2>1, <2>2, <2>3, <2>5, <2>6, GoodBegin
<1> QED BY <1>1, <1>8

\* beginLoopStmt keeps the agreement.
LEMMA beginLoopGood ==
  ASSUME Good(ir, nest), NEW tag \in Tag \cup {NoName}, beginLoopStmt(tag)
  PROVE  Good(ir', nest')
<1> DEFINE s == makeBasicBlock(makeBasicBlock(ir, tag), NoName)
           m == Newest(s)
           b == m - 1
           w == Br(s, b)
<1>1. Sound(ir)
  BY InnerFacts
<1>2. LoopBody(w, "loop", b, m, b, tag)
  BY DEF beginLoopStmt
<1>3. /\ Grows(ir, s) /\ Sound(s) /\ m \in 1..Len(s.blocks) /\ b \in 1..Len(s.blocks)
      /\ b \in Nat /\ m \notin 1..Len(ir.blocks) /\ b \notin 1..Len(ir.blocks)
  BY <1>1, NameFacts, TwoBlocks
<1> HIDE DEF s, m, b
<1>5. Grows(s, w)
  BY <1>3, BrGrows
<1> HIDE DEF w
<1>6. Grows(ir, w)
  BY <1>1, <1>3, <1>5, GrowsTransitive
<1>7. m \in 1..Len(w.blocks) /\ b \in 1..Len(w.blocks)
  BY <1>3, <1>5, Kept
<1>8. "loop" \in Loops
  BY DEF Loops
<1> QED BY <1>2, <1>3, <1>6, <1>7, <1>8, LoopGood

\* beginWhileStmt keeps the agreement.
LEMMA beginWhileGood ==
  ASSUME Good(ir, nest), NEW tag \in Tag \cup {NoName}, beginWhileStmt(tag)
  PROVE  Good(ir', nest')
<1> DEFINE a == makeBasicBlock(ir, NoName)
           s == makeBasicBlock(makeBasicBlock(a, tag), NoName)
           m == Newest(s)
           b == m - 1
           h == m - 2
           d == Br(s, h)
           x == SetInsertPoint(d, h)
           c == Condition(x)
           w == Terminator(c, {b, m}, {})
<1>1. Sound(ir) /\ Len(ir.blocks) \in Nat
  BY InnerFacts
<1>2. LoopBody(w, "while", b, m, h, tag)
  BY DEF beginWhileStmt
<1>3. Grows(ir, a) /\ Sound(a) /\ Len(a.blocks) = Len(ir.blocks) + 1
  BY <1>1, NameFacts, makeBasicBlockGrows DEF Grows
<1> HIDE DEF a
<1>4. /\ Grows(a, s) /\ Sound(s) /\ m \in 1..Len(s.blocks) /\ b \in 1..Len(s.blocks)
      /\ b \in Nat /\ m \in Nat /\ m \notin 1..Len(a.blocks) /\ b \notin 1..Len(a.blocks)
  BY <1>3, NameFacts, TwoBlocks
<1>5. h \in 1..Len(s.blocks) /\ h \in Nat
  BY <1>1, <1>3, <1>4
<1> HIDE DEF s, m, b, h
<1>6. m \notin 1..Len(ir.blocks) /\ b \notin 1..Len(ir.blocks)
  BY <1>1, <1>3, <1>4, Kept
<1>7. Grows(s, d) /\ Sound(d) /\ Len(d.blocks) = Len(s.blocks)
  BY <1>4, <1>5, BrGrows DEF Grows
<1> HIDE DEF d
<1>8. Grows(d, x) /\ Sound(x)
  BY <1>5, <1>7, SetInsertPointGrows DEF Grows
<1> HIDE DEF x
<1>9. Grows(x, c) /\ Sound(c)
  BY <1>8, emitCallGrows DEF Grows, Condition
<1> HIDE DEF c
<1>10. Grows(c, w)
  <2>1. {b, m} \in SUBSET Nat /\ {} \in SUBSET Nat
    BY <1>4
  <2> QED BY <2>1, <1>9, TerminatorGrows
<1> HIDE DEF w
<1>11. Grows(s, w)
  <2>1. Grows(s, x)
    BY <1>4, <1>7, <1>8, GrowsTransitive
  <2>2. Grows(s, c)
    BY <1>4, <1>9, <2>1, GrowsTransitive
  <2> QED BY <1>4, <1>10, <2>2, GrowsTransitive
<1>12. Grows(ir, w)
  <2>1. Grows(ir, s)
    BY <1>1, <1>3, <1>4, GrowsTransitive
  <2> QED BY <1>1, <1>11, <2>1, GrowsTransitive
<1>13. m \in 1..Len(w.blocks) /\ b \in 1..Len(w.blocks) /\ h \in 1..Len(w.blocks)
  BY <1>4, <1>5, <1>11, Kept
<1>14. "while" \in Loops
  BY DEF Loops
<1> QED BY <1>2, <1>6, <1>12, <1>13, <1>14, LoopGood

\* beginForStmt keeps the agreement.
LEMMA beginForGood ==
  ASSUME Good(ir, nest), NEW tag \in Tag \cup {NoName}, beginForStmt(tag)
  PROVE  Good(ir', nest')
<1> DEFINE c == Condition(ir)
           y == makeBasicBlock(c, NoName)
           a == makeBasicBlock(y, NoName)
           s == makeBasicBlock(makeBasicBlock(a, tag), NoName)
           m == Newest(s)
           b == m - 1
           i == m - 2
           h == m - 3
           d == Terminator(s, {m, b}, {})
           x == SetInsertPoint(d, h)
           t == Instruction(x)
           e == Terminator(t, {m, i}, {})
           f == SetInsertPoint(e, i)
           u == Instruction(f)
           g == Br(u, b)
           w == [g EXCEPT !.blocks[b].phi = "first"]
<1>1. Sound(ir) /\ Len(ir.blocks) \in Nat
  BY InnerFacts
<1>2. LoopBody(w, "for", b, m, h, tag)
  BY DEF beginForStmt
<1>3. Grows(ir, c) /\ Sound(c) /\ Len(c.blocks) \in Nat
  <2>1. Grows(ir, c)
    BY <1>1, emitCallGrows DEF Condition
  <2> HIDE DEF c
  <2> QED BY <2>1, SoundLength DEF Grows
<1> HIDE DEF c
<1>4. Grows(c, y) /\ Sound(y) /\ Len(y.blocks) = Len(c.blocks) + 1
  BY <1>3, NameFacts, makeBasicBlockGrows DEF Grows
<1> HIDE DEF y
<1>5. Grows(ir, a) /\ Sound(a) /\ Len(a.blocks) = Len(y.blocks) + 1
  <2>1. Grows(y, a) /\ Sound(a) /\ Len(a.blocks) = Len(y.blocks) + 1
    BY <1>4, NameFacts, makeBasicBlockGrows DEF Grows
  <2>2. Grows(ir, y)
    BY <1>1, <1>3, <1>4, GrowsTransitive
  <2> HIDE DEF a
  <2> QED BY <2>1, <2>2, <1>1, GrowsTransitive
<1> HIDE DEF a
<1>6. /\ Grows(a, s) /\ Sound(s) /\ m \in 1..Len(s.blocks) /\ b \in 1..Len(s.blocks)
      /\ b \in Nat /\ m \in Nat /\ m \notin 1..Len(a.blocks) /\ b \notin 1..Len(a.blocks)
  BY <1>5, NameFacts, TwoBlocks
<1>7. h \in 1..Len(s.blocks) /\ h \in Nat /\ i \in 1..Len(s.blocks) /\ i \in Nat
  BY <1>3, <1>4, <1>5, <1>6
<1> HIDE DEF s, m, b, h, i
<1>8. m \notin 1..Len(ir.blocks) /\ b \notin 1..Len(ir.blocks)
  BY <1>1, <1>5, <1>6, Kept
<1>9. Grows(s, d) /\ Sound(d) /\ Len(d.blocks) = Len(s.blocks)
  <2>1. {m, b} \in SUBSET Nat /\ {} \in SUBSET Nat
    BY <1>6
  <2> QED BY <2>1, <1>6, TerminatorGrows DEF Grows
<1> HIDE DEF d
<1>10. Grows(d, x) /\ Sound(x) /\ x.blocks = d.blocks
  BY <1>7, <1>9, SetInsertPointGrows DEF Grows
<1> HIDE DEF x
<1>11. Grows(x, t) /\ Sound(t) /\ Len(t.blocks) = Len(x.blocks)
  BY <1>10, InstructionGrows DEF Grows
<1> HIDE DEF t
<1>12. Grows(t, e) /\ Sound(e) /\ Len(e.blocks) = Len(t.blocks)
  <2>1. {m, i} \in SUBSET Nat /\ {} \in SUBSET Nat
    BY <1>6, <1>7
  <2> QED BY <2>1, <1>11, TerminatorGrows DEF Grows
<1> HIDE DEF e
<1>13. Grows(e, f) /\ Sound(f) /\ f.blocks = e.blocks
  <2>1. i \in 1..Len(e.blocks)
    BY <1>7, <1>9, <1>10, <1>11, <1>12
  <2> QED BY <2>1, <1>12, SetInsertPointGrows DEF Grows
<1> HIDE DEF f
<1>14. Grows(f, u) /\ Sound(u) /\ Len(u.blocks) = Len(f.blocks)
  BY <1>13, InstructionGrows DEF Grows
<1> HIDE DEF u
<1>15. Grows(u, g) /\ Sound(g) /\ Len(g.blocks) = Len(u.blocks)
  BY <1>6, <1>14, BrGrows DEF Grows
<1> HIDE DEF g
<1>16. b \in 1..Len(g.blocks)
  BY <1>6, <1>9, <1>10, <1>11, <1>12, <1>13, <1>14, <1>15
<1>17. Grows(g, w)
  <2> DEFINE new == [g.blocks[b] EXCEPT !.phi = "first"]
  <2>1. g.blocks[b] \in Block
    BY <1>15, <1>16 DEF Sound, Emission
  <2>2. new \in Block /\ new.name = g.blocks[b].name
    BY <2>1 DEF Block
  <2>3. w = [g EXCEPT !.blocks[b] = new]
    OBVIOUS
  <2> HIDE DEF new, w
  <2> QED BY <1>15, <1>16, <2>2, <2>3, BlockChange
<1> HIDE DEF w
<1>18. Grows(s, w)
  <2>1. Grows(s, x)
    BY <1>6, <1>9, <1>10, GrowsTransitive
  <2>2. Grows(s, t)
    BY <1>6, <1>11, <2>1, GrowsTransitive
  <2>3. Grows(s, e)
    BY <1>6, <1>12, <2>2, GrowsTransitive
  <2>4. Grows(s, f)
    BY <1>6, <1>13, <2>3, GrowsTransitive
  <2>5. Grows(s, u)
    BY <1>6, <1>14, <2>4, GrowsTransitive
  <2>6. Grows(s, g)
    BY <1>6, <1>15, <2>5, GrowsTransitive
  <2> QED BY <1>6, <1>17, <2>6, GrowsTransitive
<1>19. Grows(ir, w)
  <2>1. Grows(ir, s)
    BY <1>1, <1>5, <1>6, GrowsTransitive
  <2> QED BY <1>1, <1>18, <2>1, GrowsTransitive
<1>20. m \in 1..Len(w.blocks) /\ b \in 1..Len(w.blocks) /\ h \in 1..Len(w.blocks)
  BY <1>6, <1>7, <1>18, Kept
<1>21. "for" \in Loops
  BY DEF Loops
<1> QED BY <1>2, <1>8, <1>19, <1>20, <1>21, LoopGood
-----------------------------------------------------------------------------
\* The inductive invariant: while a body is being emitted, subframes, landing
\* pads and names agree with the statements under way.
Inv ==
  /\ phase = "start" => ir = newFrame /\ nest = <<>>
  /\ phase = "body" => Good(ir, nest)

\* Every step of the emitters keeps the invariant.
LEMMA StepInv ==
  ASSUME Inv, [Next]_vars
  PROVE  Inv'
<1>1. CASE UNCHANGED vars
  BY <1>1 DEF Inv, vars
<1>2. ASSUME NEW handled \in BOOLEAN, emitSubroutineBody(handled) PROVE Inv'
  <2>1. ir = newFrame /\ nest = <<>> /\ phase' = "body"
    BY <1>2 DEF emitSubroutineBody, Inv
  <2>2. Good(ir', nest')
    BY <1>2, <2>1, SubroutineBodyGood
  <2> QED BY <2>1, <2>2 DEF Inv
<1>3. ASSUME Good(ir', nest'), phase' = "body" PROVE Inv'
  BY <1>3 DEF Inv
<1>4. ASSUME phase = "body", phase' = phase,
             \/ emitSimpleStmt \/ emitReturnStmt \/ emitRaiseStmt \/ emitPragmaAssert
             \/ endBlockStmt \/ emitHandlers \/ endHandler \/ endHandlers
             \/ emitElse \/ endIfStmt \/ endLoopStmt
      PROVE  Inv'
  <2>1. Good(ir, nest)
    BY <1>4 DEF Inv
  <2>2. Good(ir', nest')
    BY <1>4, <2>1, SimpleStmtGood, ReturnStmtGood, RaiseStmtGood, PragmaAssertGood,
       endBlockGood, emitHandlersGood, endHandlerGood, endHandlersGood, emitElseGood,
       endIfGood, endLoopGood
  <2> QED BY <1>3, <1>4, <2>2
<1>5. CASE emitSimpleStmt
  BY <1>4, <1>5 DEF emitSimpleStmt, Accepted, Emitted
<1>6. CASE emitReturnStmt
  BY <1>4, <1>6 DEF emitReturnStmt, Accepted, Emitted
<1>7. CASE emitRaiseStmt
  BY <1>4, <1>7 DEF emitRaiseStmt, Accepted, Emitted
<1>8. CASE emitPragmaAssert
  BY <1>4, <1>8 DEF emitPragmaAssert, Accepted, Emitted
<1>9. CASE endBlockStmt
  BY <1>4, <1>9 DEF endBlockStmt, Complete, End
<1>10. CASE emitHandlers
  BY <1>4, <1>10 DEF emitHandlers, Complete, Continue
<1>11. CASE endHandler
  BY <1>4, <1>11 DEF endHandler, Complete, End
<1>12. CASE endHandlers
  BY <1>4, <1>12 DEF endHandlers, Complete, End
<1>13. CASE emitElse
  BY <1>4, <1>13 DEF emitElse, Complete, Continue
<1>14. CASE endIfStmt
  BY <1>4, <1>14 DEF endIfStmt, Complete, End
<1>15. CASE endLoopStmt
  BY <1>4, <1>15 DEF endLoopStmt, Complete, End
<1>16. ASSUME NEW tag \in Tag \cup {NoName}, NEW conditional \in BOOLEAN,
              emitExitStmt(tag, conditional)
       PROVE  Inv'
  <2>1. phase = "body" /\ phase' = phase
    BY <1>16 DEF emitExitStmt, Accepted, Emitted
  <2> QED BY <1>3, <1>16, <2>1, ExitStmtGood DEF Inv
<1>17. ASSUME NEW label \in Tag \cup {NoName}, NEW handled \in BOOLEAN,
              beginBlockStmt(label, handled)
       PROVE  Inv'
  <2>1. phase = "body" /\ phase' = phase
    BY <1>17 DEF beginBlockStmt, Accepted, Begin
  <2> QED BY <1>3, <1>17, <2>1, beginBlockGood DEF Inv
<1>18. ASSUME NEW choices \in 0..MaxChoices, beginHandler(choices) PROVE Inv'
  <2>1. phase = "body" /\ phase' = phase
    BY <1>18 DEF beginHandler
  <2> QED BY <1>3, <1>18, <2>1, beginHandlerGood DEF Inv
<1>19. ASSUME NEW more \in {"none", "elsif", "else"}, beginIfStmt(more) \/ emitElsif(more)
       PROVE  Inv'
  <2>1. phase = "body" /\ phase' = phase
    BY <1>19 DEF beginIfStmt, emitElsif, Accepted, Begin, Complete
  <2> QED BY <1>3, <1>19, <2>1, beginIfGood, emitElsifGood DEF Inv
<1>20. ASSUME NEW tag \in Tag \cup {NoName},
              beginWhileStmt(tag) \/ beginForStmt(tag) \/ beginLoopStmt(tag)
       PROVE  Inv'
  <2>1. phase = "body" /\ phase' = phase
    BY <1>20 DEF beginWhileStmt, beginForStmt, beginLoopStmt, Accepted, LoopBody, Begin
  <2> QED BY <1>3, <1>20, <2>1, beginWhileGood, beginForGood, beginLoopGood DEF Inv
<1>21. CASE endSubroutineBody
  <2>1. phase' = "done"
    BY <1>21 DEF endSubroutineBody, Finish
  <2> QED BY <2>1 DEF Inv
<1>22. CASE Next
  BY <1>2, <1>5, <1>6, <1>7, <1>8, <1>9, <1>10, <1>11, <1>12, <1>13, <1>14, <1>15, <1>16,
     <1>17, <1>18, <1>19, <1>20, <1>21, <1>22 DEF Next
<1> QED BY <1>1, <1>22

\* Throughout the emission of a body the stack of subframes that the emitters
\* push and pop by hand (CodeGenStmt.cpp, HandlerEmitter.cpp) mirrors the
\* statements being emitted, for bodies of any size and nesting.
THEOREM Invariance == Spec => []Inv
<1>1. Init => Inv
  BY DEF Init, Inv
<1>2. Inv /\ [Next]_vars => Inv'
  BY StepInv
<1> QED BY <1>1, <1>2, PTL DEF Spec

\* Every call and raise is emitted with the landing pad of the innermost block
\* protecting it (Frame::getLandingPad), and the statements of a handler never
\* with the one of the block they handle, for bodies of any size, whatever
\* forms the type checker lets through.
THEOREM PadsFollowBlocks == Spec => []LandingPadsAreLexical
<1>1. Inv => LandingPadsAreLexical
  BY PadsAreLexical DEF Inv, Good, LandingPadsAreLexical
<1> QED BY <1>1, Invariance, PTL

\* An exit statement without a tag leaves the innermost loop.  One with a tag
\* leaves the loop that the type checker matched it with exactly where the body
\* of that loop has the tag for its name (CodeGenRoutine::emitExitStmt), and then
\* finds no other subframe first; in bodies of any size, however parameters and
\* tags are spelled and whatever numbers make the names of blocks unique.
THEOREM ExitsFollowLoops == Spec => []ExitLeavesItsLoop
<1>1. Inv => ExitLeavesItsLoop
  BY ExitsAreRight DEF Inv, Good, ExitLeavesItsLoop
<1> QED BY <1>1, Invariance, PTL
-----------------------------------------------------------------------------
(* The control flow graph.  dom[b] is a set of entry blocks of subframes that  *)
(* every path to block b passes through; W are the blocks made and not yet     *)
(* filled, apart from the one the builder inserts in.                          *)

Edges(s, b) == s.blocks[b].succ \cup s.blocks[b].unwind

Blank(s, b) ==
  /\ ~s.blocks[b].term /\ ~s.blocks[b].torn /\ s.blocks[b].phi = "none"
  /\ s.blocks[b].succ = {} /\ s.blocks[b].unwind = {}

\* What holds of a block, whether it is filled or not.
BlockInOrder(s, dom, b) ==
  /\ ~s.blocks[b].torn /\ s.blocks[b].phi # "late"
  /\ \A e \in Edges(s, b) : e \in 2..Len(s.blocks) /\ dom[e] \subseteq dom[b] \cup {b}
  /\ s.blocks[b].restores \subseteq dom[b] \cup {b}

Graph(s, dom, W) ==
  /\ Sound(s) /\ dom \in Seq(SUBSET Nat) /\ Len(dom) = Len(s.blocks) /\ Len(s.blocks) > 1
  /\ W \subseteq 1..Len(s.blocks) /\ s.insert \notin W
  /\ \A b \in 1..Len(s.blocks) :
       /\ BlockInOrder(s, dom, b)
       /\ b \in W => Blank(s, b)
       /\ b \notin W /\ b # s.insert => s.blocks[b].term
  /\ dom[1] = {} /\ dom[2] = {}

\* Blocks already made keep what the invariant says of them.
Extends(s, dom, t, dom2) ==
  /\ Len(s.blocks) =< Len(t.blocks)
  /\ \A b \in 1..Len(s.blocks) :
       /\ dom2[b] = dom[b]
       /\ s.blocks[b].phi = "none" => t.blocks[b].phi = "none"
       /\ s.blocks[b].term => t.blocks[b].term

\* Emission adds to the graph step by step.
LEMMA ExtendsTransitive ==
  ASSUME NEW s, NEW d, NEW t, NEW e, NEW u, NEW f, Sound(s), Sound(t), Sound(u),
         Extends(s, d, t, e), Extends(t, e, u, f)
  PROVE  Extends(s, d, u, f)
<1>1. Len(s.blocks) \in Nat /\ Len(t.blocks) \in Nat /\ Len(u.blocks) \in Nat
  BY SoundLength
<1>2. \A b \in 1..Len(s.blocks) : b \in 1..Len(t.blocks)
  BY <1>1 DEF Extends
<1> QED BY <1>1, <1>2 DEF Extends

\* Doing nothing adds nothing.
LEMMA ExtendsRefl ==
  ASSUME NEW s, NEW d, NEW t, Sound(s), t.blocks = s.blocks
  PROVE  Extends(s, d, t, d)
<1>1. Len(s.blocks) \in Nat
  BY SoundLength
<1> QED BY <1>1 DEF Extends

\* An instruction behind a block that is not terminated leaves no trace.
LEMMA InstructionIsPlain ==
  ASSUME NEW s, Sound(s), ~hasTerminator(s)
  PROVE  Instruction(s) = s
<1> DEFINE b == s.insert
           x == s.blocks[b]
           new == [x EXCEPT !.torn = x.torn \/ x.term, !.term = FALSE]
<1>1. s \in Emission /\ b \in 1..Len(s.blocks) /\ x \in Block /\ s.blocks \in Seq(Block)
  BY DEF Sound, Emission
<1>2. x.torn \in BOOLEAN /\ x.term = FALSE
  BY <1>1 DEF Block, hasTerminator
<1>3. (x.torn \/ x.term) = x.torn
  BY <1>2, Zenon
<1>4. new = x
  BY <1>1, <1>2, <1>3 DEF Block
<1>5. Instruction(s) = [s EXCEPT !.blocks[b] = new]
  BY Zenon DEF Instruction
<1>6. [s.blocks EXCEPT ![b] = x] = s.blocks
  BY <1>1
<1>7. [s EXCEPT !.blocks = s.blocks] = s
  BY <1>1 DEF Emission
<1> HIDE DEF new, x
<1>8. Instruction(s) = [s EXCEPT !.blocks = [s.blocks EXCEPT ![b] = x]]
  BY <1>4, <1>5
<1> QED BY <1>6, <1>7, <1>8 DEF x

\* One block changes.
LEMMA BlockChanged ==
  ASSUME NEW s, Sound(s), NEW b \in 1..Len(s.blocks), NEW new \in Block
  PROVE  LET t == [s EXCEPT !.blocks[b] = new]
         IN  /\ t.insert = s.insert /\ t.frames = s.frames /\ Len(t.blocks) = Len(s.blocks)
             /\ t.blocks[b] = new
             /\ \A c \in 1..Len(s.blocks) : c # b => t.blocks[c] = s.blocks[c]
             /\ Sound(t)
<1> DEFINE blocks == [s.blocks EXCEPT ![b] = new]
           t == [s EXCEPT !.blocks[b] = new]
<1>0. t = [s EXCEPT !.blocks = blocks]
  OBVIOUS
<1>1. /\ s \in Emission /\ Len(s.blocks) \in Nat /\ s.insert \in 1..Len(s.blocks)
      /\ s.blocks \in Seq(Block)
  BY DEF Sound, Emission
<1>2. /\ blocks \in Seq(Block) /\ Len(blocks) = Len(s.blocks) /\ blocks[b] = new
      /\ \A c \in 1..Len(s.blocks) : c # b => blocks[c] = s.blocks[c]
  BY <1>1
<1> HIDE DEF blocks, t
<1>3. t \in Emission /\ t.blocks = blocks /\ t.insert = s.insert /\ t.frames = s.frames
  BY <1>0, <1>1, <1>2 DEF Emission
<1> QED BY <1>1, <1>2, <1>3 DEF Sound, t

\* In t the block being filled in s has got its terminator.
Terminated(s, t, succ, unwind) ==
  /\ t.insert = s.insert /\ t.frames = s.frames
  /\ Len(t.blocks) = Len(s.blocks)
  /\ \A c \in 1..Len(s.blocks) : c # s.insert => t.blocks[c] = s.blocks[c]
  /\ t.blocks[s.insert].term = TRUE
  /\ t.blocks[s.insert].torn = s.blocks[s.insert].torn
  /\ t.blocks[s.insert].phi = s.blocks[s.insert].phi
  /\ t.blocks[s.insert].restores = s.blocks[s.insert].restores
  /\ t.blocks[s.insert].succ = s.blocks[s.insert].succ \cup succ
  /\ t.blocks[s.insert].unwind = s.blocks[s.insert].unwind \cup unwind

\* A terminator is appended to a block that has none.
LEMMA TerminatorBlocks ==
  ASSUME NEW s, Sound(s), NEW succ \in SUBSET Nat, NEW unwind \in SUBSET Nat, ~hasTerminator(s)
  PROVE  LET t == Terminator(s, succ, unwind)
         IN  Sound(t) /\ Terminated(s, t, succ, unwind)
<1> DEFINE b == s.insert
           x == s.blocks[b]
           new == [x EXCEPT !.torn = x.torn \/ x.term, !.term = TRUE,
                            !.succ = x.succ \cup succ, !.unwind = x.unwind \cup unwind]
           t == Terminator(s, succ, unwind)
<1>1. s \in Emission /\ b \in 1..Len(s.blocks) /\ x \in Block /\ s.blocks \in Seq(Block)
  BY DEF Sound, Emission
<1>2. x.torn \in BOOLEAN /\ x.term = FALSE
  BY <1>1 DEF Block, hasTerminator
<1>3. (x.torn \/ x.term) = x.torn
  BY <1>2, Zenon
<1>4. /\ new \in Block /\ new.term = TRUE /\ new.torn = x.torn /\ new.phi = x.phi
      /\ new.restores = x.restores
      /\ new.succ = x.succ \cup succ /\ new.unwind = x.unwind \cup unwind
  <2> HIDE DEF x
  <2> QED BY <1>1, <1>3 DEF Block
<1>5. t = [s EXCEPT !.blocks[b] = new]
  BY Zenon DEF Terminator
<1> HIDE DEF new, x
<1>6. /\ t.insert = s.insert /\ t.frames = s.frames /\ Len(t.blocks) = Len(s.blocks)
      /\ t.blocks[b] = new /\ Sound(t)
      /\ \A c \in 1..Len(s.blocks) : c # b => t.blocks[c] = s.blocks[c]
  BY <1>1, <1>4, <1>5, BlockChanged
<1> HIDE DEF t
<1>7. Terminated(s, t, succ, unwind)
  BY <1>4, <1>6 DEF x, Terminated
<1> QED BY <1>6, <1>7 DEF t

\* Block n is the one made between s and t.
Made(s, t, e, n, D) ==
  /\ Len(t.blocks) = n /\ Newest(t) = n /\ e[n] = D
  /\ t.insert = s.insert /\ t.frames = s.frames
  /\ hasTerminator(t) <=> hasTerminator(s)

\* The builder stands in the same block in s and t, in t at its end.
Ended(s, t) ==
  /\ hasTerminator(t) /\ Len(t.blocks) = Len(s.blocks)
  /\ t.insert = s.insert /\ t.frames = s.frames

\* It has moved to block b, which is blank if it is in W.
Moved(s, t, b, W) ==
  /\ t.blocks = s.blocks /\ t.insert = b /\ t.frames = s.frames
  /\ hasTerminator(t) <=> b \notin W

\* A block is made.
LEMMA GraphMake ==
  ASSUME NEW s, NEW dom, NEW W, Graph(s, dom, W), NEW name \in Names,
         NEW D \in SUBSET Nat
  PROVE  LET t == makeBasicBlock(s, name)
             e == Append(dom, D)
             n == Len(s.blocks) + 1
         IN  Graph(t, e, W \cup {n}) /\ Extends(s, dom, t, e) /\ Made(s, t, e, n, D)
<1> DEFINE t == makeBasicBlock(s, name)
           e == Append(dom, D)
           n == Len(s.blocks) + 1
           new == [name |-> UniqueName(s, name), term |-> FALSE,
                   torn |-> FALSE, succ |-> {}, unwind |-> {}, phi |-> "none", restores |-> {}]
<1>1. /\ Sound(s) /\ s \in Emission /\ Len(s.blocks) \in Nat /\ s.insert \in 1..Len(s.blocks)
      /\ s.blocks \in Seq(Block) /\ dom \in Seq(SUBSET Nat) /\ Len(dom) = Len(s.blocks)
  BY DEF Graph, Sound, Emission
<1>2. Sound(t) /\ t.insert = s.insert /\ t.frames = s.frames /\ Newest(t) = n
  BY <1>1, makeBasicBlockGrows DEF Grows
<1>3. t.blocks = Append(s.blocks, new)
  BY <1>1 DEF makeBasicBlock, Emission
<1>4. /\ ~new.term /\ ~new.torn /\ new.succ = {} /\ new.unwind = {} /\ new.phi = "none"
      /\ new.restores = {} /\ new.phi # "late"
  OBVIOUS
<1> HIDE DEF new, t
<1>5. /\ Len(t.blocks) = n /\ t.blocks[n] = new
      /\ \A b \in 1..Len(s.blocks) : t.blocks[b] = s.blocks[b]
  BY <1>1, <1>3
<1>6. e \in Seq(SUBSET Nat) /\ Len(e) = n /\ e[n] = D /\ \A b \in 1..Len(s.blocks) : e[b] = dom[b]
  BY <1>1
<1> HIDE DEF e
<1>7. \A b \in 1..n : b = n \/ b \in 1..Len(s.blocks)
  BY <1>1
<1>8. n \notin 1..Len(s.blocks) /\ \A b \in 1..Len(s.blocks) : b \in 1..n
  BY <1>1
<1>9. BlockInOrder(t, e, n) /\ Blank(t, n)
  BY <1>4, <1>5 DEF BlockInOrder, Blank, Edges
<1>10. ASSUME NEW b \in 1..Len(s.blocks)
       PROVE  /\ BlockInOrder(t, e, b) /\ (Blank(t, b) <=> Blank(s, b))
              /\ t.blocks[b].term = s.blocks[b].term
  <2>1. BlockInOrder(s, dom, b)
    BY DEF Graph
  <2>2. \A x \in 2..Len(s.blocks) : x \in 2..n /\ x \in 1..Len(s.blocks)
    BY <1>1
  <2>3. Edges(t, b) = Edges(s, b)
    BY <1>5 DEF Edges
  <2>4. BlockInOrder(t, e, b)
    BY <2>1, <2>2, <2>3, <1>5, <1>6 DEF BlockInOrder
  <2> QED BY <2>4, <1>5 DEF Blank
<1>11. Graph(t, e, W \cup {n})
  <2>1. W \cup {n} \subseteq 1..Len(t.blocks) /\ t.insert \notin W \cup {n}
    <3>1. n \in 1..Len(t.blocks) /\ s.insert # n /\ W \subseteq 1..Len(s.blocks) /\ s.insert \notin W
      BY <1>5, <1>8, <1>1 DEF Graph
    <3> QED BY <3>1, <1>2, <1>5, <1>8
  <2>2. ASSUME NEW b \in 1..Len(t.blocks)
        PROVE  /\ BlockInOrder(t, e, b)
               /\ b \in W \cup {n} => Blank(t, b)
               /\ b \notin W \cup {n} /\ b # t.insert => t.blocks[b].term
    <3>1. CASE b = n
      BY <3>1, <1>9
    <3>2. CASE b \in 1..Len(s.blocks)
      BY <3>2, <1>8, <1>10, <1>2 DEF Graph
    <3> QED BY <3>1, <3>2, <1>5, <1>7
  <2>3. e[1] = {} /\ e[2] = {} /\ Len(t.blocks) > 1
    <3>1. 1 \in 1..Len(s.blocks) /\ 2 \in 1..Len(s.blocks) /\ dom[1] = {} /\ dom[2] = {}
      BY <1>1 DEF Graph
    <3> QED BY <3>1, <1>1, <1>5, <1>6
  <2> QED BY <2>1, <2>2, <2>3, <1>2, <1>5, <1>6 DEF Graph
<1>12. Extends(s, dom, t, e)
  BY <1>1, <1>5, <1>6 DEF Extends
<1>13. hasTerminator(t) <=> hasTerminator(s)
  BY <1>1, <1>2, <1>5 DEF hasTerminator
<1>14. Made(s, t, e, n, D)
  BY <1>2, <1>5, <1>6, <1>13 DEF Made
<1> QED BY <1>11, <1>12, <1>14 DEF t, e

\* Blocks that the block being filled may branch to.
Targets(s, dom, S) ==
  \A x \in S : x \in 2..Len(s.blocks) /\ dom[x] \subseteq dom[s.insert] \cup {s.insert}

\* A block is terminated, branching only to blocks whose dominating entries are
\* passed on the way to it.
LEMMA GraphTerm ==
  ASSUME NEW s, NEW dom, NEW W, Graph(s, dom, W), ~hasTerminator(s),
         NEW succ \in SUBSET Nat, NEW unwind \in SUBSET Nat, Targets(s, dom, succ \cup unwind)
  PROVE  LET t == Terminator(s, succ, unwind)
         IN  Graph(t, dom, W) /\ Extends(s, dom, t, dom) /\ Ended(s, t)
<1> DEFINE t == Terminator(s, succ, unwind)
           i == s.insert
<1>1. /\ Sound(s) /\ Len(s.blocks) \in Nat /\ i \in 1..Len(s.blocks)
  BY DEF Graph, Sound, Emission
<1>2. /\ Sound(t) /\ t.insert = i /\ t.frames = s.frames /\ Len(t.blocks) = Len(s.blocks)
      /\ \A c \in 1..Len(s.blocks) : c # i => t.blocks[c] = s.blocks[c]
      /\ t.blocks[i].term = TRUE /\ t.blocks[i].torn = s.blocks[i].torn
      /\ t.blocks[i].phi = s.blocks[i].phi /\ t.blocks[i].restores = s.blocks[i].restores
      /\ t.blocks[i].succ = s.blocks[i].succ \cup succ
      /\ t.blocks[i].unwind = s.blocks[i].unwind \cup unwind
  <2>1. Sound(t) /\ Terminated(s, t, succ, unwind)
    BY <1>1, TerminatorBlocks
  <2> HIDE DEF t
  <2> QED BY <2>1 DEF Terminated
<1> HIDE DEF t
<1>3. hasTerminator(t)
  BY <1>2 DEF hasTerminator
<1>4. Extends(s, dom, t, dom)
  BY <1>1, <1>2 DEF Extends
<1>5. BlockInOrder(t, dom, i)
  <2>1. BlockInOrder(s, dom, i)
    BY <1>1 DEF Graph
  <2>2. Edges(t, i) = Edges(s, i) \cup succ \cup unwind
    BY <1>2 DEF Edges
  <2>3. \A x \in succ \cup unwind : x \in 2..Len(t.blocks) /\ dom[x] \subseteq dom[i] \cup {i}
    BY <1>2 DEF Targets
  <2> QED BY <2>1, <2>2, <2>3, <1>2 DEF BlockInOrder
<1>6. ASSUME NEW b \in 1..Len(t.blocks)
      PROVE  /\ BlockInOrder(t, dom, b)
             /\ b \in W => Blank(t, b)
             /\ b \notin W /\ b # t.insert => t.blocks[b].term
  <2>1. CASE b = i
    BY <2>1, <1>2, <1>5 DEF Graph
  <2>2. CASE b # i
    <3>1. t.blocks[b] = s.blocks[b] /\ b \in 1..Len(s.blocks)
      BY <2>2, <1>2
    <3>2. /\ BlockInOrder(s, dom, b) /\ (b \in W => Blank(s, b))
          /\ b \notin W /\ b # i => s.blocks[b].term
      BY <3>1 DEF Graph
    <3>3. Edges(t, b) = Edges(s, b)
      BY <3>1 DEF Edges
    <3> QED BY <3>1, <3>2, <3>3, <1>2 DEF BlockInOrder, Blank
  <2> QED BY <2>1, <2>2
<1>7. Graph(t, dom, W)
  BY <1>2, <1>6 DEF Graph
<1>8. Ended(s, t)
  BY <1>2, <1>3 DEF Ended
<1> QED BY <1>4, <1>7, <1>8 DEF t

\* The builder moves on, leaving a terminated block.
LEMMA GraphMove ==
  ASSUME NEW s, NEW dom, NEW W, Graph(s, dom, W), hasTerminator(s), NEW b \in 1..Len(s.blocks)
  PROVE  LET t == SetInsertPoint(s, b)
         IN  Graph(t, dom, W \ {b}) /\ Extends(s, dom, t, dom) /\ Moved(s, t, b, W)
<1> DEFINE t == SetInsertPoint(s, b)
<1>1. Sound(s) /\ Len(s.blocks) \in Nat /\ s.blocks[s.insert].term
  BY DEF Graph, Sound, Emission, hasTerminator
<1>2. Sound(t) /\ t.blocks = s.blocks /\ t.insert = b /\ t.frames = s.frames
  BY <1>1, SetInsertPointGrows DEF Grows
<1> HIDE DEF t
<1>3. Extends(s, dom, t, dom)
  BY <1>1, <1>2, ExtendsRefl
<1>4. ASSUME NEW c \in 1..Len(t.blocks)
      PROVE  /\ BlockInOrder(t, dom, c)
             /\ c \in W \ {b} => Blank(t, c)
             /\ c \notin W \ {b} /\ c # t.insert => t.blocks[c].term
  <2>1. /\ BlockInOrder(s, dom, c) /\ (c \in W => Blank(s, c))
        /\ c \notin W /\ c # s.insert => s.blocks[c].term
    BY <1>2 DEF Graph
  <2> QED BY <2>1, <1>1, <1>2 DEF BlockInOrder, Blank, Edges
<1>5. Graph(t, dom, W \ {b})
  BY <1>2, <1>4 DEF Graph
<1>6. hasTerminator(t) <=> b \notin W
  <2>1. (b \in W => Blank(s, b)) /\ (b \notin W /\ b # s.insert => s.blocks[b].term)
    BY DEF Graph
  <2> QED BY <2>1, <1>1, <1>2 DEF Blank, hasTerminator
<1>7. Moved(s, t, b, W)
  BY <1>2, <1>6 DEF Moved
<1> QED BY <1>3, <1>5, <1>7 DEF t

\* Stack pointers are restored, of subframes entered on every path.
LEMMA GraphRestore ==
  ASSUME NEW s, NEW dom, NEW W, Graph(s, dom, W), NEW E \in SUBSET Nat,
         hasTerminator(s) \/ E \subseteq dom[s.insert] \cup {s.insert}
  PROVE  LET t == Restore(s, E)
         IN  /\ Graph(t, dom, W) /\ Extends(s, dom, t, dom)
             /\ hasTerminator(t) <=> hasTerminator(s)
             /\ Len(t.blocks) = Len(s.blocks) /\ t.insert = s.insert /\ t.frames = s.frames
<1> DEFINE i == s.insert
           x == s.blocks[i]
           new == [x EXCEPT !.restores = x.restores \cup E]
           t == Restore(s, E)
<1>1. /\ Sound(s) /\ Len(s.blocks) \in Nat /\ i \in 1..Len(s.blocks)
      /\ x \in Block
  BY DEF Graph, Sound, Emission
<1>2. CASE E = {} \/ hasTerminator(s)
  <2>1. t = s
    BY <1>2 DEF Restore
  <2> QED BY <2>1, <1>1, ExtendsRefl
<1>3. CASE ~(E = {} \/ hasTerminator(s))
  <2>1. t = [s EXCEPT !.blocks[i] = new]
    BY <1>3 DEF Restore
  <2>2. /\ new \in Block /\ new.term = x.term /\ new.torn = x.torn /\ new.phi = x.phi
        /\ new.restores = x.restores \cup E /\ new.succ = x.succ /\ new.unwind = x.unwind
    <3> HIDE DEF x
    <3> QED BY <1>1 DEF Block
  <2> HIDE DEF new
  <2>3. /\ t.insert = i /\ t.frames = s.frames /\ Len(t.blocks) = Len(s.blocks)
        /\ t.blocks[i] = new /\ Sound(t)
        /\ \A c \in 1..Len(s.blocks) : c # i => t.blocks[c] = s.blocks[c]
    BY <1>1, <2>1, <2>2, BlockChanged
  <2> HIDE DEF t
  <2>4. Extends(s, dom, t, dom)
    BY <1>1, <2>2, <2>3 DEF Extends
  <2>5. hasTerminator(t) <=> hasTerminator(s)
    BY <2>2, <2>3 DEF hasTerminator
  <2>6. BlockInOrder(t, dom, i)
    <3>1. BlockInOrder(s, dom, i)
      BY <1>1 DEF Graph
    <3>2. Edges(t, i) = Edges(s, i)
      BY <2>2, <2>3 DEF Edges
    <3> QED BY <3>1, <3>2, <1>3, <2>2, <2>3 DEF BlockInOrder
  <2>7. ASSUME NEW b \in 1..Len(t.blocks)
        PROVE  /\ BlockInOrder(t, dom, b)
               /\ b \in W => Blank(t, b)
               /\ b \notin W /\ b # t.insert => t.blocks[b].term
    <3>1. CASE b = i
      BY <3>1, <2>3, <2>6 DEF Graph
    <3>2. CASE b # i
      <4>1. t.blocks[b] = s.blocks[b] /\ b \in 1..Len(s.blocks)
        BY <3>2, <2>3
      <4>2. /\ BlockInOrder(s, dom, b) /\ (b \in W => Blank(s, b))
            /\ b \notin W /\ b # i => s.blocks[b].term
        BY <4>1 DEF Graph
      <4>3. Edges(t, b) = Edges(s, b)
        BY <4>1 DEF Edges
      <4> QED BY <4>1, <4>2, <4>3, <2>3 DEF BlockInOrder, Blank
    <3> QED BY <3>1, <3>2
  <2>8. Graph(t, dom, W)
    BY <2>3, <2>7 DEF Graph
  <2> QED BY <2>3, <2>4, <2>5, <2>8 DEF t
<1> QED BY <1>2, <1>3

\* The graph does not depend on the subframes.
LEMMA GraphFrames ==
  ASSUME NEW s, NEW dom, NEW W, Graph(s, dom, W), NEW t, Sound(t), t.blocks = s.blocks,
         t.insert = s.insert
  PROVE  /\ Graph(t, dom, W) /\ Extends(s, dom, t, dom) /\ (hasTerminator(t) <=> hasTerminator(s))
<1>1. Extends(s, dom, t, dom)
  BY ExtendsRefl DEF Graph
<1>2. \A b \in 1..Len(s.blocks) : /\ BlockInOrder(s, dom, b) => BlockInOrder(t, dom, b)
                                  /\ Blank(s, b) => Blank(t, b)
  BY DEF BlockInOrder, Blank, Edges
<1> QED BY <1>1, <1>2 DEF Graph, hasTerminator

-----------------------------------------------------------------------------
(* The graph and the subframes.  The entry blocks of the subframes that are    *)
(* active have all been passed where the builder stands.                       *)

\* The entry blocks of the subframes up to the k-th, without the function's.
Ent(frames, k) == {frames[j].entry : j \in 2..k}

\* Those of all active subframes.
Cur(s) == Ent(s.frames, Len(s.frames))

\* The merge block and the landing pad of a subframe can be branched to from
\* anywhere inside of it.
FrameBounds(s, dom) ==
  /\ Len(s.frames) > 0
  /\ \A k \in 1..Len(s.frames) :
       /\ s.frames[k].entry \in 1..Len(s.blocks)
       /\ s.frames[k].merge \in 2..Len(s.blocks)
       /\ dom[s.frames[k].merge] \subseteq Ent(s.frames, k)
       /\ s.frames[k].landingPad # 0 =>
            /\ s.frames[k].landingPad \in 2..Len(s.blocks)
            /\ dom[s.frames[k].landingPad] \subseteq Ent(s.frames, k)

Here(s, dom) == Cur(s) \subseteq dom[s.insert] \cup {s.insert}

Sane(s, dom, W) == Graph(s, dom, W) /\ FrameBounds(s, dom) /\ Here(s, dom)

\* Emission goes from s to a sane state t in the same subframe.
Leads(s, dom, t, e, W) ==
  Sane(t, e, W) /\ Extends(s, dom, t, e) /\ t.frames = s.frames

\* The simple facts of a sane state.
LEMMA SaneFacts ==
  ASSUME NEW s, NEW dom, NEW W, Sane(s, dom, W)
  PROVE  /\ Sound(s) /\ s \in Emission /\ Len(s.blocks) \in Nat /\ Len(s.blocks) > 1
         /\ s.insert \in 1..Len(s.blocks) /\ s.insert \in Nat
         /\ s.frames \in Seq(Subframe) /\ Len(s.frames) \in Nat /\ Len(s.frames) > 0
         /\ Cur(s) \in SUBSET Nat /\ W \subseteq 1..Len(s.blocks) /\ s.insert \notin W
         /\ Cur(s) \subseteq dom[s.insert] \cup {s.insert}
         /\ dom[2] = {} /\ dom[1] = {}
<1>1. /\ Sound(s) /\ s \in Emission /\ Len(s.blocks) \in Nat /\ Len(s.blocks) > 1
      /\ s.insert \in 1..Len(s.blocks) /\ s.insert \in Nat
      /\ s.frames \in Seq(Subframe) /\ Len(s.frames) \in Nat /\ Len(s.frames) > 0
      /\ W \subseteq 1..Len(s.blocks) /\ s.insert \notin W
      /\ dom[2] = {} /\ dom[1] = {}
  BY DEF Sane, Graph, Sound, Emission, FrameBounds
<1>2. \A j \in 2..Len(s.frames) : s.frames[j].entry \in Nat
  <2>1. \A j \in 2..Len(s.frames) : s.frames[j].entry \in 1..Len(s.blocks)
    BY <1>1 DEF Sane, FrameBounds
  <2> QED BY <2>1, <1>1
<1>3. Cur(s) \in SUBSET Nat
  BY <1>2 DEF Cur, Ent
<1> QED BY <1>1, <1>3 DEF Sane, Here

\* Steps of emission compose.
LEMMA LeadsTransitive ==
  ASSUME NEW s, NEW d, NEW U, Sane(s, d, U), NEW t, NEW e, NEW V, Leads(s, d, t, e, V),
         NEW u, NEW f, NEW W, Leads(t, e, u, f, W)
  PROVE  Leads(s, d, u, f, W)
<1>1. Sound(s) /\ Sound(t) /\ Sound(u)
  BY DEF Leads, Sane, Graph
<1> QED BY <1>1, ExtendsTransitive DEF Leads

\* The bounds of the subframes stay when the graph grows.
LEMMA BoundsExtend ==
  ASSUME NEW s, NEW d, NEW U, Sane(s, d, U), NEW t, NEW e, Sound(t), Extends(s, d, t, e), t.frames = s.frames
  PROVE  FrameBounds(t, e)
<1>1. Len(s.blocks) \in Nat /\ Len(t.blocks) \in Nat /\ Len(s.blocks) =< Len(t.blocks)
  BY SoundLength DEF Sane, Graph, Extends
<1>2. \A b \in 2..Len(s.blocks) : b \in 1..Len(s.blocks) /\ b \in 2..Len(t.blocks) /\ e[b] = d[b]
  BY <1>1 DEF Extends
<1>3. \A b \in 1..Len(s.blocks) : b \in 1..Len(t.blocks)
  BY <1>1
<1> QED BY <1>2, <1>3 DEF Sane, FrameBounds

\* A graph that grows in the same subframe, the builder staying in place.
LEMMA LeadsStay ==
  ASSUME NEW s, NEW d, NEW U, Sane(s, d, U), NEW t, NEW e, NEW W, Graph(t, e, W), Extends(s, d, t, e),
         t.frames = s.frames, t.insert = s.insert
  PROVE  Leads(s, d, t, e, W)
<1>1. FrameBounds(t, e)
  BY BoundsExtend DEF Graph
<1>2. e[s.insert] = d[s.insert]
  BY SaneFacts DEF Extends
<1>3. Here(t, e)
  BY <1>2 DEF Sane, Here, Cur
<1> QED BY <1>1, <1>3 DEF Leads, Sane

\* Making a block.
LEMMA SaneMake ==
  ASSUME NEW s, NEW dom, NEW W, Sane(s, dom, W), NEW name \in Names,
         NEW D \in SUBSET Nat
  PROVE  LET t == makeBasicBlock(s, name)
             e == Append(dom, D)
             n == Len(s.blocks) + 1
         IN  Leads(s, dom, t, e, W \cup {n}) /\ Made(s, t, e, n, D)
<1> DEFINE t == makeBasicBlock(s, name)
           e == Append(dom, D)
           n == Len(s.blocks) + 1
<1>1. Graph(t, e, W \cup {n}) /\ Extends(s, dom, t, e) /\ Made(s, t, e, n, D)
  BY GraphMake DEF Sane
<1> HIDE DEF t, e, n
<1>2. Leads(s, dom, t, e, W \cup {n})
  BY <1>1, LeadsStay DEF Made
<1> QED BY <1>1, <1>2 DEF t, e, n

\* Terminating the block.
LEMMA SaneTerm ==
  ASSUME NEW s, NEW dom, NEW W, Sane(s, dom, W), ~hasTerminator(s),
         NEW succ \in SUBSET Nat, NEW unwind \in SUBSET Nat, Targets(s, dom, succ \cup unwind)
  PROVE  LET t == Terminator(s, succ, unwind)
         IN  Leads(s, dom, t, dom, W) /\ Ended(s, t)
<1> DEFINE t == Terminator(s, succ, unwind)
<1>1. Graph(t, dom, W) /\ Extends(s, dom, t, dom) /\ Ended(s, t)
  BY GraphTerm DEF Sane
<1> HIDE DEF t
<1>2. Leads(s, dom, t, dom, W)
  BY <1>1, LeadsStay DEF Ended
<1> QED BY <1>1, <1>2 DEF t

\* Moving on to another block.
LEMMA SaneMove ==
  ASSUME NEW s, NEW dom, NEW W, Sane(s, dom, W), hasTerminator(s), NEW b \in 1..Len(s.blocks),
         Cur(s) \subseteq dom[b] \cup {b}
  PROVE  LET t == SetInsertPoint(s, b)
         IN  Leads(s, dom, t, dom, W \ {b}) /\ Moved(s, t, b, W)
<1> DEFINE t == SetInsertPoint(s, b)
<1>1. Graph(t, dom, W \ {b}) /\ Extends(s, dom, t, dom) /\ Moved(s, t, b, W)
  BY GraphMove DEF Sane
<1> HIDE DEF t
<1>2. t.insert = b /\ t.frames = s.frames
  BY <1>1 DEF Moved
<1>3. FrameBounds(t, dom)
  BY <1>1, <1>2, BoundsExtend DEF Graph
<1>4. Here(t, dom)
  BY <1>2 DEF Here, Cur
<1>5. Leads(s, dom, t, dom, W \ {b})
  BY <1>1, <1>2, <1>3, <1>4 DEF Leads, Sane
<1> QED BY <1>1, <1>5 DEF t

\* A call, whether a landing pad is active or not.
LEMMA SaneCall ==
  ASSUME NEW s, NEW dom, NEW W, Sane(s, dom, W), ~hasTerminator(s)
  PROVE  LET t == emitCall(s)
         IN  ~hasTerminator(t) /\ \E e : Leads(s, dom, t, e, W)
<1> DEFINE r == makeBasicBlock(s, NoName)
           e == Append(dom, Cur(s))
           n == Len(s.blocks) + 1
           p == getLandingPad(r)
           t == Terminator(r, {Newest(r)}, {p})
           u == SetInsertPoint(t, Newest(r))
<1>1. Sound(s) /\ Len(s.blocks) \in Nat /\ Len(s.blocks) > 1 /\ Cur(s) \in SUBSET Nat /\ s.insert \in 1..Len(s.blocks)
  BY SaneFacts
<1>2. CASE getLandingPad(s) = 0
  <2>1. emitCall(s) = s
    BY <1>1, <1>2, InstructionIsPlain DEF emitCall
  <2>2. Leads(s, dom, s, dom, W)
    BY <1>1, ExtendsRefl DEF Leads
  <2> QED BY <2>1, <2>2
<1>3. CASE getLandingPad(s) # 0
  <2>1. emitCall(s) = u
    BY <1>3 DEF emitCall
  <2>2. /\ Leads(s, dom, r, e, W \cup {n})
        /\ Len(r.blocks) = n /\ Newest(r) = n /\ e[n] = Cur(s) /\ r.insert = s.insert
        /\ ~hasTerminator(r)
    <3>1. Leads(s, dom, r, e, W \cup {n}) /\ Made(s, r, e, n, Cur(s))
      BY <1>1, NameFacts, SaneMake
    <3> QED BY <3>1 DEF Made
  <2>3. r.frames = s.frames /\ Sane(r, e, W \cup {n}) /\ n \in Nat
    BY <2>2, <1>1 DEF Leads
  <2>4. p = getLandingPad(s)
    BY <2>3 DEF getLandingPad, WithPad
  <2> HIDE DEF r, e
  <2>5. p \in 2..Len(r.blocks) /\ e[p] \subseteq Cur(r) /\ p \in Nat
    <3> DEFINE k == Innermost(WithPad(r))
    <3>1. WithPad(r) # {} /\ p = r.frames[k].landingPad
      BY <1>3, <2>4 DEF getLandingPad
    <3>2. k \in WithPad(r) /\ WithPad(r) = {j \in 1..Len(r.frames) : r.frames[j].landingPad # 0}
      BY <3>1, <2>3, SaneFacts, PadFacts
    <3> HIDE DEF k
    <3>3. k \in 1..Len(r.frames) /\ r.frames[k].landingPad # 0 /\ Len(r.frames) \in Nat
      BY <3>2, <2>3, SaneFacts
    <3>4. p \in 2..Len(r.blocks) /\ e[p] \subseteq Ent(r.frames, k)
      BY <3>1, <3>3, <2>3 DEF Sane, FrameBounds
    <3>5. Ent(r.frames, k) \subseteq Cur(r)
      BY <3>3 DEF Ent, Cur
    <3> QED BY <3>4, <3>5, <2>2, <1>1
  <2>6. Cur(r) = Cur(s) /\ Cur(r) \subseteq e[r.insert] \cup {r.insert}
    BY <2>3, SaneFacts DEF Cur
  <2>7. Targets(r, e, {Newest(r)} \cup {p})
    <3>1. n \in 2..Len(r.blocks)
      BY <2>2, <1>1
    <3> QED BY <3>1, <2>2, <2>5, <2>6 DEF Targets
  <2>8. {Newest(r)} \in SUBSET Nat /\ {p} \in SUBSET Nat
    BY <2>2, <2>3, <2>5
  <2> HIDE DEF p
  <2>9. /\ Leads(r, e, t, e, W \cup {n}) /\ hasTerminator(t)
        /\ Len(t.blocks) = Len(r.blocks) /\ t.insert = r.insert
    <3>1. Leads(r, e, t, e, W \cup {n}) /\ Ended(r, t)
      BY <2>2, <2>3, <2>7, <2>8, SaneTerm
    <3> QED BY <3>1 DEF Ended
  <2> HIDE DEF t
  <2>10. Sane(t, e, W \cup {n}) /\ n \in 1..Len(t.blocks) /\ Cur(t) \subseteq e[n] \cup {n} /\ Newest(r) = n
    BY <2>2, <2>3, <2>6, <2>9, <1>1 DEF Leads, Cur
  <2> HIDE DEF n
  <2>11. Leads(t, e, u, e, (W \cup {n}) \ {n}) /\ ~hasTerminator(u)
    <3>1. Leads(t, e, u, e, (W \cup {n}) \ {n}) /\ Moved(t, u, n, W \cup {n})
      BY <2>9, <2>10, SaneMove
    <3> QED BY <3>1 DEF Moved
  <2>12. (W \cup {n}) \ {n} = W
    <3>1. W \subseteq 1..Len(s.blocks) /\ n \notin 1..Len(s.blocks)
      BY <1>1, SaneFacts DEF n
    <3> QED BY <3>1
  <2> HIDE DEF u
  <2>13. Leads(s, dom, t, e, W \cup {n})
    BY <2>2, <2>9, LeadsTransitive
  <2>14. Leads(s, dom, u, e, W)
    BY <2>11, <2>12, <2>13, LeadsTransitive
  <2> QED BY <2>1, <2>11, <2>14
<1> QED BY <1>2, <1>3

\* A raise.
LEMMA SaneRaise ==
  ASSUME NEW s, NEW dom, NEW W, Sane(s, dom, W), ~hasTerminator(s)
  PROVE  LET t == raiseExinfo(s)
         IN  hasTerminator(t) /\ \E e : Leads(s, dom, t, e, W)
<1> DEFINE r == emitCall(s)
           t == Terminator(r, {}, {})
<1>1. PICK e : Leads(s, dom, r, e, W)
  BY SaneCall
<1>2. ~hasTerminator(r) /\ Sane(r, e, W)
  BY <1>1, SaneCall DEF Leads
<1> HIDE DEF r
<1>3. Targets(r, e, {} \cup {}) /\ {} \in SUBSET Nat
  BY DEF Targets
<1>4. Leads(r, e, t, e, W) /\ hasTerminator(t)
  BY <1>2, <1>3, SaneTerm DEF Ended
<1> HIDE DEF t
<1>5. Leads(s, dom, t, e, W)
  BY <1>1, <1>4, LeadsTransitive
<1>6. raiseExinfo(s) = t
  BY DEF raiseExinfo, Unreachable, r, t
<1> QED BY <1>4, <1>5, <1>6

\* A branch to a block whose dominating entries are those of active subframes.
LEMMA SaneBr ==
  ASSUME NEW s, NEW dom, NEW W, Sane(s, dom, W), NEW b \in 2..Len(s.blocks), dom[b] \subseteq Cur(s)
  PROVE  /\ Leads(s, dom, BrIfNeeded(s, b), dom, W) /\ Ended(s, BrIfNeeded(s, b))
         /\ ~hasTerminator(s) => Leads(s, dom, Br(s, b), dom, W) /\ Ended(s, Br(s, b))
<1>1. CASE hasTerminator(s)
  <2>1. BrIfNeeded(s, b) = s
    BY <1>1 DEF BrIfNeeded
  <2>2. Leads(s, dom, s, dom, W) /\ Ended(s, s)
    BY <1>1, ExtendsRefl, SaneFacts DEF Leads, Ended
  <2> QED BY <2>1, <2>2, <1>1
<1>2. CASE ~hasTerminator(s)
  <2>1. BrIfNeeded(s, b) = Terminator(s, {b}, {}) /\ Br(s, b) = Terminator(s, {b}, {})
    BY <1>2 DEF BrIfNeeded, Br
  <2>2. {b} \in SUBSET Nat /\ {} \in SUBSET Nat
    BY SaneFacts
  <2>3. Targets(s, dom, {b} \cup {})
    BY SaneFacts DEF Targets
  <2>4. Leads(s, dom, Terminator(s, {b}, {}), dom, W) /\ Ended(s, Terminator(s, {b}, {}))
    BY <1>2, <2>2, <2>3, SaneTerm
  <2> QED BY <2>1, <2>4
<1> QED BY <1>1, <1>2

\* The subframes with a saved stack pointer are among the active ones.
LEMMA SavedActive ==
  ASSUME NEW fs \in Seq(Subframe), Len(fs) > 0
  PROVE  /\ Saved(Tail(fs)) \subseteq Ent(fs, Len(fs))
         /\ Saved(<<Last(fs)>>) \subseteq {fs[Len(fs)].entry}
<1>1. Len(fs) \in Nat /\ Last(fs) = fs[Len(fs)]
  BY DEF Last
<1>2. Tail(fs) \in Seq(Subframe) /\ Len(Tail(fs)) = Len(fs) - 1
      /\ \A i \in 1..(Len(fs) - 1) : Tail(fs)[i] = fs[i + 1]
  BY <1>1
<1>3. ASSUME NEW f \in Range(Tail(fs)) PROVE f.entry \in Ent(fs, Len(fs))
  <2>1. PICK i \in 1..(Len(fs) - 1) : f = Tail(fs)[i]
    BY <1>2 DEF Range
  <2>2. i + 1 \in 2..Len(fs) /\ f = fs[i + 1]
    BY <2>1, <1>1, <1>2
  <2> QED BY <2>2 DEF Ent
<1>4. Saved(Tail(fs)) \subseteq Ent(fs, Len(fs))
  BY <1>3 DEF Saved
<1>5. \A f \in Range(<<Last(fs)>>) : f = fs[Len(fs)]
  BY <1>1 DEF Range
<1>6. Saved(<<Last(fs)>>) \subseteq {fs[Len(fs)].entry}
  BY <1>5 DEF Saved
<1> QED BY <1>4, <1>6

\* A return, with the stack pointers restored before it.
LEMMA SaneReturn ==
  ASSUME NEW s, NEW dom, NEW W, Sane(s, dom, W), ~hasTerminator(s)
  PROVE  LET t == emitReturn(s)
         IN  Leads(s, dom, t, dom, W) /\ Ended(s, t)
<1> DEFINE E == Saved(Tail(s.frames))
           r == Restore(s, E)
           t == Br(r, 2)
<1>1. /\ s.frames \in Seq(Subframe) /\ Len(s.frames) > 0 /\ Cur(s) \in SUBSET Nat
      /\ Cur(s) \subseteq dom[s.insert] \cup {s.insert} /\ Len(s.blocks) \in Nat /\ Len(s.blocks) > 1
      /\ dom[2] = {}
  BY SaneFacts
<1>2. E \subseteq Cur(s)
  BY <1>1, SavedActive DEF Cur
<1>3. emitReturn(s) = t
  BY DEF emitReturn, returnBB
<1>4. E \in SUBSET Nat /\ E \subseteq dom[s.insert] \cup {s.insert}
  BY <1>1, <1>2
<1> HIDE DEF E
<1>5. /\ Graph(r, dom, W) /\ Extends(s, dom, r, dom) /\ (hasTerminator(r) <=> hasTerminator(s))
      /\ Len(r.blocks) = Len(s.blocks) /\ r.insert = s.insert /\ r.frames = s.frames
  BY <1>4, GraphRestore DEF Sane
<1> HIDE DEF r
<1>6. Leads(s, dom, r, dom, W)
  BY <1>5, LeadsStay
<1>7. 2 \in 2..Len(r.blocks) /\ dom[2] \subseteq Cur(r)
  BY <1>1, <1>5
<1>8. Leads(r, dom, t, dom, W) /\ Ended(r, t)
  BY <1>5, <1>6, <1>7, SaneBr DEF Leads
<1> HIDE DEF t
<1>9. Leads(s, dom, t, dom, W)
  BY <1>6, <1>8, LeadsTransitive
<1>10. Ended(s, t)
  BY <1>5, <1>8 DEF Ended
<1> QED BY <1>3, <1>9, <1>10

\* Entries depend on entries alone.
LEMMA EntSame ==
  ASSUME NEW fs, NEW gs, NEW k \in Nat, \A j \in 1..k : gs[j].entry = fs[j].entry
  PROVE  Ent(gs, k) = Ent(fs, k)
<1>1. \A j \in 2..k : j \in 1..k
  OBVIOUS
<1> QED BY <1>1 DEF Ent

\* The stack pointer is saved at the beginning of a subframe whose entry block
\* has no PHI node.
LEMMA SaneSave ==
  ASSUME NEW s, NEW dom, NEW W, Sane(s, dom, W),
         s.blocks[s.frames[Len(s.frames)].entry].phi = "none"
  PROVE  LET t == stacksave(s)
         IN  /\ Sane(t, dom, W) /\ Extends(s, dom, t, dom) /\ SameFrames(s, t)
             /\ hasTerminator(t) <=> hasTerminator(s)
<1> DEFINE t == stacksave(s)
           n == Len(s.frames)
           b == s.frames[n].entry
           fs == [s.frames EXCEPT ![n].saved = TRUE]
           bs == [s.blocks EXCEPT ![b].phi = IF @ = "first" THEN "late" ELSE @]
<1>1. /\ Sound(s) /\ s \in Emission /\ s.frames \in Seq(Subframe) /\ n > 0 /\ n \in Nat
      /\ s.blocks \in Seq(Block) /\ Len(s.blocks) \in Nat
  BY SaneFacts DEF Emission
<1>2. Grows(s, t) /\ SameFrames(s, t) /\ Sound(t)
  BY <1>1, stacksaveGrows DEF Grows
<1>3. subframe(s) = s.frames[n]
  BY <1>1 DEF subframe, Last
<1>4. b \in 1..Len(s.blocks)
  BY <1>1 DEF Sane, FrameBounds
<1>5. t.blocks = s.blocks /\ t.insert = s.insert
  <2>1. CASE subframe(s).saved
    BY <2>1 DEF stacksave
  <2>2. CASE ~subframe(s).saved
    <3>1. t = [s EXCEPT !.frames = fs, !.blocks = bs]
      BY <2>2, <1>3 DEF stacksave
    <3>2. bs = s.blocks
      <4>1. s.blocks[b] \in Block
        BY <1>1, <1>4
      <4> DEFINE new == [s.blocks[b] EXCEPT !.phi = "none"]
      <4>2. new = s.blocks[b]
        BY <4>1 DEF Block
      <4> HIDE DEF new
      <4>3. bs = [s.blocks EXCEPT ![b] = new]
        BY DEF new
      <4> QED BY <4>2, <4>3, <1>1
    <3> HIDE DEF fs, bs, t
    <3> QED BY <3>1, <3>2, <1>1 DEF Emission
  <2> QED BY <2>1, <2>2
<1> HIDE DEF t
<1>6. Graph(t, dom, W) /\ Extends(s, dom, t, dom) /\ (hasTerminator(t) <=> hasTerminator(s))
  BY <1>2, <1>5, GraphFrames DEF Sane
<1>7. ASSUME NEW k \in 1..n PROVE Ent(t.frames, k) = Ent(s.frames, k)
  <2>1. k \in Nat /\ \A j \in 1..k : j \in 1..n
    BY <1>1
  <2>2. \A j \in 1..k : t.frames[j].entry = s.frames[j].entry
    BY <2>1, <1>2 DEF SameFrames
  <2> QED BY <2>1, <2>2, EntSame
<1>8. FrameBounds(t, dom)
  BY <1>2, <1>5, <1>7 DEF SameFrames, Sane, FrameBounds
<1>9. Here(t, dom)
  <2>1. Cur(t) = Cur(s)
    BY <1>1, <1>2, <1>7 DEF Cur, SameFrames
  <2> QED BY <2>1, <1>5 DEF Sane, Here
<1> QED BY <1>2, <1>6, <1>8, <1>9 DEF Sane, t

\* In t the innermost subframe of s is gone.
Popped(s, t) ==
  /\ Len(t.blocks) = Len(s.blocks) /\ t.insert = s.insert /\ t.frames = Front(s.frames)
  /\ hasTerminator(t) <=> hasTerminator(s)
  /\ Cur(t) = Ent(s.frames, Len(s.frames) - 1)

\* A subframe is popped, restoring its stack pointer.
LEMMA SanePop ==
  ASSUME NEW s, NEW dom, NEW W, Sane(s, dom, W), Len(s.frames) > 1
  PROVE  LET t == popFrame(s)
         IN  Sane(t, dom, W) /\ Extends(s, dom, t, dom) /\ Popped(s, t)
<1> DEFINE n == Len(s.frames)
           E == Saved(<<subframe(s)>>)
           r == Restore(s, E)
           t == popFrame(s)
<1>1. /\ Sound(s) /\ s.frames \in Seq(Subframe) /\ n \in Nat /\ n > 0 /\ Cur(s) \in SUBSET Nat
      /\ Cur(s) \subseteq dom[s.insert] \cup {s.insert} /\ Len(s.blocks) \in Nat
  BY SaneFacts
<1>2. E \subseteq Cur(s)
  <2>1. E \subseteq {s.frames[n].entry}
    BY <1>1, SavedActive DEF subframe
  <2>2. s.frames[n].entry \in Cur(s)
    BY <1>1 DEF Cur, Ent
  <2> QED BY <2>1, <2>2
<1>3. E \in SUBSET Nat /\ E \subseteq dom[s.insert] \cup {s.insert}
  BY <1>1, <1>2
<1>4. t = [r EXCEPT !.frames = Front(s.frames)]
  BY DEF popFrame
<1> HIDE DEF E
<1>5. /\ Graph(r, dom, W) /\ Extends(s, dom, r, dom) /\ (hasTerminator(r) <=> hasTerminator(s))
      /\ Len(r.blocks) = Len(s.blocks) /\ r.insert = s.insert /\ r.frames = s.frames
  BY <1>3, GraphRestore DEF Sane
<1>6. Sound(t) /\ t.frames = Front(s.frames)
  BY <1>1, popFrameFacts
<1> HIDE DEF r, t
<1>7. t.blocks = r.blocks /\ t.insert = r.insert
  <2>1. r \in Emission
    BY <1>5 DEF Graph, Sound
  <2> QED BY <2>1, <1>4 DEF Emission
<1>8. Graph(t, dom, W) /\ Extends(r, dom, t, dom) /\ (hasTerminator(t) <=> hasTerminator(r))
  BY <1>5, <1>6, <1>7, GraphFrames
<1>9. Extends(s, dom, t, dom)
  BY <1>1, <1>5, <1>6, <1>8, ExtendsTransitive DEF Graph
<1>10. Len(t.frames) = n - 1 /\ \A k \in 1..(n - 1) : t.frames[k] = s.frames[k]
  BY <1>1, <1>6, FrontFacts
<1>11. ASSUME NEW k \in 1..(n - 1) PROVE Ent(t.frames, k) = Ent(s.frames, k)
  <2>1. k \in Nat /\ \A j \in 1..k : t.frames[j].entry = s.frames[j].entry
    BY <1>1, <1>10
  <2> QED BY <2>1, EntSame
<1>12. n - 1 \in 1..(n - 1) /\ \A k \in 1..(n - 1) : k \in 1..n
  BY <1>1
<1>13. Cur(t) = Ent(s.frames, n - 1)
  BY <1>10, <1>11, <1>12 DEF Cur
<1>14. FrameBounds(t, dom)
  BY <1>5, <1>7, <1>10, <1>11, <1>12 DEF Sane, FrameBounds
<1>15. Here(t, dom)
  <2>1. Ent(s.frames, n - 1) \subseteq Cur(s)
    BY <1>1 DEF Ent, Cur
  <2> QED BY <2>1, <1>1, <1>5, <1>7, <1>13 DEF Here
<1>16. Popped(s, t)
  BY <1>5, <1>6, <1>7, <1>8, <1>13 DEF Popped
<1> QED BY <1>8, <1>9, <1>14, <1>15, <1>16 DEF Sane, t

\* A subframe is pushed whose entry block is the one the builder has moved to.
LEMMA SanePush ==
  ASSUME NEW s, NEW dom, NEW U, Sane(s, dom, U),
         NEW t, NEW e, NEW W, Graph(t, e, W), Extends(s, dom, t, e), NEW f,
         t.frames = Append(s.frames, f), f \in Subframe, f.entry = t.insert,
         f.merge \in 2..Len(t.blocks), e[f.merge] \subseteq Cur(s) \cup {t.insert},
         f.landingPad # 0 => /\ f.landingPad \in 2..Len(t.blocks)
                             /\ e[f.landingPad] \subseteq Cur(s) \cup {t.insert},
         Cur(s) \subseteq e[t.insert] \cup {t.insert}
  PROVE  /\ Sane(t, e, W) /\ Cur(t) = Cur(s) \cup {t.insert}
         /\ Len(t.frames) = Len(s.frames) + 1
         /\ \A k \in 1..Len(s.frames) : t.frames[k] = s.frames[k]
         /\ t.frames[Len(s.frames) + 1] = f
<1> DEFINE n == Len(s.frames)
<1>1. /\ Sound(s) /\ s.frames \in Seq(Subframe) /\ n \in Nat /\ n > 0 /\ Len(s.blocks) \in Nat
  BY SaneFacts
<1>2. /\ Len(t.frames) = n + 1 /\ t.frames[n + 1] = f
      /\ \A k \in 1..n : t.frames[k] = s.frames[k]
  BY <1>1
<1>3. /\ Sound(t) /\ Len(t.blocks) \in Nat /\ Len(s.blocks) =< Len(t.blocks)
      /\ t.insert \in 1..Len(t.blocks)
  BY DEF Graph, Sound, Emission, Extends
<1>4. ASSUME NEW k \in 1..n PROVE Ent(t.frames, k) = Ent(s.frames, k)
  <2>1. k \in Nat /\ \A j \in 1..k : t.frames[j].entry = s.frames[j].entry
    BY <1>1, <1>2
  <2> QED BY <2>1, EntSame
<1>5. Cur(t) = Cur(s) \cup {t.insert}
  <2>1. Cur(t) = Ent(t.frames, n) \cup {f.entry}
    <3>1. \A j : j \in 2..(n + 1) <=> (j \in 2..n \/ j = n + 1)
      BY <1>1
    <3> QED BY <1>2, <3>1 DEF Cur, Ent
  <2>2. n \in 1..n
    BY <1>1
  <2> QED BY <2>1, <2>2, <1>4 DEF Cur
<1>6. \A b \in 2..Len(s.blocks) : b \in 1..Len(s.blocks) /\ b \in 2..Len(t.blocks) /\ e[b] = dom[b]
  BY <1>1, <1>3 DEF Extends
<1>7. \A b \in 1..Len(s.blocks) : b \in 1..Len(t.blocks)
  BY <1>1, <1>3
<1>8. ASSUME NEW k \in 1..Len(t.frames)
      PROVE  /\ t.frames[k].entry \in 1..Len(t.blocks)
             /\ t.frames[k].merge \in 2..Len(t.blocks)
             /\ e[t.frames[k].merge] \subseteq Ent(t.frames, k)
             /\ t.frames[k].landingPad # 0 =>
                  /\ t.frames[k].landingPad \in 2..Len(t.blocks)
                  /\ e[t.frames[k].landingPad] \subseteq Ent(t.frames, k)
  <2>1. CASE k = n + 1
    <3>1. Ent(t.frames, k) = Cur(s) \cup {t.insert} /\ t.frames[k] = f
      BY <2>1, <1>2, <1>5 DEF Cur
    <3> QED BY <3>1, <1>3
  <2>2. CASE k # n + 1
    <3>1. k \in 1..n
      BY <2>2, <1>1, <1>2
    <3> QED BY <3>1, <1>2, <1>4, <1>6, <1>7 DEF Sane, FrameBounds
  <2> QED BY <2>1, <2>2
<1>9. FrameBounds(t, e)
  BY <1>1, <1>2, <1>8 DEF FrameBounds
<1>10. Here(t, e)
  BY <1>5 DEF Here
<1> QED BY <1>2, <1>5, <1>9, <1>10 DEF Sane

-----------------------------------------------------------------------------
(* The graph and the statements under way.                                     *)

\* The statement's merge block is reached through its subframe only.
Handled(n) == n.stmt \in {"handlers", "handler"} \/ (n.stmt = "block" /\ n.pad # 0)

\* What is known of the blocks noted for statement n, whose subframe is the
\* l-th: F are those that wait to be filled.
Slot(s, dom, n, l, F) ==
  LET D == IF Handled(n) THEN Ent(s.frames, l) ELSE Ent(s.frames, l - 1)
  IN  /\ n.merge \in 3..Len(s.blocks) /\ dom[n.merge] = D
      /\ n.stmt # "block" => n.next \in 3..Len(s.blocks) /\ dom[n.next] = D
      /\ s.frames[l].entry \in 1..Len(s.blocks)
      /\ n.stmt # "for" => s.blocks[s.frames[l].entry].phi = "none"
      /\ n.stmt \in Loops \cup {"handlers"} => F = {n.merge}
      /\ n.stmt = "block" /\ n.pad = 0 => F = {n.merge}
      /\ n.stmt = "block" /\ n.pad # 0 => /\ n.pad \in 3..Len(s.blocks) /\ dom[n.pad] = D
                                          /\ n.pad # n.merge /\ F = {n.merge, n.pad}
      /\ n.stmt = "if" => F = {n.merge, n.next} /\ (n.more = "none" <=> n.next = n.merge)
      /\ n.stmt = "handler" => F = {n.next} \/ (F = {} /\ s.blocks[n.next].term)

\* The level of the first i statements.
Lv(lev, i) == IF i = 0 THEN 1 ELSE lev[i]

\* A handler shares the subframe and the blocks of its handlers, every other
\* statement has a subframe of its own.
Link(nst, lev, fill, i) ==
  IF nst[i].stmt = "handler"
  THEN /\ i > 1 /\ nst[i - 1].stmt = "handlers" /\ lev[i] = lev[i - 1]
       /\ nst[i].merge = nst[i - 1].merge /\ nst[i].next = nst[i - 1].next
       /\ nst[i - 1].more = "others" <=> fill[i] = {}
  ELSE /\ lev[i] = Lv(lev, i - 1) + 1
       /\ i > 1 => nst[i - 1].stmt # "handlers"

Ctx(s, dom, nst, lev, fill) ==
  /\ nst \in Seq(Nested) /\ lev \in Seq(Nat) /\ fill \in Seq(SUBSET Nat)
  /\ Len(lev) = Len(nst) /\ Len(fill) = Len(nst)
  /\ \A i \in 1..Len(nst) :
       lev[i] > 1 /\ Slot(s, dom, nst[i], lev[i], fill[i]) /\ Link(nst, lev, fill, i)
  /\ \A i, j \in 1..Len(nst) : i < j => fill[i] \cap fill[j] = {} /\ lev[i] =< lev[j]
  /\ \A i \in 1..(Len(nst) - 1) : nst[i].last # "terminator"

\* The blocks that wait to be filled: the function's own and those noted.
Waiting(fill) == {1, 2} \cup UNION {fill[i] : i \in 1..Len(fill)}

\* No statement is accepted behind n.
Closed(n) == IF n.stmt = "handlers" THEN n.more = "others" ELSE n.last = "terminator"

Verif(s, dom, nst, lev, fill) ==
  /\ Ctx(s, dom, nst, lev, fill) /\ Sane(s, dom, Waiting(fill))
  /\ Lv(lev, Len(nst)) = Len(s.frames) /\ Len(nst) > 0
  /\ Len(s.blocks) > 2 /\ dom[3] = {}
  /\ hasTerminator(s) <=> Closed(nst[Len(nst)])
  /\ nst[Len(nst)].stmt = "handlers" => nst[Len(nst)].next = s.insert

Verified(s, nst) == \E dom, lev, fill : Verif(s, dom, nst, lev, fill)

\* The subframes up to the m-th have the same entry blocks.
SameEntries(s, t, m) == \A j \in 1..m : t.frames[j].entry = s.frames[j].entry

\* The context of a statement.
LEMMA CtxFacts ==
  ASSUME NEW s, NEW dom, NEW nst, NEW lev, NEW fill, Ctx(s, dom, nst, lev, fill)
  PROVE  /\ nst \in Seq(Nested) /\ Len(nst) \in Nat /\ lev \in Seq(Nat) /\ fill \in Seq(SUBSET Nat)
         /\ Len(lev) = Len(nst) /\ Len(fill) = Len(nst)
         /\ Lv(lev, Len(nst)) \in Nat /\ Lv(lev, Len(nst)) > 0
         /\ \A i \in 1..Len(nst) : /\ lev[i] \in Nat /\ lev[i] =< Lv(lev, Len(nst)) /\ lev[i] > 1
                                   /\ nst[i] \in Nested /\ fill[i] \in SUBSET Nat
<1>1. /\ nst \in Seq(Nested) /\ Len(nst) \in Nat /\ lev \in Seq(Nat) /\ fill \in Seq(SUBSET Nat)
      /\ Len(lev) = Len(nst) /\ Len(fill) = Len(nst)
  BY DEF Ctx
<1>2. \A i \in 1..Len(nst) : lev[i] \in Nat /\ nst[i] \in Nested /\ fill[i] \in SUBSET Nat /\ lev[i] > 1
  BY <1>1 DEF Ctx
<1>3. ASSUME NEW i \in 1..Len(nst) PROVE lev[i] =< Lv(lev, Len(nst))
  <2>1. CASE i = Len(nst)
    BY <2>1, <1>1, <1>2 DEF Lv
  <2>2. CASE i # Len(nst)
    <3>1. i < Len(nst) /\ Len(nst) \in 1..Len(nst)
      BY <2>2, <1>1
    <3> QED BY <3>1, <1>1 DEF Ctx, Lv
  <2> QED BY <2>1, <2>2
<1>4. Lv(lev, Len(nst)) \in Nat /\ Lv(lev, Len(nst)) > 0
  BY <1>1, <1>2 DEF Lv
<1> QED BY <1>1, <1>2, <1>3, <1>4

\* What is noted for a statement stays true as the graph grows.
LEMMA SlotExtends ==
  ASSUME NEW s, NEW dom, NEW t, NEW e, Sound(s), Sound(t), Extends(s, dom, t, e),
         NEW l \in Nat, l > 1, SameEntries(s, t, l), NEW n, NEW F, Slot(s, dom, n, l, F)
  PROVE  Slot(t, e, n, l, F)
<1>1. Len(s.blocks) \in Nat /\ Len(t.blocks) \in Nat /\ Len(s.blocks) =< Len(t.blocks)
  BY SoundLength DEF Extends
<1>2. /\ \A b \in 3..Len(s.blocks) : b \in 1..Len(s.blocks) /\ b \in 3..Len(t.blocks)
      /\ \A b \in 1..Len(s.blocks) : b \in 1..Len(t.blocks)
  BY <1>1
<1>3. \A b \in 1..Len(s.blocks) : /\ e[b] = dom[b]
                                  /\ s.blocks[b].phi = "none" => t.blocks[b].phi = "none"
                                  /\ s.blocks[b].term => t.blocks[b].term
  BY DEF Extends
<1>4. Ent(t.frames, l) = Ent(s.frames, l)
  BY EntSame DEF SameEntries
<1>5. Ent(t.frames, l - 1) = Ent(s.frames, l - 1)
  <2>1. l - 1 \in Nat /\ \A j \in 1..(l - 1) : t.frames[j].entry = s.frames[j].entry
    BY DEF SameEntries
  <2> QED BY <2>1, EntSame
<1>6. t.frames[l].entry = s.frames[l].entry
  BY DEF SameEntries
<1> QED BY <1>2, <1>3, <1>4, <1>5, <1>6 DEF Slot

\* So does the whole context.
LEMMA CtxExtends ==
  ASSUME NEW s, NEW dom, NEW nst, NEW lev, NEW fill, Ctx(s, dom, nst, lev, fill),
         NEW t, NEW e, Sound(s), Sound(t), Extends(s, dom, t, e),
         SameEntries(s, t, Lv(lev, Len(nst)))
  PROVE  Ctx(t, e, nst, lev, fill)
<1>1. ASSUME NEW i \in 1..Len(nst) PROVE Slot(t, e, nst[i], lev[i], fill[i])
  <2>1. lev[i] \in Nat /\ lev[i] > 1 /\ lev[i] =< Lv(lev, Len(nst)) /\ Lv(lev, Len(nst)) \in Nat
    BY CtxFacts
  <2>2. SameEntries(s, t, lev[i])
    BY <2>1 DEF SameEntries
  <2>3. Slot(s, dom, nst[i], lev[i], fill[i])
    BY DEF Ctx
  <2> QED BY <2>1, <2>2, <2>3, SlotExtends
<1> QED BY <1>1 DEF Ctx

\* The context of the statement around the innermost one.
LEMMA CtxFront ==
  ASSUME NEW s, NEW dom, NEW nst, NEW lev, NEW fill, Ctx(s, dom, nst, lev, fill), Len(nst) > 0
  PROVE  Ctx(s, dom, Front(nst), Front(lev), Front(fill))
<1> DEFINE n == Len(nst) - 1
           p == Front(nst)
           q == Front(lev)
           g == Front(fill)
<1>1. /\ nst \in Seq(Nested) /\ Len(nst) \in Nat /\ lev \in Seq(Nat) /\ fill \in Seq(SUBSET Nat)
      /\ Len(lev) = Len(nst) /\ Len(fill) = Len(nst) /\ n \in Nat
  BY CtxFacts
<1>2. /\ p \in Seq(Nested) /\ Len(p) = n /\ \A i \in 1..n : p[i] = nst[i]
  BY <1>1, FrontFacts
<1>3. /\ q \in Seq(Nat) /\ Len(q) = n /\ \A i \in 1..n : q[i] = lev[i]
  BY <1>1, FrontFacts
<1>4. /\ g \in Seq(SUBSET Nat) /\ Len(g) = n /\ \A i \in 1..n : g[i] = fill[i]
  BY <1>1, FrontFacts
<1>5. \A i \in 1..n : i \in 1..Len(nst) /\ (i > 1 => i - 1 \in 1..n)
  BY <1>1
<1> HIDE DEF p, q, g
<1>6. ASSUME NEW i \in 1..n
      PROVE  q[i] > 1 /\ Slot(s, dom, p[i], q[i], g[i]) /\ Link(p, q, g, i)
  <2>1. lev[i] > 1 /\ Slot(s, dom, nst[i], lev[i], fill[i]) /\ Link(nst, lev, fill, i)
    BY <1>5 DEF Ctx
  <2>2. Lv(q, i - 1) = Lv(lev, i - 1)
    BY <1>3, <1>5 DEF Lv
  <2>3. Link(p, q, g, i)
    BY <2>1, <2>2, <1>2, <1>3, <1>4, <1>5 DEF Link
  <2> QED BY <2>1, <2>3, <1>2, <1>3, <1>4
<1>7. \A i, j \in 1..n : i < j => g[i] \cap g[j] = {} /\ q[i] =< q[j]
  BY <1>3, <1>4, <1>5 DEF Ctx
<1>8. \A i \in 1..(n - 1) : p[i].last # "terminator"
  <2>1. \A i \in 1..(n - 1) : i \in 1..n
    BY <1>1
  <2> QED BY <2>1, <1>2 DEF Ctx
<1>9. Ctx(s, dom, p, q, g)
  BY <1>2, <1>3, <1>4, <1>6, <1>7, <1>8 DEF Ctx
<1> QED BY <1>9 DEF p, q, g

\* p is nst but for how its last sequence ends.
Touched(nst, p, last) ==
  /\ p \in Seq(Nested) /\ Len(p) = Len(nst) /\ p[Len(nst)].last = last
  /\ \A i \in 1..Len(nst) :
       /\ p[i].stmt = nst[i].stmt /\ p[i].merge = nst[i].merge
       /\ p[i].next = nst[i].next /\ p[i].pad = nst[i].pad /\ p[i].more = nst[i].more
       /\ i # Len(nst) => p[i].last = nst[i].last

\* How the innermost sequence ends matters to nothing around it.
LEMMA CtxTouch ==
  ASSUME NEW s, NEW dom, NEW nst, NEW lev, NEW fill, Ctx(s, dom, nst, lev, fill),
         NEW p, NEW last, Touched(nst, p, last)
  PROVE  Ctx(s, dom, p, lev, fill)
<1>1. Len(nst) \in Nat
  BY CtxFacts
<1> USE DEF Touched
<1>2. ASSUME NEW i \in 1..Len(nst)
      PROVE  Slot(s, dom, p[i], lev[i], fill[i]) /\ Link(p, lev, fill, i)
  <2>1. Slot(s, dom, nst[i], lev[i], fill[i]) /\ Link(nst, lev, fill, i)
    BY DEF Ctx
  <2>2. Handled(p[i]) <=> Handled(nst[i])
    BY DEF Handled
  <2>3. Slot(s, dom, p[i], lev[i], fill[i])
    BY <2>1, <2>2 DEF Slot
  <2>4. i > 1 => i - 1 \in 1..Len(nst)
    BY <1>1
  <2>5. Link(p, lev, fill, i)
    BY <2>1, <2>4 DEF Link
  <2> QED BY <2>3, <2>5
<1>3. \A i \in 1..(Len(nst) - 1) : i \in 1..Len(nst) /\ i # Len(nst)
  BY <1>1
<1> QED BY <1>2, <1>3 DEF Ctx

\* The blocks waiting for a statement are none of those waiting around it.
LEMMA WaitingFront ==
  ASSUME NEW s, NEW dom, NEW nst, NEW lev, NEW fill, Ctx(s, dom, nst, lev, fill), Len(nst) > 0
  PROVE  /\ Waiting(Front(fill)) = Waiting(fill) \ fill[Len(nst)]
         /\ Waiting(fill) = Waiting(Front(fill)) \cup fill[Len(nst)]
         /\ fill[Len(nst)] \subseteq Waiting(fill)
         /\ 1 \notin fill[Len(nst)] /\ 2 \notin fill[Len(nst)]
<1> DEFINE n == Len(nst)
           g == Front(fill)
<1>1. n \in Nat /\ n > 0 /\ fill \in Seq(SUBSET Nat) /\ Len(fill) = n /\ n \in 1..n
  BY CtxFacts
<1>2. Len(g) = n - 1 /\ \A i \in 1..(n - 1) : g[i] = fill[i]
  BY <1>1, FrontFacts
<1>3. \A i : i \in 1..n <=> i = n \/ i \in 1..(n - 1)
  BY <1>1
<1>4. \A i \in 1..(n - 1) : fill[i] \cap fill[n] = {}
  <2>1. \A i \in 1..(n - 1) : i \in 1..n /\ i < n
    BY <1>1
  <2> QED BY <2>1, <1>1 DEF Ctx
<1>5. 1 \notin fill[n] /\ 2 \notin fill[n]
  <2>1. Slot(s, dom, nst[n], lev[n], fill[n]) /\ nst[n] \in Nested
    BY <1>1, CtxFacts DEF Ctx
  <2>2. \A x \in 3..Len(s.blocks) : x # 1 /\ x # 2
    OBVIOUS
  <2>3. nst[n].stmt \in {"block", "handlers", "handler", "if", "while", "for", "loop"}
    BY <2>1 DEF Nested
  <2> QED BY <2>1, <2>2, <2>3 DEF Slot, Loops
<1> HIDE DEF g
<1>6. \A x : x \in UNION {fill[i] : i \in 1..n} <=> x \in fill[n] \/ x \in UNION {g[i] : i \in 1..(n - 1)}
  BY <1>2, <1>3
<1>7. \A x : x \in UNION {g[i] : i \in 1..(n - 1)} => x \notin fill[n]
  BY <1>2, <1>4
<1> QED BY <1>1, <1>2, <1>5, <1>6, <1>7 DEF Waiting, g

\* A statement adds its own.
LEMMA WaitingAppend ==
  ASSUME NEW fill \in Seq(SUBSET Nat), NEW F \in SUBSET Nat
  PROVE  Waiting(Append(fill, F)) = Waiting(fill) \cup F
<1> DEFINE n == Len(fill)
           g == Append(fill, F)
<1>1. n \in Nat /\ Len(g) = n + 1 /\ g[n + 1] = F /\ \A i \in 1..n : g[i] = fill[i]
  OBVIOUS
<1>2. \A i : i \in 1..(n + 1) <=> i = n + 1 \/ i \in 1..n
  BY <1>1
<1> HIDE DEF g
<1>3. UNION {g[i] : i \in 1..(n + 1)} = F \cup UNION {fill[i] : i \in 1..n}
  BY <1>1, <1>2
<1> QED BY <1>1, <1>3 DEF Waiting, g

\* Statement n, in the l-th subframe, may be begun inside of nst.
Follows(nst, lev, n, l, F) ==
  LET m == Len(nst)
  IN  IF n.stmt = "handler"
      THEN /\ m > 0 /\ nst[m].stmt = "handlers" /\ l = lev[m]
           /\ n.merge = nst[m].merge /\ n.next = nst[m].next
           /\ nst[m].more = "others" <=> F = {}
      ELSE /\ l = Lv(lev, m) + 1
           /\ m > 0 => nst[m].stmt # "handlers"

\* A statement is begun.
LEMMA CtxAppend ==
  ASSUME NEW s, NEW dom, NEW nst, NEW lev, NEW fill, Ctx(s, dom, nst, lev, fill),
         Len(nst) > 0 => nst[Len(nst)].last # "terminator",
         NEW n \in Nested, NEW l \in Nat, NEW F \in SUBSET Nat, Slot(s, dom, n, l, F),
         Follows(nst, lev, n, l, F), F \cap Waiting(fill) = {}
  PROVE  Ctx(s, dom, Append(nst, n), Append(lev, l), Append(fill, F))
<1> DEFINE m == Len(nst)
           p == Append(nst, n)
           q == Append(lev, l)
           g == Append(fill, F)
<1>1. /\ nst \in Seq(Nested) /\ m \in Nat /\ lev \in Seq(Nat) /\ fill \in Seq(SUBSET Nat)
      /\ Len(lev) = m /\ Len(fill) = m
      /\ \A i \in 1..m : lev[i] \in Nat /\ lev[i] =< Lv(lev, m) /\ lev[i] > 1
      /\ Lv(lev, m) \in Nat /\ Lv(lev, m) > 0
  BY CtxFacts
<1>2. p \in Seq(Nested) /\ Len(p) = m + 1 /\ p[m + 1] = n /\ \A i \in 1..m : p[i] = nst[i]
  BY <1>1
<1>3. q \in Seq(Nat) /\ Len(q) = m + 1 /\ q[m + 1] = l /\ \A i \in 1..m : q[i] = lev[i]
  BY <1>1
<1>4. g \in Seq(SUBSET Nat) /\ Len(g) = m + 1 /\ g[m + 1] = F /\ \A i \in 1..m : g[i] = fill[i]
  BY <1>1
<1>5. \A i \in 1..(m + 1) : i = m + 1 \/ i \in 1..m
  BY <1>1
<1> HIDE DEF p, q, g
<1>6. l > 1 /\ Lv(lev, m) =< l
  <2>1. CASE n.stmt = "handler"
    <3>1. m > 0 /\ l = lev[m] /\ m \in 1..m
      BY <2>1, <1>1 DEF Follows
    <3> QED BY <3>1, <1>1 DEF Lv
  <2>2. CASE n.stmt # "handler"
    BY <2>2, <1>1 DEF Follows
  <2> QED BY <2>1, <2>2
<1>7. Lv(q, m) = Lv(lev, m)
  BY <1>1, <1>3 DEF Lv
<1>8. Link(p, q, g, m + 1)
  <2>1. (m + 1) - 1 = m /\ (m + 1 > 1 <=> m > 0) /\ (m > 0 => m \in 1..m)
    BY <1>1
  <2>2. CASE n.stmt = "handler"
    BY <2>1, <2>2, <1>2, <1>3, <1>4 DEF Follows, Link
  <2>3. CASE n.stmt # "handler"
    BY <2>1, <2>3, <1>2, <1>3, <1>4, <1>7 DEF Follows, Link
  <2> QED BY <2>2, <2>3
<1>9. ASSUME NEW i \in 1..m
      PROVE  q[i] > 1 /\ Slot(s, dom, p[i], q[i], g[i]) /\ Link(p, q, g, i)
  <2>1. Slot(s, dom, nst[i], lev[i], fill[i]) /\ Link(nst, lev, fill, i)
    BY DEF Ctx
  <2>2. i > 1 => i - 1 \in 1..m
    BY <1>1
  <2>3. Lv(q, i - 1) = Lv(lev, i - 1)
    <3>1. i = 1 \/ i - 1 \in 1..m
      BY <1>1
    <3>2. CASE i = 1
      BY <3>2 DEF Lv
    <3>3. CASE i - 1 \in 1..m
      BY <3>3, <1>3 DEF Lv
    <3> QED BY <3>1, <3>2, <3>3
  <2>4. Link(p, q, g, i)
    BY <2>1, <2>2, <2>3, <1>2, <1>3, <1>4 DEF Link
  <2> QED BY <2>1, <2>4, <1>1, <1>2, <1>3, <1>4
<1>10. ASSUME NEW i \in 1..(m + 1)
       PROVE  q[i] > 1 /\ Slot(s, dom, p[i], q[i], g[i]) /\ Link(p, q, g, i)
  BY <1>2, <1>3, <1>4, <1>5, <1>6, <1>8, <1>9
<1>11. ASSUME NEW i \in 1..(m + 1), NEW j \in 1..(m + 1), i < j
       PROVE  g[i] \cap g[j] = {} /\ q[i] =< q[j]
  <2>1. i \in 1..m
    BY <1>1, <1>11
  <2>2. CASE j \in 1..m
    BY <2>1, <2>2, <1>11, <1>3, <1>4 DEF Ctx
  <2>3. CASE j = m + 1
    <3>1. g[i] \subseteq Waiting(fill)
      BY <2>1, <1>1, <1>4, SMTT(30) DEF Waiting
    <3>2. q[i] =< l
      <4>1. q[i] = lev[i] /\ lev[i] \in Nat /\ lev[i] =< Lv(lev, m) /\ Lv(lev, m) \in Nat
        BY <2>1, <1>1, <1>3
      <4> QED BY <4>1, <1>6
    <3> QED BY <3>1, <3>2, <2>3, <1>3, <1>4
  <2> QED BY <2>2, <2>3, <1>5
<1>12. \A i \in 1..m : p[i].last # "terminator"
  <2>1. \A i \in 1..m : i = m \/ i \in 1..(m - 1)
    BY <1>1
  <2> QED BY <2>1, <1>2 DEF Ctx
<1>13. (m + 1) - 1 = m
  BY <1>1
<1>14. Ctx(s, dom, p, q, g)
  BY <1>2, <1>3, <1>4, <1>10, <1>11, <1>12, <1>13 DEF Ctx
<1> QED BY <1>14 DEF p, q, g

\* A change of the last statement's note.
LEMMA TouchLastMore ==
  ASSUME NEW nst \in Seq(Nested), Len(nst) > 0, NEW last \in {"empty", "open", "terminator"}
  PROVE  Touched(nst, [nst EXCEPT ![Len(nst)].last = last], last)
<1> DEFINE n == [nst[Len(nst)] EXCEPT !.last = last]
           p == [nst EXCEPT ![Len(nst)] = n]
<1>1. Len(nst) \in 1..Len(nst) /\ nst[Len(nst)] \in Nested
  OBVIOUS
<1>2. /\ n \in Nested /\ n.stmt = nst[Len(nst)].stmt /\ n.merge = nst[Len(nst)].merge
      /\ n.more = nst[Len(nst)].more /\ n.pad = nst[Len(nst)].pad /\ n.next = nst[Len(nst)].next
      /\ n.last = last
  BY <1>1 DEF Nested
<1> HIDE DEF n
<1>3. /\ p \in Seq(Nested) /\ Len(p) = Len(nst) /\ p[Len(nst)] = n
      /\ \A i \in 1..Len(nst) : i # Len(nst) => p[i] = nst[i]
  BY <1>1, <1>2
<1>4. p = [nst EXCEPT ![Len(nst)].last = last]
  BY DEF n
<1> HIDE DEF p
<1>5. Touched(nst, p, last)
  BY <1>2, <1>3 DEF Touched
<1> QED BY <1>4, <1>5

\* A simple statement.
LEMMA VerifEmitted ==
  ASSUME NEW s, NEW dom, NEW nst, NEW lev, NEW fill, Verif(s, dom, nst, lev, fill),
         nst[Len(nst)].stmt # "handlers",
         NEW t, NEW e, Sane(t, e, Waiting(fill)), Extends(s, dom, t, e),
         Len(t.frames) = Len(s.frames), SameEntries(s, t, Len(s.frames)),
         NEW last \in {"open", "terminator"}, hasTerminator(t) <=> last = "terminator"
  PROVE  Verif(t, e, [nst EXCEPT ![Len(nst)].last = last], lev, fill)
<1> DEFINE p == [nst EXCEPT ![Len(nst)].last = last]
<1>1. /\ Sound(s) /\ Sound(t) /\ Ctx(s, dom, nst, lev, fill) /\ Len(nst) > 0
      /\ nst \in Seq(Nested) /\ Len(nst) \in 1..Len(nst)
  BY CtxFacts DEF Verif, Sane, Graph
<1>2. Touched(nst, p, last)
  <2>1. last \in {"empty", "open", "terminator"}
    OBVIOUS
  <2> QED BY <1>1, <2>1, TouchLastMore
<1> HIDE DEF p
<1>3. Ctx(s, dom, p, lev, fill)
  BY <1>1, <1>2, CtxTouch
<1> USE DEF Touched
<1>4. Ctx(t, e, p, lev, fill)
  BY <1>1, <1>2, <1>3, CtxExtends DEF Verif
<1>5. Closed(p[Len(p)]) <=> last = "terminator"
  BY <1>1, <1>2 DEF Closed
<1>6. e[3] = {} /\ Len(t.blocks) > 2
  <2>1. 3 \in 1..Len(s.blocks) /\ Len(s.blocks) \in Nat /\ Len(t.blocks) \in Nat
    BY <1>1, SoundLength DEF Verif
  <2> QED BY <2>1 DEF Extends, Verif
<1>7. Verif(t, e, p, lev, fill)
  BY <1>1, <1>2, <1>4, <1>5, <1>6 DEF Verif
<1> QED BY <1>7 DEF p

\* A compound statement with a subframe of its own.
LEMMA VerifBegin ==
  ASSUME NEW s, NEW dom, NEW nst, NEW lev, NEW fill, Verif(s, dom, nst, lev, fill),
         nst[Len(nst)].stmt # "handlers",
         NEW t, NEW e, NEW n \in Nested, NEW F \in SUBSET Nat,
         Sane(t, e, Waiting(fill) \cup F), Extends(s, dom, t, e),
         Len(t.frames) = Len(s.frames) + 1, SameEntries(s, t, Len(s.frames)),
         Slot(t, e, n, Len(s.frames) + 1, F), F \cap (1..Len(s.blocks)) = {},
         n.stmt \notin {"handlers", "handler"}, n.last = "empty", ~hasTerminator(t)
  PROVE  Verified(t, Append([nst EXCEPT ![Len(nst)].last = "open"], n))
<1> DEFINE p == [nst EXCEPT ![Len(nst)].last = "open"]
           m == Len(nst)
           l == Len(s.frames) + 1
           pp == Append(p, n)
           ll == Append(lev, l)
           ff == Append(fill, F)
<1>1. /\ Sound(s) /\ Sound(t) /\ Ctx(s, dom, nst, lev, fill) /\ m > 0
      /\ nst \in Seq(Nested) /\ m \in 1..m /\ m \in Nat /\ Len(lev) = m /\ Len(fill) = m
      /\ lev \in Seq(Nat) /\ fill \in Seq(SUBSET Nat) /\ l \in Nat
  BY CtxFacts, SaneFacts DEF Verif
<1>2. Touched(nst, p, "open")
  <2> HIDE DEF m
  <2> QED BY <1>1, TouchLastMore DEF m
<1> HIDE DEF p
<1>3. Ctx(s, dom, p, lev, fill)
  BY <1>1, <1>2, CtxTouch
<1> USE DEF Touched
<1>4. Ctx(t, e, p, lev, fill)
  BY <1>1, <1>2, <1>3, CtxExtends DEF Verif
<1>5. Follows(p, lev, n, l, F)
  BY <1>1, <1>2 DEF Follows, Verif
<1>6. F \cap Waiting(fill) = {}
  BY SaneFacts DEF Verif
<1>7. Ctx(t, e, pp, ll, ff)
  BY <1>1, <1>2, <1>4, <1>5, <1>6, CtxAppend
<1>8. Waiting(ff) = Waiting(fill) \cup F
  BY <1>1, WaitingAppend
<1>9. Len(pp) = m + 1 /\ pp[m + 1] = n /\ ll[m + 1] = l /\ m + 1 # 0
  BY <1>1, <1>2
<1> HIDE DEF pp, ll, ff
<1>10. Lv(ll, Len(pp)) = Len(t.frames)
  BY <1>9 DEF Lv
<1>11. e[3] = {} /\ Len(t.blocks) > 2
  <2>1. 3 \in 1..Len(s.blocks) /\ Len(s.blocks) \in Nat /\ Len(t.blocks) \in Nat
    BY <1>1, SoundLength DEF Verif
  <2> QED BY <2>1 DEF Extends, Verif
<1>12. ~Closed(n)
  BY DEF Closed
<1>13. Verif(t, e, pp, ll, ff)
  BY <1>1, <1>7, <1>8, <1>9, <1>10, <1>11, <1>12 DEF Verif
<1> QED BY <1>13 DEF Verified, pp, p

\* The end of a compound statement that pops its subframe.
LEMMA VerifEnd ==
  ASSUME NEW s, NEW dom, NEW nst, NEW lev, NEW fill, Verif(s, dom, nst, lev, fill),
         Len(nst) > 1, nst[Len(nst)].stmt # "handler",
         NEW t, NEW e, Sane(t, e, Waiting(fill) \ fill[Len(nst)]), Extends(s, dom, t, e),
         Len(t.frames) = Len(s.frames) - 1, SameEntries(s, t, Len(s.frames) - 1),
         ~hasTerminator(t)
  PROVE  Verified(t, Front(nst))
<1> DEFINE m == Len(nst) - 1
           p == Front(nst)
           ll == Front(lev)
           ff == Front(fill)
<1>1. /\ Sound(s) /\ Sound(t) /\ Ctx(s, dom, nst, lev, fill)
      /\ nst \in Seq(Nested) /\ m \in Nat /\ Len(lev) = m + 1 /\ Len(fill) = m + 1 /\ Len(nst) = m + 1
      /\ lev \in Seq(Nat) /\ fill \in Seq(SUBSET Nat) /\ m > 0 /\ Len(s.frames) \in Nat
  BY CtxFacts, SaneFacts DEF Verif
<1>2. Ctx(s, dom, p, ll, ff)
  BY <1>1, CtxFront
<1>3. Len(p) = m /\ p[m] = nst[m] /\ ll[m] = lev[m]
  BY <1>1, FrontFacts
<1>4. lev[m + 1] = lev[m] + 1 /\ nst[m].stmt # "handlers" /\ nst[m].last # "terminator" /\ lev[m] \in Nat
  <2>1. m + 1 \in 1..Len(nst) /\ m \in 1..(Len(nst) - 1) /\ (m + 1) - 1 = m /\ m + 1 > 1 /\ m \in 1..Len(nst)
    BY <1>1
  <2>2. Link(nst, lev, fill, m + 1)
    BY <2>1 DEF Verif, Ctx
  <2>3. lev[m] \in Nat
    BY <1>1, <2>1, CtxFacts
  <2> QED BY <2>1, <2>2, <2>3, <1>1 DEF Link, Lv, Verif, Ctx
<1> HIDE DEF p, ll, ff
<1>5. Lv(ll, Len(p)) = Len(s.frames) - 1
  <2>1. Lv(lev, Len(nst)) = Len(s.frames)
    BY DEF Verif
  <2>2. lev[m + 1] = Len(s.frames)
    BY <2>1, <1>1 DEF Lv
  <2>3. Lv(ll, Len(p)) = lev[m]
    BY <1>1, <1>3 DEF Lv
  <2> QED BY <2>2, <2>3, <1>1, <1>4
<1>6. Ctx(t, e, p, ll, ff)
  BY <1>1, <1>2, <1>5, CtxExtends
<1>7. Waiting(ff) = Waiting(fill) \ fill[Len(nst)]
  BY <1>1, WaitingFront DEF ff
<1>8. e[3] = {} /\ Len(t.blocks) > 2
  <2>1. 3 \in 1..Len(s.blocks) /\ Len(s.blocks) \in Nat /\ Len(t.blocks) \in Nat
    BY <1>1, SoundLength DEF Verif
  <2> QED BY <2>1 DEF Extends, Verif
<1>9. ~Closed(p[Len(p)]) /\ p[Len(p)].stmt # "handlers"
  BY <1>3, <1>4 DEF Closed
<1>10. Verif(t, e, p, ll, ff)
  BY <1>1, <1>3, <1>5, <1>6, <1>7, <1>8, <1>9 DEF Verif
<1> QED BY <1>10 DEF Verified, p

\* The emission of the innermost statement goes on with another note.
LEMMA VerifReplace ==
  ASSUME NEW s, NEW dom, NEW nst, NEW lev, NEW fill, Verif(s, dom, nst, lev, fill),
         nst[Len(nst)].stmt # "handler",
         NEW t, NEW e, NEW n \in Nested, NEW F \in SUBSET Nat,
         Sane(t, e, (Waiting(fill) \ fill[Len(nst)]) \cup F), Extends(s, dom, t, e),
         Len(t.frames) = Len(s.frames), SameEntries(s, t, Len(s.frames) - 1),
         Slot(t, e, n, Len(s.frames), F), n.stmt # "handler",
         \A b \in F : b \in fill[Len(nst)] \/ b \notin 1..Len(s.blocks),
         hasTerminator(t) <=> Closed(n), n.stmt = "handlers" => n.next = t.insert
  PROVE  Verif(t, e, Append(Front(nst), n), Append(Front(lev), Len(s.frames)), Append(Front(fill), F))
<1> DEFINE m == Len(nst) - 1
           l == Len(s.frames)
           p == Front(nst)
           q == Front(lev)
           g == Front(fill)
           pp == Append(p, n)
           ll == Append(q, l)
           ff == Append(g, F)
<1>1. /\ Sound(s) /\ Sound(t) /\ Ctx(s, dom, nst, lev, fill)
      /\ nst \in Seq(Nested) /\ m \in Nat /\ Len(lev) = m + 1 /\ Len(fill) = m + 1 /\ Len(nst) = m + 1
      /\ lev \in Seq(Nat) /\ fill \in Seq(SUBSET Nat) /\ l \in Nat
  BY CtxFacts, SaneFacts DEF Verif
<1>2. Ctx(s, dom, p, q, g)
  BY <1>1, CtxFront
<1>3. /\ p \in Seq(Nested) /\ Len(p) = m /\ (m > 0 => p[m] = nst[m])
      /\ q \in Seq(Nat) /\ Len(q) = m /\ (m > 0 => q[m] = lev[m])
      /\ g \in Seq(SUBSET Nat) /\ Len(g) = m
  <2>1. m > 0 => m \in 1..m
    BY <1>1
  <2>2. p \in Seq(Nested) /\ Len(p) = m /\ \A i \in 1..m : p[i] = nst[i]
    BY <1>1, FrontFacts
  <2>3. q \in Seq(Nat) /\ Len(q) = m /\ \A i \in 1..m : q[i] = lev[i]
    BY <1>1, FrontFacts
  <2>4. g \in Seq(SUBSET Nat) /\ Len(g) = m
    BY <1>1, FrontFacts
  <2> HIDE DEF p, q, g
  <2> QED BY <2>1, <2>2, <2>3, <2>4
<1> HIDE DEF p, q, g
<1>4. /\ lev[m + 1] = Lv(lev, m) + 1 /\ (m > 0 => nst[m].stmt # "handlers" /\ nst[m].last # "terminator")
      /\ Lv(lev, m) \in Nat
  <2>1. m + 1 \in 1..Len(nst) /\ (m + 1) - 1 = m /\ (m > 0 => m + 1 > 1 /\ m \in 1..(Len(nst) - 1) /\ m \in 1..Len(nst))
    BY <1>1
  <2>2. Link(nst, lev, fill, m + 1)
    BY <2>1 DEF Verif, Ctx
  <2>3. m > 0 => lev[m] \in Nat
    BY <1>1, <2>1, CtxFacts
  <2>4. Lv(lev, m) \in Nat
    BY <2>3, <1>1 DEF Lv
  <2> QED BY <2>1, <2>2, <2>4, <1>1 DEF Link, Verif, Ctx
<1>5. Lv(q, m) = l - 1 /\ l = Lv(q, m) + 1
  <2>1. Lv(q, m) = Lv(lev, m)
    BY <1>1, <1>3 DEF Lv
  <2>2. lev[m + 1] = l
    BY <1>1 DEF Verif, Lv
  <2> QED BY <2>1, <2>2, <1>4, <1>1
<1>6. Ctx(t, e, p, q, g)
  BY <1>1, <1>2, <1>3, <1>5, CtxExtends
<1>7. Follows(p, q, n, l, F)
  BY <1>3, <1>4, <1>5 DEF Follows
<1>8. Waiting(g) = Waiting(fill) \ fill[Len(nst)]
  BY <1>1, WaitingFront DEF g
<1>9. F \cap Waiting(g) = {}
  <2>1. Waiting(fill) \subseteq 1..Len(s.blocks)
    BY SaneFacts DEF Verif
  <2> QED BY <2>1, <1>8
<1>10. Ctx(t, e, pp, ll, ff)
  BY <1>1, <1>3, <1>4, <1>6, <1>7, <1>9, CtxAppend
<1>11. Waiting(ff) = (Waiting(fill) \ fill[Len(nst)]) \cup F
  BY <1>3, <1>8, WaitingAppend
<1>12. Len(pp) = m + 1 /\ pp[m + 1] = n /\ ll[m + 1] = l /\ m + 1 # 0 /\ m + 1 > 0
  BY <1>1, <1>3
<1> HIDE DEF pp, ll, ff
<1>13. e[3] = {} /\ Len(t.blocks) > 2
  <2>1. 3 \in 1..Len(s.blocks) /\ Len(s.blocks) \in Nat /\ Len(t.blocks) \in Nat
    BY <1>1, SoundLength DEF Verif
  <2> QED BY <2>1 DEF Extends, Verif
<1>14. Lv(ll, Len(pp)) = Len(t.frames)
  BY <1>12 DEF Lv
<1>15. Verif(t, e, pp, ll, ff)
  BY <1>10, <1>11, <1>12, <1>13, <1>14 DEF Verif
<1> QED BY <1>15 DEF pp, ll, ff, p, q, g

-----------------------------------------------------------------------------
(* Simple statements *)

\* The subroutine uses no form that the emitters are not prepared for.
Prepared == Unchecked = {}

\* Where a statement is accepted the block being filled is open.
LEMMA AcceptedOpen ==
  ASSUME Prepared, NEW dom, NEW lev, NEW fill, Verif(ir, dom, nest, lev, fill), Accepted
  PROVE  /\ ~hasTerminator(ir) /\ nest[Len(nest)].stmt # "handlers" /\ Inner = nest[Len(nest)]
         /\ Sane(ir, dom, Waiting(fill)) /\ Sound(ir) /\ Len(ir.blocks) \in Nat /\ Len(ir.blocks) > 2
         /\ Cur(ir) \in SUBSET Nat /\ Cur(ir) \subseteq dom[ir.insert] \cup {ir.insert}
         /\ Waiting(fill) \subseteq 1..Len(ir.blocks)
<1>1. Inner = nest[Len(nest)]
  BY CtxFacts DEF Inner, Last, Verif
<1>2. Inner.last # "terminator" /\ Inner.stmt # "handlers"
  BY DEF Accepted, Prepared
<1>3. Sane(ir, dom, Waiting(fill)) /\ Len(ir.blocks) > 2
  BY DEF Verif
<1>4. ~hasTerminator(ir)
  BY <1>1, <1>2 DEF Verif, Closed
<1> QED BY <1>1, <1>2, <1>3, <1>4, SaneFacts

\* A statement emitted in the same subframe.
LEMMA EmittedVerified ==
  ASSUME NEW dom, NEW lev, NEW fill, Verif(ir, dom, nest, lev, fill), nest[Len(nest)].stmt # "handlers",
         NEW t, NEW e, Leads(ir, dom, t, e, Waiting(fill)), NEW last \in {"open", "terminator"},
         hasTerminator(t) <=> last = "terminator", Emitted(t, last)
  PROVE  Verified(ir', nest')
<1>1. ir' = t /\ nest' = [nest EXCEPT ![Len(nest)].last = last]
  BY DEF Emitted
<1>2. /\ Sane(t, e, Waiting(fill)) /\ Extends(ir, dom, t, e)
      /\ Len(t.frames) = Len(ir.frames) /\ SameEntries(ir, t, Len(ir.frames))
  BY DEF Leads, SameEntries
<1>3. Verif(t, e, [nest EXCEPT ![Len(nest)].last = last], lev, fill)
  BY <1>2, VerifEmitted
<1> QED BY <1>1, <1>3 DEF Verified

\* emitSimpleStmt.
LEMMA SimpleStmtVerified ==
  ASSUME Prepared, Verified(ir, nest), emitSimpleStmt
  PROVE  Verified(ir', nest')
<1>1. PICK dom, lev, fill : Verif(ir, dom, nest, lev, fill)
  BY DEF Verified
<1>2. /\ ~hasTerminator(ir) /\ nest[Len(nest)].stmt # "handlers" /\ Inner = nest[Len(nest)]
      /\ Sane(ir, dom, Waiting(fill)) /\ Sound(ir)
  BY <1>1, AcceptedOpen DEF emitSimpleStmt
<1>3. CASE Emitted(Instruction(ir), "open")
  <2>1. Emitted(ir, "open")
    BY <1>2, <1>3, InstructionIsPlain
  <2>2. Leads(ir, dom, ir, dom, Waiting(fill))
    BY <1>2, ExtendsRefl DEF Leads
  <2> QED BY <1>1, <1>2, <2>1, <2>2, EmittedVerified
<1> DEFINE s == emitCall(ir)
<1>4. PICK e : Leads(ir, dom, s, e, Waiting(fill))
  BY <1>2, SaneCall
<1>5. ~hasTerminator(s)
  BY <1>2, SaneCall
<1>6. CASE Emitted(emitCall(ir), "open")
  BY <1>1, <1>2, <1>4, <1>5, <1>6, EmittedVerified
<1>7. CASE Inner.stmt # "for" /\ Emitted(Instruction(stacksave(emitCall(ir))), "open")
  <2> DEFINE t == stacksave(s)
             n == Len(ir.frames)
  <2>1. Emitted(Instruction(t), "open")
    BY <1>7
  <2> HIDE DEF s
  <2>2. /\ Sane(s, e, Waiting(fill)) /\ Extends(ir, dom, s, e) /\ s.frames = ir.frames
    BY <1>4 DEF Leads
  <2>3. s.blocks[s.frames[Len(s.frames)].entry].phi = "none"
    <3>1. n \in Nat /\ Len(nest) \in 1..Len(nest) /\ lev[Len(nest)] = n
      BY <1>1, <1>2, SaneFacts, CtxFacts DEF Verif, Lv
    <3>2. Slot(ir, dom, nest[Len(nest)], n, fill[Len(nest)])
      BY <3>1, <1>1 DEF Verif, Ctx
    <3>3. ir.blocks[ir.frames[n].entry].phi = "none" /\ ir.frames[n].entry \in 1..Len(ir.blocks)
      BY <3>2, <1>2, <1>7 DEF Slot
    <3> QED BY <3>3, <2>2 DEF Extends
  <2>4. /\ Sane(t, e, Waiting(fill)) /\ Extends(s, e, t, e) /\ SameFrames(s, t)
        /\ ~hasTerminator(t)
    BY <2>2, <2>3, <1>5, SaneSave
  <2> HIDE DEF t
  <2>5. Sound(s) /\ Sound(t)
    BY <2>2, <2>4 DEF Sane, Graph
  <2>6. Extends(ir, dom, t, e)
    BY <1>2, <2>2, <2>4, <2>5, ExtendsTransitive
  <2>7. Len(t.frames) = Len(ir.frames) /\ SameEntries(ir, t, Len(ir.frames))
    BY <2>2, <2>4 DEF SameFrames, SameEntries
  <2>8. Instruction(t) = t
    BY <2>4, <2>5, InstructionIsPlain
  <2>9. ir' = t /\ nest' = [nest EXCEPT ![Len(nest)].last = "open"]
    BY <2>1, <2>8 DEF Emitted
  <2>10. Verif(t, e, [nest EXCEPT ![Len(nest)].last = "open"], lev, fill)
    BY <1>1, <1>2, <2>4, <2>6, <2>7, VerifEmitted
  <2> QED BY <2>9, <2>10 DEF Verified
<1> QED BY <1>3, <1>6, <1>7 DEF emitSimpleStmt, Prepared

\* emitReturnStmt.
LEMMA ReturnStmtVerified ==
  ASSUME Prepared, Verified(ir, nest), emitReturnStmt
  PROVE  Verified(ir', nest')
<1>1. PICK dom, lev, fill : Verif(ir, dom, nest, lev, fill)
  BY DEF Verified
<1>2. /\ ~hasTerminator(ir) /\ nest[Len(nest)].stmt # "handlers"
      /\ Sane(ir, dom, Waiting(fill)) /\ Sound(ir)
  BY <1>1, AcceptedOpen DEF emitReturnStmt
<1>3. Emitted(emitReturn(ir), "terminator")
  BY <1>2, InstructionIsPlain DEF emitReturnStmt
<1>4. Leads(ir, dom, emitReturn(ir), dom, Waiting(fill)) /\ hasTerminator(emitReturn(ir))
  BY <1>2, SaneReturn DEF Ended
<1> QED BY <1>1, <1>2, <1>3, <1>4, EmittedVerified

\* emitRaiseStmt.
LEMMA RaiseStmtVerified ==
  ASSUME Prepared, Verified(ir, nest), emitRaiseStmt
  PROVE  Verified(ir', nest')
<1>1. PICK dom, lev, fill : Verif(ir, dom, nest, lev, fill)
  BY DEF Verified
<1>2. /\ ~hasTerminator(ir) /\ nest[Len(nest)].stmt # "handlers"
      /\ Sane(ir, dom, Waiting(fill)) /\ Sound(ir)
  BY <1>1, AcceptedOpen DEF emitRaiseStmt
<1>3. Emitted(raiseExinfo(ir), "terminator")
  BY DEF emitRaiseStmt
<1>4. PICK e : Leads(ir, dom, raiseExinfo(ir), e, Waiting(fill))
  BY <1>2, SaneRaise
<1>5. hasTerminator(raiseExinfo(ir))
  BY <1>2, SaneRaise
<1> QED BY <1>1, <1>2, <1>3, <1>4, <1>5, EmittedVerified

\* Blocks n + 1 and n + 2 are those made between s and t.
MadeTwo(s, t, e, n, D, E) ==
  /\ Len(t.blocks) = n + 2 /\ Newest(t) = n + 2 /\ e[n + 1] = D /\ e[n + 2] = E
  /\ t.insert = s.insert /\ t.frames = s.frames
  /\ hasTerminator(t) <=> hasTerminator(s)

\* Making two blocks.
LEMMA SaneMakeTwo ==
  ASSUME NEW s, NEW dom, NEW W, Sane(s, dom, W), NEW name \in Names,
         NEW name2 \in Names, NEW D \in SUBSET Nat, NEW E \in SUBSET Nat
  PROVE  LET t == makeBasicBlock(makeBasicBlock(s, name), name2)
             n == Len(s.blocks)
         IN  \E e : Leads(s, dom, t, e, W \cup {n + 1, n + 2}) /\ MadeTwo(s, t, e, n, D, E)
<1> DEFINE n == Len(s.blocks)
           r == makeBasicBlock(s, name)
           d == Append(dom, D)
           t == makeBasicBlock(r, name2)
           e == Append(d, E)
<1>1. n \in Nat /\ Sound(s)
  BY SaneFacts
<1>2. Leads(s, dom, r, d, W \cup {n + 1}) /\ Made(s, r, d, n + 1, D)
  BY SaneMake
<1> HIDE DEF r, d
<1>3. Sane(r, d, W \cup {n + 1}) /\ Len(r.blocks) = n + 1
  BY <1>2 DEF Leads, Made
<1>4. Leads(r, d, t, e, (W \cup {n + 1}) \cup {Len(r.blocks) + 1}) /\ Made(r, t, e, Len(r.blocks) + 1, E)
  BY <1>3, SaneMake
<1> HIDE DEF t, e
<1>5. Len(r.blocks) + 1 = n + 2 /\ n + 1 \in 1..Len(r.blocks)
  BY <1>1, <1>3
<1>6. (W \cup {n + 1}) \cup {n + 2} = W \cup {n + 1, n + 2}
  OBVIOUS
<1>7. Leads(r, d, t, e, W \cup {n + 1, n + 2}) /\ Made(r, t, e, n + 2, E)
  BY <1>4, <1>5, <1>6
<1>8. Leads(s, dom, t, e, W \cup {n + 1, n + 2})
  BY <1>2, <1>7, LeadsTransitive
<1>9. e[n + 1] = D
  BY <1>2, <1>5, <1>7 DEF Leads, Extends, Made
<1>10. MadeTwo(s, t, e, n, D, E)
  BY <1>2, <1>7, <1>9 DEF Made, MadeTwo
<1> QED BY <1>8, <1>10 DEF t, r

\* The builder has left its block for block b, still to be filled.
Jumped(s, t, b) ==
  /\ t.insert = b /\ t.frames = s.frames /\ Len(t.blocks) = Len(s.blocks)
  /\ ~hasTerminator(t) /\ t.blocks[b].phi = "none"

\* The block is terminated and the builder goes on in one that waits.
LEMMA SaneJump ==
  ASSUME NEW s, NEW dom, NEW W, Sane(s, dom, W), ~hasTerminator(s), NEW succ \in SUBSET Nat,
         Targets(s, dom, succ), NEW b \in W, Cur(s) \subseteq dom[b] \cup {b}
  PROVE  LET t == SetInsertPoint(Terminator(s, succ, {}), b)
         IN  Leads(s, dom, t, dom, W \ {b}) /\ Jumped(s, t, b)
<1> DEFINE r == Terminator(s, succ, {})
           t == SetInsertPoint(r, b)
<1>1. {} \in SUBSET Nat /\ succ \cup {} = succ
  OBVIOUS
<1>2. Leads(s, dom, r, dom, W) /\ Ended(s, r)
  BY <1>1, SaneTerm
<1> HIDE DEF r
<1>3. Sane(r, dom, W) /\ hasTerminator(r) /\ Len(r.blocks) = Len(s.blocks) /\ Cur(r) = Cur(s) /\ r.frames = s.frames
  BY <1>2 DEF Leads, Ended, Cur
<1>4. b \in 1..Len(r.blocks)
  BY <1>3, SaneFacts
<1>5. Leads(r, dom, t, dom, W \ {b}) /\ Moved(r, t, b, W)
  BY <1>3, <1>4, SaneMove
<1> HIDE DEF t
<1>6. Leads(s, dom, t, dom, W \ {b})
  BY <1>2, <1>5, LeadsTransitive
<1>7. r.blocks[b].phi = "none"
  BY <1>3, <1>4 DEF Sane, Graph, Blank
<1>8. Jumped(s, t, b)
  BY <1>3, <1>5, <1>7 DEF Moved, Jumped
<1> QED BY <1>6, <1>8 DEF t, r

\* emitPragmaAssert.
LEMMA PragmaAssertVerified ==
  ASSUME Prepared, Verified(ir, nest), emitPragmaAssert
  PROVE  Verified(ir', nest')
<1>1. PICK dom, lev, fill : Verif(ir, dom, nest, lev, fill)
  BY DEF Verified
<1> DEFINE W == Waiting(fill)
           C == Cur(ir)
           c == Condition(ir)
           s == makeBasicBlock(makeBasicBlock(c, NoName), NoName)
           fail == Newest(s) - 1
           pass == Newest(s)
           t == SetInsertPoint(Terminator(s, {fail, pass}, {}), fail)
           u == raiseExinfo(t)
           v == SetInsertPoint(u, pass)
<1>2. /\ ~hasTerminator(ir) /\ nest[Len(nest)].stmt # "handlers" /\ Sane(ir, dom, W) /\ Sound(ir)
      /\ C \in SUBSET Nat
  BY <1>1, AcceptedOpen DEF emitPragmaAssert
<1>3. Emitted(v, "open")
  BY DEF emitPragmaAssert
<1>4. PICK e : Leads(ir, dom, c, e, W)
  BY <1>2, SaneCall DEF Condition
<1>5. ~hasTerminator(c) /\ Sane(c, e, W) /\ c.frames = ir.frames
  BY <1>2, <1>4, SaneCall DEF Condition, Leads
<1> HIDE DEF c, W, C
<1> DEFINE n == Len(c.blocks)
<1>6. NoName \in Names
  BY NameFacts
<1>7. PICK f : Leads(c, e, s, f, W \cup {n + 1, n + 2}) /\ MadeTwo(c, s, f, n, C, C)
  BY <1>2, <1>5, <1>6, SaneMakeTwo
<1> HIDE DEF s
<1>8. /\ Sane(s, f, W \cup {n + 1, n + 2}) /\ ~hasTerminator(s) /\ Len(s.blocks) = n + 2
      /\ f[n + 1] = C /\ f[n + 2] = C /\ s.frames = ir.frames /\ pass = n + 2 /\ n \in Nat
      /\ W \subseteq 1..n
  <2>1. n \in Nat /\ W \subseteq 1..n
    BY <1>5, SaneFacts
  <2> QED BY <1>5, <1>7, <2>1 DEF Leads, MadeTwo
<1>9. fail = n + 1
  BY <1>8
<1> HIDE DEF fail, pass
<1>10. Cur(s) = C /\ C \subseteq f[s.insert] \cup {s.insert} /\ n > 1
  <2>1. n > 1
    BY <1>5, SaneFacts
  <2>2. Cur(s) = C
    BY <1>8 DEF Cur, C
  <2> QED BY <2>1, <2>2, <1>8, SaneFacts
<1>11. Targets(s, f, {fail, pass}) /\ {fail, pass} \in SUBSET Nat
  BY <1>8, <1>9, <1>10 DEF Targets
<1>12. fail \in W \cup {n + 1, n + 2} /\ Cur(s) \subseteq f[fail] \cup {fail}
  BY <1>8, <1>9, <1>10
<1>13. Leads(s, f, t, f, (W \cup {n + 1, n + 2}) \ {fail}) /\ Jumped(s, t, fail)
  BY <1>8, <1>11, <1>12, SaneJump
<1> HIDE DEF t
<1>14. (W \cup {n + 1, n + 2}) \ {fail} = W \cup {n + 2}
  BY <1>8, <1>9
<1>15. Sane(t, f, W \cup {n + 2}) /\ ~hasTerminator(t) /\ t.frames = ir.frames /\ Len(t.blocks) = n + 2
  BY <1>8, <1>13, <1>14 DEF Leads, Jumped
<1>16. PICK g : Leads(t, f, u, g, W \cup {n + 2})
  BY <1>15, SaneRaise
<1>17. hasTerminator(u)
  BY <1>15, SaneRaise
<1> HIDE DEF u
<1>18. /\ Sane(u, g, W \cup {n + 2}) /\ u.frames = ir.frames /\ g[pass] = C
       /\ pass \in 1..Len(u.blocks)
  <2>1. n + 2 \in 1..Len(t.blocks) /\ Len(t.blocks) \in Nat
    BY <1>8, <1>15
  <2>2. Len(u.blocks) \in Nat /\ Len(t.blocks) =< Len(u.blocks)
    BY <1>16, SaneFacts DEF Leads, Extends
  <2>3. g[n + 2] = f[n + 2]
    BY <2>1, <1>16 DEF Leads, Extends
  <2> QED BY <2>1, <2>2, <2>3, <1>8, <1>15, <1>16 DEF Leads
<1>19. Cur(u) = C
  BY <1>18 DEF Cur, C
<1>20. Leads(u, g, v, g, (W \cup {n + 2}) \ {pass}) /\ Moved(u, v, pass, W \cup {n + 2})
  BY <1>17, <1>18, <1>19, SaneMove
<1> HIDE DEF v
<1>21. (W \cup {n + 2}) \ {pass} = W
  BY <1>8
<1>22. ~hasTerminator(v)
  BY <1>8, <1>20 DEF Moved
<1>23. Leads(ir, dom, v, g, W)
  <2>1. Leads(ir, dom, s, f, W \cup {n + 1, n + 2})
    BY <1>2, <1>4, <1>7, LeadsTransitive
  <2>2. Leads(ir, dom, t, f, W \cup {n + 2})
    <3>1. Leads(s, f, t, f, W \cup {n + 2})
      BY <1>13, <1>14, Zenon
    <3> QED BY <2>1, <3>1, <1>2, LeadsTransitive
  <2>3. Leads(ir, dom, u, g, W \cup {n + 2})
    BY <2>2, <1>2, <1>16, LeadsTransitive
  <2>4. Leads(u, g, v, g, W)
    BY <1>20, <1>21, Zenon
  <2> QED BY <2>3, <2>4, <1>2, LeadsTransitive
<1> QED BY <1>1, <1>2, <1>3, <1>22, <1>23, EmittedVerified DEF W

\* The subframe that an exit statement finds is an active one.
LEMMA ExitFrameActive ==
  ASSUME NEW tag, Sound(ir), ExitFrame(tag) # 0
  PROVE  ExitFrame(tag) \in 1..Len(ir.frames)
<1>1. ir.frames \in Seq(Subframe) /\ Len(ir.frames) \in Nat /\ DOMAIN ir.frames = 1..Len(ir.frames)
  BY DEF Sound, Emission
<1>2. ASSUME NEW S \in SUBSET (1..Len(ir.frames)), IndexOfInnermost(S) # 0
      PROVE  IndexOfInnermost(S) \in 1..Len(ir.frames)
  <2>1. S # {} /\ IndexOfInnermost(S) = Innermost(S)
    BY <1>2 DEF IndexOfInnermost
  <2> QED BY <2>1, <1>1, InnermostFacts
<1> DEFINE A == {i \in DOMAIN ir.frames : ir.frames[i].kind = "Loop"}
           B == {i \in DOMAIN ir.frames : ir.blocks[ir.frames[i].entry].name = tag}
<1>3. A \in SUBSET (1..Len(ir.frames)) /\ B \in SUBSET (1..Len(ir.frames))
  BY <1>1
<1>4. ExitFrame(tag) = IndexOfInnermost(A) \/ ExitFrame(tag) = IndexOfInnermost(B)
  BY DEF ExitFrame, findFirstLoop, findFirstNamedSubframe
<1> HIDE DEF A, B
<1> QED BY <1>2, <1>3, <1>4

\* emitExitStmt.
LEMMA ExitStmtVerified ==
  ASSUME Prepared, Verified(ir, nest), NEW tag, NEW conditional, emitExitStmt(tag, conditional)
  PROVE  Verified(ir', nest')
<1>1. PICK dom, lev, fill : Verif(ir, dom, nest, lev, fill)
  BY DEF Verified
<1> DEFINE W == Waiting(fill)
           C == Cur(ir)
           k == ExitFrame(tag)
           target == ir.frames[k].merge
           s == makeBasicBlock(ir, NoName)
           rest == Newest(s)
           c == Condition(s)
           t == Terminator(c, {target, rest}, {})
           u == SetInsertPoint(t, rest)
           n == Len(ir.blocks)
<1>2. /\ ~hasTerminator(ir) /\ nest[Len(nest)].stmt # "handlers" /\ Sane(ir, dom, W) /\ Sound(ir)
      /\ C \in SUBSET Nat /\ n \in Nat /\ n > 2 /\ W \subseteq 1..n
  BY <1>1, AcceptedOpen DEF emitExitStmt
<1>3. target \in 2..n /\ dom[target] \subseteq C
  <2>1. k \in 1..Len(ir.frames) /\ Len(ir.frames) \in Nat
    BY <1>2, ExitFrameActive, SaneFacts DEF emitExitStmt
  <2>2. target \in 2..n /\ dom[target] \subseteq Ent(ir.frames, k)
    BY <2>1, <1>2 DEF Sane, FrameBounds
  <2>3. Ent(ir.frames, k) \subseteq C
    BY <2>1 DEF Ent, Cur
  <2> QED BY <2>2, <2>3
<1>4. IF conditional THEN Emitted(u, "open") ELSE Emitted(Br(ir, target), "terminator")
  BY DEF emitExitStmt
<1> HIDE DEF k, target, W, C
<1>5. CASE ~conditional
  <2>1. Leads(ir, dom, Br(ir, target), dom, W) /\ Ended(ir, Br(ir, target))
    BY <1>2, <1>3, SaneBr DEF C
  <2>2. hasTerminator(Br(ir, target)) /\ Emitted(Br(ir, target), "terminator")
    BY <2>1, <1>4, <1>5 DEF Ended
  <2> QED BY <1>1, <1>2, <2>1, <2>2, EmittedVerified DEF W
<1>6. CASE conditional
  <2> DEFINE d == Append(dom, C)
  <2>1. NoName \in Names
    BY NameFacts
  <2>2. Leads(ir, dom, s, d, W \cup {n + 1}) /\ Made(ir, s, d, n + 1, C)
    BY <1>2, <2>1, SaneMake
  <2> HIDE DEF s, d
  <2>3. /\ Sane(s, d, W \cup {n + 1}) /\ ~hasTerminator(s) /\ Len(s.blocks) = n + 1
        /\ d[n + 1] = C /\ rest = n + 1 /\ s.frames = ir.frames
    BY <2>2, <1>2 DEF Made, Leads
  <2> HIDE DEF rest
  <2>4. PICK e : Leads(s, d, c, e, W \cup {n + 1})
    BY <2>3, SaneCall DEF Condition
  <2>5. /\ ~hasTerminator(c) /\ Sane(c, e, W \cup {n + 1}) /\ c.frames = ir.frames
    BY <2>3, <2>4, SaneCall DEF Condition, Leads
  <2> HIDE DEF c
  <2>6. Leads(ir, dom, c, e, W \cup {n + 1})
    BY <1>2, <2>2, <2>4, LeadsTransitive
  <2>7. /\ e[n + 1] = C /\ e[target] = dom[target] /\ n + 1 \in 2..Len(c.blocks)
        /\ target \in 2..Len(c.blocks) /\ n + 1 =< Len(c.blocks)
    <3>1. n + 1 =< Len(c.blocks) /\ Len(c.blocks) \in Nat
      BY <2>3, <2>4, <2>5, SaneFacts DEF Leads, Extends
    <3>2. e[n + 1] = d[n + 1]
      BY <1>2, <2>3, <2>4 DEF Leads, Extends
    <3>3. e[target] = dom[target]
      BY <1>2, <1>3, <2>6 DEF Leads, Extends
    <3> QED BY <3>1, <3>2, <3>3, <2>3, <1>2, <1>3
  <2>8. Cur(c) = C /\ C \subseteq e[c.insert] \cup {c.insert}
    <3>1. Cur(c) = C
      BY <2>5 DEF Cur, C
    <3> QED BY <3>1, <2>5, SaneFacts
  <2>9. Targets(c, e, {target, rest}) /\ {target, rest} \in SUBSET Nat
    <3>1. target \in Nat /\ rest \in Nat
      BY <1>2, <1>3, <2>3
    <3>2. e[target] \subseteq C /\ e[rest] \subseteq C /\ rest \in 2..Len(c.blocks)
      BY <1>3, <2>3, <2>7
    <3> QED BY <3>1, <3>2, <2>7, <2>8 DEF Targets
  <2>10. rest \in W \cup {n + 1} /\ Cur(c) \subseteq e[rest] \cup {rest}
    BY <2>3, <2>7, <2>8
  <2>11. Leads(c, e, u, e, (W \cup {n + 1}) \ {rest}) /\ Jumped(c, u, rest)
    BY <2>5, <2>9, <2>10, SaneJump
  <2>12. (W \cup {n + 1}) \ {rest} = W
    BY <1>2, <2>3
  <2> HIDE DEF u
  <2>13. Leads(ir, dom, u, e, W)
    <3>1. Leads(c, e, u, e, W)
      BY <2>11, <2>12, Zenon
    <3> QED BY <1>2, <2>6, <3>1, LeadsTransitive
  <2>14. ~hasTerminator(u) /\ Emitted(u, "open")
    BY <2>11, <1>4, <1>6 DEF Jumped
  <2> QED BY <1>1, <1>2, <2>13, <2>14, EmittedVerified DEF W
<1> QED BY <1>5, <1>6

-----------------------------------------------------------------------------
(* Compound statements *)

\* PushSubframe on a sound state.
LEMMA PushedState ==
  ASSUME NEW s, Sound(s), NEW kind \in {"Block", "Loop"}, NEW entry \in Nat, NEW merge \in Nat
  PROVE  LET t == PushSubframe(s, kind, entry, merge)
             f == [kind |-> kind, entry |-> entry, merge |-> merge, saved |-> FALSE, landingPad |-> 0]
         IN  /\ Sound(t) /\ t.blocks = s.blocks /\ t.insert = s.insert
             /\ t.frames = Append(s.frames, f) /\ f \in Subframe
<1> DEFINE t == PushSubframe(s, kind, entry, merge)
           f == [kind |-> kind, entry |-> entry, merge |-> merge, saved |-> FALSE, landingPad |-> 0]
           fs == Append(s.frames, f)
<1>1. s \in Emission /\ s.frames \in Seq(Subframe) /\ s.insert \in 1..Len(s.blocks)
  BY DEF Sound, Emission
<1>2. f \in Subframe
  BY DEF Subframe
<1>3. t = [s EXCEPT !.frames = fs]
  BY DEF PushSubframe
<1> HIDE DEF f
<1>4. fs \in Seq(Subframe)
  BY <1>1, <1>2
<1> HIDE DEF fs, t
<1>5. t \in Emission /\ t.blocks = s.blocks /\ t.insert = s.insert /\ t.frames = fs
  BY <1>1, <1>3, <1>4 DEF Emission
<1> QED BY <1>1, <1>2, <1>5 DEF Sound, t, f, fs

\* A statement other than a block begins: its subframe is entered at the block
\* being filled, and its own blocks have just been made.
LEMMA PushVerified ==
  ASSUME NEW dom, NEW lev, NEW fill, Verif(ir, dom, nest, lev, fill), nest[Len(nest)].stmt # "handlers",
         NEW v, NEW e, NEW F \in SUBSET Nat, Leads(ir, dom, v, e, Waiting(fill) \cup F),
         ~hasTerminator(v), NEW kind \in {"Block", "Loop"},
         NEW n \in Nested, n.stmt \in {"if", "while", "for", "loop"}, n.last = "empty",
         n.merge \in (Len(ir.blocks) + 1)..Len(v.blocks), e[n.merge] = Cur(ir),
         n.next \in (Len(ir.blocks) + 1)..Len(v.blocks), e[n.next] = Cur(ir),
         IF n.stmt = "if" THEN F = {n.merge, n.next} /\ (n.more = "none" <=> n.next = n.merge)
                          ELSE F = {n.merge},
         n.stmt = "for" \/ v.blocks[v.insert].phi = "none",
         Begin(PushSubframe(v, kind, v.insert, n.merge), n)
  PROVE  Verified(ir', nest')
<1> DEFINE t == PushSubframe(v, kind, v.insert, n.merge)
           f == [kind |-> kind, entry |-> v.insert, merge |-> n.merge, saved |-> FALSE, landingPad |-> 0]
           m == Len(ir.frames)
           W == Waiting(fill) \cup F
<1>1. /\ Sane(v, e, W) /\ Extends(ir, dom, v, e) /\ v.frames = ir.frames
  BY DEF Leads
<1>2. /\ Sane(ir, dom, Waiting(fill)) /\ Len(ir.blocks) > 2 /\ Len(ir.blocks) \in Nat /\ m \in Nat /\ m > 0
      /\ Sound(v) /\ Len(v.blocks) \in Nat /\ v.insert \in 1..Len(v.blocks) /\ v.insert \in Nat
      /\ Cur(v) \subseteq e[v.insert] \cup {v.insert} /\ Sound(ir)
  BY <1>1, SaneFacts DEF Verif
<1>3. n.merge \in 3..Len(v.blocks) /\ n.merge \in Nat /\ n.next \in 3..Len(v.blocks) /\ n.merge \in 2..Len(v.blocks)
  BY <1>2
<1>4. /\ Sound(t) /\ t.blocks = v.blocks /\ t.insert = v.insert
      /\ t.frames = Append(v.frames, f) /\ f \in Subframe
  <2>1. Sound(v) /\ kind \in {"Block", "Loop"} /\ v.insert \in Nat /\ n.merge \in Nat
    BY <1>2, <1>3
  <2> QED BY <2>1, PushedState, Zenon
<1>5. f.entry = v.insert /\ f.merge = n.merge /\ f.landingPad = 0
  OBVIOUS
<1>6. ir' = t /\ nest' = Append([nest EXCEPT ![Len(nest)].last = "open"], n)
  BY DEF Begin
<1> HIDE DEF t, f, W
<1>7. Graph(t, e, W) /\ Extends(v, e, t, e) /\ ~hasTerminator(t)
  BY <1>1, <1>4, GraphFrames DEF Sane
<1>8. Cur(v) = Cur(ir)
  BY <1>1 DEF Cur
<1>9. /\ Sane(t, e, W) /\ Cur(t) = Cur(v) \cup {t.insert}
      /\ Len(t.frames) = Len(v.frames) + 1
      /\ \A k \in 1..Len(v.frames) : t.frames[k] = v.frames[k]
      /\ t.frames[Len(v.frames) + 1] = f
  <2>1. f.entry = t.insert /\ f.merge \in 2..Len(t.blocks) /\ e[f.merge] \subseteq Cur(v) \cup {t.insert}
    BY <1>3, <1>4, <1>5, <1>8
  <2>2. Cur(v) \subseteq e[t.insert] \cup {t.insert}
    BY <1>2, <1>4
  <2> QED BY <1>1, <1>4, <1>5, <1>7, <2>1, <2>2, SanePush, SMTT(30)
<1>10. Extends(ir, dom, t, e)
  BY <1>1, <1>2, <1>4, <1>7, ExtendsTransitive
<1>11. Len(t.frames) = m + 1 /\ SameEntries(ir, t, m)
  BY <1>1, <1>9 DEF SameEntries
<1>12. Ent(t.frames, m) = Cur(ir)
  <2>1. \A j \in 1..m : t.frames[j].entry = ir.frames[j].entry
    BY <1>11 DEF SameEntries
  <2> QED BY <2>1, <1>2, EntSame DEF Cur
<1>13. Slot(t, e, n, m + 1, F)
  <2>1. ~Handled(n) /\ n.stmt # "block" /\ n.stmt # "handlers" /\ n.stmt # "handler"
    BY DEF Handled
  <2>2. n.stmt \in Loops \cup {"handlers"} => F = {n.merge}
    BY DEF Loops
  <2>3. n.stmt = "if" => F = {n.merge, n.next} /\ (n.more = "none" <=> n.next = n.merge)
    OBVIOUS
  <2>4. t.frames[m + 1].entry = v.insert /\ (m + 1) - 1 = m
    BY <1>1, <1>2, <1>5, <1>9
  <2>5. /\ n.merge \in 3..Len(t.blocks) /\ n.next \in 3..Len(t.blocks)
        /\ t.frames[m + 1].entry \in 1..Len(t.blocks)
        /\ n.stmt # "for" => t.blocks[t.frames[m + 1].entry].phi = "none"
    BY <1>2, <1>3, <1>4, <2>4
  <2>6. e[n.merge] = Ent(t.frames, (m + 1) - 1) /\ e[n.next] = Ent(t.frames, (m + 1) - 1)
    BY <1>12, <2>4
  <2> QED BY <2>1, <2>2, <2>3, <2>5, <2>6 DEF Slot
<1>14. F \cap (1..Len(ir.blocks)) = {}
  <2>1. n.merge \notin 1..Len(ir.blocks) /\ n.next \notin 1..Len(ir.blocks)
    BY <1>2
  <2>2. \A x \in F : x = n.merge \/ x = n.next
    OBVIOUS
  <2> QED BY <2>1, <2>2
<1>15. Verified(t, Append([nest EXCEPT ![Len(nest)].last = "open"], n))
  <2>1. n.stmt \notin {"handlers", "handler"}
    OBVIOUS
  <2>2. Sane(t, e, Waiting(fill) \cup F)
    BY <1>9 DEF W
  <2> QED BY <1>7, <1>10, <1>11, <1>13, <1>14, <2>1, <2>2, VerifBegin
<1> QED BY <1>6, <1>15

\* The block that follows a branch, or the merge block.
LEMMA SaneFollowUp ==
  ASSUME NEW s, NEW dom, NEW W, Sane(s, dom, W), NEW more \in {"none", "elsif", "else"},
         NEW C \in SUBSET Nat
  PROVE  LET t == FollowUp(s, more)
             n == Len(s.blocks) + 1
         IN  IF more = "none" THEN t = s
             ELSE \E e : Leads(s, dom, t, e, W \cup {n}) /\ Made(s, t, e, n, C)
<1>1. CASE more = "none"
  BY <1>1 DEF FollowUp
<1>2. CASE more # "none"
  <2>1. FollowUp(s, more) = makeBasicBlock(s, more) /\ more \in Names
    BY <1>2, NameFacts DEF FollowUp
  <2>2. LET t == makeBasicBlock(s, more)
            n == Len(s.blocks) + 1
        IN  Leads(s, dom, t, Append(dom, C), W \cup {n}) /\ Made(s, t, Append(dom, C), n, C)
    BY <2>1, SaneMake
  <2> QED BY <1>2, <2>1, <2>2
<1> QED BY <1>1, <1>2

\* beginIfStmt.
LEMMA beginIfVerified ==
  ASSUME Prepared, Verified(ir, nest), NEW more \in {"none", "elsif", "else"}, beginIfStmt(more)
  PROVE  Verified(ir', nest')
<1>1. PICK dom, lev, fill : Verif(ir, dom, nest, lev, fill)
  BY DEF Verified
<1> DEFINE W == Waiting(fill)
           C == Cur(ir)
           c == Condition(ir)
           s == makeBasicBlock(makeBasicBlock(c, "then"), "merge")
           then == Newest(s) - 1
           merge == Newest(s)
           t == FollowUp(s, more)
           else == Newest(t)
           v == SetInsertPoint(Terminator(t, {then, else}, {}), then)
           u == PushSubframe(v, "Block", then, merge)
           n == Len(c.blocks)
           k == IfNest(merge, else, more)
<1>2. /\ ~hasTerminator(ir) /\ nest[Len(nest)].stmt # "handlers" /\ Sane(ir, dom, W) /\ Sound(ir)
      /\ C \in SUBSET Nat /\ W \subseteq 1..Len(ir.blocks) /\ Len(ir.blocks) \in Nat /\ Len(ir.blocks) > 2
  BY <1>1, AcceptedOpen DEF beginIfStmt
<1>3. Begin(u, k)
  BY DEF beginIfStmt, Branch
<1>4. PICK e : Leads(ir, dom, c, e, W)
  BY <1>2, SaneCall DEF Condition
<1>5. ~hasTerminator(c) /\ Sane(c, e, W) /\ c.frames = ir.frames
  BY <1>2, <1>4, SaneCall DEF Condition, Leads
<1>6. n \in Nat /\ Len(ir.blocks) =< n /\ n > 2
  BY <1>2, <1>4, <1>5, SaneFacts DEF Leads, Extends
<1> HIDE DEF c, W, C
<1>7. "then" \in Names /\ "merge" \in Names
  BY NameFacts
<1>8. PICK f : Leads(c, e, s, f, W \cup {n + 1, n + 2}) /\ MadeTwo(c, s, f, n, C, C)
  BY <1>2, <1>5, <1>7, SaneMakeTwo
<1> HIDE DEF s
<1>9. /\ Sane(s, f, W \cup {n + 1, n + 2}) /\ ~hasTerminator(s) /\ Len(s.blocks) = n + 2
      /\ f[n + 1] = C /\ f[n + 2] = C /\ s.frames = ir.frames /\ merge = n + 2
      /\ Newest(s) = n + 2
  BY <1>5, <1>8 DEF Leads, MadeTwo
<1>10. then = n + 1
  BY <1>6, <1>9
<1>11. Leads(ir, dom, s, f, W \cup {n + 1, n + 2})
  BY <1>2, <1>4, <1>8, LeadsTransitive
<1> HIDE DEF then, merge
<1>12. PICK g : /\ Leads(ir, dom, t, g, W \cup {n + 1, n + 2, else}) /\ ~hasTerminator(t)
                /\ g[n + 1] = C /\ g[n + 2] = C /\ g[else] = C /\ n + 2 =< Len(t.blocks)
                /\ else \in (n + 2)..Len(t.blocks)
                /\ (more = "none" <=> else = n + 2)
  <2>1. CASE more = "none"
    <3>1. t = s /\ else = n + 2
      BY <2>1, <1>9 DEF FollowUp
    <3>2. W \cup {n + 1, n + 2, else} = W \cup {n + 1, n + 2}
      BY <3>1
    <3>3. Leads(ir, dom, s, f, W \cup {n + 1, n + 2, else})
      BY <3>2, <1>11, Zenon
    <3> QED BY <2>1, <3>1, <3>3, <1>6, <1>9
  <2>2. CASE more # "none"
    <3>1. PICK g : Leads(s, f, t, g, (W \cup {n + 1, n + 2}) \cup {Len(s.blocks) + 1}) /\ Made(s, t, g, Len(s.blocks) + 1, C)
      BY <2>2, <1>2, <1>9, SaneFollowUp
    <3>2. Len(s.blocks) + 1 = n + 3
      BY <1>6, <1>9
    <3> HIDE DEF t
    <3>3. else = n + 3 /\ Len(t.blocks) = n + 3 /\ g[n + 3] = C /\ ~hasTerminator(t)
      BY <3>1, <3>2, <1>9 DEF Made
    <3>4. (W \cup {n + 1, n + 2}) \cup {Len(s.blocks) + 1} = W \cup {n + 1, n + 2, else}
      BY <3>2, <3>3
    <3>5. Leads(s, f, t, g, W \cup {n + 1, n + 2, else})
      BY <3>1, <3>4, Zenon
    <3>6. Leads(ir, dom, t, g, W \cup {n + 1, n + 2, else})
      BY <3>5, <1>2, <1>11, LeadsTransitive
    <3>7. g[n + 1] = C /\ g[n + 2] = C
      <4>1. n + 1 \in 1..Len(s.blocks) /\ n + 2 \in 1..Len(s.blocks)
        BY <1>6, <1>9
      <4> QED BY <4>1, <3>5, <1>9 DEF Leads, Extends
    <3>8. n + 2 =< Len(t.blocks) /\ else \in (n + 2)..Len(t.blocks) /\ else # n + 2
      BY <3>3, <1>6
    <3> QED BY <2>2, <3>3, <3>6, <3>7, <3>8
  <2> QED BY <2>1, <2>2
<1> HIDE DEF t, else
<1> DEFINE V == W \cup {n + 1, n + 2, else}
<1>13. Sane(t, g, V) /\ Cur(t) = C /\ C \subseteq g[t.insert] \cup {t.insert} /\ Len(t.blocks) \in Nat
  <2>1. Sane(t, g, V) /\ Cur(t) = C
    BY <1>12 DEF Leads, Cur, C
  <2> QED BY <2>1, SaneFacts
<1>14. Targets(t, g, {then, else}) /\ {then, else} \in SUBSET Nat
  <2>1. then \in 2..Len(t.blocks) /\ else \in 2..Len(t.blocks) /\ then \in Nat /\ else \in Nat
    BY <1>6, <1>10, <1>12, <1>13
  <2> QED BY <2>1, <1>10, <1>12, <1>13 DEF Targets
<1>15. then \in V /\ Cur(t) \subseteq g[then] \cup {then}
  BY <1>10, <1>12, <1>13
<1>16. V \ {then} = W \cup {n + 2, else}
  <2>1. W \subseteq 1..n
    BY <1>5, SaneFacts
  <2> QED BY <2>1, <1>6, <1>10, <1>12
<1> HIDE DEF V
<1>17. Leads(t, g, v, g, V \ {then}) /\ Jumped(t, v, then)
  BY <1>12, <1>13, <1>14, <1>15, SaneJump
<1> HIDE DEF v
<1>18. Leads(t, g, v, g, W \cup {n + 2, else})
  BY <1>16, <1>17, Zenon
<1>19. Leads(ir, dom, v, g, W \cup {n + 2, else})
  <2>1. Leads(ir, dom, t, g, V)
    BY <1>12 DEF V
  <2> QED BY <2>1, <1>2, <1>18, LeadsTransitive
<1>20. ~hasTerminator(v) /\ v.insert = then /\ v.blocks[v.insert].phi = "none" /\ Len(v.blocks) = Len(t.blocks)
  BY <1>17 DEF Jumped
<1>21. merge \in Nat /\ else \in Nat
  BY <1>6, <1>9, <1>12, <1>13
<1>22. /\ k \in Nested /\ k.stmt = "if" /\ k.merge = merge /\ k.next = else /\ k.last = "empty" /\ k.more = more
  BY <1>21 DEF IfNest, Statement, Nested
<1>23. Begin(PushSubframe(v, "Block", v.insert, k.merge), k)
  BY <1>3, <1>20, <1>22
<1> HIDE DEF k
<1> DEFINE F == {n + 2, else}
<1>24. /\ F \in SUBSET Nat /\ k.merge \in (Len(ir.blocks) + 1)..Len(v.blocks)
       /\ k.next \in (Len(ir.blocks) + 1)..Len(v.blocks)
       /\ g[k.merge] = Cur(ir) /\ g[k.next] = Cur(ir)
       /\ F = {k.merge, k.next} /\ (k.more = "none" <=> k.next = k.merge)
  BY <1>2, <1>6, <1>9, <1>12, <1>13, <1>20, <1>21, <1>22 DEF C
<1> HIDE DEF F
<1>25. Leads(ir, dom, v, g, Waiting(fill) \cup F)
  BY <1>19 DEF F, W
<1> QED BY <1>1, <1>2, <1>20, <1>22, <1>23, <1>24, <1>25, PushVerified

\* The note of a statement that begins.
LEMMA StatementNote ==
  ASSUME NEW stmt \in {"block", "handlers", "handler", "if", "while", "for", "loop"},
         NEW merge \in Nat, NEW next \in Nat, NEW tag \in Tag \cup {NoName}
  PROVE  LET n == Statement(stmt, merge, next, tag)
         IN  /\ n \in Nested /\ n.stmt = stmt /\ n.merge = merge /\ n.next = next
             /\ n.tag = tag /\ n.pad = 0 /\ n.last = "empty" /\ n.more = "none"
BY DEF Statement, Nested

\* A loop begins, once the builder is in its body.
LEMMA LoopVerified ==
  ASSUME NEW dom, NEW lev, NEW fill, Verif(ir, dom, nest, lev, fill), nest[Len(nest)].stmt # "handlers",
         NEW stmt \in {"while", "for", "loop"}, NEW tag \in Tag \cup {NoName},
         NEW v, NEW e, NEW merge, NEW next, Leads(ir, dom, v, e, Waiting(fill) \cup {merge}),
         ~hasTerminator(v),
         merge \in (Len(ir.blocks) + 1)..Len(v.blocks), e[merge] = Cur(ir),
         next \in (Len(ir.blocks) + 1)..Len(v.blocks), e[next] = Cur(ir),
         stmt = "for" \/ v.blocks[v.insert].phi = "none",
         Begin(PushSubframe(v, "Loop", v.insert, merge), Statement(stmt, merge, next, tag))
  PROVE  Verified(ir', nest')
<1> DEFINE n == Statement(stmt, merge, next, tag)
           F == {merge}
<1>1. Sane(ir, dom, Waiting(fill)) /\ Sane(v, e, Waiting(fill) \cup {merge})
  BY DEF Verif, Leads
<1>2. Len(ir.blocks) \in Nat /\ Len(v.blocks) \in Nat
  BY <1>1, SaneFacts
<1>3. merge \in Nat /\ next \in Nat /\ F \in SUBSET Nat
  BY <1>2
<1>4. n \in Nested /\ n.stmt = stmt /\ n.merge = merge /\ n.next = next /\ n.last = "empty"
  <2>1. stmt \in {"block", "handlers", "handler", "if", "while", "for", "loop"}
    OBVIOUS
  <2>2. tag \in Tag \cup {NoName} /\ merge \in Nat /\ next \in Nat
    BY <1>3
  <2> QED BY ONLY <2>1, <2>2, StatementNote
<1> HIDE DEF n
<1>5. Begin(PushSubframe(v, "Loop", v.insert, n.merge), n)
  BY <1>4 DEF n
<1>6. IF n.stmt = "if" THEN F = {n.merge, n.next} /\ (n.more = "none" <=> n.next = n.merge)
                       ELSE F = {n.merge}
  BY <1>4
<1>7. n.stmt = "for" \/ v.blocks[v.insert].phi = "none"
  BY <1>4
<1>8. n.stmt \in {"if", "while", "for", "loop"}
  BY <1>4
<1> QED BY <1>3, <1>4, <1>5, <1>6, <1>7, <1>8, PushVerified

\* beginLoopStmt.
LEMMA beginLoopVerified ==
  ASSUME Prepared, Verified(ir, nest), NEW tag \in Tag \cup {NoName}, beginLoopStmt(tag)
  PROVE  Verified(ir', nest')
<1>1. PICK dom, lev, fill : Verif(ir, dom, nest, lev, fill)
  BY DEF Verified
<1> DEFINE W == Waiting(fill)
           C == Cur(ir)
           n == Len(ir.blocks)
           s == makeBasicBlock(makeBasicBlock(ir, tag), NoName)
           body == Newest(s) - 1
           merge == Newest(s)
           v == SetInsertPoint(Terminator(s, {body}, {}), body)
<1>2. /\ ~hasTerminator(ir) /\ nest[Len(nest)].stmt # "handlers" /\ Sane(ir, dom, W) /\ Sound(ir)
      /\ C \in SUBSET Nat /\ W \subseteq 1..n /\ n \in Nat /\ n > 2
  BY <1>1, AcceptedOpen DEF beginLoopStmt
<1>3. Begin(PushSubframe(v, "Loop", body, merge), Statement("loop", merge, body, tag))
  BY DEF beginLoopStmt, LoopBody, Br
<1> HIDE DEF W, C
<1>4. NoName \in Names /\ tag \in Names
  BY NameFacts
<1>5. PICK e : Leads(ir, dom, s, e, W \cup {n + 1, n + 2}) /\ MadeTwo(ir, s, e, n, C, C)
  BY <1>2, <1>4, SaneMakeTwo
<1> HIDE DEF s
<1>6. /\ Sane(s, e, W \cup {n + 1, n + 2}) /\ ~hasTerminator(s) /\ Len(s.blocks) = n + 2
      /\ e[n + 1] = C /\ e[n + 2] = C /\ s.frames = ir.frames /\ merge = n + 2
  BY <1>2, <1>5 DEF Leads, MadeTwo
<1>7. body = n + 1
  BY <1>2, <1>6
<1>8. Cur(s) = C /\ C \subseteq e[s.insert] \cup {s.insert}
  <2>1. Cur(s) = C
    BY <1>6 DEF Cur, C
  <2> QED BY <2>1, <1>6, SaneFacts
<1> HIDE DEF body, merge
<1>9. Targets(s, e, {body}) /\ {body} \in SUBSET Nat
  <2>1. body \in 2..Len(s.blocks) /\ body \in Nat
    BY <1>2, <1>6, <1>7
  <2>2. e[body] \subseteq e[s.insert] \cup {s.insert}
    BY <1>6, <1>7, <1>8
  <2> QED BY <2>1, <2>2 DEF Targets
<1>10. body \in W \cup {n + 1, n + 2} /\ Cur(s) \subseteq e[body] \cup {body}
  BY <1>6, <1>7, <1>8
<1>11. Leads(s, e, v, e, (W \cup {n + 1, n + 2}) \ {body}) /\ Jumped(s, v, body)
  BY <1>6, <1>9, <1>10, SaneJump
<1> HIDE DEF v
<1>12. (W \cup {n + 1, n + 2}) \ {body} = W \cup {merge}
  BY <1>2, <1>6, <1>7
<1>13. Leads(s, e, v, e, W \cup {merge})
  BY <1>11, <1>12, Zenon
<1>14. Leads(ir, dom, v, e, Waiting(fill) \cup {merge})
  BY <1>2, <1>5, <1>13, LeadsTransitive DEF W
<1>15. /\ ~hasTerminator(v) /\ v.insert = body /\ v.blocks[v.insert].phi = "none"
       /\ Len(v.blocks) = n + 2
  BY <1>6, <1>11 DEF Jumped
<1>16. /\ merge \in (Len(ir.blocks) + 1)..Len(v.blocks) /\ e[merge] = Cur(ir)
       /\ body \in (Len(ir.blocks) + 1)..Len(v.blocks) /\ e[body] = Cur(ir)
  BY <1>2, <1>6, <1>7, <1>15 DEF C
<1>17. Begin(PushSubframe(v, "Loop", v.insert, merge), Statement("loop", merge, body, tag))
  BY <1>3, <1>15
<1> QED BY <1>1, <1>2, <1>14, <1>15, <1>16, <1>17, LoopVerified

\* A jump between blocks reached through all active subframes.
LEMMA JumpOn ==
  ASSUME NEW r, NEW d, NEW U, Sane(r, d, U), NEW s, NEW dom, NEW W, Leads(r, d, s, dom, W),
         ~hasTerminator(s), NEW succ, \A x \in succ : x \in 2..Len(s.blocks) /\ dom[x] = Cur(r),
         NEW b \in W, dom[b] = Cur(r), NEW V, V = W \ {b}
  PROVE  LET t == SetInsertPoint(Terminator(s, succ, {}), b)
         IN  Leads(r, d, t, dom, V) /\ Jumped(s, t, b)
<1> DEFINE t == SetInsertPoint(Terminator(s, succ, {}), b)
<1>1. Sane(s, dom, W) /\ s.frames = r.frames
  BY DEF Leads
<1>2. Cur(s) = Cur(r)
  BY <1>1 DEF Cur
<1>3. Len(s.blocks) \in Nat /\ Cur(s) \subseteq dom[s.insert] \cup {s.insert}
  BY <1>1, SaneFacts
<1>4. \A x \in succ : x \in 2..Len(s.blocks) /\ x \in Nat
  BY <1>3
<1>5. Targets(s, dom, succ) /\ succ \in SUBSET Nat
  BY <1>2, <1>3, <1>4 DEF Targets
<1>6. Cur(s) \subseteq dom[b] \cup {b}
  BY <1>2
<1>7. Leads(s, dom, t, dom, W \ {b}) /\ Jumped(s, t, b)
  BY <1>1, <1>5, <1>6, SaneJump
<1> HIDE DEF t
<1>8. Leads(s, dom, t, dom, V)
  BY <1>7, Zenon
<1>9. Leads(r, d, t, dom, V)
  BY <1>8, LeadsTransitive
<1> QED BY <1>7, <1>9 DEF t

\* beginWhileStmt.
LEMMA beginWhileVerified ==
  ASSUME Prepared, Verified(ir, nest), NEW tag \in Tag \cup {NoName}, beginWhileStmt(tag)
  PROVE  Verified(ir', nest')
<1>1. PICK dom, lev, fill : Verif(ir, dom, nest, lev, fill)
  BY DEF Verified
<1> DEFINE W == Waiting(fill)
           C == Cur(ir)
           n == Len(ir.blocks)
           r == makeBasicBlock(makeBasicBlock(ir, NoName), tag)
           s == makeBasicBlock(r, NoName)
           top == Newest(s) - 2
           body == Newest(s) - 1
           merge == Newest(s)
           u == SetInsertPoint(Terminator(s, {top}, {}), top)
           t == Condition(u)
           v == SetInsertPoint(Terminator(t, {body, merge}, {}), body)
<1>2. /\ ~hasTerminator(ir) /\ nest[Len(nest)].stmt # "handlers" /\ Sane(ir, dom, W) /\ Sound(ir)
      /\ C \in SUBSET Nat /\ W \subseteq 1..n /\ n \in Nat /\ n > 2
  BY <1>1, AcceptedOpen DEF beginWhileStmt
<1>3. Begin(PushSubframe(v, "Loop", body, merge), Statement("while", merge, top, tag))
  BY DEF beginWhileStmt, LoopBody, Br
<1> HIDE DEF W, C
<1>4. NoName \in Names /\ tag \in Names
  BY NameFacts
<1>5. PICK d : Leads(ir, dom, r, d, W \cup {n + 1, n + 2}) /\ MadeTwo(ir, r, d, n, C, C)
  BY <1>2, <1>4, SaneMakeTwo
<1> HIDE DEF r
<1>6. /\ Sane(r, d, W \cup {n + 1, n + 2}) /\ ~hasTerminator(r) /\ Len(r.blocks) = n + 2
      /\ d[n + 1] = C /\ d[n + 2] = C
  BY <1>2, <1>5 DEF Leads, MadeTwo
<1> DEFINE e == Append(d, C)
<1>7. Leads(r, d, s, e, (W \cup {n + 1, n + 2}) \cup {n + 3}) /\ Made(r, s, e, n + 3, C)
  <2>1. Len(r.blocks) + 1 = n + 3
    BY <1>2, <1>6
  <2>2. LET m == Len(r.blocks) + 1
        IN  Leads(r, d, s, e, (W \cup {n + 1, n + 2}) \cup {m}) /\ Made(r, s, e, m, C)
    BY <1>2, <1>4, <1>6, SaneMake
  <2> HIDE DEF s, e
  <2> QED BY <2>1, <2>2
<1> HIDE DEF s, e
<1>8. /\ Leads(ir, dom, s, e, (W \cup {n + 1, n + 2}) \cup {n + 3}) /\ ~hasTerminator(s)
      /\ Len(s.blocks) = n + 3 /\ e[n + 3] = C /\ merge = n + 3
  <2>1. Leads(ir, dom, s, e, (W \cup {n + 1, n + 2}) \cup {n + 3})
    BY <1>2, <1>5, <1>7, LeadsTransitive
  <2> QED BY <2>1, <1>6, <1>7 DEF Made
<1>9. e[n + 1] = C /\ e[n + 2] = C
  <2>1. n + 1 \in 1..Len(r.blocks) /\ n + 2 \in 1..Len(r.blocks)
    BY <1>2, <1>6
  <2> QED BY <2>1, <1>6, <1>7 DEF Leads, Extends
<1>10. top = n + 1 /\ body = n + 2
  BY <1>2, <1>8
<1> HIDE DEF top, body, merge
<1>11. /\ top \in (W \cup {n + 1, n + 2}) \cup {n + 3} /\ e[top] = C
       /\ ((W \cup {n + 1, n + 2}) \cup {n + 3}) \ {top} = W \cup {n + 2, n + 3}
  BY <1>2, <1>9, <1>10
<1>12. \A x \in {top} : x \in 2..Len(s.blocks) /\ e[x] = C
  BY <1>2, <1>8, <1>10, <1>11
<1>13. Leads(ir, dom, u, e, W \cup {n + 2, n + 3}) /\ Jumped(s, u, top)
  BY <1>2, <1>8, <1>11, <1>12, JumpOn DEF C
<1> HIDE DEF u
<1>14. Sane(u, e, W \cup {n + 2, n + 3}) /\ ~hasTerminator(u) /\ Len(u.blocks) = n + 3
  BY <1>8, <1>13 DEF Leads, Jumped
<1>15. PICK f : Leads(u, e, t, f, W \cup {n + 2, n + 3})
  BY <1>14, SaneCall DEF Condition
<1>16. ~hasTerminator(t)
  BY <1>14, SaneCall DEF Condition
<1> HIDE DEF t
<1>17. Leads(ir, dom, t, f, W \cup {n + 2, n + 3})
  BY <1>2, <1>13, <1>15, LeadsTransitive
<1>18. /\ Len(t.blocks) \in Nat /\ n + 3 =< Len(t.blocks)
       /\ f[n + 1] = C /\ f[n + 2] = C /\ f[n + 3] = C
  <2>1. n + 1 \in 1..Len(u.blocks) /\ n + 2 \in 1..Len(u.blocks) /\ n + 3 \in 1..Len(u.blocks)
    BY <1>2, <1>14
  <2>2. Len(t.blocks) \in Nat
    BY <1>17, SaneFacts DEF Leads
  <2> QED BY <2>1, <2>2, <1>8, <1>9, <1>14, <1>15 DEF Leads, Extends
<1>19. /\ body \in W \cup {n + 2, n + 3} /\ f[body] = C
       /\ (W \cup {n + 2, n + 3}) \ {body} = W \cup {merge}
  BY <1>2, <1>8, <1>10, <1>18
<1>20. \A x \in {body, merge} : x \in 2..Len(t.blocks) /\ f[x] = C
  BY <1>2, <1>8, <1>10, <1>18
<1>21. Leads(ir, dom, v, f, W \cup {merge}) /\ Jumped(t, v, body)
  BY <1>2, <1>16, <1>17, <1>19, <1>20, JumpOn DEF C
<1> HIDE DEF v
<1>22. /\ ~hasTerminator(v) /\ v.insert = body /\ v.blocks[v.insert].phi = "none"
       /\ Len(v.blocks) = Len(t.blocks)
  BY <1>21 DEF Jumped
<1>23. /\ merge \in (Len(ir.blocks) + 1)..Len(v.blocks) /\ f[merge] = Cur(ir)
       /\ top \in (Len(ir.blocks) + 1)..Len(v.blocks) /\ f[top] = Cur(ir)
  BY <1>2, <1>8, <1>10, <1>18, <1>22 DEF C
<1>24. Begin(PushSubframe(v, "Loop", v.insert, merge), Statement("while", merge, top, tag))
  BY <1>3, <1>22
<1>25. Leads(ir, dom, v, f, Waiting(fill) \cup {merge})
  BY <1>21 DEF W
<1> QED BY <1>1, <1>2, <1>22, <1>23, <1>24, <1>25, LoopVerified

\* The PHI node of a for loop is put at the beginning of the body, which is new.
LEMMA LeadsPhi ==
  ASSUME NEW r, NEW d, NEW U, Sane(r, d, U), NEW s, NEW dom, NEW W, Leads(r, d, s, dom, W),
         ~hasTerminator(s), s.insert > Len(r.blocks)
  PROVE  LET t == [s EXCEPT !.blocks[s.insert].phi = "first"]
         IN  /\ Leads(r, d, t, dom, W) /\ ~hasTerminator(t) /\ t.insert = s.insert
             /\ Len(t.blocks) = Len(s.blocks)
<1> DEFINE i == s.insert
           new == [s.blocks[i] EXCEPT !.phi = "first"]
           t == [s EXCEPT !.blocks[i] = new]
<1>1. /\ Sane(s, dom, W) /\ s.frames = r.frames /\ Extends(r, d, s, dom) /\ Graph(s, dom, W)
      /\ FrameBounds(s, dom) /\ Here(s, dom)
  BY DEF Leads, Sane
<1>2. Sound(s) /\ i \in 1..Len(s.blocks) /\ s.blocks \in Seq(Block) /\ Len(s.blocks) \in Nat
  BY <1>1, SaneFacts DEF Emission
<1>3. s.blocks[i] \in Block
  BY <1>2
<1>4. /\ new \in Block /\ new.phi = "first" /\ new.term = s.blocks[i].term
      /\ new.torn = s.blocks[i].torn /\ new.succ = s.blocks[i].succ
      /\ new.unwind = s.blocks[i].unwind /\ new.restores = s.blocks[i].restores
  BY <1>3 DEF Block
<1> HIDE DEF new
<1>5. /\ t.insert = i /\ t.frames = s.frames /\ Len(t.blocks) = Len(s.blocks)
      /\ t.blocks[i] = new /\ Sound(t)
      /\ \A c \in 1..Len(s.blocks) : c # i => t.blocks[c] = s.blocks[c]
  BY <1>2, <1>4, BlockChanged
<1> HIDE DEF t
<1>6. ~hasTerminator(t)
  BY <1>4, <1>5 DEF hasTerminator
<1>7. ASSUME NEW b \in 1..Len(t.blocks)
      PROVE  /\ BlockInOrder(t, dom, b)
             /\ b \in W => Blank(t, b)
             /\ b \notin W /\ b # t.insert => t.blocks[b].term
  <2>1. /\ BlockInOrder(s, dom, b) /\ (b \in W => Blank(s, b)) /\ i \notin W
        /\ b \notin W /\ b # i => s.blocks[b].term
    BY <1>1, <1>5 DEF Graph
  <2>2. Edges(t, b) = Edges(s, b)
    BY <1>4, <1>5 DEF Edges
  <2>3. CASE b = i
    BY <2>1, <2>2, <2>3, <1>4, <1>5 DEF BlockInOrder
  <2>4. CASE b # i
    BY <2>1, <2>2, <2>4, <1>5 DEF BlockInOrder, Blank
  <2> QED BY <2>3, <2>4
<1>8. Graph(t, dom, W)
  BY <1>1, <1>5, <1>7 DEF Graph
<1>9. FrameBounds(t, dom) /\ Here(t, dom)
  BY <1>1, <1>5 DEF FrameBounds, Here, Cur
<1>10. Extends(r, d, t, dom)
  <2>1. Len(r.blocks) \in Nat
    BY SaneFacts
  <2>2. \A b \in 1..Len(r.blocks) : b \in 1..Len(s.blocks) /\ b # i
    BY <2>1, <1>1, <1>2 DEF Extends
  <2> QED BY <2>2, <1>1, <1>5 DEF Extends
<1>11. Leads(r, d, t, dom, W) /\ ~hasTerminator(t) /\ t.insert = s.insert /\ Len(t.blocks) = Len(s.blocks)
  BY <1>1, <1>5, <1>6, <1>8, <1>9, <1>10 DEF Leads, Sane
<1>12. t = [s EXCEPT !.blocks[s.insert].phi = "first"]
  BY DEF t, new
<1> QED BY <1>11, <1>12

\* The PHI node may as well be put once the builder is in the body.
LEMMA PhiCommutes ==
  ASSUME NEW w, Sound(w), NEW b \in 1..Len(w.blocks)
  PROVE  LET s == SetInsertPoint(w, b)
         IN  SetInsertPoint([w EXCEPT !.blocks[b].phi = "first"], b)
               = [s EXCEPT !.blocks[s.insert].phi = "first"]
<1> DEFINE new == [w.blocks EXCEPT ![b].phi = "first"]
           s == SetInsertPoint(w, b)
<1>1. w \in Emission
  BY DEF Sound
<1>2. s.insert = b /\ s.blocks = w.blocks /\ s.frames = w.frames /\ s \in [blocks: {w.blocks}, insert: {b}, frames: {w.frames}]
  BY <1>1 DEF SetInsertPoint, Emission
<1>3. SetInsertPoint([w EXCEPT !.blocks = new], b) = [s EXCEPT !.blocks = new]
  <2> HIDE DEF new
  <2> QED BY <1>1, <1>2 DEF SetInsertPoint, Emission
<1>4. [w EXCEPT !.blocks[b].phi = "first"] = [w EXCEPT !.blocks = new]
  OBVIOUS
<1> HIDE DEF s
<1>5. [s EXCEPT !.blocks[s.insert].phi = "first"] = [s EXCEPT !.blocks = new]
  BY <1>2
<1> QED BY <1>3, <1>4, <1>5 DEF s

\* beginForStmt.
LEMMA beginForVerified ==
  ASSUME Prepared, Verified(ir, nest), NEW tag \in Tag \cup {NoName}, beginForStmt(tag)
  PROVE  Verified(ir', nest')
<1>1. PICK dom, lev, fill : Verif(ir, dom, nest, lev, fill)
  BY DEF Verified
<1> DEFINE W == Waiting(fill)
           C == Cur(ir)
           c == Condition(ir)
           n == Len(c.blocks)
           r == makeBasicBlock(makeBasicBlock(c, NoName), NoName)
           s == makeBasicBlock(makeBasicBlock(r, tag), NoName)
           top == Newest(s) - 3
           iter == Newest(s) - 2
           body == Newest(s) - 1
           merge == Newest(s)
           t1 == SetInsertPoint(Terminator(s, {merge, body}, {}), top)
           t == Instruction(t1)
           u1 == SetInsertPoint(Terminator(t, {merge, iter}, {}), iter)
           u == Instruction(u1)
           w == Terminator(u, {body}, {})
           x == SetInsertPoint(w, body)
           v == SetInsertPoint([w EXCEPT !.blocks[body].phi = "first"], body)
<1>2. /\ ~hasTerminator(ir) /\ nest[Len(nest)].stmt # "handlers" /\ Sane(ir, dom, W) /\ Sound(ir)
      /\ C \in SUBSET Nat /\ W \subseteq 1..Len(ir.blocks) /\ Len(ir.blocks) \in Nat /\ Len(ir.blocks) > 2
  BY <1>1, AcceptedOpen DEF beginForStmt
<1>3. Begin(PushSubframe(v, "Loop", body, merge), Statement("for", merge, top, tag))
  BY DEF beginForStmt, LoopBody, Br
<1> HIDE DEF W, C
<1>4. NoName \in Names /\ tag \in Names
  BY NameFacts
<1>5. PICK d : Leads(ir, dom, c, d, W)
  BY <1>2, SaneCall DEF Condition
<1>6. ~hasTerminator(c) /\ Sane(c, d, W)
  BY <1>2, <1>5, SaneCall DEF Condition, Leads
<1>7. n \in Nat /\ Len(ir.blocks) =< n /\ n > 2
  BY <1>2, <1>5, <1>6, SaneFacts DEF Leads, Extends
<1> HIDE DEF c
<1>8. PICK e : Leads(c, d, r, e, W \cup {n + 1, n + 2}) /\ MadeTwo(c, r, e, n, C, C)
  BY <1>2, <1>4, <1>6, SaneMakeTwo
<1> HIDE DEF r
<1>9. /\ Sane(r, e, W \cup {n + 1, n + 2}) /\ ~hasTerminator(r) /\ Len(r.blocks) = n + 2
      /\ e[n + 1] = C /\ e[n + 2] = C
  BY <1>6, <1>8 DEF Leads, MadeTwo
<1> DEFINE X == (W \cup {n + 1, n + 2}) \cup {n + 3, n + 4}
<1>10. PICK f : Leads(r, e, s, f, X) /\ MadeTwo(r, s, f, n + 2, C, C)
  <2>1. (n + 2) + 1 = n + 3 /\ (n + 2) + 2 = n + 4
    BY <1>7
  <2> DEFINE m == Len(r.blocks)
  <2>2. PICK f : Leads(r, e, s, f, (W \cup {n + 1, n + 2}) \cup {m + 1, m + 2}) /\ MadeTwo(r, s, f, m, C, C)
    BY <1>2, <1>4, <1>9, SaneMakeTwo
  <2> HIDE DEF s
  <2>3. m = n + 2 /\ m + 1 = n + 3 /\ m + 2 = n + 4
    BY <2>1, <1>9
  <2> HIDE DEF m
  <2> QED BY <2>2, <2>3
<1> HIDE DEF s
<1>11. /\ Leads(ir, dom, s, f, X) /\ ~hasTerminator(s) /\ Len(s.blocks) = n + 4
       /\ f[n + 3] = C /\ f[n + 4] = C /\ merge = n + 4
  <2>1. Leads(c, d, s, f, X)
    BY <1>6, <1>8, <1>10, LeadsTransitive
  <2>2. Leads(ir, dom, s, f, X)
    BY <2>1, <1>2, <1>5, LeadsTransitive
  <2>3. (n + 2) + 1 = n + 3 /\ (n + 2) + 2 = n + 4
    BY <1>7
  <2> QED BY <2>2, <2>3, <1>9, <1>10 DEF MadeTwo
<1>12. f[n + 1] = C /\ f[n + 2] = C
  <2>1. n + 1 \in 1..Len(r.blocks) /\ n + 2 \in 1..Len(r.blocks)
    BY <1>7, <1>9
  <2> QED BY <2>1, <1>9, <1>10 DEF Leads, Extends
<1>13. top = n + 1 /\ iter = n + 2 /\ body = n + 3
  BY <1>7, <1>11
<1> HIDE DEF top, iter, body, merge
<1>14. W \subseteq 1..n
  BY <1>6, SaneFacts
<1>15. /\ top \in X /\ f[top] = C /\ X \ {top} = W \cup {iter, body, merge}
       /\ iter \in W \cup {iter, body, merge} /\ f[iter] = C
       /\ (W \cup {iter, body, merge}) \ {iter} = W \cup {body, merge}
       /\ body \in W \cup {body, merge} /\ f[body] = C
       /\ (W \cup {body, merge}) \ {body} = W \cup {merge}
  <2>1. /\ top \in X /\ f[top] = C /\ f[iter] = C /\ f[body] = C
        /\ iter \in W \cup {iter, body, merge} /\ body \in W \cup {body, merge}
    BY <1>11, <1>12, <1>13
  <2>2. X = W \cup {top, iter, body, merge}
    BY <1>11, <1>13
  <2>3. top \notin W /\ iter \notin W /\ body \notin W
    BY <1>7, <1>13, <1>14
  <2>4. top # iter /\ top # body /\ top # merge /\ iter # body /\ iter # merge /\ body # merge
    <3>1. n \in Nat /\ merge = n + 4
      BY <1>7, <1>11
    <3> HIDE DEF n
    <3> QED BY <3>1, <1>13
  <2> HIDE DEF X
  <2> QED BY <2>1, <2>2, <2>3, <2>4
<1>16. \A y \in {top, iter, body, merge} : y \in 2..Len(s.blocks) /\ f[y] = C
  BY <1>7, <1>11, <1>12, <1>13
<1> HIDE DEF X
<1>17. Leads(ir, dom, t1, f, W \cup {iter, body, merge}) /\ Jumped(s, t1, top)
  <2>1. \A y \in {merge, body} : y \in 2..Len(s.blocks) /\ f[y] = Cur(ir)
    BY <1>16 DEF C
  <2>2. f[top] = Cur(ir)
    BY <1>15 DEF C
  <2> QED BY <2>1, <2>2, <1>2, <1>11, <1>15, JumpOn
<1> HIDE DEF t1
<1>18. /\ t = t1 /\ ~hasTerminator(t) /\ Len(t.blocks) = Len(s.blocks)
       /\ Leads(ir, dom, t, f, W \cup {iter, body, merge})
  <2>1. ~hasTerminator(t1) /\ Sound(t1)
    BY <1>17, SaneFacts DEF Jumped, Leads
  <2>2. t = t1
    BY <2>1, InstructionIsPlain
  <2> QED BY <2>1, <2>2, <1>17 DEF Jumped
<1> HIDE DEF t
<1>19. Leads(ir, dom, u1, f, W \cup {body, merge}) /\ Jumped(t, u1, iter)
  BY <1>2, <1>15, <1>16, <1>18, JumpOn DEF C
<1> HIDE DEF u1
<1>20. /\ u = u1 /\ ~hasTerminator(u) /\ Len(u.blocks) = Len(s.blocks)
       /\ Leads(ir, dom, u, f, W \cup {body, merge})
  <2>1. ~hasTerminator(u1) /\ Sound(u1)
    BY <1>19, SaneFacts DEF Jumped, Leads
  <2>2. u = u1
    BY <2>1, InstructionIsPlain
  <2> QED BY <2>1, <2>2, <1>18, <1>19 DEF Jumped
<1> HIDE DEF u
<1>21. Leads(ir, dom, x, f, W \cup {merge}) /\ Jumped(u, x, body)
  BY <1>2, <1>15, <1>16, <1>20, JumpOn DEF C
<1>22. v = [x EXCEPT !.blocks[x.insert].phi = "first"]
  <2>1. Sane(u, f, W \cup {body, merge}) /\ Sound(u) /\ {body} \in SUBSET Nat /\ {} \in SUBSET Nat
    BY <1>7, <1>13, <1>20, SaneFacts DEF Leads
  <2>2. Sound(w) /\ Len(w.blocks) = Len(u.blocks)
    <3>1. Sound(w) /\ Terminated(u, w, {body}, {})
      BY <2>1, <1>20, TerminatorBlocks
    <3> HIDE DEF w
    <3> QED BY <3>1 DEF Terminated
  <2>3. body \in 1..Len(w.blocks)
    BY <2>2, <1>7, <1>11, <1>13, <1>20
  <2> HIDE DEF w
  <2> QED BY <2>2, <2>3, PhiCommutes
<1> HIDE DEF x, v, w
<1>23. x.insert = body /\ ~hasTerminator(x) /\ Len(x.blocks) = n + 4
  BY <1>11, <1>20, <1>21 DEF Jumped
<1>24. x.insert > Len(ir.blocks)
  BY <1>2, <1>7, <1>13, <1>23
<1>25. Leads(ir, dom, v, f, W \cup {merge}) /\ ~hasTerminator(v) /\ v.insert = body /\ Len(v.blocks) = n + 4
  BY <1>2, <1>21, <1>22, <1>23, <1>24, LeadsPhi
<1>26. /\ merge \in (Len(ir.blocks) + 1)..Len(v.blocks) /\ f[merge] = Cur(ir)
       /\ top \in (Len(ir.blocks) + 1)..Len(v.blocks) /\ f[top] = Cur(ir)
  BY <1>2, <1>7, <1>11, <1>13, <1>15, <1>16, <1>25 DEF C
<1>27. Begin(PushSubframe(v, "Loop", v.insert, merge), Statement("for", merge, top, tag))
  BY <1>3, <1>25 DEF v, w
<1>28. Leads(ir, dom, v, f, Waiting(fill) \cup {merge})
  BY <1>25 DEF W
<1> QED BY <1>1, <1>2, <1>25, <1>26, <1>27, <1>28, LoopVerified

\* The subframe of a block whose entry block is the one made after n others.
BlockFrame(n, handled) ==
  [kind |-> "Block", entry |-> n + 1, merge |-> n + 2, saved |-> FALSE,
   landingPad |-> IF handled THEN n + 3 ELSE 0]

\* The blocks a block statement leaves to be filled.
Own(n, handled) == IF handled THEN {n + 2, n + 3} ELSE {n + 2}

\* In t the subframe of a block statement has been pushed and its blocks made;
\* its merge block is reached through the block if there are handlers.
Opened(s, t, e, C, handled) ==
  LET n == Len(s.blocks)
      D == IF handled THEN C \cup {n + 1} ELSE C
  IN  /\ t.insert = s.insert /\ (hasTerminator(t) <=> hasTerminator(s))
      /\ t.frames = Append(s.frames, BlockFrame(n, handled))
      /\ Len(t.blocks) = IF handled THEN n + 3 ELSE n + 2
      /\ e[n + 1] = C /\ e[n + 2] = D /\ (handled => e[n + 3] = D)

\* Two blocks made, on the graph alone.
LEMMA GraphMakeTwo ==
  ASSUME NEW s, NEW dom, NEW W, Graph(s, dom, W), NEW name \in Names,
         NEW name2 \in Names, NEW D \in SUBSET Nat, NEW E \in SUBSET Nat
  PROVE  LET t == makeBasicBlock(makeBasicBlock(s, name), name2)
             n == Len(s.blocks)
         IN  \E e : Graph(t, e, W \cup {n + 1, n + 2}) /\ Extends(s, dom, t, e) /\ MadeTwo(s, t, e, n, D, E)
<1> DEFINE n == Len(s.blocks)
           r == makeBasicBlock(s, name)
           d == Append(dom, D)
           t == makeBasicBlock(r, name2)
           e == Append(d, E)
<1>1. n \in Nat /\ Sound(s)
  BY DEF Graph, Sound, Emission
<1>2. Graph(r, d, W \cup {n + 1}) /\ Extends(s, dom, r, d) /\ Made(s, r, d, n + 1, D)
  BY GraphMake
<1> HIDE DEF r, d
<1>3. Len(r.blocks) + 1 = n + 2 /\ Len(r.blocks) = n + 1
  BY <1>1, <1>2 DEF Made
<1>4. Graph(t, e, (W \cup {n + 1}) \cup {Len(r.blocks) + 1}) /\ Extends(r, d, t, e) /\ Made(r, t, e, Len(r.blocks) + 1, E)
  BY <1>2, GraphMake
<1> HIDE DEF t, e
<1>5. (W \cup {n + 1}) \cup {Len(r.blocks) + 1} = W \cup {n + 1, n + 2}
  BY <1>3
<1>6. Graph(t, e, W \cup {n + 1, n + 2})
  BY <1>4, <1>5, Zenon
<1>7. Extends(s, dom, t, e)
  BY <1>1, <1>2, <1>4, <1>6, ExtendsTransitive DEF Graph
<1>8. e[n + 1] = D
  <2>1. n + 1 \in 1..Len(r.blocks)
    BY <1>1, <1>3
  <2> QED BY <2>1, <1>2, <1>4 DEF Extends, Made
<1>9. MadeTwo(s, t, e, n, D, E)
  BY <1>2, <1>3, <1>4, <1>8 DEF Made, MadeTwo
<1> QED BY <1>6, <1>7, <1>9 DEF t, r

\* Replacing what was appended.
LEMMA AppendReplace ==
  ASSUME NEW T, NEW q \in Seq(T), NEW x \in T, NEW y \in T
  PROVE  [Append(q, x) EXCEPT ![Len(q) + 1] = y] = Append(q, y)
<1> DEFINE a == Append(q, x)
           l == Len(q) + 1
<1>1. a \in Seq(T) /\ Len(a) = l /\ l > 0 /\ Len(q) \in Nat
  OBVIOUS
<1>2. Front(a) = q
  <2>1. Front(a) = SubSeq(a, 1, Len(q))
    BY <1>1 DEF Front
  <2> QED BY <2>1
<1> HIDE DEF a, l
<1>3. Append(Front(a), y) = [a EXCEPT ![Len(a)] = y]
  BY <1>1, ReplaceLast
<1> QED BY <1>1, <1>2, <1>3 DEF a, l

\* The subframe gets a landing pad.
LEMMA BlockFramePad ==
  ASSUME NEW n \in Nat
  PROVE  /\ [BlockFrame(n, FALSE) EXCEPT !.landingPad = n + 3] = BlockFrame(n, TRUE)
         /\ \A handled \in BOOLEAN : BlockFrame(n, handled) \in Subframe
<1> DEFINE f == BlockFrame(n, FALSE)
           h == BlockFrame(n, TRUE)
           g == [f EXCEPT !.landingPad = n + 3]
<1>1. n + 1 \in Nat /\ n + 2 \in Nat /\ n + 3 \in Nat /\ 0 \in Nat
  OBVIOUS
<1>2. f \in Subframe /\ h \in Subframe
  <2>1. \A a, b, c \in Nat : [kind |-> "Block", entry |-> a, merge |-> b, saved |-> FALSE, landingPad |-> c] \in Subframe
    BY DEF Subframe
  <2> QED BY <2>1, <1>1 DEF BlockFrame
<1>3. /\ f.kind = "Block" /\ f.entry = n + 1 /\ f.merge = n + 2 /\ f.saved = FALSE
      /\ h.kind = "Block" /\ h.entry = n + 1 /\ h.merge = n + 2 /\ h.saved = FALSE /\ h.landingPad = n + 3
  BY DEF BlockFrame
<1> HIDE DEF f, h
<1>4. g \in Subframe /\ g.kind = f.kind /\ g.entry = f.entry /\ g.merge = f.merge /\ g.saved = f.saved /\ g.landingPad = n + 3
  BY <1>1, <1>2 DEF Subframe
<1> HIDE DEF g
<1>5. g = h
  BY <1>2, <1>3, <1>4 DEF Subframe
<1>6. \A handled \in BOOLEAN : BlockFrame(n, handled) \in Subframe
  BY <1>2 DEF f, h
<1> QED BY <1>5, <1>6 DEF f, g, h

\* A landing pad is noted for a subframe, and for the innermost one.
Padded(f, b) == [f EXCEPT !.landingPad = b]
PadTop(t, b) == [t EXCEPT !.frames[Len(t.frames)].landingPad = b]

\* The landing pad noted for the innermost subframe.
LEMMA PadOnTop ==
  ASSUME NEW t, Sound(t), NEW fs \in Seq(Subframe), NEW f \in Subframe, t.frames = Append(fs, f),
         NEW b \in Nat
  PROVE  LET u == PadTop(t, b)
         IN  u.blocks = t.blocks /\ u.insert = t.insert /\ Sound(u) /\ u.frames = Append(fs, Padded(f, b))
<1> DEFINE m == Len(t.frames)
           g == Padded(f, b)
           u == PadTop(t, b)
           gs == [t.frames EXCEPT ![m] = g]
<1>1. t \in Emission /\ t.frames \in Seq(Subframe) /\ m = Len(fs) + 1 /\ t.frames[m] = f /\ Len(fs) \in Nat
  BY DEF Sound, Emission
<1>2. g \in Subframe
  BY DEF Subframe, Padded
<1>3. u = [t EXCEPT !.frames = gs]
  BY <1>1 DEF PadTop, Padded
<1> HIDE DEF g
<1>4. gs = Append(fs, g)
  <2>1. [Append(fs, f) EXCEPT ![Len(fs) + 1] = g] = Append(fs, g)
    BY <1>2, AppendReplace
  <2> QED BY <2>1, <1>1
<1>5. gs \in Seq(Subframe)
  BY <1>2, <1>4
<1> HIDE DEF gs, u, m
<1>6. u.blocks = t.blocks /\ u.insert = t.insert /\ u.frames = gs /\ u \in Emission
  BY <1>1, <1>3, <1>5 DEF Emission
<1>7. Sound(u)
  BY <1>6 DEF Sound
<1> QED BY <1>4, <1>6, <1>7 DEF u, g

\* The subframe of a block statement is pushed.
LEMMA GraphOpen ==
  ASSUME NEW s, NEW dom, NEW W, Graph(s, dom, W), NEW label \in Tag \cup {NoName},
         NEW handled \in BOOLEAN, NEW C \in SUBSET Nat
  PROVE  LET t == Enter(pushNewFrame(s, "Block", label), handled)
             n == Len(s.blocks)
         IN  \E e : /\ Graph(t, e, W \cup ({n + 1} \cup Own(n, handled)))
                    /\ Extends(s, dom, t, e) /\ Opened(s, t, e, C, handled)
<1> DEFINE n == Len(s.blocks)
           D == IF handled THEN C \cup {n + 1} ELSE C
           r == makeBasicBlock(makeBasicBlock(s, label), "merge")
           v == PushSubframe(r, "Block", n + 1, n + 2)
           f == BlockFrame(n, FALSE)
           t == Enter(v, handled)
<1>1. n \in Nat /\ Sound(s) /\ s.frames \in Seq(Subframe)
  BY DEF Graph, Sound, Emission
<1>2. D \in SUBSET Nat /\ label \in Names /\ "merge" \in Names /\ "landingpad" \in Names
  <2>1. n + 1 \in Nat
    BY <1>1
  <2>2. C \cup {n + 1} \in SUBSET Nat
    BY <2>1
  <2> QED BY <2>2, NameFacts
<1> HIDE DEF D
<1>3. PICK e : Graph(r, e, W \cup {n + 1, n + 2}) /\ Extends(s, dom, r, e) /\ MadeTwo(s, r, e, n, C, D)
  BY <1>2, GraphMakeTwo
<1> HIDE DEF r
<1>4. /\ Newest(r) = n + 2 /\ Len(r.blocks) = n + 2 /\ e[n + 1] = C /\ e[n + 2] = D
      /\ r.insert = s.insert /\ r.frames = s.frames /\ (hasTerminator(r) <=> hasTerminator(s))
  BY <1>3 DEF MadeTwo
<1>5. pushNewFrame(s, "Block", label) = v
  <2>1. Newest(r) - 1 = n + 1
    BY <1>1, <1>4
  <2> QED BY <2>1, <1>4 DEF pushNewFrame, r
<1>6. Sound(v) /\ v.blocks = r.blocks /\ v.insert = r.insert /\ v.frames = Append(s.frames, f) /\ f \in Subframe
  <2>1. n + 1 \in Nat /\ n + 2 \in Nat /\ Sound(r) /\ "Block" \in {"Block", "Loop"}
    BY <1>1, <1>3 DEF Graph
  <2> DEFINE g == [kind |-> "Block", entry |-> n + 1, merge |-> n + 2, saved |-> FALSE, landingPad |-> 0]
  <2>2. Sound(v) /\ v.blocks = r.blocks /\ v.insert = r.insert /\ v.frames = Append(r.frames, g) /\ g \in Subframe
    BY <2>1, PushedState
  <2>3. f = g
    BY DEF BlockFrame
  <2> HIDE DEF f, g, v
  <2> QED BY <2>2, <2>3, <1>4
<1> HIDE DEF v
<1>7. /\ Graph(v, e, W \cup {n + 1, n + 2}) /\ Extends(s, dom, v, e)
      /\ (hasTerminator(v) <=> hasTerminator(s))
  <2>1. /\ Graph(v, e, W \cup {n + 1, n + 2}) /\ Extends(r, e, v, e)
        /\ (hasTerminator(v) <=> hasTerminator(r))
    BY <1>3, <1>6, GraphFrames
  <2> QED BY <2>1, <1>1, <1>3, <1>4, <1>6, ExtendsTransitive DEF Graph
<1>8. CASE ~handled
  <2>1. t = v
    BY <1>8 DEF Enter
  <2>2. W \cup {n + 1, n + 2} = W \cup ({n + 1} \cup Own(n, handled))
    BY <1>8 DEF Own
  <2>3. Graph(t, e, W \cup ({n + 1} \cup Own(n, handled)))
    BY <2>1, <2>2, <1>7, Zenon
  <2>4. f = BlockFrame(n, handled) /\ D = C
    BY <1>8 DEF BlockFrame, D
  <2> HIDE DEF f
  <2>5. Opened(s, t, e, C, handled)
    BY <2>1, <2>4, <1>4, <1>6, <1>7, <1>8 DEF Opened
  <2> HIDE DEF t
  <2>6. Extends(s, dom, t, e)
    BY <2>1, <1>7
  <2> QED BY <2>3, <2>5, <2>6, <1>5 DEF t
<1>9. CASE handled
  <2> DEFINE w == makeBasicBlock(v, "landingpad")
             x == Append(e, D)
             u == [w EXCEPT !.frames[Len(w.frames)].landingPad = Newest(w)]
  <2>1. /\ Graph(w, x, (W \cup {n + 1, n + 2}) \cup {Len(v.blocks) + 1}) /\ Extends(v, e, w, x)
        /\ Made(v, w, x, Len(v.blocks) + 1, D)
    BY <1>2, <1>7, GraphMake
  <2>2. Len(v.blocks) + 1 = n + 3
    BY <1>1, <1>4, <1>6
  <2>3. t = u
    <3>1. subframe(v) = f
      <4> HIDE DEF f
      <4>1. v.frames[Len(v.frames)] = f
        BY <1>1, <1>6
      <4> QED BY <4>1 DEF subframe, Last
    <3>2. f.landingPad = 0
      BY DEF BlockFrame
    <3> QED BY <3>1, <3>2, <1>9 DEF Enter, addLandingPad
  <2> HIDE DEF t, w, x
  <2>4. /\ Newest(w) = n + 3 /\ Len(w.blocks) = n + 3 /\ w.frames = Append(s.frames, f)
        /\ w.insert = s.insert /\ (hasTerminator(w) <=> hasTerminator(s)) /\ x[n + 3] = D
    BY <2>1, <2>2, <1>4, <1>6, <1>7 DEF Made
  <2>5. (W \cup {n + 1, n + 2}) \cup {Len(v.blocks) + 1} = W \cup ({n + 1} \cup Own(n, handled))
    BY <2>2, <1>9 DEF Own
  <2>6. Graph(w, x, W \cup ({n + 1} \cup Own(n, handled)))
    BY <2>1, <2>5, Zenon
  <2>7. Extends(s, dom, w, x)
    BY <2>1, <2>6, <1>1, <1>6, <1>7, ExtendsTransitive DEF Graph
  <2>8. /\ u.blocks = w.blocks /\ u.insert = w.insert /\ Sound(u)
        /\ u.frames = Append(s.frames, [f EXCEPT !.landingPad = n + 3])
    <3>1. Newest(w) \in Nat /\ Sound(w)
      BY <2>4, <2>6, <1>1 DEF Graph
    <3> HIDE DEF f
    <3>2. u = PadTop(w, n + 3)
      BY <2>4 DEF PadTop
    <3>3. f \in Subframe /\ s.frames \in Seq(Subframe) /\ w.frames = Append(s.frames, f) /\ n + 3 \in Nat
      BY <2>4, <1>1, <1>6
    <3> HIDE DEF u
    <3> QED BY <3>1, <3>2, <3>3, PadOnTop DEF Padded
  <2>9. [f EXCEPT !.landingPad = n + 3] = BlockFrame(n, handled)
    <3>1. handled = TRUE
      BY <1>9
    <3> QED BY <3>1, <1>1, BlockFramePad
  <2> HIDE DEF u
  <2>10. Graph(u, x, W \cup ({n + 1} \cup Own(n, handled))) /\ Extends(w, x, u, x) /\ (hasTerminator(u) <=> hasTerminator(w))
    BY <2>6, <2>8, GraphFrames
  <2>11. Extends(s, dom, u, x)
    BY <2>6, <2>7, <2>8, <2>10, <1>1, ExtendsTransitive DEF Graph
  <2>12. x[n + 1] = C /\ x[n + 2] = D
    <3>1. n + 1 \in 1..Len(v.blocks) /\ n + 2 \in 1..Len(v.blocks)
      BY <1>1, <1>4, <1>6
    <3> QED BY <3>1, <2>1, <1>4 DEF Extends
  <2>13. D = C \cup {n + 1}
    BY <1>9 DEF D
  <2>14. u.frames = Append(s.frames, BlockFrame(n, handled))
    BY <2>8, <2>9
  <2>15. Opened(s, u, x, C, handled)
    BY <2>4, <2>8, <2>10, <2>12, <2>13, <2>14, <1>9 DEF Opened
  <2> QED BY <2>3, <2>10, <2>11, <2>15, <1>5 DEF t
<1> QED BY <1>8, <1>9

\* What a block's subframe says of it.
LEMMA BlockFrameFacts ==
  ASSUME NEW n \in Nat, NEW handled \in BOOLEAN
  PROVE  LET f == BlockFrame(n, handled)
         IN  /\ f \in Subframe /\ f.entry = n + 1 /\ f.merge = n + 2 /\ f.kind = "Block"
             /\ handled => f.landingPad = n + 3
             /\ ~handled => f.landingPad = 0
<1>1. BlockFrame(n, handled) \in Subframe
  BY BlockFramePad
<1> QED BY <1>1 DEF BlockFrame

\* The note of a block statement.
LEMMA BlockNestFacts ==
  ASSUME NEW s, NEW fs \in Seq(Subframe), NEW n \in Nat, NEW handled \in BOOLEAN,
         s.frames = Append(fs, BlockFrame(n, handled))
  PROVE  LET k == BlockNest(s)
         IN  /\ k \in Nested /\ k.stmt = "block" /\ k.merge = n + 2 /\ k.last = "empty"
             /\ handled => k.pad = n + 3
             /\ ~handled => k.pad = 0
             /\ subframe(s).entry = n + 1
<1> DEFINE f == BlockFrame(n, handled)
           q == Statement("block", n + 2, n + 1, NoName)
<1>1. /\ f \in Subframe /\ f.entry = n + 1 /\ f.merge = n + 2 /\ f.landingPad \in Nat
      /\ handled => f.landingPad = n + 3
      /\ ~handled => f.landingPad = 0
  <2>1. /\ f \in Subframe /\ f.entry = n + 1 /\ f.merge = n + 2
        /\ handled => f.landingPad = n + 3
        /\ ~handled => f.landingPad = 0
    BY BlockFrameFacts
  <2> QED BY <2>1
<1> HIDE DEF f
<1>2. subframe(s) = f
  <2>1. s.frames[Len(s.frames)] = f
    BY <1>1 DEF f
  <2> QED BY <2>1 DEF subframe, Last
<1>3. q \in Nested /\ q.stmt = "block" /\ q.merge = n + 2 /\ q.last = "empty"
  <2>1. n + 2 \in Nat /\ n + 1 \in Nat /\ NoName \in Tag \cup {NoName}
    OBVIOUS
  <2> QED BY <2>1, StatementNote
<1>4. BlockNest(s) = [q EXCEPT !.pad = f.landingPad]
  BY <1>1, <1>2 DEF BlockNest
<1> HIDE DEF q
<1> DEFINE k == [q EXCEPT !.pad = f.landingPad]
<1>5. k \in Nested /\ k.stmt = "block" /\ k.merge = n + 2 /\ k.last = "empty" /\ k.pad = f.landingPad
  BY <1>1, <1>3 DEF Nested
<1> HIDE DEF k
<1> QED BY <1>1, <1>2, <1>4, <1>5 DEF k

\* The note of a block statement agrees with its blocks.
LEMMA BlockSlot ==
  ASSUME NEW t, NEW e, NEW fs \in Seq(Subframe), NEW n \in Nat, n > 1, NEW handled \in BOOLEAN,
         t.frames = Append(fs, BlockFrame(n, handled)), Len(fs) > 0,
         Len(t.blocks) = IF handled THEN n + 3 ELSE n + 2,
         NEW C, C = Ent(fs, Len(fs)), e[n + 2] = IF handled THEN C \cup {n + 1} ELSE C,
         handled => e[n + 3] = C \cup {n + 1},
         t.blocks[n + 1].phi = "none",
         NEW k, k.stmt = "block", k.merge = n + 2, handled => k.pad = n + 3, ~handled => k.pad = 0
  PROVE  Slot(t, e, k, Len(fs) + 1, Own(n, handled))
<1> DEFINE f == BlockFrame(n, handled)
           l == Len(fs) + 1
           F == Own(n, handled)
<1>1. f \in Subframe /\ f.entry = n + 1
  BY BlockFrameFacts
<1>2. l \in Nat /\ t.frames[l] = f /\ \A j \in 1..Len(fs) : t.frames[j] = fs[j]
  <2> HIDE DEF f
  <2> QED BY <1>1 DEF f
<1> HIDE DEF f
<1>3. Ent(t.frames, l - 1) = C /\ Ent(t.frames, l) = C \cup {n + 1}
  <2>1. l - 1 = Len(fs) /\ Len(fs) \in Nat
    BY <1>2
  <2>2. Ent(t.frames, Len(fs)) = Ent(fs, Len(fs))
    BY <2>1, <1>2, EntSame
  <2>3. 2..l = (2..Len(fs)) \cup {l}
    BY <2>1
  <2>4. t.frames[l].entry = n + 1
    BY <1>1, <1>2
  <2> HIDE DEF l
  <2>5. Ent(t.frames, l) = Ent(t.frames, Len(fs)) \cup {t.frames[l].entry}
    BY <2>3 DEF Ent
  <2> QED BY <2>1, <2>2, <2>4, <2>5
<1>4. t.frames[l].entry = n + 1 /\ n + 1 \in 1..Len(t.blocks)
  BY <1>1, <1>2
<1>5. "block" \notin Loops \cup {"handlers"}
  BY DEF Loops
<1>6. CASE handled
  <2>1. F = {k.merge, k.pad} /\ k.pad = n + 3 /\ k.pad # k.merge
    BY <1>6 DEF Own
  <2>2. Handled(k) /\ k.pad # 0
    BY <2>1 DEF Handled
  <2>3. k.merge \in 3..Len(t.blocks) /\ k.pad \in 3..Len(t.blocks)
    BY <2>1, <1>6
  <2>4. e[k.merge] = C \cup {n + 1} /\ e[k.pad] = C \cup {n + 1}
    BY <2>1, <1>6
  <2> HIDE DEF F, l
  <2> QED BY <2>1, <2>2, <2>3, <2>4, <1>3, <1>4, <1>5 DEF Slot, F, l
<1>7. CASE ~handled
  <2>1. F = {k.merge} /\ k.pad = 0
    BY <1>7 DEF Own
  <2>2. ~Handled(k)
    BY <2>1 DEF Handled
  <2>3. k.merge \in 3..Len(t.blocks)
    BY <1>7
  <2>4. e[k.merge] = C
    BY <1>7
  <2> HIDE DEF F, l
  <2> QED BY <2>1, <2>2, <2>3, <2>4, <1>3, <1>4, <1>5 DEF Slot, F, l
<1> QED BY <1>6, <1>7

\* beginBlockStmt.
LEMMA beginBlockVerified ==
  ASSUME Prepared, Verified(ir, nest), NEW label \in Tag \cup {NoName}, NEW handled \in BOOLEAN,
         beginBlockStmt(label, handled)
  PROVE  Verified(ir', nest')
<1>1. PICK dom, lev, fill : Verif(ir, dom, nest, lev, fill)
  BY DEF Verified
<1> DEFINE W == Waiting(fill)
           C == Cur(ir)
           n == Len(ir.blocks)
           F == Own(n, handled)
           f == BlockFrame(n, handled)
           s == Enter(pushNewFrame(ir, "Block", label), handled)
           b == subframe(s).entry
           u == Terminator(s, {n + 1}, {})
           t == SetInsertPoint(u, n + 1)
           k == BlockNest(s)
<1>2. /\ ~hasTerminator(ir) /\ nest[Len(nest)].stmt # "handlers" /\ Sane(ir, dom, W) /\ Sound(ir)
      /\ C \in SUBSET Nat /\ W \subseteq 1..n /\ n \in Nat /\ n > 2
      /\ C \subseteq dom[ir.insert] \cup {ir.insert}
  BY <1>1, AcceptedOpen DEF beginBlockStmt
<1>3. Begin(SetInsertPoint(Terminator(s, {b}, {}), b), k)
  BY DEF beginBlockStmt, Br
<1>4. ir.frames \in Seq(Subframe) /\ Len(ir.frames) > 0 /\ ir.insert \in 1..n /\ ir.insert \in Nat
  BY <1>2, SaneFacts
<1> HIDE DEF W, C
<1>5. PICK e : /\ Graph(s, e, W \cup ({n + 1} \cup F)) /\ Extends(ir, dom, s, e)
               /\ Opened(ir, s, e, C, handled)
  BY <1>2, GraphOpen DEF Sane
<1> HIDE DEF s, F
<1>6. /\ s.insert = ir.insert /\ ~hasTerminator(s) /\ s.frames = Append(ir.frames, f)
      /\ Len(s.blocks) = (IF handled THEN n + 3 ELSE n + 2)
      /\ e[n + 1] = C /\ e[n + 2] = (IF handled THEN C \cup {n + 1} ELSE C)
      /\ (handled => e[n + 3] = C \cup {n + 1})
  BY <1>2, <1>5 DEF Opened
<1>7. /\ k \in Nested /\ k.stmt = "block" /\ k.merge = n + 2 /\ k.last = "empty" /\ b = n + 1
      /\ handled => k.pad = n + 3
      /\ ~handled => k.pad = 0
  BY <1>2, <1>4, <1>6, BlockNestFacts
<1>8. Begin(t, k)
  BY <1>3, <1>7
<1> HIDE DEF k, b
<1>9. n + 1 \in 2..Len(s.blocks) /\ n + 1 \in 1..Len(s.blocks) /\ n + 2 =< Len(s.blocks) /\ Len(s.blocks) \in Nat
  BY <1>2, <1>6
<1>10. Targets(s, e, {n + 1}) /\ {n + 1} \in SUBSET Nat /\ {} \in SUBSET Nat
  <2>1. e[ir.insert] = dom[ir.insert]
    BY <1>4, <1>5 DEF Extends
  <2>2. e[n + 1] \subseteq e[s.insert] \cup {s.insert}
    BY <2>1, <1>2, <1>6
  <2> QED BY <2>2, <1>9 DEF Targets
<1> DEFINE X == W \cup ({n + 1} \cup F)
<1>11. Graph(u, e, X) /\ Extends(s, e, u, e) /\ Ended(s, u)
  <2>1. {n + 1} \cup {} = {n + 1}
    OBVIOUS
  <2> QED BY <2>1, <1>5, <1>6, <1>10, GraphTerm
<1> HIDE DEF u
<1>12. Graph(t, e, X \ {n + 1}) /\ Extends(u, e, t, e) /\ Moved(u, t, n + 1, X)
  BY <1>9, <1>11, GraphMove DEF Ended
<1>13. X \ {n + 1} = W \cup F
  <2>1. n + 1 \notin W
    BY <1>2
  <2>2. n + 1 # n + 2 /\ n + 1 # n + 3
    BY <1>2
  <2>3. n + 1 \notin F
    BY <2>2 DEF F, Own
  <2> QED BY <2>1, <2>3
<1>14. n + 1 \in X
  OBVIOUS
<1> HIDE DEF X, t
<1>15. Graph(t, e, W \cup F)
  BY <1>12, <1>13, Zenon
<1>16. /\ t.blocks = u.blocks /\ t.insert = n + 1 /\ t.frames = Append(ir.frames, f) /\ ~hasTerminator(t)
       /\ Len(t.blocks) = Len(s.blocks) /\ t.blocks[n + 1].phi = "none"
  <2>1. u.blocks[n + 1].phi = "none"
    BY <1>9, <1>11, <1>14 DEF Graph, Ended, Blank
  <2> QED BY <2>1, <1>6, <1>11, <1>12, <1>14 DEF Moved, Ended
<1>17. Extends(ir, dom, t, e)
  <2>1. Sound(s) /\ Sound(u) /\ Sound(t)
    BY <1>5, <1>11, <1>15 DEF Graph
  <2>2. Extends(ir, dom, u, e)
    BY <2>1, <1>2, <1>5, <1>11, ExtendsTransitive
  <2> QED BY <2>1, <2>2, <1>2, <1>12, ExtendsTransitive
<1>18. /\ f \in Subframe /\ f.entry = n + 1 /\ f.merge = n + 2
       /\ handled => f.landingPad = n + 3
       /\ ~handled => f.landingPad = 0
  BY <1>2, BlockFrameFacts
<1> HIDE DEF f
<1>19. /\ f.merge \in 2..Len(t.blocks) /\ e[f.merge] \subseteq C \cup {t.insert}
       /\ f.landingPad # 0 => /\ f.landingPad \in 2..Len(t.blocks)
                              /\ e[f.landingPad] \subseteq C \cup {t.insert}
       /\ C \subseteq e[t.insert] \cup {t.insert}
  BY <1>2, <1>6, <1>9, <1>16, <1>18
<1>20. /\ Sane(t, e, W \cup F) /\ Len(t.frames) = Len(ir.frames) + 1
       /\ \A j \in 1..Len(ir.frames) : t.frames[j] = ir.frames[j]
  BY <1>2, <1>15, <1>16, <1>17, <1>18, <1>19, SanePush DEF C
<1>21. SameEntries(ir, t, Len(ir.frames))
  BY <1>20 DEF SameEntries
<1>22. Slot(t, e, k, Len(ir.frames) + 1, F)
  <2>1. t.frames = Append(ir.frames, BlockFrame(n, handled)) /\ C = Ent(ir.frames, Len(ir.frames))
    BY <1>16 DEF f, C, Cur
  <2>2. Len(t.blocks) = IF handled THEN n + 3 ELSE n + 2
    BY <1>6, <1>16
  <2>3. n \in Nat /\ n > 1
    BY <1>2
  <2> HIDE DEF n
  <2> QED BY <2>1, <2>2, <2>3, <1>4, <1>6, <1>7, <1>16, BlockSlot DEF F
<1>23. F \cap (1..Len(ir.blocks)) = {} /\ F \in SUBSET Nat
  BY <1>2 DEF F, Own
<1>24. k.stmt \notin {"handlers", "handler"}
  BY <1>7
<1>25. Verified(t, Append([nest EXCEPT ![Len(nest)].last = "open"], k))
  BY <1>1, <1>2, <1>7, <1>16, <1>17, <1>20, <1>21, <1>22, <1>23, <1>24, VerifBegin DEF W
<1> QED BY <1>8, <1>25 DEF Begin

-----------------------------------------------------------------------------
(* The beginning of the body *)

\* The state that Frame::Frame leaves.
LEMMA NewFrameBlank ==
  /\ newFrame \in Emission /\ newFrame.insert = 1 /\ Len(newFrame.blocks) = 2
  /\ Len(newFrame.frames) = 1 /\ newFrame.frames[1].entry = 1 /\ newFrame.frames[1].merge = 2
  /\ newFrame.frames[1].landingPad = 0
  /\ \A b \in 1..2 : Blank(newFrame, b) /\ newFrame.blocks[b].restores = {}
<1>1. PICK a, c \in Names :
        newFrame = [blocks |-> <<Bare(a), Bare(c)>>, insert |-> 1, frames |-> <<EntryFrame>>]
  BY NewFrameFacts
<1> DEFINE f == EntryFrame
           s == [blocks |-> <<Bare(a), Bare(c)>>, insert |-> 1, frames |-> <<f>>]
<1>2. /\ Bare(a) \in Block /\ Bare(c) \in Block /\ f \in Subframe
      /\ f.entry = 1 /\ f.merge = 2 /\ f.landingPad = 0
  BY DEF Bare, Block, EntryFrame, Subframe
<1>3. \A x : /\ ~Bare(x).term /\ ~Bare(x).torn /\ Bare(x).phi = "none" /\ Bare(x).succ = {}
             /\ Bare(x).unwind = {} /\ Bare(x).restores = {}
  BY DEF Bare
<1> HIDE DEF f
<1>4. /\ s \in Emission /\ s.insert = 1 /\ Len(s.blocks) = 2 /\ Len(s.frames) = 1
      /\ s.frames[1] = f /\ s.blocks[1] = Bare(a) /\ s.blocks[2] = Bare(c)
  BY <1>2 DEF Emission
<1> HIDE DEF s
<1>5. \A b \in 1..2 : Blank(s, b) /\ s.blocks[b].restores = {}
  <2>1. \A b \in 1..2 : \E x : s.blocks[b] = Bare(x)
    BY <1>4
  <2> QED BY <2>1, <1>3 DEF Blank
<1>6. newFrame = s
  BY <1>1 DEF s, f
<1> QED BY <1>2, <1>4, <1>5, <1>6

\* It is sane: only the function's own two blocks are there.
LEMMA NewFrameSane ==
  LET dom == <<{}, {}>>
  IN  Sane(newFrame, dom, {2}) /\ ~hasTerminator(newFrame) /\ Cur(newFrame) = {}
<1> DEFINE s == newFrame
           dom == <<{}, {}>>
<1>1. /\ s \in Emission /\ s.insert = 1 /\ Len(s.blocks) = 2 /\ Len(s.frames) = 1
      /\ s.frames[1].entry = 1 /\ s.frames[1].merge = 2 /\ s.frames[1].landingPad = 0
      /\ \A b \in 1..2 : Blank(s, b) /\ s.blocks[b].restores = {}
  BY NewFrameBlank
<1>2. dom \in Seq(SUBSET Nat) /\ Len(dom) = 2 /\ dom[1] = {} /\ dom[2] = {}
  OBVIOUS
<1> HIDE DEF s, dom
<1>3. Sound(s)
  BY <1>1 DEF Sound
<1>4. ASSUME NEW b \in 1..2
      PROVE  BlockInOrder(s, dom, b)
  <2>1. Blank(s, b) /\ s.blocks[b].restores = {}
    BY <1>1
  <2> QED BY <2>1 DEF BlockInOrder, Blank, Edges
<1>5. Graph(s, dom, {2})
  <2>1. \A b \in 1..2 : b = 1 \/ b = 2
    OBVIOUS
  <2>2. {2} \subseteq 1..2 /\ 1 \notin {2}
    OBVIOUS
  <2> QED BY <2>1, <2>2, <1>1, <1>2, <1>3, <1>4 DEF Graph
<1>6. Cur(s) = {}
  <2>1. 2..1 = {}
    OBVIOUS
  <2> QED BY <2>1, <1>1 DEF Cur, Ent
<1>7. FrameBounds(s, dom) /\ Here(s, dom)
  <2>1. \A k \in 1..1 : k = 1
    OBVIOUS
  <2>2. 1 \in 1..Len(s.blocks) /\ 2 \in 2..Len(s.blocks)
    BY <1>1
  <2>3. FrameBounds(s, dom)
    BY <2>1, <2>2, <1>1, <1>2 DEF FrameBounds
  <2>4. Here(s, dom)
    BY <1>6 DEF Here
  <2> QED BY <2>3, <2>4
<1>8. ~hasTerminator(s)
  <2>1. Blank(s, 1)
    BY <1>1
  <2> QED BY <2>1, <1>1 DEF hasTerminator, Blank
<1> QED BY <1>5, <1>6, <1>7, <1>8 DEF s, dom, Sane

\* Making a block leaves the others alone.
LEMMA MakeKeeps ==
  ASSUME NEW s, Sound(s), NEW name \in Names
  PROVE  LET t == makeBasicBlock(s, name)
         IN  /\ Sound(t) /\ Len(t.blocks) = Len(s.blocks) + 1
             /\ \A b \in 1..Len(s.blocks) : t.blocks[b] = s.blocks[b]
<1> DEFINE t == makeBasicBlock(s, name)
           new == [name |-> UniqueName(s, name), term |-> FALSE,
                   torn |-> FALSE, succ |-> {}, unwind |-> {}, phi |-> "none", restores |-> {}]
           bs == Append(s.blocks, new)
<1>1. Sound(t) /\ Len(t.blocks) = Len(s.blocks) + 1
  BY makeBasicBlockGrows DEF Grows
<1>2. s \in Emission /\ s.blocks \in Seq(Block) /\ Len(s.blocks) \in Nat
  BY DEF Sound, Emission
<1>3. new \in Block
  BY UniqueNameFacts DEF Block
<1>4. t = [s EXCEPT !.blocks = bs]
  BY DEF makeBasicBlock
<1> HIDE DEF new
<1>5. \A b \in 1..Len(s.blocks) : bs[b] = s.blocks[b]
  BY <1>2, <1>3
<1> HIDE DEF bs, t
<1>6. t.blocks = bs
  BY <1>2, <1>4 DEF Emission
<1> QED BY <1>1, <1>5, <1>6 DEF t

\* So does opening a block statement.
LEMMA OpenKeeps ==
  ASSUME NEW s, Sound(s), NEW label \in Tag \cup {NoName}, NEW handled \in BOOLEAN
  PROVE  LET t == Enter(pushNewFrame(s, "Block", label), handled)
         IN  \A b \in 1..Len(s.blocks) : t.blocks[b] = s.blocks[b]
<1> DEFINE r == makeBasicBlock(s, label)
           q == makeBasicBlock(r, "merge")
           v == pushNewFrame(s, "Block", label)
           w == makeBasicBlock(v, "landingpad")
           t == Enter(v, handled)
<1>1. label \in Names /\ "merge" \in Names /\ "landingpad" \in Names /\ Len(s.blocks) \in Nat
  BY NameFacts DEF Sound, Emission
<1>2. /\ Sound(r) /\ Len(r.blocks) = Len(s.blocks) + 1
      /\ \A b \in 1..Len(s.blocks) : r.blocks[b] = s.blocks[b]
  BY <1>1, MakeKeeps
<1> HIDE DEF r
<1>3. /\ Sound(q) /\ Len(q.blocks) = Len(r.blocks) + 1
      /\ \A b \in 1..Len(r.blocks) : q.blocks[b] = r.blocks[b]
  BY <1>1, <1>2, MakeKeeps
<1>4. v = PushSubframe(q, "Block", Newest(q) - 1, Newest(q))
  BY DEF pushNewFrame, r
<1> HIDE DEF q, v
<1>5. Sound(v) /\ v.blocks = q.blocks
  <2>1. Newest(q) - 1 \in Nat /\ Newest(q) \in Nat /\ "Block" \in {"Block", "Loop"}
    BY <1>1, <1>2, <1>3 DEF Newest
  <2> QED BY <2>1, <1>3, <1>4, PushedState
<1>6. /\ Sound(w) /\ \A b \in 1..Len(v.blocks) : w.blocks[b] = v.blocks[b]
  BY <1>1, <1>5, MakeKeeps
<1>7. t.blocks = v.blocks \/ t.blocks = w.blocks
  <2>1. CASE t = v
    BY <2>1
  <2>2. CASE t # v
    <3> DEFINE fs == [w.frames EXCEPT ![Len(w.frames)].landingPad = Newest(w)]
    <3>1. t = [w EXCEPT !.frames = fs]
      BY <2>2 DEF Enter, addLandingPad
    <3> HIDE DEF fs, w, t
    <3>2. w \in Emission
      BY <1>6 DEF Sound
    <3> QED BY <3>1, <3>2 DEF Emission
  <2> QED BY <2>1, <2>2
<1> HIDE DEF w, t
<1>8. ASSUME NEW b \in 1..Len(s.blocks)
      PROVE  t.blocks[b] = s.blocks[b]
  <2>1. b \in 1..Len(r.blocks) /\ b \in 1..Len(q.blocks)
    BY <1>1, <1>2, <1>3
  <2>2. v.blocks[b] = s.blocks[b]
    BY <2>1, <1>2, <1>3, <1>5
  <2>3. w.blocks[b] = v.blocks[b]
    BY <2>1, <1>5, <1>6
  <2> QED BY <2>2, <2>3, <1>7
<1> QED BY <1>8 DEF t, v

\* The builder moves to a block that waits, and the one it leaves waits.
LEMMA GraphLeave ==
  ASSUME NEW s, NEW dom, NEW W, Graph(s, dom, W), Blank(s, s.insert), NEW b \in W
  PROVE  LET t == SetInsertPoint(s, b)
         IN  /\ Graph(t, dom, (W \cup {s.insert}) \ {b}) /\ Extends(s, dom, t, dom)
             /\ t.blocks = s.blocks /\ t.insert = b /\ t.frames = s.frames /\ ~hasTerminator(t)
<1> DEFINE t == SetInsertPoint(s, b)
           V == (W \cup {s.insert}) \ {b}
<1>1. Sound(s) /\ Len(s.blocks) \in Nat /\ b \in 1..Len(s.blocks) /\ s.insert \in 1..Len(s.blocks)
  BY DEF Graph, Sound, Emission
<1>2. Sound(t) /\ t.blocks = s.blocks /\ t.insert = b /\ t.frames = s.frames
  BY <1>1, SetInsertPointGrows DEF Grows
<1> HIDE DEF t
<1>3. Extends(s, dom, t, dom)
  BY <1>1, <1>2, ExtendsRefl
<1>4. ASSUME NEW c \in 1..Len(t.blocks)
      PROVE  /\ BlockInOrder(t, dom, c)
             /\ c \in V => Blank(t, c)
             /\ c \notin V /\ c # t.insert => t.blocks[c].term
  <2>1. /\ BlockInOrder(s, dom, c) /\ (c \in W => Blank(s, c))
        /\ c \notin W /\ c # s.insert => s.blocks[c].term
    BY <1>2 DEF Graph
  <2> QED BY <2>1, <1>1, <1>2 DEF BlockInOrder, Blank, Edges
<1>5. V \subseteq 1..Len(t.blocks) /\ t.insert \notin V
  BY <1>1, <1>2 DEF Graph
<1> HIDE DEF V
<1>6. Graph(t, dom, V)
  BY <1>2, <1>4, <1>5 DEF Graph
<1>7. ~hasTerminator(t)
  <2>1. Blank(s, b)
    BY <1>1 DEF Graph
  <2> QED BY <2>1, <1>2 DEF Blank, hasTerminator
<1> QED BY <1>2, <1>3, <1>6, <1>7 DEF t, V

\* Only the function's own two blocks have been made, and nothing emitted.
Untouched(r, U) ==
  /\ U = {2} /\ Cur(r) = {} /\ Blank(r, 1) /\ r.insert = 1
  /\ Len(r.frames) = 1 /\ Len(r.blocks) = 2

\* The body's block is opened.
LEMMA BodyVerified ==
  ASSUME NEW r, NEW dom, NEW U, Sane(r, dom, U), Untouched(r, U), NEW handled \in BOOLEAN
  PROVE  LET s == Enter(pushNewFrame(r, "Block", NoName), handled)
         IN  Verified(SetInsertPoint(s, subframe(s).entry), <<BlockNest(s)>>)
<1> DEFINE n == Len(r.blocks)
           C == Cur(r)
           F == Own(n, handled)
           f == BlockFrame(n, handled)
           s == Enter(pushNewFrame(r, "Block", NoName), handled)
           b == subframe(s).entry
           t == SetInsertPoint(s, b)
           k == BlockNest(s)
           X == U \cup ({n + 1} \cup F)
<1>1. Graph(r, dom, U) /\ Sound(r) /\ r.frames \in Seq(Subframe) /\ Len(r.frames) > 0 /\ n \in Nat
  BY SaneFacts DEF Sane
<1>2. NoName \in Tag \cup {NoName} /\ C \in SUBSET Nat
  BY SaneFacts
<1> HIDE DEF C
<1>3. PICK e : Graph(s, e, X) /\ Extends(r, dom, s, e) /\ Opened(r, s, e, C, handled)
  <2>1. PICK e : /\ Graph(s, e, U \cup ({Len(r.blocks) + 1} \cup Own(Len(r.blocks), handled)))
                 /\ Extends(r, dom, s, e) /\ Opened(r, s, e, C, handled)
    BY <1>1, <1>2, GraphOpen
  <2> HIDE DEF s
  <2> QED BY <2>1
<1>4. Blank(s, 1)
  <2>1. \A c \in 1..Len(r.blocks) : s.blocks[c] = r.blocks[c]
    BY <1>1, <1>2, OpenKeeps
  <2>2. 1 \in 1..Len(r.blocks)
    BY DEF Untouched
  <2> HIDE DEF s
  <2> QED BY <2>1, <2>2 DEF Blank, Untouched
<1> HIDE DEF s, F
<1>5. /\ s.insert = r.insert /\ s.frames = Append(r.frames, f)
      /\ Len(s.blocks) = (IF handled THEN n + 3 ELSE n + 2)
      /\ e[n + 1] = C /\ e[n + 2] = (IF handled THEN C \cup {n + 1} ELSE C)
      /\ (handled => e[n + 3] = C \cup {n + 1})
  <2> HIDE DEF f
  <2> QED BY <1>3 DEF Opened, f
<1>6. /\ k \in Nested /\ k.stmt = "block" /\ k.merge = n + 2 /\ k.last = "empty" /\ b = n + 1
      /\ handled => k.pad = n + 3
      /\ ~handled => k.pad = 0
  BY <1>1, <1>5, BlockNestFacts
<1> HIDE DEF k, b
<1>7. /\ Graph(t, e, (X \cup {s.insert}) \ {b}) /\ Extends(s, e, t, e)
      /\ t.blocks = s.blocks /\ t.insert = b /\ t.frames = s.frames /\ ~hasTerminator(t)
  <2>1. b \in X
    BY <1>6
  <2>2. Blank(s, s.insert)
    BY <1>4, <1>5 DEF Untouched
  <2> HIDE DEF X
  <2> QED BY <2>1, <2>2, <1>3, GraphLeave
<1>8. (X \cup {s.insert}) \ {b} = {1, 2} \cup F
  <2>1. n + 1 # n + 2 /\ n + 1 # n + 3
    BY <1>1
  <2>2. n + 1 \notin F
    BY <2>1 DEF F, Own
  <2>3. n + 1 # 1 /\ n + 1 # 2 /\ s.insert = 1 /\ U = {2}
    BY <1>5 DEF Untouched
  <2> QED BY <2>2, <2>3, <1>6
<1>9. b \in X
  BY <1>6
<1> HIDE DEF X, t
<1>10. Graph(t, e, {1, 2} \cup F)
  BY <1>7, <1>8, Zenon
<1>11. Extends(r, dom, t, e)
  BY <1>1, <1>3, <1>7, <1>10, ExtendsTransitive DEF Graph
<1>12. t.blocks[n + 1].phi = "none"
  <2>1. n + 1 \in 1..Len(s.blocks)
    BY <1>5
  <2> QED BY <2>1, <1>3, <1>6, <1>7, <1>9 DEF Graph, Blank
<1>13. /\ f \in Subframe /\ f.entry = n + 1 /\ f.merge = n + 2
       /\ handled => f.landingPad = n + 3
       /\ ~handled => f.landingPad = 0
  BY <1>1, BlockFrameFacts
<1> HIDE DEF f
<1>14. /\ f.merge \in 2..Len(t.blocks) /\ e[f.merge] \subseteq C \cup {t.insert}
       /\ f.landingPad # 0 => /\ f.landingPad \in 2..Len(t.blocks)
                              /\ e[f.landingPad] \subseteq C \cup {t.insert}
       /\ C \subseteq e[t.insert] \cup {t.insert}
  <2>1. n > 1
    BY DEF Untouched
  <2> QED BY <2>1, <1>1, <1>5, <1>6, <1>7, <1>13
<1>15. Sane(t, e, {1, 2} \cup F) /\ Len(t.frames) = 2
  <2>1. t.frames = Append(r.frames, f) /\ f.entry = t.insert
    BY <1>5, <1>6, <1>7, <1>13
  <2> DEFINE V == {1, 2} \cup F
  <2> HIDE DEF V
  <2>2. Graph(t, e, V)
    BY <1>10 DEF V
  <2>3. Sane(t, e, V) /\ Len(t.frames) = Len(r.frames) + 1
    <3>1. /\ f.merge \in 2..Len(t.blocks) /\ e[f.merge] \subseteq Cur(r) \cup {t.insert}
          /\ f.landingPad # 0 => /\ f.landingPad \in 2..Len(t.blocks)
                                 /\ e[f.landingPad] \subseteq Cur(r) \cup {t.insert}
          /\ Cur(r) \subseteq e[t.insert] \cup {t.insert}
      BY <1>14 DEF C
    <3>2. f \in Subframe
      BY <1>13
    <3> HIDE DEF n
    <3> QED BY <2>1, <2>2, <3>1, <3>2, <1>11, SanePush
  <2>4. Sane(t, e, {1, 2} \cup F) /\ Len(t.frames) = Len(r.frames) + 1
    BY <2>3 DEF V
  <2> QED BY <2>4 DEF Untouched
<1>16. Slot(t, e, k, 2, F)
  <2>1. t.frames = Append(r.frames, BlockFrame(n, handled)) /\ C = Ent(r.frames, Len(r.frames))
    BY <1>5, <1>7 DEF f, C, Cur
  <2>2. Len(t.blocks) = IF handled THEN n + 3 ELSE n + 2
    BY <1>5, <1>7
  <2>3. n \in Nat /\ n > 1
    BY <1>1 DEF Untouched
  <2>4. Slot(t, e, k, Len(r.frames) + 1, Own(n, handled))
    BY <2>1, <2>2, <2>3, <1>1, <1>5, <1>6, <1>12, BlockSlot
  <2>5. Len(r.frames) + 1 = 2
    BY DEF Untouched
  <2> QED BY <2>4, <2>5 DEF F
<1>17. F \cap Waiting(<<>>) = {} /\ F \in SUBSET Nat
  <2>1. Waiting(<<>>) = {1, 2}
    BY DEF Waiting
  <2>2. 1 \notin F /\ 2 \notin F /\ F \in SUBSET Nat
    BY DEF F, Own, Untouched
  <2> QED BY <2>1, <2>2
<1> DEFINE none == <<>>
           nst == Append(none, k)
           l == 2
           lev == Append(none, l)
           fill == Append(none, F)
<1>18. Ctx(t, e, nst, lev, fill)
  <2>1. Ctx(t, e, none, none, none)
    BY DEF Ctx
  <2>2. Len(none) = 0 /\ l \in Nat /\ Lv(none, 0) + 1 = l /\ F \cap Waiting(none) = {}
    BY <1>17 DEF Lv
  <2>3. Slot(t, e, k, l, F)
    BY <1>16
  <2> HIDE DEF none, l
  <2>4. Follows(none, none, k, l, F)
    BY <2>2, <1>6 DEF Follows
  <2>5. Len(none) > 0 => none[Len(none)].last # "terminator"
    BY <2>2
  <2> QED BY <2>1, <2>2, <2>3, <2>4, <2>5, <1>6, <1>17, CtxAppend
<1>19. Waiting(fill) = {1, 2} \cup F
  <2>1. Waiting(none) = {1, 2} /\ none \in Seq(SUBSET Nat)
    BY DEF Waiting
  <2> HIDE DEF none
  <2> QED BY <2>1, <1>17, WaitingAppend
<1>20. Len(nst) = 1 /\ nst[Len(nst)] = k /\ Lv(lev, Len(nst)) = 2 /\ nst = <<k>>
  BY <1>6 DEF Lv
<1> HIDE DEF nst, lev, fill
<1>21. Sane(t, e, Waiting(fill))
  BY <1>15, <1>19, Zenon
<1>22. ~Closed(k) /\ k.stmt # "handlers"
  BY <1>6 DEF Closed
<1>23. Len(t.blocks) > 2 /\ e[3] = {}
  <2>1. n = 2 /\ C = {}
    BY DEF Untouched, C
  <2>2. n + 2 > 2 /\ n + 3 > 2 /\ n + 1 = 3
    BY <2>1
  <2> QED BY <2>1, <2>2, <1>5, <1>7
<1>24. Verif(t, e, nst, lev, fill)
  BY <1>7, <1>15, <1>18, <1>20, <1>21, <1>22, <1>23 DEF Verif
<1> QED BY <1>20, <1>24 DEF Verified, s, k, t, b

\* emitSubroutineBody.
LEMMA SubroutineBodyVerified ==
  ASSUME ir = newFrame, NEW handled \in BOOLEAN, emitSubroutineBody(handled)
  PROVE  Verified(ir', nest')
<1> DEFINE dom == <<{}, {}>>
           n == Len(newFrame.blocks)
<1>1. Sane(newFrame, dom, {2}) /\ Cur(newFrame) = {}
  BY NewFrameSane
<1>2. newFrame.insert = 1 /\ n = 2 /\ Len(newFrame.frames) = 1 /\ Blank(newFrame, 1)
  <2>1. 1 \in 1..2
    OBVIOUS
  <2> QED BY <2>1, NewFrameBlank
<1> DEFINE s == Enter(pushNewFrame(newFrame, "Block", NoName), handled)
<1>3. ir' = SetInsertPoint(s, subframe(s).entry) /\ nest' = <<BlockNest(s)>>
  BY DEF emitSubroutineBody
<1> HIDE DEF dom
<1>4. Untouched(newFrame, {2})
  BY <1>1, <1>2 DEF Untouched
<1>5. Verified(SetInsertPoint(s, subframe(s).entry), <<BlockNest(s)>>)
  BY <1>1, <1>4, BodyVerified
<1> HIDE DEF s
<1> QED BY <1>3, <1>5

-----------------------------------------------------------------------------
(* The ends of compound statements *)

\* The innermost statement and its subframe.
LEMMA TopSlot ==
  ASSUME NEW s, NEW dom, NEW nst, NEW lev, NEW fill, Verif(s, dom, nst, lev, fill)
  PROVE  LET m == Len(nst)
             l == Len(s.frames)
         IN  /\ m \in Nat /\ m > 0 /\ l \in Nat /\ l > 1 /\ Slot(s, dom, nst[m], l, fill[m])
             /\ nst[m] \in Nested /\ fill[m] \subseteq Waiting(fill) /\ fill[m] \in SUBSET Nat
             /\ nst \in Seq(Nested)
             /\ Sane(s, dom, Waiting(fill)) /\ Sound(s) /\ Len(s.blocks) \in Nat
             /\ Cur(s) = Ent(s.frames, l) /\ Ent(s.frames, l - 1) \subseteq Cur(s)
             /\ nst[m].merge \in 2..Len(s.blocks) /\ dom[nst[m].merge] \subseteq Cur(s)
             /\ lev[m] = l
<1> DEFINE m == Len(nst)
           l == Len(s.frames)
<1>1. Ctx(s, dom, nst, lev, fill) /\ Sane(s, dom, Waiting(fill)) /\ Lv(lev, m) = l /\ m > 0
  BY DEF Verif
<1>2. /\ nst \in Seq(Nested) /\ m \in Nat
      /\ \A i \in 1..m : lev[i] \in Nat /\ lev[i] > 1 /\ nst[i] \in Nested /\ fill[i] \in SUBSET Nat
  BY <1>1, CtxFacts
<1>3. Sound(s) /\ Len(s.blocks) \in Nat /\ l \in Nat
  BY <1>1, SaneFacts
<1>4. m \in 1..m /\ lev[m] = l
  BY <1>1, <1>2 DEF Lv
<1>5. Slot(s, dom, nst[m], l, fill[m])
  BY <1>1, <1>4 DEF Ctx
<1>6. fill[m] \subseteq Waiting(fill)
  BY <1>1, WaitingFront
<1>7. Ent(s.frames, l - 1) \subseteq Ent(s.frames, l) /\ Cur(s) = Ent(s.frames, l)
  BY <1>3 DEF Ent, Cur
<1>8. nst[m].merge \in 2..Len(s.blocks) /\ dom[nst[m].merge] \subseteq Cur(s)
  <2>1. nst[m].merge \in 3..Len(s.blocks)
    BY <1>5 DEF Slot
  <2>2. dom[nst[m].merge] = Ent(s.frames, l) \/ dom[nst[m].merge] = Ent(s.frames, l - 1)
    BY <1>5 DEF Slot
  <2> QED BY <2>1, <2>2, <1>3, <1>7
<1> QED BY <1>1, <1>2, <1>3, <1>4, <1>5, <1>6, <1>7, <1>8

\* A subframe is left for a block that waits.
LEMMA PopAndMove ==
  ASSUME NEW s, NEW dom, NEW W, Sane(s, dom, W), hasTerminator(s), Len(s.frames) > 1, NEW b \in W,
         dom[b] = Ent(s.frames, Len(s.frames) - 1)
  PROVE  LET t == SetInsertPoint(popFrame(s), b)
         IN  /\ Sane(t, dom, W \ {b}) /\ Extends(s, dom, t, dom) /\ t.frames = Front(s.frames)
             /\ ~hasTerminator(t) /\ Len(t.blocks) = Len(s.blocks) /\ t.insert = b
<1> DEFINE p == popFrame(s)
           t == SetInsertPoint(p, b)
<1>1. Sane(p, dom, W) /\ Extends(s, dom, p, dom) /\ Popped(s, p)
  BY SanePop
<1> HIDE DEF p
<1>2. /\ Len(p.blocks) = Len(s.blocks) /\ p.frames = Front(s.frames) /\ hasTerminator(p)
      /\ Cur(p) = dom[b]
  BY <1>1 DEF Popped
<1>3. b \in 1..Len(p.blocks) /\ Sound(s) /\ Sound(p)
  BY <1>1, <1>2, SaneFacts
<1>4. Leads(p, dom, t, dom, W \ {b}) /\ Moved(p, t, b, W)
  BY <1>1, <1>2, <1>3, SaneMove
<1> HIDE DEF t
<1>5. Sane(t, dom, W \ {b}) /\ Extends(p, dom, t, dom) /\ t.frames = Front(s.frames) /\ ~hasTerminator(t)
  BY <1>2, <1>4 DEF Leads, Moved
<1>6. Extends(s, dom, t, dom)
  BY <1>1, <1>3, <1>5, SaneFacts, ExtendsTransitive
<1>7. Len(t.blocks) = Len(s.blocks) /\ t.insert = b
  BY <1>2, <1>4 DEF Moved
<1> QED BY <1>5, <1>6, <1>7 DEF t, p

\* The end of a statement whose own subframe is left.
LEMMA EndVerified ==
  ASSUME NEW dom, NEW lev, NEW fill, Verif(ir, dom, nest, lev, fill), Len(nest) > 1,
         nest[Len(nest)].stmt # "handler",
         NEW s, NEW e, NEW U, Leads(ir, dom, s, e, U),
         NEW t, NEW f, NEW V, Sane(t, f, V), V = Waiting(fill) \ fill[Len(nest)],
         Extends(s, e, t, f), t.frames = Front(s.frames), ~hasTerminator(t), End(t)
  PROVE  Verified(ir', nest')
<1>1. Sane(ir, dom, Waiting(fill)) /\ s.frames = ir.frames /\ Sane(s, e, U) /\ Extends(ir, dom, s, e)
  BY DEF Verif, Leads
<1>2. Sound(ir) /\ Sound(s) /\ Sound(t) /\ ir.frames \in Seq(Subframe) /\ Len(ir.frames) \in Nat /\ Len(ir.frames) > 0
  BY <1>1, SaneFacts
<1>3. Extends(ir, dom, t, f)
  BY <1>1, <1>2, ExtendsTransitive
<1>4. Len(t.frames) = Len(ir.frames) - 1 /\ \A i \in 1..(Len(ir.frames) - 1) : t.frames[i] = ir.frames[i]
  BY <1>1, <1>2, FrontFacts
<1>5. SameEntries(ir, t, Len(ir.frames) - 1)
  BY <1>4 DEF SameEntries
<1>6. Sane(t, f, Waiting(fill) \ fill[Len(nest)])
  OBVIOUS
<1>7. Verified(t, Front(nest))
  BY <1>3, <1>4, <1>5, <1>6, VerifEnd
<1> QED BY <1>7 DEF End

\* endBlockStmt.
LEMMA endBlockVerified ==
  ASSUME Verified(ir, nest), endBlockStmt
  PROVE  Verified(ir', nest')
<1>1. PICK dom, lev, fill : Verif(ir, dom, nest, lev, fill)
  BY DEF Verified
<1> DEFINE W == Waiting(fill)
           k == nest[Len(nest)]
           s == BrIfNeeded(ir, k.merge)
           t == SetInsertPoint(popFrame(s), k.merge)
<1>2. Inner = k
  BY DEF Inner, Last
<1>3. k.stmt = "block" /\ k.pad = 0 /\ Len(nest) > 1 /\ End(t)
  BY <1>2 DEF endBlockStmt, Complete
<1>4. /\ Slot(ir, dom, k, Len(ir.frames), fill[Len(nest)]) /\ Sane(ir, dom, W)
      /\ fill[Len(nest)] \subseteq W /\ Len(ir.frames) > 1
      /\ k.merge \in 2..Len(ir.blocks) /\ dom[k.merge] \subseteq Cur(ir)
  BY <1>1, TopSlot
<1>5. fill[Len(nest)] = {k.merge} /\ dom[k.merge] = Ent(ir.frames, Len(ir.frames) - 1)
  BY <1>3, <1>4 DEF Slot, Handled
<1> HIDE DEF W, k
<1>6. Leads(ir, dom, s, dom, W) /\ Ended(ir, s)
  BY <1>4, SaneBr
<1> HIDE DEF s
<1>7. Sane(s, dom, W) /\ s.frames = ir.frames /\ hasTerminator(s) /\ k.merge \in W
  BY <1>4, <1>5, <1>6 DEF Leads, Ended
<1>8. /\ Sane(t, dom, W \ {k.merge}) /\ Extends(s, dom, t, dom) /\ t.frames = Front(s.frames)
      /\ ~hasTerminator(t)
  <2> DEFINE b == k.merge
  <2>1. /\ Len(s.frames) > 1 /\ dom[b] = Ent(s.frames, Len(s.frames) - 1) /\ b \in W
        /\ Sane(s, dom, W) /\ hasTerminator(s)
    BY <1>4, <1>5, <1>7
  <2>2. t = SetInsertPoint(popFrame(s), b)
    OBVIOUS
  <2> HIDE DEF b, t
  <2>3. /\ Sane(t, dom, W \ {b}) /\ Extends(s, dom, t, dom) /\ t.frames = Front(s.frames)
        /\ ~hasTerminator(t)
    BY <2>1, <2>2, PopAndMove
  <2> QED BY <2>3 DEF b
<1> HIDE DEF t
<1>9. W \ {k.merge} = Waiting(fill) \ fill[Len(nest)]
  BY <1>5 DEF W
<1>10. nest[Len(nest)].stmt # "handler"
  BY <1>3 DEF k
<1> QED BY <1>1, <1>3, <1>6, <1>8, <1>9, <1>10, EndVerified

\* endIfStmt.
LEMMA endIfVerified ==
  ASSUME Verified(ir, nest), Len(nest) > 1, endIfStmt
  PROVE  Verified(ir', nest')
<1>1. PICK dom, lev, fill : Verif(ir, dom, nest, lev, fill)
  BY DEF Verified
<1> DEFINE W == Waiting(fill)
           k == nest[Len(nest)]
           s == BrIfNeeded(ir, k.merge)
           t == SetInsertPoint(popFrame(s), k.merge)
<1>2. Inner = k
  BY DEF Inner, Last
<1>3. k.stmt = "if" /\ k.more = "none" /\ End(t)
  BY <1>2 DEF endIfStmt, Complete, Branched
<1>4. /\ Slot(ir, dom, k, Len(ir.frames), fill[Len(nest)]) /\ Sane(ir, dom, W)
      /\ fill[Len(nest)] \subseteq W /\ Len(ir.frames) > 1
      /\ k.merge \in 2..Len(ir.blocks) /\ dom[k.merge] \subseteq Cur(ir)
  BY <1>1, TopSlot
<1>5. fill[Len(nest)] = {k.merge} /\ dom[k.merge] = Ent(ir.frames, Len(ir.frames) - 1)
  <2>1. fill[Len(nest)] = {k.merge, k.next} /\ k.next = k.merge
    BY <1>3, <1>4 DEF Slot
  <2>2. ~Handled(k)
    BY <1>3 DEF Handled
  <2>3. dom[k.merge] = Ent(ir.frames, Len(ir.frames) - 1)
    BY <2>2, <1>4 DEF Slot
  <2> QED BY <2>1, <2>3
<1> HIDE DEF W, k
<1>6. Leads(ir, dom, s, dom, W) /\ Ended(ir, s)
  BY <1>4, SaneBr
<1> HIDE DEF s
<1>7. Sane(s, dom, W) /\ s.frames = ir.frames /\ hasTerminator(s) /\ k.merge \in W
  BY <1>4, <1>5, <1>6 DEF Leads, Ended
<1>8. /\ Sane(t, dom, W \ {k.merge}) /\ Extends(s, dom, t, dom) /\ t.frames = Front(s.frames)
      /\ ~hasTerminator(t)
  <2> DEFINE b == k.merge
  <2>1. /\ Len(s.frames) > 1 /\ dom[b] = Ent(s.frames, Len(s.frames) - 1) /\ b \in W
        /\ Sane(s, dom, W) /\ hasTerminator(s)
    BY <1>4, <1>5, <1>7
  <2>2. t = SetInsertPoint(popFrame(s), b)
    OBVIOUS
  <2> HIDE DEF b, t
  <2>3. /\ Sane(t, dom, W \ {b}) /\ Extends(s, dom, t, dom) /\ t.frames = Front(s.frames)
        /\ ~hasTerminator(t)
    BY <2>1, <2>2, PopAndMove
  <2> QED BY <2>3 DEF b
<1> HIDE DEF t
<1>9. W \ {k.merge} = Waiting(fill) \ fill[Len(nest)]
  BY <1>5 DEF W
<1>10. nest[Len(nest)].stmt # "handler"
  BY <1>3 DEF k
<1> QED BY <1>1, <1>3, <1>6, <1>8, <1>9, <1>10, EndVerified

\* endLoopStmt.
LEMMA endLoopVerified ==
  ASSUME Verified(ir, nest), Len(nest) > 1, endLoopStmt
  PROVE  Verified(ir', nest')
<1>1. PICK dom, lev, fill : Verif(ir, dom, nest, lev, fill)
  BY DEF Verified
<1> DEFINE W == Waiting(fill)
           k == nest[Len(nest)]
           a == k.next
           b == k.merge
           p == popFrame(ir)
           s == BrIfNeeded(p, a)
           t == SetInsertPoint(s, b)
<1>2. Inner = k
  BY DEF Inner, Last
<1>3. k.stmt \in Loops /\ End(t)
  BY <1>2 DEF endLoopStmt, Complete
<1>4. k.stmt # "block" /\ k.stmt # "handlers" /\ k.stmt # "handler" /\ k.stmt # "if"
  BY <1>3 DEF Loops
<1>5. /\ Slot(ir, dom, k, Len(ir.frames), fill[Len(nest)]) /\ Sane(ir, dom, W)
      /\ fill[Len(nest)] \subseteq W /\ Len(ir.frames) > 1
      /\ b \in 2..Len(ir.blocks) /\ Len(ir.blocks) \in Nat /\ Sound(ir)
  BY <1>1, TopSlot
<1>6. /\ fill[Len(nest)] = {b} /\ dom[b] = Ent(ir.frames, Len(ir.frames) - 1)
      /\ dom[a] = Ent(ir.frames, Len(ir.frames) - 1) /\ a \in 3..Len(ir.blocks)
  <2>1. ~Handled(k)
    BY <1>4 DEF Handled
  <2> QED BY <2>1, <1>3, <1>4, <1>5 DEF Slot
<1> HIDE DEF W, k, a, b
<1>7. Sane(p, dom, W) /\ Extends(ir, dom, p, dom) /\ Popped(ir, p)
  BY <1>5, SanePop
<1> HIDE DEF p
<1>8. Len(p.blocks) = Len(ir.blocks) /\ p.frames = Front(ir.frames) /\ Cur(p) = dom[b] /\ Cur(p) = dom[a]
  BY <1>6, <1>7 DEF Popped
<1>9. a \in 2..Len(p.blocks) /\ dom[a] \subseteq Cur(p)
  BY <1>5, <1>6, <1>8
<1>10. Leads(p, dom, s, dom, W) /\ Ended(p, s)
  BY <1>7, <1>9, SaneBr
<1> HIDE DEF s
<1>11. Sane(s, dom, W) /\ s.frames = p.frames /\ hasTerminator(s) /\ b \in 1..Len(s.blocks) /\ b \in W
  BY <1>5, <1>6, <1>8, <1>10 DEF Leads, Ended
<1>12. Cur(s) \subseteq dom[b] \cup {b}
  BY <1>8, <1>11 DEF Cur
<1>13. Leads(s, dom, t, dom, W \ {b}) /\ Moved(s, t, b, W)
  BY <1>11, <1>12, SaneMove
<1> HIDE DEF t
<1>14. Sane(t, dom, W \ {b}) /\ t.frames = Front(ir.frames) /\ ~hasTerminator(t)
  BY <1>8, <1>11, <1>13 DEF Leads, Moved
<1>15. Extends(ir, dom, t, dom)
  <2>1. Leads(p, dom, t, dom, W \ {b})
    BY <1>7, <1>10, <1>13, LeadsTransitive
  <2>2. Extends(p, dom, t, dom) /\ Sound(p) /\ Sound(t)
    BY <2>1, <1>7, SaneFacts DEF Leads
  <2> QED BY <2>2, <1>5, <1>7, ExtendsTransitive
<1>16. Leads(ir, dom, ir, dom, W)
  BY <1>5, ExtendsRefl DEF Leads
<1>17. W \ {b} = Waiting(fill) \ fill[Len(nest)]
  BY <1>6 DEF W
<1>18. nest[Len(nest)].stmt # "handler"
  BY <1>4 DEF k
<1> QED BY <1>1, <1>3, <1>14, <1>15, <1>16, <1>17, <1>18, EndVerified

\* Going to the block where the builder is.
LEMMA StayInsert ==
  ASSUME NEW s, Sound(s)
  PROVE  SetInsertPoint(s, s.insert) = s
BY DEF SetInsertPoint, Sound, Emission

\* The exception raised again behind handlers k without a catch-all, and on to
\* the merge block.
LeftHandlers(r, k) ==
  SetInsertPoint(IF k.more = "others" THEN r ELSE raiseExinfo(r), k.merge)

HandlersDone(r, dom, k, W, F) ==
  \E e : /\ Leads(r, dom, LeftHandlers(r, k), e, W \ {k.merge})
         /\ ~hasTerminator(LeftHandlers(r, k))
         /\ LeftHandlers(r, k).insert = k.merge /\ F = {k.merge}

\* The handlers are left: raised again unless all are caught, and on to the merge
\* block, still in the subframe.
LEMMA HandlersLeft ==
  ASSUME NEW r, NEW dom, NEW nst, NEW lev, NEW fill, Verif(r, dom, nst, lev, fill),
         nst[Len(nst)].stmt = "handlers"
  PROVE  HandlersDone(r, dom, nst[Len(nst)], Waiting(fill), fill[Len(nst)])
<1> DEFINE W == Waiting(fill)
           k == nst[Len(nst)]
           b == k.merge
           s == IF k.more = "others" THEN r ELSE raiseExinfo(r)
           t == SetInsertPoint(s, b)
<1>1. /\ Slot(r, dom, k, Len(r.frames), fill[Len(nst)]) /\ Sane(r, dom, W)
      /\ fill[Len(nst)] \subseteq W /\ Sound(r)
      /\ b \in 2..Len(r.blocks) /\ Len(r.blocks) \in Nat
      /\ Cur(r) = Ent(r.frames, Len(r.frames))
  BY TopSlot
<1>2. fill[Len(nst)] = {b} /\ dom[b] = Cur(r)
  BY <1>1 DEF Slot, Handled
<1>3. hasTerminator(r) <=> k.more = "others"
  BY DEF Verif, Closed
<1> HIDE DEF W, k, b
<1>4. PICK e : Leads(r, dom, s, e, W) /\ hasTerminator(s)
  <2>1. CASE k.more = "others"
    <3>1. Leads(r, dom, r, dom, W)
      BY <1>1, ExtendsRefl DEF Leads
    <3> QED BY <2>1, <3>1, <1>3
  <2>2. CASE k.more # "others"
    <3>1. ~hasTerminator(r)
      BY <2>2, <1>3
    <3>2. \E e : Leads(r, dom, raiseExinfo(r), e, W) /\ hasTerminator(raiseExinfo(r))
      BY <3>1, <1>1, SaneRaise
    <3> QED BY <2>2, <3>2
  <2> QED BY <2>1, <2>2
<1> HIDE DEF s
<1>5. /\ Sane(s, e, W) /\ s.frames = r.frames /\ e[b] = dom[b] /\ b \in 1..Len(s.blocks)
      /\ Len(s.blocks) \in Nat
  <2>1. Sane(s, e, W) /\ s.frames = r.frames /\ Extends(r, dom, s, e)
    BY <1>4 DEF Leads
  <2>2. Len(s.blocks) \in Nat
    BY <2>1, SaneFacts
  <2>3. b \in 1..Len(r.blocks)
    BY <1>1
  <2> QED BY <2>1, <2>2, <2>3, <1>1 DEF Extends
<1>6. Cur(s) \subseteq e[b] \cup {b}
  BY <1>2, <1>5 DEF Cur
<1>7. Leads(s, e, t, e, W \ {b}) /\ Moved(s, t, b, W)
  BY <1>4, <1>5, <1>6, SaneMove
<1> HIDE DEF t
<1>8. Leads(r, dom, t, e, W \ {b})
  BY <1>1, <1>4, <1>7, LeadsTransitive
<1>9. ~hasTerminator(t) /\ t.insert = b
  BY <1>1, <1>2, <1>7 DEF Moved
<1>10. t = LeftHandlers(r, k)
  BY DEF t, s, b, LeftHandlers
<1> QED BY <1>2, <1>8, <1>9, <1>10 DEF HandlersDone, W, k, b

\* endHandlers.
LEMMA endHandlersVerified ==
  ASSUME Verified(ir, nest), endHandlers
  PROVE  Verified(ir', nest')
<1>1. PICK dom, lev, fill : Verif(ir, dom, nest, lev, fill)
  BY DEF Verified
<1> DEFINE W == Waiting(fill)
           k == nest[Len(nest)]
           b == k.merge
           s == LeftHandlers(ir, k)
           p == popFrame(s)
           t == SetInsertPoint(p, b)
<1>2. Inner = k
  BY DEF Inner, Last
<1>3. k.stmt = "handlers" /\ Len(nest) > 1 /\ End(t)
  BY <1>2 DEF endHandlers, Complete, LeftHandlers
<1>4. PICK e : /\ Leads(ir, dom, s, e, W \ {b}) /\ ~hasTerminator(s)
               /\ s.insert = b /\ fill[Len(nest)] = {b}
  <2>1. nest[Len(nest)].stmt = "handlers"
    BY <1>3
  <2>2. HandlersDone(ir, dom, nest[Len(nest)], Waiting(fill), fill[Len(nest)])
    BY <1>1, <2>1, HandlersLeft
  <2> QED BY <2>2 DEF HandlersDone
<1>5. Len(ir.frames) > 1
  BY <1>1, TopSlot
<1> HIDE DEF s, W, k, b
<1>6. Sane(s, e, W \ {b}) /\ Len(s.frames) > 1
  BY <1>4, <1>5 DEF Leads
<1>7. Sane(p, e, W \ {b}) /\ Extends(s, e, p, e) /\ Popped(s, p)
  BY <1>6, SanePop
<1> HIDE DEF p
<1>8. p.insert = b /\ p.frames = Front(s.frames) /\ ~hasTerminator(p) /\ Sound(p)
  BY <1>4, <1>7, SaneFacts DEF Popped
<1>9. t = p
  BY <1>8, StayInsert
<1> HIDE DEF t
<1>10. Sane(t, e, W \ {b}) /\ Extends(s, e, t, e) /\ t.frames = Front(s.frames) /\ ~hasTerminator(t)
  BY <1>7, <1>8, <1>9
<1>11. W \ {b} = Waiting(fill) \ fill[Len(nest)]
  BY <1>4 DEF W
<1>12. nest[Len(nest)].stmt # "handler"
  BY <1>3 DEF k
<1> QED BY <1>1, <1>3, <1>4, <1>10, <1>11, <1>12, EndVerified

\* endHandler.
LEMMA endHandlerVerified ==
  ASSUME Verified(ir, nest), endHandler
  PROVE  Verified(ir', nest')
<1>1. PICK dom, lev, fill : Verif(ir, dom, nest, lev, fill)
  BY DEF Verified
<1> DEFINE W == Waiting(fill)
           m == Len(nest)
           l == Len(ir.frames)
           k == nest[m]
           h == nest[m - 1]
           a == k.next
           b == k.merge
           F == fill[m]
           s == BrIfNeeded(ir, b)
           t == SetInsertPoint(s, a)
<1>2. Inner = k
  BY DEF Inner, Last
<1>3. k.stmt = "handler" /\ End(t)
  BY <1>2 DEF endHandler, Complete
<1>4. /\ Slot(ir, dom, k, l, F) /\ Sane(ir, dom, W)
      /\ F \subseteq W /\ l > 1 /\ l \in Nat /\ m \in Nat /\ m > 0
      /\ b \in 2..Len(ir.blocks) /\ Len(ir.blocks) \in Nat /\ Sound(ir)
      /\ dom[b] \subseteq Cur(ir) /\ Cur(ir) = Ent(ir.frames, l) /\ lev[m] = l
      /\ nest \in Seq(Nested)
  BY <1>1, TopSlot
<1>5. Ctx(ir, dom, nest, lev, fill) /\ Len(ir.blocks) > 2 /\ dom[3] = {}
  BY <1>1 DEF Verif
<1>6. /\ m > 1 /\ h.stmt = "handlers" /\ lev[m] = lev[m - 1] /\ h.merge = b /\ h.next = a
      /\ h.more = "others" <=> F = {}
  <2>1. m \in 1..m
    BY <1>4
  <2>2. Link(nest, lev, fill, m)
    BY <2>1, <1>5 DEF Ctx
  <2> QED BY <2>2, <1>3 DEF Link
<1>7. /\ F = {a} \/ (F = {} /\ ir.blocks[a].term)
      /\ a \in 3..Len(ir.blocks) /\ dom[a] = Cur(ir)
  BY <1>3, <1>4 DEF Slot, Handled
<1> HIDE DEF W, k, a, b, F, h
<1>8. Leads(ir, dom, s, dom, W) /\ Ended(ir, s)
  BY <1>4, SaneBr
<1> HIDE DEF s
<1>9. /\ Sane(s, dom, W) /\ s.frames = ir.frames /\ hasTerminator(s) /\ Extends(ir, dom, s, dom)
      /\ Len(s.blocks) = Len(ir.blocks)
  BY <1>8 DEF Leads, Ended
<1>10. a \in 1..Len(s.blocks) /\ Cur(s) \subseteq dom[a] \cup {a}
  BY <1>4, <1>7, <1>9 DEF Cur
<1>11. Leads(s, dom, t, dom, W \ {a}) /\ Moved(s, t, a, W)
  BY <1>9, <1>10, SaneMove
<1> HIDE DEF t
<1>12. W \ {a} = W \ F /\ (a \in W <=> F # {})
  <2>1. CASE F = {a}
    BY <2>1, <1>4
  <2>2. CASE F = {} /\ ir.blocks[a].term
    <3>1. s.blocks[a].term
      BY <2>2, <1>4, <1>7, <1>9 DEF Extends
    <3>2. a \in W => Blank(s, a)
      BY <1>9, <1>10 DEF Sane, Graph
    <3>3. a \notin W
      BY <3>1, <3>2 DEF Blank
    <3> QED BY <2>2, <3>3
  <2> QED BY <2>1, <2>2, <1>7
<1>13. Leads(ir, dom, t, dom, W \ {a})
  BY <1>4, <1>8, <1>11, LeadsTransitive
<1>14. /\ Extends(ir, dom, t, dom) /\ t.frames = ir.frames /\ t.insert = a
       /\ (hasTerminator(t) <=> a \notin W) /\ Len(t.blocks) = Len(ir.blocks)
  BY <1>9, <1>11, <1>13 DEF Leads, Moved
<1> DEFINE p == Front(nest)
           lv == Front(lev)
           fl == Front(fill)
<1>15. Ctx(ir, dom, p, lv, fl) /\ Waiting(fl) = W \ F
  BY <1>4, <1>5, CtxFront, WaitingFront DEF W, F
<1>16. p \in Seq(Nested) /\ Len(p) = m - 1 /\ p[Len(p)] = h /\ Len(p) > 0
  BY <1>4, <1>6, FrontFacts DEF h
<1>17. Lv(lv, Len(p)) = l
  <2>1. lev \in Seq(Nat) /\ Len(lev) = m
    BY <1>5 DEF Ctx
  <2>2. m - 1 \in 1..(m - 1)
    BY <1>4, <1>6
  <2>3. lv[m - 1] = lev[m - 1]
    BY <2>1, <2>2, <1>4, FrontFacts
  <2> QED BY <2>3, <1>4, <1>6, <1>16 DEF Lv
<1>18. Sane(t, dom, Waiting(fl))
  <2>1. Sane(t, dom, W \ {a})
    BY <1>13 DEF Leads
  <2>2. W \ {a} = Waiting(fl)
    BY <1>12, <1>15
  <2> QED BY <2>1, <2>2, Zenon
<1> HIDE DEF p, lv, fl
<1>19. Ctx(t, dom, p, lv, fl)
  <2>1. SameEntries(ir, t, Lv(lv, Len(p)))
    BY <1>14 DEF SameEntries
  <2>2. Sound(t)
    BY <1>18, SaneFacts
  <2> QED BY <2>1, <2>2, <1>4, <1>14, <1>15, CtxExtends
<1>20. hasTerminator(t) <=> Closed(h)
  BY <1>6, <1>12, <1>14 DEF Closed
<1>21. Verif(t, dom, p, lv, fl)
  BY <1>5, <1>6, <1>14, <1>16, <1>17, <1>18, <1>19, <1>20 DEF Verif
<1> QED BY <1>3, <1>21 DEF End, Verified, p

-----------------------------------------------------------------------------
(* The branches of an if statement *)

\* A branch is over: in q the builder stands in block b, outside of the branch's
\* subframe.
Outside(s, dom, q, b, W) ==
  /\ Sane(q, dom, W \ {b}) /\ Extends(s, dom, q, dom) /\ q.frames = Front(s.frames)
  /\ ~hasTerminator(q) /\ Len(q.blocks) = Len(s.blocks) /\ q.insert = b
  /\ q.blocks[b].phi = "none" /\ Cur(q) = Ent(s.frames, Len(s.frames) - 1)

\* What is noted for an if statement with a branch to follow.
IfSlot(s, dom, k, C, F) ==
  /\ k \in Nested /\ k.stmt = "if" /\ k.next # k.merge /\ F = {k.merge, k.next}
  /\ k.merge \in 3..Len(s.blocks) /\ k.next \in 3..Len(s.blocks)
  /\ dom[k.merge] = C /\ dom[k.next] = C

\* The branch under way ends and the next one is taken up.
LEMMA BranchLeft ==
  ASSUME NEW s, NEW dom, NEW nst, NEW lev, NEW fill, Verif(s, dom, nst, lev, fill),
         nst[Len(nst)].stmt = "if", nst[Len(nst)].more # "none"
  PROVE  LET k == nst[Len(nst)]
             q == SetInsertPoint(popFrame(BrIfNeeded(s, k.merge)), k.next)
         IN  /\ Outside(s, dom, q, k.next, Waiting(fill))
             /\ IfSlot(s, dom, k, Ent(s.frames, Len(s.frames) - 1), fill[Len(nst)])
<1> DEFINE W == Waiting(fill)
           k == nst[Len(nst)]
           b == k.next
           a == k.merge
           C == Ent(s.frames, Len(s.frames) - 1)
           r == BrIfNeeded(s, a)
           p == popFrame(r)
           q == SetInsertPoint(p, b)
<1>1. /\ Slot(s, dom, k, Len(s.frames), fill[Len(nst)]) /\ Sane(s, dom, W)
      /\ fill[Len(nst)] \subseteq W /\ Len(s.frames) > 1 /\ k \in Nested
      /\ a \in 2..Len(s.blocks) /\ dom[a] \subseteq Cur(s)
  BY TopSlot
<1>2. ~Handled(k)
  BY DEF Handled
<1>3. IfSlot(s, dom, k, C, fill[Len(nst)])
  BY <1>1, <1>2 DEF Slot, IfSlot
<1>4. b \in W /\ dom[b] = C
  BY <1>1, <1>3 DEF IfSlot
<1> HIDE DEF W, a, b, k, C
<1>5. Leads(s, dom, r, dom, W) /\ Ended(s, r)
  BY <1>1, SaneBr
<1> HIDE DEF r
<1>6. Sane(r, dom, W) /\ r.frames = s.frames /\ hasTerminator(r) /\ Len(r.frames) > 1
      /\ Extends(s, dom, r, dom) /\ Len(r.blocks) = Len(s.blocks)
  BY <1>1, <1>5 DEF Leads, Ended
<1>7. Sane(p, dom, W) /\ Extends(r, dom, p, dom) /\ Popped(r, p)
  BY <1>6, SanePop
<1> HIDE DEF p
<1>8. /\ Len(p.blocks) = Len(s.blocks) /\ p.frames = Front(s.frames) /\ hasTerminator(p)
      /\ Cur(p) = C
  BY <1>6, <1>7 DEF Popped, C
<1>9. b \in 1..Len(p.blocks) /\ Cur(p) \subseteq dom[b] \cup {b} /\ p.blocks[b].phi = "none"
  BY <1>4, <1>7, <1>8, SaneFacts DEF Sane, Graph, Blank
<1>10. Leads(p, dom, q, dom, W \ {b}) /\ Moved(p, q, b, W)
  BY <1>7, <1>8, <1>9, SaneMove
<1> HIDE DEF q
<1>11. Extends(s, dom, q, dom)
  <2>1. Sound(s) /\ Sound(r) /\ Sound(p) /\ Sound(q)
    BY <1>1, <1>6, <1>7, <1>10, SaneFacts DEF Leads
  <2>2. Extends(s, dom, p, dom)
    BY <2>1, <1>6, <1>7, ExtendsTransitive
  <2> QED BY <2>1, <2>2, <1>10, ExtendsTransitive DEF Leads
<1>12. Outside(s, dom, q, b, W)
  BY <1>4, <1>8, <1>9, <1>10, <1>11 DEF Outside, Leads, Moved, Cur, C
<1> QED BY <1>3, <1>12 DEF q, p, r, W, a, b, k, C

\* The next branch begins: its subframe is entered at the block being filled.
LEMMA BranchVerified ==
  ASSUME NEW s, NEW dom, NEW nst, NEW lev, NEW fill, Verif(s, dom, nst, lev, fill),
         NEW C, IfSlot(s, dom, nst[Len(nst)], C, fill[Len(nst)]),
         NEW q, Outside(s, dom, q, nst[Len(nst)].next, Waiting(fill)), Cur(q) = C,
         NEW v, NEW e, NEW n \in Nested, NEW F \in SUBSET Nat,
         Leads(q, dom, v, e, (Waiting(fill) \ fill[Len(nst)]) \cup F), ~hasTerminator(v),
         v.blocks[v.insert].phi = "none",
         n.stmt = "if", n.last = "empty", n.merge = nst[Len(nst)].merge,
         n.next \in 3..Len(v.blocks), e[n.next] = C,
         n.next = n.merge \/ n.next \notin 1..Len(s.blocks),
         F = {n.merge, n.next}, n.more = "none" <=> n.next = n.merge
  PROVE  Verified(PushSubframe(v, "Block", v.insert, n.merge), [nst EXCEPT ![Len(nst)] = n])
<1> DEFINE t == PushSubframe(v, "Block", v.insert, n.merge)
           f == [kind |-> "Block", entry |-> v.insert, merge |-> n.merge, saved |-> FALSE, landingPad |-> 0]
           k == nst[Len(nst)]
           m == Len(s.frames)
           W == (Waiting(fill) \ fill[Len(nst)]) \cup F
<1>1. /\ Sane(s, dom, Waiting(fill)) /\ nst \in Seq(Nested) /\ m \in Nat /\ m > 1
      /\ Len(nst) \in Nat /\ Len(nst) > 0
      /\ Len(s.blocks) \in Nat /\ Sound(s) /\ Ent(s.frames, m - 1) \subseteq Cur(s)
      /\ Cur(s) \in SUBSET Nat /\ s.frames \in Seq(Subframe)
  BY TopSlot, SaneFacts
<1>2. /\ Sane(v, e, W) /\ Extends(q, dom, v, e) /\ v.frames = q.frames
  BY DEF Leads
<1>3. /\ Sound(v) /\ Len(v.blocks) \in Nat /\ v.insert \in 1..Len(v.blocks) /\ v.insert \in Nat
      /\ Cur(v) \subseteq e[v.insert] \cup {v.insert} /\ Len(v.blocks) > 1
  BY <1>2, SaneFacts
<1>4. /\ Len(q.blocks) = Len(s.blocks) /\ q.frames = Front(s.frames) /\ Extends(s, dom, q, dom)
      /\ Cur(q) = C /\ C = Ent(s.frames, m - 1) /\ Sound(q)
  BY SaneFacts DEF Outside
<1>5. k.merge \in 3..Len(s.blocks) /\ dom[k.merge] = C /\ fill[Len(nst)] = {k.merge, k.next} /\ k.stmt = "if"
      /\ k.merge \in Nat
  BY <1>1 DEF IfSlot
<1>6. Len(s.blocks) =< Len(v.blocks)
  BY <1>2, <1>4 DEF Extends
<1>7. n.merge \in 3..Len(v.blocks) /\ n.merge \in 2..Len(v.blocks) /\ n.merge \in Nat /\ e[n.merge] = C
  <2>1. k.merge \in 1..Len(q.blocks)
    BY <1>1, <1>4, <1>5
  <2>2. e[k.merge] = dom[k.merge]
    BY <2>1, <1>2 DEF Extends
  <2> QED BY <2>2, <1>1, <1>3, <1>5, <1>6
<1>8. /\ Sound(t) /\ t.blocks = v.blocks /\ t.insert = v.insert
      /\ t.frames = Append(v.frames, f) /\ f \in Subframe
  BY <1>3, <1>7, PushedState
<1>9. f.entry = v.insert /\ f.merge = n.merge /\ f.landingPad = 0
  OBVIOUS
<1> HIDE DEF t, f, W, k
<1>10. Graph(t, e, W) /\ Extends(v, e, t, e) /\ ~hasTerminator(t)
  BY <1>2, <1>8, GraphFrames DEF Sane
<1>11. Cur(v) = C
  BY <1>2, <1>4 DEF Cur
<1>12. /\ Sane(t, e, W) /\ Cur(t) = Cur(v) \cup {t.insert}
       /\ Len(t.frames) = Len(v.frames) + 1
       /\ \A i \in 1..Len(v.frames) : t.frames[i] = v.frames[i]
       /\ t.frames[Len(v.frames) + 1] = f
  <2>1. f.entry = t.insert /\ f.merge \in 2..Len(t.blocks) /\ e[f.merge] \subseteq Cur(v) \cup {t.insert}
    BY <1>7, <1>8, <1>9, <1>11
  <2>2. Cur(v) \subseteq e[t.insert] \cup {t.insert}
    BY <1>3, <1>8
  <2>3. Sane(v, e, W) /\ Graph(t, e, W) /\ Extends(v, e, t, e) /\ f.landingPad = 0
        /\ t.frames = Append(v.frames, f) /\ f \in Subframe
    BY <1>2, <1>8, <1>9, <1>10
  <2> QED BY <2>1, <2>2, <2>3, SanePush, SMTT(30)
<1>13. Len(v.frames) = m - 1 /\ \A i \in 1..(m - 1) : v.frames[i] = s.frames[i]
  <2>1. s.frames \in Seq(Subframe) /\ Len(s.frames) > 0 /\ v.frames = Front(s.frames)
    BY <1>1, <1>2, <1>4
  <2>2. Len(Front(s.frames)) = m - 1 /\ \A i \in 1..(m - 1) : Front(s.frames)[i] = s.frames[i]
    BY <2>1, FrontFacts
  <2> HIDE DEF m
  <2> QED BY <2>1, <2>2, Zenon
<1>14. Len(t.frames) = m /\ SameEntries(s, t, m - 1) /\ t.frames[m] = f
  <2>1. m \in Nat
    BY <1>1
  <2> HIDE DEF m
  <2>2. (m - 1) + 1 = m
    BY <2>1
  <2>3. Len(v.frames) + 1 = m
    BY <1>13, <2>2
  <2>4. Len(t.frames) = m /\ t.frames[m] = f
    BY <1>12, <2>3
  <2>5. \A i \in 1..(m - 1) : t.frames[i] = s.frames[i]
    BY <1>12, <1>13
  <2> QED BY <2>4, <2>5 DEF SameEntries
<1>15. Extends(s, dom, t, e)
  <2>1. Extends(s, dom, v, e)
    BY <1>1, <1>2, <1>3, <1>4, ExtendsTransitive
  <2> QED BY <2>1, <1>1, <1>3, <1>8, <1>10, ExtendsTransitive
<1>16. Ent(t.frames, m - 1) = C
  <2>1. m - 1 \in Nat /\ \A j \in 1..(m - 1) : t.frames[j].entry = s.frames[j].entry
    BY <1>1, <1>14 DEF SameEntries
  <2> QED BY <2>1, <1>4, EntSame
<1>17. Slot(t, e, n, m, F)
  <2>1. ~Handled(n) /\ n.stmt # "block" /\ n.stmt # "handlers" /\ n.stmt # "handler" /\ n.stmt \notin Loops
        /\ n.stmt # "for"
    BY DEF Handled, Loops
  <2>2. /\ n.merge \in 3..Len(t.blocks) /\ n.next \in 3..Len(t.blocks)
        /\ t.frames[m].entry \in 1..Len(t.blocks)
        /\ t.blocks[t.frames[m].entry].phi = "none"
    BY <1>3, <1>7, <1>8, <1>9, <1>14
  <2>3. n.stmt \notin Loops \cup {"handlers"}
    BY <2>1
  <2> QED BY <2>1, <2>2, <2>3, <1>7, <1>16 DEF Slot
<1>18. \A b \in F : b \in fill[Len(nst)] \/ b \notin 1..Len(s.blocks)
  BY <1>5 DEF k
<1>19. ~Closed(n) /\ n.stmt # "handlers" /\ n.stmt # "handler"
  BY DEF Closed
<1>20. k.stmt # "handler"
  BY <1>5
<1> DEFINE p == Append(Front(nst), n)
           q2 == Append(Front(lev), m)
           g == Append(Front(fill), F)
<1>21. Verif(t, e, p, q2, g)
  <2>1. Sane(t, e, (Waiting(fill) \ fill[Len(nst)]) \cup F)
    BY <1>12 DEF W
  <2>2. nst[Len(nst)].stmt # "handler" /\ Len(t.frames) = Len(s.frames) /\ SameEntries(s, t, Len(s.frames) - 1)
    BY <1>14, <1>20 DEF k
  <2>3. (hasTerminator(t) <=> Closed(n)) /\ (n.stmt = "handlers" => n.next = t.insert)
    BY <1>10, <1>19
  <2>4. Slot(t, e, n, Len(s.frames), F)
    BY <1>17
  <2> HIDE DEF m
  <2> QED BY <2>1, <2>2, <2>3, <2>4, <1>15, <1>18, <1>19, VerifReplace DEF m
<1>22. p = [nst EXCEPT ![Len(nst)] = n]
  BY <1>1, ReplaceLast
<1> QED BY <1>21, <1>22 DEF Verified, t

\* The note of an if statement.
LEMMA IfNote ==
  ASSUME NEW merge \in Nat, NEW next \in Nat, NEW more \in {"none", "elsif", "else"}
  PROVE  LET n == IfNest(merge, next, more)
         IN  /\ n \in Nested /\ n.stmt = "if" /\ n.merge = merge /\ n.next = next
             /\ n.last = "empty" /\ n.more = more
BY DEF IfNest, Statement, Nested

\* emitElse.
LEMMA emitElseVerified ==
  ASSUME Verified(ir, nest), emitElse
  PROVE  Verified(ir', nest')
<1>1. PICK dom, lev, fill : Verif(ir, dom, nest, lev, fill)
  BY DEF Verified
<1> DEFINE W == Waiting(fill)
           k == nest[Len(nest)]
           a == k.merge
           b == k.next
           C == Ent(ir.frames, Len(ir.frames) - 1)
           q == SetInsertPoint(popFrame(BrIfNeeded(ir, a)), b)
           n == IfNest(a, a, "none")
           F == {a}
<1>2. Inner = k
  BY DEF Inner, Last
<1>3. k.stmt = "if" /\ k.more # "none" /\ Continue(Branch(popFrame(BrIfNeeded(ir, a)), b, a), n)
  BY <1>2 DEF emitElse, Complete, Branched
<1>4. Outside(ir, dom, q, b, W) /\ IfSlot(ir, dom, k, C, fill[Len(nest)])
  <2>1. nest[Len(nest)].stmt = "if" /\ nest[Len(nest)].more # "none"
    BY <1>3
  <2> QED BY <1>1, <2>1, BranchLeft
<1>5. q.insert = b /\ Branch(popFrame(BrIfNeeded(ir, a)), b, a) = PushSubframe(q, "Block", b, a)
  BY <1>4 DEF Branch, Outside
<1> HIDE DEF q, C
<1>6. /\ a \in 3..Len(ir.blocks) /\ a \in Nat /\ dom[a] = C /\ b # a /\ fill[Len(nest)] = {a, b}
      /\ fill[Len(nest)] \subseteq W /\ Len(ir.blocks) \in Nat
  BY <1>1, <1>4, TopSlot DEF IfSlot
<1>7. /\ n \in Nested /\ n.stmt = "if" /\ n.merge = a /\ n.next = a /\ n.last = "empty" /\ n.more = "none"
  BY <1>6, IfNote
<1> HIDE DEF n
<1>8. ir' = PushSubframe(q, "Block", q.insert, n.merge) /\ nest' = [nest EXCEPT ![Len(nest)] = n]
  BY <1>3, <1>5, <1>7 DEF Continue
<1>9. W \ {b} = (W \ fill[Len(nest)]) \cup F
  BY <1>6
<1>10. /\ Sane(q, dom, W \ {b}) /\ ~hasTerminator(q) /\ q.blocks[q.insert].phi = "none" /\ Cur(q) = C
       /\ Len(q.blocks) = Len(ir.blocks)
  BY <1>4 DEF Outside, C
<1>11. Leads(q, dom, q, dom, (W \ fill[Len(nest)]) \cup F)
  <2>1. Sane(q, dom, (W \ fill[Len(nest)]) \cup F)
    BY <1>9, <1>10, Zenon
  <2> QED BY <2>1, <1>10, SaneFacts, ExtendsRefl DEF Leads
<1>12. n.next \in 3..Len(q.blocks) /\ dom[n.next] = C /\ n.next = n.merge /\ F = {n.merge, n.next} /\ F \in SUBSET Nat
  BY <1>6, <1>7, <1>10
<1> HIDE DEF F
<1>13. /\ IfSlot(ir, dom, nest[Len(nest)], C, fill[Len(nest)])
       /\ Outside(ir, dom, q, nest[Len(nest)].next, Waiting(fill))
       /\ Leads(q, dom, q, dom, (Waiting(fill) \ fill[Len(nest)]) \cup F)
       /\ n.merge = nest[Len(nest)].merge /\ (n.more = "none" <=> n.next = n.merge)
  BY <1>4, <1>7, <1>11, <1>12
<1> HIDE DEF W, k, a, b
<1>14. Verified(PushSubframe(q, "Block", q.insert, n.merge), [nest EXCEPT ![Len(nest)] = n])
  BY <1>1, <1>7, <1>10, <1>12, <1>13, BranchVerified
<1> QED BY <1>8, <1>14

\* The condition of an elsif and the block of the branch behind it, from state q.
ElsifMade(q, dom, v, e, more, merge, else, C, W) ==
  /\ Leads(q, dom, v, e, W \cup {else}) /\ ~hasTerminator(v) /\ v.blocks[v.insert].phi = "none"
  /\ else \in 3..Len(v.blocks) /\ e[else] = C
  /\ IF more = "none" THEN else = merge ELSE else \notin 1..Len(q.blocks)

\* Where its condition leads to: the block that follows the branch, the branch.
ElsifNext(q, more, merge) == IF more = "none" THEN merge ELSE Newest(FollowUp(q, more))
ElsifBody(q, more) == Newest(makeBasicBlock(FollowUp(q, more), "body"))
ElsifEnter(q, more, merge) ==
  SetInsertPoint(Terminator(Condition(makeBasicBlock(FollowUp(q, more), "body")),
                            {ElsifBody(q, more), ElsifNext(q, more, merge)}, {}),
                 ElsifBody(q, more))

\* The blocks of an elsif are made and its condition is emitted.
LEMMA ElsifCondition ==
  ASSUME NEW q, NEW dom, NEW W, Sane(q, dom, W), ~hasTerminator(q), Len(q.blocks) > 2,
         NEW merge \in W, merge \in 3..Len(q.blocks), dom[merge] = Cur(q), NEW more \in {"none", "elsif", "else"}
  PROVE  LET v == ElsifEnter(q, more, merge)
         IN  /\ v.insert = ElsifBody(q, more)
             /\ \E e : ElsifMade(q, dom, v, e, more, merge, ElsifNext(q, more, merge), Cur(q), W)
<1> DEFINE C == Cur(q)
           n == Len(q.blocks)
           s == FollowUp(q, more)
           else == IF more = "none" THEN merge ELSE Newest(s)
           t == makeBasicBlock(s, "body")
           body == Newest(t)
           c == Condition(t)
           v == SetInsertPoint(Terminator(c, {body, else}, {}), body)
           U == W \cup {else}
<1>1. n \in Nat /\ C \in SUBSET Nat /\ Sound(q) /\ W \subseteq 1..n /\ "body" \in Names
  BY SaneFacts, NameFacts
<1>2. PICK d : /\ Leads(q, dom, s, d, U) /\ ~hasTerminator(s) /\ d[else] = C
               /\ n =< Len(s.blocks) /\ Len(s.blocks) \in Nat /\ else \in 3..Len(s.blocks) /\ U \subseteq 1..Len(s.blocks)
               /\ IF more = "none" THEN else = merge ELSE else \notin 1..n
  <2>1. CASE more = "none"
    <3>1. s = q /\ else = merge /\ U = W
      BY <2>1 DEF FollowUp
    <3>2. Leads(q, dom, q, dom, W)
      BY <1>1, ExtendsRefl DEF Leads
    <3>3. Leads(q, dom, s, dom, U)
      BY <3>1, <3>2, Zenon
    <3> QED BY <2>1, <3>1, <3>3, <1>1
  <2>2. CASE more # "none"
    <3>1. PICK d : Leads(q, dom, s, d, W \cup {n + 1}) /\ Made(q, s, d, n + 1, C)
      BY <2>2, <1>1, SaneFollowUp
    <3> HIDE DEF s
    <3>2. else = n + 1 /\ Len(s.blocks) = n + 1 /\ d[n + 1] = C /\ ~hasTerminator(s)
      BY <2>2, <3>1 DEF Made
    <3>3. U = W \cup {n + 1}
      BY <3>2
    <3>4. Leads(q, dom, s, d, U)
      BY <3>1, <3>3, Zenon
    <3>5. n > 2 /\ n + 1 \in Nat /\ n + 1 \in 3..(n + 1) /\ n + 1 \notin 1..n /\ n =< n + 1
      BY <1>1
    <3>6. W \cup {n + 1} \subseteq 1..(n + 1)
      <4>1. n \in Nat /\ W \subseteq 1..n
        BY <1>1
      <4> HIDE DEF n, else, U
      <4>2. 1..n \subseteq 1..(n + 1) /\ n + 1 \in 1..(n + 1)
        BY <4>1
      <4> QED BY <4>1, <4>2, Zenon
    <3> HIDE DEF else, U
    <3>7. else \in 3..Len(s.blocks) /\ else \notin 1..n /\ n =< Len(s.blocks) /\ Len(s.blocks) \in Nat
      BY <3>2, <3>5
    <3>8. U \subseteq 1..Len(s.blocks)
      <4>1. Len(s.blocks) = n + 1
        BY <3>2
      <4> QED BY <4>1, <3>3, <3>6, Zenon
    <3> QED BY <2>2, <3>2, <3>4, <3>7, <3>8, <1>1
  <2> QED BY <2>1, <2>2
<1> HIDE DEF s, U, else, C, n
<1> DEFINE m == Len(s.blocks)
<1>3. Sane(s, d, U) /\ Cur(s) = C
  BY <1>2 DEF Leads, Cur, C
<1>4. Leads(s, d, t, Append(d, C), U \cup {m + 1}) /\ Made(s, t, Append(d, C), m + 1, C)
  BY <1>1, <1>3, SaneMake
<1> DEFINE f == Append(d, C)
<1> HIDE DEF t, f
<1>5. /\ body = m + 1 /\ Len(t.blocks) = m + 1 /\ f[m + 1] = C /\ ~hasTerminator(t)
      /\ Sane(t, f, U \cup {m + 1}) /\ f[else] = C
  <2>1. else \in 1..Len(s.blocks)
    BY <1>2
  <2> QED BY <2>1, <1>2, <1>4 DEF Made, Leads, Extends, f
<1> HIDE DEF m
<1>6. PICK e : Leads(t, f, c, e, U \cup {m + 1})
  BY <1>5, SaneCall DEF Condition
<1>7. ~hasTerminator(c)
  BY <1>5, SaneCall DEF Condition
<1> HIDE DEF c
<1>8. /\ Sane(c, e, U \cup {m + 1}) /\ Len(t.blocks) =< Len(c.blocks) /\ e[body] = C /\ e[else] = C
      /\ Cur(c) = C
  <2>1. body \in 1..Len(t.blocks) /\ else \in 1..Len(t.blocks)
    BY <1>2, <1>5 DEF m
  <2>2. Cur(c) = Cur(t) /\ Cur(t) = Cur(s)
    BY <1>4, <1>6 DEF Leads, Cur
  <2> QED BY <2>1, <2>2, <1>3, <1>5, <1>6 DEF Leads, Extends
<1>9. Len(c.blocks) \in Nat /\ C \subseteq e[c.insert] \cup {c.insert}
  BY <1>8, SaneFacts
<1>10. body \in Nat /\ body \in 2..Len(c.blocks) /\ else \in Nat /\ else \in 3..Len(c.blocks) /\ else \in 2..Len(c.blocks)
  BY <1>2, <1>5, <1>8, <1>9 DEF m
<1> HIDE DEF body
<1>11. Targets(c, e, {body, else}) /\ {body, else} \in SUBSET Nat
  BY <1>8, <1>9, <1>10 DEF Targets
<1> DEFINE V == U \cup {m + 1}
<1>12. body \in V /\ Cur(c) \subseteq e[body] \cup {body} /\ Sane(c, e, V)
  BY <1>5, <1>8
<1>13. V \ {body} = U
  <2>1. m + 1 \notin U
    BY <1>2 DEF m
  <2> QED BY <2>1, <1>5
<1> HIDE DEF V
<1>14. Leads(c, e, v, e, V \ {body}) /\ Jumped(c, v, body)
  BY <1>7, <1>11, <1>12, SaneJump
<1> HIDE DEF v
<1>15. Leads(c, e, v, e, U)
  BY <1>13, <1>14, Zenon
<1>16. Leads(q, dom, v, e, U)
  <2>1. Leads(q, dom, t, f, U \cup {m + 1})
    BY <1>2, <1>4, LeadsTransitive DEF f, m
  <2>2. Leads(q, dom, c, e, U \cup {m + 1})
    BY <2>1, <1>6, LeadsTransitive
  <2> QED BY <2>2, <1>15, LeadsTransitive
<1>17. ElsifMade(q, dom, v, e, more, merge, else, C, W)
  BY <1>2, <1>8, <1>10, <1>14, <1>16 DEF ElsifMade, Jumped, U, n
<1>18. else = ElsifNext(q, more, merge) /\ body = ElsifBody(q, more)
  BY DEF else, body, t, s, ElsifNext, ElsifBody
<1>19. v = ElsifEnter(q, more, merge)
  BY <1>18 DEF v, c, t, s, ElsifEnter
<1> QED BY <1>14, <1>17, <1>18, <1>19 DEF C, Jumped

\* emitElsif.
LEMMA emitElsifVerified ==
  ASSUME Verified(ir, nest), NEW more \in {"none", "elsif", "else"}, emitElsif(more)
  PROVE  Verified(ir', nest')
<1>1. PICK dom, lev, fill : Verif(ir, dom, nest, lev, fill)
  BY DEF Verified
<1> DEFINE W == Waiting(fill)
           k == nest[Len(nest)]
           a == k.merge
           b == k.next
           C == Ent(ir.frames, Len(ir.frames) - 1)
           q == SetInsertPoint(popFrame(BrIfNeeded(ir, a)), b)
           else == ElsifNext(q, more, a)
           body == ElsifBody(q, more)
           v == ElsifEnter(q, more, a)
           n == IfNest(a, else, more)
           F == {a, else}
<1>2. Inner = k
  BY DEF Inner, Last
<1>3. /\ k.stmt = "if" /\ k.more # "none" /\ ir' = PushSubframe(v, "Block", body, a)
      /\ nest' = [nest EXCEPT ![Len(nest)] = n]
  BY <1>2 DEF emitElsif, Complete, Branched, Branch, ElsifNext, ElsifBody, ElsifEnter
<1>4. Outside(ir, dom, q, b, W) /\ IfSlot(ir, dom, k, C, fill[Len(nest)])
  <2>1. nest[Len(nest)].stmt = "if" /\ nest[Len(nest)].more # "none"
    BY <1>3
  <2> QED BY <1>1, <2>1, BranchLeft
<1> HIDE DEF q
<1>5. /\ a \in 3..Len(ir.blocks) /\ a \in Nat /\ dom[a] = C /\ b # a /\ fill[Len(nest)] = {a, b}
      /\ fill[Len(nest)] \subseteq W /\ Len(ir.blocks) \in Nat
  BY <1>1, <1>4, TopSlot DEF IfSlot
<1>6. /\ Sane(q, dom, W \ {b}) /\ ~hasTerminator(q) /\ Cur(q) = C
      /\ Len(q.blocks) = Len(ir.blocks)
  BY <1>4 DEF Outside, C
<1>7. Len(q.blocks) > 2 /\ a \in W \ {b} /\ a \in 3..Len(q.blocks) /\ dom[a] = Cur(q)
  BY <1>5, <1>6
<1> HIDE DEF a, C
<1>8. v.insert = body /\ \E e : ElsifMade(q, dom, v, e, more, a, else, Cur(q), W \ {b})
  BY <1>6, <1>7, ElsifCondition
<1>9. PICK e : ElsifMade(q, dom, v, e, more, a, else, C, W \ {b})
  BY <1>6, <1>8
<1> HIDE DEF v, body, else, W, b
<1>10. else \in Nat /\ F \in SUBSET Nat
  BY <1>5, <1>9 DEF ElsifMade
<1>11. /\ n \in Nested /\ n.stmt = "if" /\ n.merge = a /\ n.next = else /\ n.last = "empty" /\ n.more = more
  BY <1>5, <1>10, IfNote
<1> HIDE DEF n
<1>12. (W \ {b}) \cup {else} = (W \ fill[Len(nest)]) \cup F
  BY <1>5
<1>13. Leads(q, dom, v, e, (W \ fill[Len(nest)]) \cup F)
  <2>1. Leads(q, dom, v, e, (W \ {b}) \cup {else})
    BY <1>9 DEF ElsifMade
  <2> QED BY <2>1, <1>12, Zenon
<1>14. /\ ~hasTerminator(v) /\ v.blocks[v.insert].phi = "none"
       /\ n.next \in 3..Len(v.blocks) /\ e[n.next] = C
       /\ n.next = n.merge \/ n.next \notin 1..Len(ir.blocks)
       /\ n.more = "none" <=> n.next = n.merge
  BY <1>5, <1>6, <1>9, <1>11 DEF ElsifMade
<1>15. F = {n.merge, n.next}
  BY <1>11
<1> HIDE DEF F
<1>16. /\ IfSlot(ir, dom, nest[Len(nest)], C, fill[Len(nest)])
       /\ Outside(ir, dom, q, nest[Len(nest)].next, Waiting(fill))
       /\ Leads(q, dom, v, e, (Waiting(fill) \ fill[Len(nest)]) \cup F)
       /\ n.merge = nest[Len(nest)].merge
  BY <1>4, <1>11, <1>13 DEF W, b, a
<1> HIDE DEF k
<1>17. Verified(PushSubframe(v, "Block", v.insert, n.merge), [nest EXCEPT ![Len(nest)] = n])
  BY <1>1, <1>6, <1>10, <1>11, <1>14, <1>15, <1>16, BranchVerified
<1> QED BY <1>3, <1>8, <1>11, <1>17

-----------------------------------------------------------------------------
(* Handlers *)

\* In t the innermost subframe of s has no landing pad any more.
Unpadded(s, t) ==
  /\ t.blocks = s.blocks /\ t.insert = s.insert /\ Len(t.frames) = Len(s.frames)
  /\ SameEntries(s, t, Len(s.frames)) /\ Cur(t) = Cur(s)
  /\ hasTerminator(t) <=> hasTerminator(s)

\* A landing pad is removed.
LEMMA SaneUnpad ==
  ASSUME NEW s, NEW dom, NEW W, Sane(s, dom, W)
  PROVE  LET t == PadTop(s, 0)
         IN  Sane(t, dom, W) /\ Extends(s, dom, t, dom) /\ Unpadded(s, t)
<1> DEFINE fs == Front(s.frames)
           m == Len(s.frames)
           f == s.frames[m]
           g == Padded(f, 0)
           t == PadTop(s, 0)
<1>1. /\ Sound(s) /\ s.frames \in Seq(Subframe) /\ m \in Nat /\ m > 0
      /\ Cur(s) \subseteq dom[s.insert] \cup {s.insert} /\ 0 \in Nat
  BY SaneFacts
<1>2. /\ fs \in Seq(Subframe) /\ Len(fs) = m - 1 /\ \A i \in 1..(m - 1) : fs[i] = s.frames[i]
  BY <1>1, FrontFacts
<1>3. f \in Subframe
  BY <1>1
<1>4. s.frames = Append(fs, f)
  <2>1. Append(fs, f) = [s.frames EXCEPT ![m] = f]
    BY <1>1, <1>3, ReplaceLast
  <2> QED BY <2>1, <1>1
<1>5. g \in Subframe /\ g.entry = f.entry /\ g.merge = f.merge /\ g.landingPad = 0
  BY <1>3 DEF Padded, Subframe
<1> HIDE DEF fs, f
<1>6. t.blocks = s.blocks /\ t.insert = s.insert /\ Sound(t) /\ t.frames = Append(fs, g)
  BY <1>1, <1>2, <1>3, <1>4, PadOnTop
<1> HIDE DEF g, t
<1>7. Len(t.frames) = m /\ t.frames[m] = g /\ \A i \in 1..(m - 1) : t.frames[i] = s.frames[i]
  BY <1>1, <1>2, <1>5, <1>6
<1>8. /\ \A i \in 1..m : /\ t.frames[i].entry = s.frames[i].entry /\ t.frames[i].merge = s.frames[i].merge
                         /\ t.frames[i].landingPad = 0 \/ t.frames[i].landingPad = s.frames[i].landingPad
  <2>1. \A i \in 1..m : i = m \/ i \in 1..(m - 1)
    BY <1>1
  <2> QED BY <2>1, <1>5, <1>7 DEF f
<1>9. \A i \in 1..m : Ent(t.frames, i) = Ent(s.frames, i)
  <2>1. ASSUME NEW i \in 1..m PROVE Ent(t.frames, i) = Ent(s.frames, i)
    <3>1. i \in Nat /\ \A j \in 1..i : t.frames[j].entry = s.frames[j].entry
      BY <1>1, <1>8
    <3> QED BY <3>1, EntSame
  <2> QED BY <2>1
<1>10. Cur(t) = Cur(s)
  BY <1>1, <1>7, <1>9 DEF Cur
<1>11. Graph(t, dom, W) /\ Extends(s, dom, t, dom) /\ (hasTerminator(t) <=> hasTerminator(s))
  BY <1>6, GraphFrames DEF Sane
<1>12. FrameBounds(t, dom)
  <2>1. FrameBounds(s, dom)
    BY DEF Sane
  <2> QED BY <2>1, <1>6, <1>7, <1>8, <1>9 DEF FrameBounds
<1>13. Here(t, dom)
  BY <1>1, <1>6, <1>10 DEF Here
<1>14. Unpadded(s, t)
  BY <1>6, <1>7, <1>8, <1>10, <1>11 DEF Unpadded, SameEntries
<1> QED BY <1>11, <1>12, <1>13, <1>14 DEF Sane, t

\* emitHandlers.
LEMMA emitHandlersVerified ==
  ASSUME Good(ir, nest), Verified(ir, nest), emitHandlers
  PROVE  Verified(ir', nest')
<1>1. PICK dom, lev, fill : Verif(ir, dom, nest, lev, fill)
  BY DEF Verified
<1> DEFINE W == Waiting(fill)
           k == nest[Len(nest)]
           a == k.merge
           b == k.pad
           C == Cur(ir)
           n == Len(ir.blocks) + 1
           g == BrIfNeeded(ir, a)
           r == PadTop(g, 0)
           s == makeBasicBlock(r, "lpad")
           x == SetInsertPoint(s, b)
           t == Br(x, n)
           u == SetInsertPoint(t, n)
           w == Statement("handlers", a, n, NoName)
           h == [w EXCEPT !.more = "handler"]
           e == Append(dom, C)
           F == {a}
<1>2. Inner = k /\ k.stmt = "block" /\ k.pad # 0
  BY DEF Inner, Last, emitHandlers, Complete
<1>3. /\ Slot(ir, dom, k, Len(ir.frames), fill[Len(nest)]) /\ Sane(ir, dom, W)
      /\ fill[Len(nest)] \subseteq W /\ Len(ir.frames) > 1 /\ Len(ir.frames) \in Nat
      /\ a \in 2..Len(ir.blocks) /\ dom[a] \subseteq Cur(ir) /\ Len(ir.blocks) \in Nat
      /\ Cur(ir) = Ent(ir.frames, Len(ir.frames)) /\ nest \in Seq(Nested) /\ Len(nest) > 0 /\ Len(nest) \in Nat
      /\ Sound(ir)
  BY <1>1, TopSlot
<1>4. /\ a \in 3..Len(ir.blocks) /\ b \in 3..Len(ir.blocks) /\ a # b /\ fill[Len(nest)] = {a, b}
      /\ dom[a] = C /\ dom[b] = C
      /\ ir.frames[Len(ir.frames)].entry \in 1..Len(ir.blocks)
      /\ ir.blocks[ir.frames[Len(ir.frames)].entry].phi = "none"
  BY <1>2, <1>3 DEF Slot, Handled
<1>5. C \in SUBSET Nat /\ W \subseteq 1..Len(ir.blocks) /\ n \in Nat /\ "lpad" \in Names
  BY <1>3, SaneFacts, NameFacts
<1>6. Leads(ir, dom, g, dom, W) /\ Ended(ir, g)
  BY <1>3, SaneBr
<1>7. getLandingPad(ir) = b /\ removeLandingPad(g) = r
  <2>1. getLandingPad(ir) = b
    BY <1>2, TopPad DEF Good
  <2>2. Grows(ir, g)
    BY <1>3, BrGrows, InnerFacts, <1>2
  <2>3. Consistent(g, nest)
    BY <2>2, ConsistentGrows DEF Good
  <2>4. WithPad(g) # {} /\ Innermost(WithPad(g)) = Len(g.frames)
    BY <2>3, <1>2, <1>3, TopPad
  <2> QED BY <2>1, <2>4 DEF removeLandingPad, PadTop
<1> HIDE DEF W, k, a, b, C, g
<1>8. Sane(g, dom, W) /\ hasTerminator(g) /\ Len(g.blocks) = Len(ir.blocks) /\ g.frames = ir.frames
      /\ Extends(ir, dom, g, dom)
  BY <1>6 DEF Leads, Ended
<1>9. Sane(r, dom, W) /\ Extends(g, dom, r, dom) /\ Unpadded(g, r)
  BY <1>8, SaneUnpad
<1> HIDE DEF r
<1>10. /\ hasTerminator(r) /\ Len(r.blocks) = Len(ir.blocks) /\ Cur(r) = C /\ Len(r.frames) = Len(ir.frames)
       /\ SameEntries(ir, r, Len(ir.frames))
  BY <1>8, <1>9 DEF Unpadded, SameEntries, C, Cur
<1>11. Leads(r, dom, s, e, W \cup {n}) /\ Made(r, s, e, n, C)
  BY <1>5, <1>9, <1>10, SaneMake
<1> HIDE DEF s, e
<1>12. /\ Sane(s, e, W \cup {n}) /\ Len(s.blocks) = n /\ Newest(s) = n /\ e[n] = C /\ hasTerminator(s)
       /\ s.frames = r.frames /\ Cur(s) = C
  BY <1>10, <1>11 DEF Leads, Made, Cur
<1>13. e[a] = C /\ e[b] = C /\ b \in 1..Len(s.blocks) /\ b \in W /\ a \in W /\ b # n /\ a # n
  <2>1. a \in 1..Len(r.blocks) /\ b \in 1..Len(r.blocks)
    BY <1>3, <1>4, <1>10
  <2> QED BY <2>1, <1>3, <1>4, <1>5, <1>10, <1>11, <1>12 DEF Leads, Extends
<1>14. Leads(s, e, x, e, (W \cup {n}) \ {b}) /\ Moved(s, x, b, W \cup {n})
  BY <1>12, <1>13, SaneMove
<1> HIDE DEF x
<1>15. /\ Sane(x, e, (W \cup {n}) \ {b}) /\ ~hasTerminator(x) /\ Len(x.blocks) = n /\ Cur(x) = C
       /\ Sound(x) /\ C \subseteq e[x.insert] \cup {x.insert}
  <2>1. /\ Sane(x, e, (W \cup {n}) \ {b}) /\ ~hasTerminator(x) /\ Len(x.blocks) = n /\ Cur(x) = C
    BY <1>12, <1>13, <1>14 DEF Leads, Moved, Cur
  <2> QED BY <2>1, SaneFacts
<1>16. Instruction(x) = x
  BY <1>15, InstructionIsPlain
<1>17. Targets(x, e, {n}) /\ {n} \in SUBSET Nat /\ n \in (W \cup {n}) \ {b} /\ Cur(x) \subseteq e[n] \cup {n}
  <2>1. n \in 2..Len(x.blocks)
    BY <1>3, <1>4, <1>5, <1>15
  <2> HIDE DEF n
  <2>2. Targets(x, e, {n})
    BY <2>1, <1>12, <1>15 DEF Targets
  <2> QED BY <2>2, <1>5, <1>12, <1>13, <1>15
<1>18. u = SetInsertPoint(Terminator(x, {n}, {}), n)
  BY DEF Br
<1> DEFINE U == (W \cup {n}) \ {b}
<1>19. Sane(x, e, U) /\ n \in U
  BY <1>15, <1>17
<1>20. U \ {n} = (W \ fill[Len(nest)]) \cup F
  <2>1. n \notin W
    BY <1>3, <1>5
  <2> QED BY <2>1, <1>4, <1>13
<1> HIDE DEF U
<1>21. Leads(x, e, u, e, U \ {n}) /\ Jumped(x, u, n)
  <2> HIDE DEF u, n
  <2> QED BY <1>15, <1>17, <1>18, <1>19, SaneJump
<1>22. Newest(t) = n
  <2>1. Targets(x, e, {n} \cup {}) /\ {} \in SUBSET Nat
    BY <1>17
  <2>2. t = Terminator(x, {n}, {})
    BY DEF Br
  <2> HIDE DEF t, n
  <2>3. Ended(x, t)
    BY <2>1, <2>2, <1>15, <1>17, <1>19, SaneTerm
  <2> QED BY <2>3, <1>15 DEF Ended, Newest
<1>23. ir' = u /\ nest' = [nest EXCEPT ![Len(nest)] = h]
  BY <1>2, <1>7, <1>12, <1>16, <1>22 DEF emitHandlers, Continue, g, r, s, x, b, a
<1> HIDE DEF u, t, U
<1>24. /\ h \in Nested /\ h.stmt = "handlers" /\ h.merge = a /\ h.next = n /\ h.more = "handler"
  <2>1. a \in Nat
    BY <1>3, <1>4
  <2>2. w \in Nested /\ w.stmt = "handlers" /\ w.merge = a /\ w.next = n
    BY <2>1, <1>5, StatementNote
  <2> HIDE DEF w
  <2> QED BY <2>2 DEF Nested
<1> HIDE DEF h, w
<1>25. /\ Sane(u, e, U \ {n}) /\ ~hasTerminator(u) /\ u.insert = n /\ Len(u.blocks) = n
       /\ u.frames = r.frames /\ Sound(u)
  BY <1>12, <1>14, <1>15, <1>21, SaneFacts DEF Leads, Jumped, Moved
<1>26. Sane(u, e, (W \ fill[Len(nest)]) \cup F)
  BY <1>20, <1>25, Zenon
<1>27. Extends(ir, dom, u, e)
  <2>1. Sound(g) /\ Sound(r) /\ Sound(s)
    BY <1>8, <1>9, <1>12, SaneFacts
  <2>2. Extends(ir, dom, r, dom)
    BY <2>1, <1>3, <1>8, <1>9, ExtendsTransitive
  <2>3. Extends(ir, dom, s, e)
    BY <2>1, <2>2, <1>3, <1>11, ExtendsTransitive DEF Leads
  <2>4. Extends(ir, dom, x, e)
    BY <2>1, <2>3, <1>3, <1>14, <1>15, ExtendsTransitive DEF Leads
  <2> QED BY <2>4, <1>3, <1>15, <1>21, <1>25, ExtendsTransitive DEF Leads
<1>28. /\ Len(u.frames) = Len(ir.frames) /\ SameEntries(ir, u, Len(ir.frames))
  BY <1>10, <1>25 DEF SameEntries
<1>29. SameEntries(ir, u, Len(ir.frames) - 1)
  BY <1>3, <1>28 DEF SameEntries
<1>30. Slot(u, e, h, Len(ir.frames), F)
  <2>1. Ent(u.frames, Len(ir.frames)) = C
    <3>1. Len(ir.frames) \in Nat /\ \A j \in 1..Len(ir.frames) : u.frames[j].entry = ir.frames[j].entry
      BY <1>3, <1>28 DEF SameEntries
    <3> QED BY <3>1, <1>3, EntSame DEF C
  <2>2. Handled(h)
    BY <1>24 DEF Handled
  <2>3. u.frames[Len(ir.frames)].entry = ir.frames[Len(ir.frames)].entry
    BY <1>3, <1>28 DEF SameEntries
  <2>4. /\ u.frames[Len(ir.frames)].entry \in 1..Len(u.blocks)
        /\ u.blocks[u.frames[Len(ir.frames)].entry].phi = "none"
    <3> DEFINE y == ir.frames[Len(ir.frames)].entry
    <3>1. Len(ir.blocks) =< Len(u.blocks) /\ Len(u.blocks) \in Nat
      BY <1>3, <1>25
    <3>2. y \in 1..Len(ir.blocks) /\ ir.blocks[y].phi = "none" /\ u.frames[Len(ir.frames)].entry = y
      BY <2>3, <1>4
    <3> HIDE DEF y
    <3>3. y \in 1..Len(u.blocks) /\ u.blocks[y].phi = "none"
      BY <3>1, <3>2, <1>3, <1>27 DEF Extends
    <3> QED BY <3>2, <3>3
  <2>5. /\ h.merge \in 3..Len(u.blocks) /\ h.next \in 3..Len(u.blocks) /\ e[h.merge] = C /\ e[h.next] = C
    BY <1>3, <1>4, <1>12, <1>13, <1>24, <1>25
  <2> QED BY <2>1, <2>2, <2>4, <2>5, <1>24 DEF Slot
<1>31. \A y \in F : y \in fill[Len(nest)] \/ y \notin 1..Len(ir.blocks)
  BY <1>4
<1>32. /\ ~Closed(h) /\ h.stmt # "handler" /\ h.next = u.insert
  BY <1>24, <1>25 DEF Closed
<1>33. F \in SUBSET Nat
  BY <1>3, <1>4
<1> HIDE DEF F, n
<1> DEFINE p == Append(Front(nest), h)
           q2 == Append(Front(lev), Len(ir.frames))
           g2 == Append(Front(fill), F)
<1>34. Verif(u, e, p, q2, g2)
  <2>1. nest[Len(nest)].stmt # "handler"
    BY <1>2 DEF k
  <2>2. (hasTerminator(u) <=> Closed(h)) /\ (h.stmt = "handlers" => h.next = u.insert)
    BY <1>25, <1>32
  <2>3. Sane(u, e, (Waiting(fill) \ fill[Len(nest)]) \cup F)
    BY <1>26 DEF W
  <2> QED BY <2>1, <2>2, <2>3, <1>1, <1>24, <1>27, <1>28, <1>29, <1>30, <1>31, <1>32, <1>33, VerifReplace
<1>35. p = [nest EXCEPT ![Len(nest)] = h]
  BY <1>3, <1>24, ReplaceLast
<1> QED BY <1>23, <1>34, <1>35 DEF Verified

\* The comparison with a choice has led to a block of its own, made since s and
\* still empty.
Compared(s, dom, t, e, W) ==
  /\ Leads(s, dom, t, e, W) /\ ~hasTerminator(t) /\ t.insert \notin 1..Len(s.blocks)
  /\ e[t.insert] = Cur(s) /\ Blank(t, t.insert)

\* CompareChoice.
LEMMA ChoiceSane ==
  ASSUME NEW s, NEW dom, NEW W, Sane(s, dom, W), ~hasTerminator(s), NEW body \in W, body > 1,
         dom[body] = Cur(s)
  PROVE  \E e : Compared(s, dom, CompareChoice(s, body), e, W)
<1> DEFINE n == Len(s.blocks) + 1
           C == Cur(s)
           r == makeBasicBlock(s, "lpad")
           e == Append(dom, C)
           v == Terminator(r, {body, n}, {})
           t == SetInsertPoint(v, n)
<1>1. /\ Sound(s) /\ Len(s.blocks) \in Nat /\ Len(s.blocks) > 1 /\ C \in SUBSET Nat /\ "lpad" \in Names
      /\ W \subseteq 1..Len(s.blocks) /\ n \in Nat
  BY SaneFacts, NameFacts
<1>2. Instruction(s) = s
  BY <1>1, InstructionIsPlain
<1>3. Leads(s, dom, r, e, W \cup {n}) /\ Made(s, r, e, n, C)
  BY <1>1, SaneMake
<1> HIDE DEF r, e, C
<1>4. /\ Sane(r, e, W \cup {n}) /\ Len(r.blocks) = n /\ Newest(r) = n /\ e[n] = C /\ Cur(r) = C
      /\ ~hasTerminator(r) /\ C \subseteq e[r.insert] \cup {r.insert}
  <2>1. /\ Sane(r, e, W \cup {n}) /\ Len(r.blocks) = n /\ Newest(r) = n /\ e[n] = C /\ Cur(r) = C
        /\ ~hasTerminator(r)
    BY <1>3 DEF Leads, Made, Cur, C
  <2> QED BY <2>1, SaneFacts
<1>5. e[body] = C /\ body \in 1..Len(s.blocks) /\ body \in Nat /\ body # n
  BY <1>1, <1>3 DEF Leads, Extends, C
<1>6. body \in 2..Len(r.blocks) /\ n \in 2..Len(r.blocks) /\ n \in 1..Len(r.blocks) /\ n \notin W
      /\ n \notin 1..Len(s.blocks)
  BY <1>1, <1>4, <1>5
<1> HIDE DEF n
<1>7. /\ {body, n} \in SUBSET Nat /\ {} \in SUBSET Nat /\ Targets(r, e, {body, n} \cup {})
  BY <1>1, <1>4, <1>5, <1>6 DEF Targets
<1>8. Leads(r, e, v, e, W \cup {n}) /\ Ended(r, v)
  BY <1>4, <1>7, SaneTerm
<1> HIDE DEF v
<1>9. /\ Sane(v, e, W \cup {n}) /\ hasTerminator(v) /\ Len(v.blocks) = Len(r.blocks) /\ Cur(v) = C
      /\ Blank(v, n)
  <2>1. /\ Sane(v, e, W \cup {n}) /\ hasTerminator(v) /\ Len(v.blocks) = Len(r.blocks) /\ Cur(v) = C
    BY <1>4, <1>8 DEF Leads, Ended, Cur
  <2>2. n \in 1..Len(v.blocks)
    BY <2>1, <1>6
  <2> QED BY <2>1, <2>2 DEF Sane, Graph
<1>10. n \in 1..Len(v.blocks) /\ Cur(v) \subseteq e[n] \cup {n}
  BY <1>4, <1>6, <1>9
<1>11. Leads(v, e, t, e, (W \cup {n}) \ {n}) /\ Moved(v, t, n, W \cup {n})
  BY <1>9, <1>10, SaneMove
<1> HIDE DEF t
<1>12. Leads(v, e, t, e, W)
  <2>1. (W \cup {n}) \ {n} = W
    BY <1>6
  <2> QED BY <2>1, <1>11, Zenon
<1>13. Leads(s, dom, t, e, W)
  <2>1. Leads(s, dom, v, e, W \cup {n})
    BY <1>3, <1>8, LeadsTransitive
  <2> QED BY <2>1, <1>12, LeadsTransitive
<1>14. /\ ~hasTerminator(t) /\ t.insert = n /\ Blank(t, n)
  BY <1>9, <1>11 DEF Moved, Blank
<1>15. Compared(s, dom, t, e, W)
  BY <1>4, <1>6, <1>13, <1>14 DEF Compared, C
<1>16. CompareChoice(s, body) = t
  BY <1>2, <1>4 DEF CompareChoice, t, v, r
<1> QED BY <1>15, <1>16

\* Compare, with at least one choice.
LEMMA CompareSane ==
  ASSUME NEW s, NEW dom, NEW W, Sane(s, dom, W), ~hasTerminator(s), NEW body \in W, body > 1,
         dom[body] = Cur(s), NEW choices \in Nat, choices > 0
  PROVE  \E e : Compared(s, dom, Compare(s, body, choices), e, W)
<1>1. PICK compared : /\ Compares(compared, s, body, choices)
                      /\ Compare(s, body, choices) = compared[choices]
  BY CompareUnfolds
<1>2. \A i \in 0..choices : compared[i] = IF i = 0 THEN s ELSE CompareChoice(compared[i - 1], body)
  BY <1>1 DEF Compares
<1>3. Sound(s) /\ Len(s.blocks) \in Nat /\ body \in 1..Len(s.blocks)
  BY SaneFacts
<1> DEFINE P(n) == \E e : Compared(s, dom, compared[n], e, W)
           T == {n \in Nat : n \in 1..choices => P(n)}
<1>4. ASSUME NEW t, NEW e, Leads(s, dom, t, e, W), ~hasTerminator(t)
      PROVE  \E f : Compared(s, dom, CompareChoice(t, body), f, W)
  <2>1. Sane(t, e, W) /\ e[body] = Cur(t) /\ Cur(t) = Cur(s) /\ Len(t.blocks) \in Nat /\ Len(s.blocks) =< Len(t.blocks)
    BY <1>3, <1>4, SaneFacts DEF Leads, Extends, Cur
  <2>2. PICK f : Compared(t, e, CompareChoice(t, body), f, W)
    BY <2>1, <1>4, ChoiceSane
  <2> DEFINE u == CompareChoice(t, body)
  <2> HIDE DEF u
  <2>3. Compared(t, e, u, f, W)
    BY <2>2 DEF u
  <2>4. Leads(s, dom, u, f, W)
    BY <2>3, <1>4, LeadsTransitive DEF Compared
  <2>5. u.insert \notin 1..Len(s.blocks)
    BY <2>1, <2>3, <1>3 DEF Compared
  <2>6. Compared(s, dom, u, f, W)
    BY <2>1, <2>3, <2>4, <2>5 DEF Compared
  <2> QED BY <2>6 DEF u
<1>5. 0 \in T
  OBVIOUS
<1>6. ASSUME NEW n \in Nat, n \in T PROVE n + 1 \in T
  <2> SUFFICES ASSUME n + 1 \in 1..choices PROVE P(n + 1)
    OBVIOUS
  <2>1. n + 1 # 0 /\ (n + 1) - 1 = n /\ n + 1 \in 0..choices /\ n \in 0..choices
    OBVIOUS
  <2>2. compared[n + 1] = CompareChoice(compared[n], body)
    BY <1>2, <2>1
  <2>3. CASE n = 0
    <3>1. compared[n] = s
      BY <2>3, <1>2, <2>1
    <3>2. Leads(s, dom, s, dom, W)
      BY <1>3, ExtendsRefl DEF Leads
    <3> QED BY <3>1, <3>2, <2>2, <1>4
  <2>4. CASE n # 0
    <3>1. P(n)
      BY <2>4, <2>1, <1>6
    <3>2. PICK e : Compared(s, dom, compared[n], e, W)
      BY <3>1
    <3> QED BY <3>2, <2>2, <1>4 DEF Compared
  <2> QED BY <2>3, <2>4
<1> HIDE DEF T
<1>7. choices \in T
  BY <1>5, <1>6, SetInduction
<1>8. P(choices)
  BY <1>7 DEF T
<1> QED BY <1>1, <1>8

\* The note of the handlers changes with every handler.
LEMMA CtxHandlers ==
  ASSUME NEW s, NEW dom, NEW nst, NEW lev, NEW fill, Ctx(s, dom, nst, lev, fill), Len(nst) > 0,
         nst[Len(nst)].stmt = "handlers", NEW k \in Nested, k.stmt = "handlers",
         Slot(s, dom, k, lev[Len(nst)], fill[Len(nst)])
  PROVE  Ctx(s, dom, [nst EXCEPT ![Len(nst)] = k], lev, fill)
<1> DEFINE m == Len(nst)
           p == [nst EXCEPT ![Len(nst)] = k]
<1>1. nst \in Seq(Nested) /\ m \in Nat /\ m \in 1..m
  BY CtxFacts
<1>2. p \in Seq(Nested) /\ Len(p) = m /\ p[m] = k /\ \A i \in 1..m : i # m => p[i] = nst[i]
  BY <1>1, SetLast
<1> HIDE DEF p
<1>3. ASSUME NEW i \in 1..m
      PROVE  Slot(s, dom, p[i], lev[i], fill[i]) /\ Link(p, lev, fill, i)
  <2>1. Slot(s, dom, nst[i], lev[i], fill[i]) /\ Link(nst, lev, fill, i)
    BY DEF Ctx
  <2>2. i > 1 => i - 1 \in 1..m /\ i - 1 # m
    BY <1>1
  <2>3. CASE i = m
    BY <2>1, <2>2, <2>3, <1>2 DEF Link
  <2>4. CASE i # m
    BY <2>1, <2>2, <2>4, <1>2 DEF Link
  <2> QED BY <2>3, <2>4
<1>4. \A i \in 1..(m - 1) : i \in 1..m /\ i # m
  BY <1>1
<1> HIDE DEF m
<1>5. Ctx(s, dom, p, lev, fill)
  BY <1>2, <1>3, <1>4 DEF Ctx, m
<1> QED BY <1>5 DEF p

\* A handler begins in state u: k is the new note of the handlers, h its own.
HandlerNotes(u, e, n, C, k, h, F) ==
  /\ k \in Nested /\ k.stmt = "handlers" /\ k.merge = n.merge /\ k.last = "open"
  /\ h \in Nested /\ h.stmt = "handler" /\ h.merge = n.merge /\ h.last = "empty" /\ h.next = k.next
  /\ k.next \in 3..Len(u.blocks) /\ e[k.next] = C
  /\ k.more = "others" <=> F = {}
  /\ F = {k.next} \/ (F = {} /\ u.blocks[k.next].term)

\* The notes of a handler and of its handlers fit the graph.
LEMMA HandlerVerified ==
  ASSUME NEW s, NEW dom, NEW nst, NEW lev, NEW fill, Verif(s, dom, nst, lev, fill),
         nst[Len(nst)].stmt = "handlers", NEW u, NEW e, NEW F \in SUBSET Nat,
         Leads(s, dom, u, e, Waiting(fill) \cup F), ~hasTerminator(u),
         F \cap Waiting(fill) = {}, NEW k, NEW h, HandlerNotes(u, e, nst[Len(nst)], Cur(s), k, h, F)
  PROVE  Verified(u, Append([nst EXCEPT ![Len(nst)] = k], h))
<1> DEFINE m == Len(nst)
           l == Len(s.frames)
           p == [nst EXCEPT ![Len(nst)] = k]
           pp == Append(p, h)
           ll == Append(lev, l)
           ff == Append(fill, F)
<1>1. /\ m \in Nat /\ m > 0 /\ l \in Nat /\ l > 1 /\ Slot(s, dom, nst[m], l, fill[m])
      /\ nst \in Seq(Nested) /\ Cur(s) = Ent(s.frames, l) /\ Sound(s) /\ lev[m] = l
      /\ Len(s.blocks) \in Nat
  BY TopSlot
<1>2. /\ Ctx(s, dom, nst, lev, fill) /\ Lv(lev, m) = l /\ Len(s.blocks) > 2 /\ dom[3] = {}
  BY DEF Verif
<1>3. /\ Sane(u, e, Waiting(fill) \cup F) /\ Extends(s, dom, u, e) /\ u.frames = s.frames /\ Sound(u)
      /\ Len(u.blocks) \in Nat
  BY SaneFacts DEF Leads
<1>4. Ctx(u, e, nst, lev, fill)
  BY <1>1, <1>2, <1>3, CtxExtends DEF SameEntries
<1>5. Slot(u, e, nst[m], l, fill[m])
  BY <1>1, <1>3, SlotExtends DEF SameEntries
<1>6. Slot(u, e, k, l, fill[m])
  <2>1. Handled(k) /\ Handled(nst[m]) /\ nst[m].stmt = "handlers"
    BY DEF Handled, HandlerNotes
  <2> QED BY <2>1, <1>1, <1>3, <1>5 DEF Slot, HandlerNotes
<1>7. Slot(u, e, h, l, F)
  <2>1. Handled(h) /\ Handled(nst[m])
    BY DEF Handled, HandlerNotes
  <2>2. h.stmt \notin Loops \cup {"handlers"}
    BY DEF HandlerNotes, Loops
  <2> QED BY <2>1, <2>2, <1>1, <1>3, <1>5 DEF Slot, HandlerNotes
<1>8. k \in Nested /\ h \in Nested /\ k.stmt = "handlers"
  BY DEF HandlerNotes
<1>9. p \in Seq(Nested) /\ Len(p) = m /\ p[m] = k
  BY <1>1, <1>8, SetLast
<1>10. Ctx(u, e, p, lev, fill)
  <2>1. Slot(u, e, k, lev[Len(nst)], fill[Len(nst)])
    BY <1>1, <1>6
  <2> HIDE DEF p, m
  <2> QED BY <2>1, <1>1, <1>4, <1>8, CtxHandlers DEF p, m
<1> HIDE DEF p
<1>11. Follows(p, lev, h, l, F)
  BY <1>1, <1>9 DEF Follows, HandlerNotes
<1>12. p[Len(p)].last # "terminator"
  BY <1>9 DEF HandlerNotes
<1>13. Ctx(u, e, pp, ll, ff)
  BY <1>1, <1>7, <1>8, <1>9, <1>10, <1>11, <1>12, CtxAppend
<1>14. Waiting(ff) = Waiting(fill) \cup F
  BY <1>2, CtxFacts, WaitingAppend
<1>15. lev \in Seq(Nat) /\ Len(lev) = m
  BY <1>2, CtxFacts
<1>16. Len(pp) = m + 1 /\ pp[m + 1] = h /\ ll[m + 1] = l /\ m + 1 # 0 /\ m + 1 > 0
  BY <1>1, <1>8, <1>9, <1>15
<1> HIDE DEF pp, ll, ff
<1>17. Lv(ll, Len(pp)) = Len(u.frames)
  BY <1>3, <1>16 DEF Lv
<1>18. e[3] = {} /\ Len(u.blocks) > 2
  <2>1. 3 \in 1..Len(s.blocks)
    BY <1>1, <1>2
  <2> QED BY <2>1, <1>1, <1>2, <1>3 DEF Extends
<1>19. ~Closed(h) /\ h.stmt # "handlers"
  BY DEF Closed, HandlerNotes
<1>20. Sane(u, e, Waiting(ff))
  BY <1>3, <1>14, Zenon
<1>21. Verif(u, e, pp, ll, ff)
  BY <1>13, <1>16, <1>17, <1>18, <1>19, <1>20 DEF Verif
<1> QED BY <1>21 DEF Verified, pp, p

\* The catch-all handler begins: from s, body is made and entered.
CatchAll(s) == SetInsertPoint(Br(makeBasicBlock(s, NoName), Len(s.blocks) + 1), Len(s.blocks) + 1)

\* A handler with choices begins.
Catch(s, choices) ==
  SetInsertPoint(Compare(makeBasicBlock(s, NoName), Len(s.blocks) + 1, choices), Len(s.blocks) + 1)

\* Where the last comparison leads to if it fails: what the next handler, or the
\* end of the handlers, goes on with.
Unmatched(s, choices) ==
  IF choices = 0 THEN s.insert
  ELSE Compare(makeBasicBlock(s, NoName), Len(s.blocks) + 1, choices).insert

\* The body of the catch-all is entered.
LEMMA CatchAllSane ==
  ASSUME NEW s, NEW dom, NEW W, Sane(s, dom, W), ~hasTerminator(s)
  PROVE  LET u == CatchAll(s)
         IN  \E e : Leads(s, dom, u, e, W) /\ ~hasTerminator(u) /\ u.blocks[s.insert].term
<1> DEFINE n == Len(s.blocks) + 1
           C == Cur(s)
           r == makeBasicBlock(s, NoName)
           e == Append(dom, C)
           t == Br(r, n)
           u == SetInsertPoint(t, n)
<1>1. /\ Len(s.blocks) \in Nat /\ Len(s.blocks) > 1 /\ C \in SUBSET Nat /\ NoName \in Names
      /\ W \subseteq 1..Len(s.blocks) /\ n \in Nat
  BY SaneFacts, NameFacts
<1>2. Leads(s, dom, r, e, W \cup {n}) /\ Made(s, r, e, n, C)
  BY <1>1, SaneMake
<1> HIDE DEF r, e, C
<1>3. /\ Sane(r, e, W \cup {n}) /\ Len(r.blocks) = n /\ e[n] = C /\ Cur(r) = C /\ ~hasTerminator(r)
      /\ r.insert = s.insert
  BY <1>2 DEF Leads, Made, Cur, C
<1>4. n \in 2..Len(r.blocks) /\ n \in 1..Len(r.blocks) /\ n \notin W /\ e[n] \subseteq Cur(r)
  BY <1>1, <1>3
<1> HIDE DEF n
<1>5. Leads(r, e, t, e, W \cup {n}) /\ Ended(r, t)
  BY <1>3, <1>4, SaneBr
<1> HIDE DEF t
<1>6. /\ Sane(t, e, W \cup {n}) /\ hasTerminator(t) /\ n \in 1..Len(t.blocks) /\ Cur(t) \subseteq e[n] \cup {n}
      /\ t.insert = s.insert
  BY <1>3, <1>4, <1>5 DEF Leads, Ended, Cur
<1>7. Leads(t, e, u, e, (W \cup {n}) \ {n}) /\ Moved(t, u, n, W \cup {n})
  BY <1>6, SaneMove
<1> HIDE DEF u
<1>8. Leads(t, e, u, e, W)
  <2>1. (W \cup {n}) \ {n} = W
    BY <1>4
  <2> QED BY <2>1, <1>7, Zenon
<1>9. Leads(s, dom, u, e, W)
  <2>1. Leads(s, dom, t, e, W \cup {n})
    BY <1>2, <1>5, LeadsTransitive
  <2> QED BY <2>1, <1>8, LeadsTransitive
<1>10. ~hasTerminator(u) /\ u.blocks[s.insert].term
  BY <1>6, <1>7 DEF Moved, hasTerminator
<1>11. CatchAll(s) = u
  BY DEF CatchAll, u, t, r, n
<1> QED BY <1>9, <1>10, <1>11

\* In u the body is entered, x is left to be filled.
Caught(s, dom, u, x, e, W) ==
  /\ Leads(s, dom, u, e, W \cup {x}) /\ ~hasTerminator(u)
  /\ x \in 3..Len(u.blocks) /\ x \notin W /\ e[x] = Cur(s)

\* The body of a handler with choices is entered, the block behind the last
\* comparison is left to be filled.
LEMMA CatchSane ==
  ASSUME NEW s, NEW dom, NEW W, Sane(s, dom, W), ~hasTerminator(s), NEW choices \in Nat, choices > 0
  PROVE  \E e : Caught(s, dom, Catch(s, choices), Unmatched(s, choices), e, W)
<1> DEFINE n == Len(s.blocks) + 1
           C == Cur(s)
           r == makeBasicBlock(s, NoName)
           d == Append(dom, C)
           t == Compare(r, n, choices)
           u == SetInsertPoint(t, n)
           x == t.insert
<1>1. /\ Len(s.blocks) \in Nat /\ Len(s.blocks) > 1 /\ C \in SUBSET Nat /\ NoName \in Names
      /\ W \subseteq 1..Len(s.blocks) /\ n \in Nat /\ Sound(s)
  BY SaneFacts, NameFacts
<1>2. Leads(s, dom, r, d, W \cup {n}) /\ Made(s, r, d, n, C)
  BY <1>1, SaneMake
<1> HIDE DEF r, d, C
<1>3. /\ Sane(r, d, W \cup {n}) /\ Len(r.blocks) = n /\ d[n] = Cur(r) /\ Cur(r) = C /\ ~hasTerminator(r)
      /\ r.frames = s.frames
  BY <1>2 DEF Leads, Made, Cur, C
<1>4. n \in W \cup {n} /\ n > 1 /\ n \notin W /\ W \subseteq 1..n /\ n \in 1..n
  BY <1>1
<1>5. PICK e : Compared(r, d, t, e, W \cup {n})
  <2> HIDE DEF n
  <2> QED BY <1>3, <1>4, CompareSane
<1> HIDE DEF t
<1>6. /\ Leads(r, d, t, e, W \cup {n}) /\ x \notin 1..n /\ e[x] = C /\ Blank(t, x)
      /\ Sane(t, e, W \cup {n}) /\ t.frames = s.frames /\ Extends(r, d, t, e) /\ Graph(t, e, W \cup {n})
  BY <1>3, <1>5 DEF Compared, Leads, Sane
<1>7. e[n] = C /\ x \in 1..Len(t.blocks) /\ Len(t.blocks) \in Nat /\ Sound(t)
  <2>1. x \in 1..Len(t.blocks) /\ Len(t.blocks) \in Nat /\ Sound(t)
    BY <1>6, SaneFacts
  <2>2. n \in 1..Len(r.blocks)
    BY <1>3, <1>4
  <2> QED BY <2>1, <2>2, <1>3, <1>6 DEF Extends
<1>8. x # n /\ x \notin W /\ x \in 3..Len(t.blocks)
  BY <1>1, <1>4, <1>6, <1>7
<1> HIDE DEF n
<1> DEFINE V == ((W \cup {n}) \cup {x}) \ {n}
<1>9. /\ Graph(u, e, V) /\ Extends(t, e, u, e)
      /\ u.blocks = t.blocks /\ u.insert = n /\ u.frames = t.frames /\ ~hasTerminator(u)
  BY <1>4, <1>6, GraphLeave
<1> HIDE DEF u
<1>10. V = W \cup {x}
  BY <1>4, <1>8
<1>11. Sane(u, e, V)
  <2>1. FrameBounds(u, e)
    BY <1>6, <1>9, BoundsExtend DEF Graph
  <2>2. Cur(u) = C
    BY <1>6, <1>9 DEF Cur, C
  <2>3. Here(u, e)
    BY <2>2, <1>7, <1>9 DEF Here
  <2> QED BY <2>1, <2>3, <1>9 DEF Sane
<1>12. Leads(s, dom, u, e, W \cup {x})
  <2>1. Sane(u, e, W \cup {x})
    BY <1>10, <1>11, Zenon
  <2>2. Leads(t, e, u, e, W \cup {x})
    BY <2>1, <1>9 DEF Leads
  <2>3. Leads(s, dom, t, e, W \cup {n})
    BY <1>2, <1>6, LeadsTransitive
  <2> QED BY <2>2, <2>3, LeadsTransitive
<1>13. x \in 3..Len(u.blocks)
  BY <1>8, <1>9
<1>14. Unmatched(s, choices) = x /\ Catch(s, choices) = u
  BY DEF Unmatched, Catch, x, u, t, r, n
<1>15. Caught(s, dom, u, x, e, W)
  BY <1>6, <1>8, <1>9, <1>12, <1>13 DEF C, Caught
<1> QED BY <1>14, <1>15

\* beginHandler.
LEMMA beginHandlerVerified ==
  ASSUME Verified(ir, nest), NEW choices \in 0..MaxChoices, beginHandler(choices), MaxChoices \in Nat
  PROVE  Verified(ir', nest')
<1>1. PICK dom, lev, fill : Verif(ir, dom, nest, lev, fill)
  BY DEF Verified
<1> DEFINE W == Waiting(fill)
           q == nest[Len(nest)]
           x == Unmatched(ir, choices)
           u == IF choices = 0 THEN CatchAll(ir) ELSE Catch(ir, choices)
           k == [q EXCEPT !.next = x, !.last = "open",
                          !.more = IF choices = 0 THEN "others" ELSE "handler"]
           h == Statement("handler", q.merge, x, NoName)
           F == IF choices = 0 THEN {} ELSE {x}
<1>2. Inner = q
  BY DEF Inner, Last
<1>3. q.stmt = "handlers" /\ q.more = "handler"
  BY <1>2 DEF beginHandler
<1>4. /\ Slot(ir, dom, q, Len(ir.frames), fill[Len(nest)]) /\ Sane(ir, dom, W)
      /\ Cur(ir) = Ent(ir.frames, Len(ir.frames)) /\ q \in Nested /\ Sound(ir)
      /\ Len(ir.blocks) \in Nat /\ ir.insert \in 1..Len(ir.blocks)
      /\ W \subseteq 1..Len(ir.blocks) /\ choices \in Nat
  BY <1>1, TopSlot, SaneFacts
<1>5. ~hasTerminator(ir)
  BY <1>1, <1>3 DEF Verif, Closed
<1>6. ir.insert = q.next /\ q.next \in 3..Len(ir.blocks) /\ dom[q.next] = Cur(ir) /\ q.merge \in Nat
  <2>1. Handled(q)
    BY <1>3 DEF Handled
  <2> QED BY <2>1, <1>1, <1>3, <1>4 DEF Slot, Verif
<1>7. /\ ir' = u /\ nest' = Append([nest EXCEPT ![Len(nest)] = k], h)
  <2>1. Newest(makeBasicBlock(ir, NoName)) = Len(ir.blocks) + 1
    <3>1. NoName \in Names
      BY NameFacts
    <3> QED BY <3>1, <1>4, makeBasicBlockGrows
  <2>2. Br(makeBasicBlock(ir, NoName), Len(ir.blocks) + 1).insert = ir.insert
    <3> DEFINE r == makeBasicBlock(ir, NoName)
               n == Len(ir.blocks) + 1
    <3>1. NoName \in Names
      BY NameFacts
    <3>2. Grows(ir, r) /\ r.insert = ir.insert
      BY <3>1, <1>4, makeBasicBlockGrows
    <3>3. {n} \in SUBSET Nat /\ {} \in SUBSET Nat
      BY <1>4
    <3> HIDE DEF r, n
    <3>4. Terminator(r, {n}, {}).insert = r.insert
      BY <3>2, <3>3, TerminatorGrows DEF Grows
    <3> QED BY <3>2, <3>4 DEF Br, r, n
  <2>3. CASE choices = 0
    BY <2>1, <2>2, <2>3, <1>2 DEF beginHandler, CatchAll, Unmatched
  <2>4. CASE choices # 0
    BY <2>1, <2>4, <1>2 DEF beginHandler, Catch, Unmatched
  <2> QED BY <2>3, <2>4
<1>8. PICK e : /\ Leads(ir, dom, u, e, W \cup F) /\ ~hasTerminator(u) /\ x \in 3..Len(u.blocks)
               /\ F \cap W = {} /\ e[x] = Cur(ir) /\ (choices = 0 => u.blocks[x].term)
  <2>1. CASE choices = 0
    <3>1. x = ir.insert /\ u = CatchAll(ir) /\ W \cup F = W /\ F = {}
      BY <2>1 DEF Unmatched
    <3> HIDE DEF F, x, u
    <3>2. PICK e : Leads(ir, dom, CatchAll(ir), e, W) /\ ~hasTerminator(CatchAll(ir))
                   /\ CatchAll(ir).blocks[ir.insert].term
      BY <1>4, <1>5, CatchAllSane
    <3>3. Leads(ir, dom, u, e, W \cup F)
      BY <3>1, <3>2, Zenon
    <3>4. x \in 3..Len(u.blocks) /\ e[x] = Cur(ir)
      <4>1. Len(u.blocks) \in Nat /\ Extends(ir, dom, u, e)
        BY <3>3, SaneFacts DEF Leads
      <4> QED BY <4>1, <3>1, <1>4, <1>6 DEF Extends
    <3> QED BY <3>1, <3>2, <3>3, <3>4
  <2>2. CASE choices # 0
    <3>1. u = Catch(ir, choices) /\ F = {x} /\ choices > 0
      BY <2>2, <1>4
    <3> HIDE DEF F, u
    <3>2. PICK e : Caught(ir, dom, u, x, e, W)
      BY <3>1, <1>4, <1>5, CatchSane
    <3>3. Leads(ir, dom, u, e, W \cup F)
      BY <3>1, <3>2, Zenon DEF Caught
    <3> QED BY <2>2, <3>1, <3>2, <3>3 DEF Caught
  <2> QED BY <2>1, <2>2
<1> HIDE DEF u, x, W
<1>9. x \in Nat /\ NoName \in Tag \cup {NoName} /\ F \in SUBSET Nat
  BY <1>8
<1>10. /\ k \in Nested /\ k.stmt = "handlers" /\ k.merge = q.merge /\ k.last = "open" /\ k.next = x
       /\ k.more = IF choices = 0 THEN "others" ELSE "handler"
  <2> HIDE DEF q
  <2> QED BY <1>3, <1>4, <1>9 DEF Nested
<1>11. /\ h \in Nested /\ h.stmt = "handler" /\ h.merge = q.merge /\ h.last = "empty" /\ h.next = x
  BY <1>6, <1>9, StatementNote
<1> HIDE DEF k, h
<1>12. (k.more = "others" <=> F = {}) /\ (F = {k.next} \/ (F = {} /\ u.blocks[k.next].term))
  BY <1>8, <1>10
<1>13. HandlerNotes(u, e, nest[Len(nest)], Cur(ir), k, h, F)
  BY <1>8, <1>10, <1>11, <1>12 DEF HandlerNotes
<1>14. /\ nest[Len(nest)].stmt = "handlers" /\ Leads(ir, dom, u, e, Waiting(fill) \cup F)
       /\ F \cap Waiting(fill) = {}
  BY <1>3, <1>8 DEF W
<1> HIDE DEF q, F
<1>15. Verified(u, Append([nest EXCEPT ![Len(nest)] = k], h))
  BY <1>1, <1>8, <1>9, <1>13, <1>14, HandlerVerified
<1> QED BY <1>7, <1>15

-----------------------------------------------------------------------------
(* The end of the subroutine *)

\* Every block made is in order and has its terminator.
Wellformed(s) == \E dom : Graph(s, dom, {}) /\ hasTerminator(s)

\* The builder has filled block b with a terminator only and is back in its own.
Visit(s, b, succ) == SetInsertPoint(Terminator(SetInsertPoint(s, b), succ, {}), s.insert)
Visited(s, dom, t, W) ==
  /\ Leads(s, dom, t, dom, W) /\ hasTerminator(t) /\ t.insert = s.insert
  /\ Len(t.blocks) = Len(s.blocks)

\* A block that waits is filled with a terminator only, the builder going there
\* and back.
LEMMA SaneVisit ==
  ASSUME NEW s, NEW dom, NEW W, Sane(s, dom, W), hasTerminator(s), NEW b \in W,
         Cur(s) \subseteq dom[b] \cup {b}, NEW succ \in SUBSET Nat,
         \A x \in succ : x \in 2..Len(s.blocks) /\ dom[x] \subseteq dom[b] \cup {b}
  PROVE  Visited(s, dom, Visit(s, b, succ), W \ {b})
<1> DEFINE p == SetInsertPoint(s, b)
           q == Terminator(p, succ, {})
           c == s.insert
           t == SetInsertPoint(q, c)
           V == W \ {b}
<1>1. /\ b \in 1..Len(s.blocks) /\ c \in 1..Len(s.blocks) /\ c \notin W
      /\ Cur(s) \subseteq dom[c] \cup {c} /\ {} \in SUBSET Nat
  BY SaneFacts
<1>2. Leads(s, dom, p, dom, V) /\ Moved(s, p, b, W)
  BY <1>1, SaneMove
<1> HIDE DEF p, V, c
<1>3. /\ Sane(p, dom, V) /\ ~hasTerminator(p) /\ p.insert = b /\ Len(p.blocks) = Len(s.blocks)
      /\ Cur(p) = Cur(s)
  BY <1>2 DEF Leads, Moved, Cur
<1>4. Targets(p, dom, succ \cup {})
  BY <1>3 DEF Targets
<1>5. Leads(p, dom, q, dom, V) /\ Ended(p, q)
  BY <1>1, <1>3, <1>4, SaneTerm
<1> HIDE DEF q
<1>6. /\ Sane(q, dom, V) /\ hasTerminator(q) /\ Len(q.blocks) = Len(s.blocks) /\ Cur(q) = Cur(s)
  BY <1>3, <1>5 DEF Leads, Ended, Cur
<1>7. c \in 1..Len(q.blocks) /\ Cur(q) \subseteq dom[c] \cup {c} /\ V \ {c} = V
  BY <1>1, <1>6 DEF V
<1>8. Leads(q, dom, t, dom, V \ {c}) /\ Moved(q, t, c, V)
  BY <1>6, <1>7, SaneMove
<1> HIDE DEF t
<1>9. Leads(q, dom, t, dom, V)
  BY <1>7, <1>8, Zenon
<1>10. Leads(s, dom, t, dom, V)
  <2>1. Leads(s, dom, q, dom, V)
    BY <1>2, <1>5, LeadsTransitive
  <2> QED BY <2>1, <1>9, LeadsTransitive
<1>11. hasTerminator(t) /\ t.insert = c /\ Len(t.blocks) = Len(s.blocks)
  BY <1>1, <1>6, <1>8 DEF Moved, V
<1>12. t = Visit(s, b, succ)
  BY DEF t, q, p, c, Visit
<1> QED BY <1>10, <1>11, <1>12 DEF V, c, Visited

\* The return behind the body, the prologue, the epilogue and the end of the
\* function's own subframe.
LEMMA FinishComplete ==
  ASSUME NEW t, NEW e, Sane(t, e, {1, 2}), Len(t.frames) = 1, ~hasTerminator(t),
         Len(t.blocks) > 2, e[3] = {}
  PROVE  Wellformed(popFrame(emitEpilogue(emitPrologue(emitReturn(t), 3))))
<1> DEFINE u == emitReturn(t)
           x == Visit(u, 1, {3})
           y == Visit(x, 2, {})
           z == popFrame(y)
<1>1. Leads(t, e, u, e, {1, 2}) /\ Ended(t, u)
  BY SaneReturn
<1> HIDE DEF u
<1>2. /\ Sane(u, e, {1, 2}) /\ hasTerminator(u) /\ Len(u.blocks) = Len(t.blocks) /\ u.frames = t.frames
  BY <1>1 DEF Leads, Ended
<1>3. Cur(u) = {} /\ Len(u.blocks) \in Nat
  <2>1. 2..1 = {}
    OBVIOUS
  <2> QED BY <2>1, <1>2, SaneFacts DEF Cur, Ent
<1>4. Leads(u, e, x, e, {1, 2} \ {1}) /\ hasTerminator(x) /\ Len(x.blocks) = Len(u.blocks)
  <2>1. {3} \in SUBSET Nat /\ \A b \in {3} : b \in 2..Len(u.blocks) /\ e[b] \subseteq e[1] \cup {1}
    BY <1>2, <1>3
  <2>2. 1 \in {1, 2} /\ Cur(u) \subseteq e[1] \cup {1}
    BY <1>3
  <2>3. Visited(u, e, x, {1, 2} \ {1})
    BY <2>1, <2>2, <1>2, SaneVisit
  <2> QED BY <2>3 DEF Visited
<1> HIDE DEF x
<1>5. Sane(x, e, {2}) /\ x.frames = u.frames
  <2>1. {1, 2} \ {1} = {2}
    OBVIOUS
  <2> QED BY <2>1, <1>4 DEF Leads
<1>6. Cur(x) = {}
  BY <1>3, <1>5 DEF Cur
<1>7. Leads(x, e, y, e, {2} \ {2}) /\ hasTerminator(y)
  <2>1. {} \in SUBSET Nat /\ \A b \in {} : b \in 2..Len(x.blocks) /\ e[b] \subseteq e[2] \cup {2}
    OBVIOUS
  <2>2. 2 \in {2} /\ Cur(x) \subseteq e[2] \cup {2}
    BY <1>6
  <2>3. Visited(x, e, y, {2} \ {2})
    BY <2>1, <2>2, <1>4, <1>5, SaneVisit
  <2> QED BY <2>3 DEF Visited
<1> HIDE DEF y
<1>8. Graph(y, e, {}) /\ Sound(y) /\ Len(y.frames) > 0
  <2>1. {2} \ {2} = {}
    OBVIOUS
  <2>2. Sane(y, e, {})
    BY <2>1, <1>7 DEF Leads
  <2> QED BY <2>2, SaneFacts DEF Sane
<1>9. Sound(z) /\ z.blocks = y.blocks /\ z.insert = y.insert
  <2>1. Restore(y, Saved(<<subframe(y)>>)) = y
    BY <1>7 DEF Restore
  <2>2. z = [y EXCEPT !.frames = Front(y.frames)]
    BY <2>1 DEF popFrame
  <2>3. Front(y.frames) \in Seq(Subframe) /\ y \in Emission
    BY <1>8, FrontFacts DEF Sound, Emission
  <2> QED BY <2>2, <2>3, <1>8 DEF Sound, Emission
<1> HIDE DEF z
<1>10. Graph(z, e, {}) /\ hasTerminator(z)
  BY <1>7, <1>8, <1>9, GraphFrames
<1>11. z = popFrame(emitEpilogue(emitPrologue(u, 3)))
  BY DEF z, y, x, Visit, emitEpilogue, emitPrologue, Br, Ret, allocaBB, returnBB
<1> QED BY <1>10, <1>11 DEF Wellformed, u

\* endSubroutineBody.
LEMMA endSubroutineBodyVerified ==
  ASSUME Verified(ir, nest), endSubroutineBody
  PROVE  Wellformed(ir') /\ phase' = "done"
<1>1. PICK dom, lev, fill : Verif(ir, dom, nest, lev, fill)
  BY DEF Verified
<1> DEFINE W == Waiting(fill)
           k == nest[Len(nest)]
           b == k.merge
<1>2. Inner = k
  BY DEF Inner, Last
<1>3. /\ Slot(ir, dom, k, Len(ir.frames), fill[Len(nest)]) /\ Sane(ir, dom, W)
      /\ fill[Len(nest)] \subseteq W /\ Len(ir.frames) > 1 /\ Len(ir.frames) \in Nat
      /\ b \in 2..Len(ir.blocks) /\ dom[b] \subseteq Cur(ir) /\ lev[Len(nest)] = Len(ir.frames)
      /\ Sound(ir) /\ Len(ir.blocks) \in Nat
  BY <1>1, TopSlot
<1>4. Len(ir.blocks) > 2 /\ dom[3] = {} /\ Len(nest) = 1
  BY <1>1 DEF Verif, endSubroutineBody
<1>5. Len(ir.frames) = 2
  <2>1. Link(nest, lev, fill, 1)
    BY <1>1, <1>4 DEF Verif, Ctx
  <2>2. lev[1] = Lv(lev, 0) + 1
    BY <2>1 DEF Link
  <2>3. Lv(lev, 0) = 1
    BY DEF Lv
  <2>4. lev[1] = Len(ir.frames)
    BY <1>3, <1>4
  <2>5. lev[1] = 1 + 1
    BY <2>2, <2>3, Zenon
  <2>6. Len(ir.frames) = 1 + 1
    BY <2>4, <2>5, Zenon
  <2> QED BY <2>6
<1>6. W \ {b} = {1, 2} \/ fill[Len(nest)] # {b}
  <2>1. Waiting(Front(fill)) = W \ fill[Len(nest)]
    BY <1>1, <1>4, WaitingFront DEF Verif
  <2>2. Waiting(Front(fill)) = {1, 2}
    <3>1. fill \in Seq(SUBSET Nat) /\ Len(fill) = 1
      BY <1>1, <1>4, CtxFacts DEF Verif
    <3>2. Len(Front(fill)) = 0
      BY <3>1, FrontFacts
    <3>3. 1..0 = {}
      OBVIOUS
    <3> QED BY <3>2, <3>3 DEF Waiting
  <2> QED BY <2>1, <2>2
<1>7. ASSUME NEW s, NEW e, NEW t, NEW f, Extends(ir, dom, s, e), Sound(s), Extends(s, e, t, f),
             Sane(t, f, W \ {b}), fill[Len(nest)] = {b}, Len(t.frames) = 1, ~hasTerminator(t)
      PROVE  Wellformed(popFrame(emitEpilogue(emitPrologue(emitReturn(t), 3))))
  <2>1. Sane(t, f, {1, 2}) /\ Sound(t) /\ Len(t.blocks) \in Nat
    BY <1>6, <1>7, SaneFacts
  <2>2. Extends(ir, dom, t, f)
    BY <2>1, <1>3, <1>7, ExtendsTransitive
  <2>3. Len(t.blocks) > 2 /\ f[3] = {}
    BY <2>1, <2>2, <1>3, <1>4 DEF Extends
  <2> QED BY <2>1, <2>3, <1>7, FinishComplete
<1>8. phase' = "done"
  BY DEF endSubroutineBody, Finish
<1>9. CASE k.stmt = "block" /\ k.pad = 0
  <2> DEFINE s == BrIfNeeded(ir, b)
             t == SetInsertPoint(popFrame(s), b)
  <2>1. fill[Len(nest)] = {b} /\ dom[b] = Ent(ir.frames, Len(ir.frames) - 1)
    BY <1>3, <1>9 DEF Slot, Handled
  <2>2. ir' = popFrame(emitEpilogue(emitPrologue(IF hasTerminator(t) THEN t ELSE emitReturn(t), 3)))
    BY <1>2, <1>9 DEF endSubroutineBody, Complete, Finish
  <2> HIDE DEF W, b, k
  <2>3. Leads(ir, dom, s, dom, W) /\ Ended(ir, s)
    BY <1>3, SaneBr
  <2> HIDE DEF s
  <2>4. /\ Sane(s, dom, W) /\ hasTerminator(s) /\ Len(s.frames) > 1 /\ b \in W
        /\ dom[b] = Ent(s.frames, Len(s.frames) - 1)
        /\ s.frames \in Seq(Subframe) /\ Extends(ir, dom, s, dom) /\ Sound(s)
    <3>1. /\ Sane(s, dom, W) /\ hasTerminator(s) /\ s.frames = ir.frames /\ Extends(ir, dom, s, dom)
      BY <2>3 DEF Leads, Ended
    <3> QED BY <3>1, <2>1, <1>3, SaneFacts
  <2>8. Len(s.frames) = 2
    <3>1. s.frames = ir.frames
      BY <2>3 DEF Leads
    <3> QED BY <3>1, <1>5
  <2>5. /\ Sane(t, dom, W \ {b}) /\ Extends(s, dom, t, dom) /\ t.frames = Front(s.frames)
        /\ ~hasTerminator(t)
    <3>1. t = SetInsertPoint(popFrame(s), b)
      OBVIOUS
    <3> HIDE DEF t
    <3>2. /\ Sane(s, dom, W) /\ hasTerminator(s) /\ Len(s.frames) > 1 /\ b \in W
          /\ dom[b] = Ent(s.frames, Len(s.frames) - 1)
      BY <2>4
    <3> QED BY <3>1, <3>2, PopAndMove
  <2> HIDE DEF t
  <2>6. Len(t.frames) = 1
    <3>1. s.frames \in Seq(Subframe) /\ Len(s.frames) > 0 /\ t.frames = Front(s.frames)
      BY <2>4, <2>5
    <3>2. Len(Front(s.frames)) = Len(s.frames) - 1
      BY <3>1, FrontFacts
    <3> QED BY <3>1, <3>2, <2>8
  <2>7. Wellformed(popFrame(emitEpilogue(emitPrologue(emitReturn(t), 3))))
    BY <2>1, <2>4, <2>5, <2>6, <1>7
  <2> QED BY <2>2, <2>5, <2>7, <1>8
<1>10. CASE k.stmt = "handlers"
  <2> DEFINE s == LeftHandlers(ir, k)
             p == popFrame(s)
             t == SetInsertPoint(p, b)
  <2>1. ir' = popFrame(emitEpilogue(emitPrologue(IF hasTerminator(t) THEN t ELSE emitReturn(t), 3)))
    BY <1>2, <1>10 DEF endSubroutineBody, Complete, Finish, LeftHandlers
  <2>2. HandlersDone(ir, dom, nest[Len(nest)], Waiting(fill), fill[Len(nest)])
    <3>1. nest[Len(nest)].stmt = "handlers"
      BY <1>10
    <3> QED BY <3>1, <1>1, HandlersLeft
  <2>3. PICK e : /\ Leads(ir, dom, s, e, W \ {b}) /\ ~hasTerminator(s)
                 /\ s.insert = b /\ fill[Len(nest)] = {b}
    BY <2>2 DEF HandlersDone
  <2> HIDE DEF s, W, b, k
  <2>4. /\ Sane(s, e, W \ {b}) /\ Len(s.frames) > 1 /\ Extends(ir, dom, s, e)
        /\ Sound(s) /\ s.frames \in Seq(Subframe)
    <3>1. Sane(s, e, W \ {b}) /\ s.frames = ir.frames /\ Extends(ir, dom, s, e)
      BY <2>3 DEF Leads
    <3> QED BY <3>1, <1>3, SaneFacts
  <2>9. Len(s.frames) = 2
    <3>1. s.frames = ir.frames
      BY <2>3 DEF Leads
    <3> QED BY <3>1, <1>5
  <2>5. Sane(p, e, W \ {b}) /\ Extends(s, e, p, e) /\ Popped(s, p)
    BY <2>4, SanePop
  <2> HIDE DEF p
  <2>6. p.insert = b /\ Len(p.frames) = 1 /\ ~hasTerminator(p) /\ Sound(p)
    <3>1. s.frames \in Seq(Subframe) /\ Len(s.frames) > 0
      BY <2>4
    <3>3. Len(Front(s.frames)) = Len(s.frames) - 1
      BY <3>1, FrontFacts
    <3>2. Sound(p)
      BY <2>5, SaneFacts
    <3>4. Popped(s, p)
      BY <2>5
    <3>5. p.insert = b /\ ~hasTerminator(p)
      BY <3>4, <2>3 DEF Popped
    <3>6. p.frames = Front(s.frames)
      BY <3>4 DEF Popped
    <3>7. Len(p.frames) = Len(s.frames) - 1
      BY <3>3, <3>6
    <3> QED BY <3>2, <3>5, <3>7, <2>9
  <2>7. t = p
    BY <2>6, StayInsert
  <2> HIDE DEF t
  <2>8. Wellformed(popFrame(emitEpilogue(emitPrologue(emitReturn(t), 3))))
    BY <2>3, <2>4, <2>5, <2>6, <2>7, <1>7
  <2> QED BY <2>1, <2>6, <2>7, <2>8, <1>8
<1>11. (k.stmt = "block" /\ k.pad = 0) \/ k.stmt = "handlers"
  BY <1>2 DEF endSubroutineBody, Complete
<1> QED BY <1>9, <1>10, <1>11

-----------------------------------------------------------------------------
\* The sets of blocks that ReachableAvoiding goes through, one step of the
\* control flow after another.
Steps(f, avoided) ==
  \A n \in 0..Len(ir.blocks) :
    f[n] = IF n = 0 THEN {allocaBB} \ avoided
           ELSE (f[n - 1] \cup UNION {Successors(b) : b \in f[n - 1]}) \ avoided

\* The recursive function of ReachableAvoiding is well defined.
LEMMA StepsUnfold ==
  ASSUME NEW avoided, Len(ir.blocks) \in Nat
  PROVE  \E f : Steps(f, avoided) /\ ReachableAvoiding(avoided) = f[Len(ir.blocks)]
<1> DEFINE L == Len(ir.blocks)
           A == {allocaBB} \ avoided
           grow(S) == (S \cup UNION {Successors(b) : b \in S}) \ avoided
           steps[n \in 0..L] == IF n = 0 THEN A ELSE grow(steps[n - 1])
           C(f, n) == f = [i \in 0..n |-> IF i = 0 THEN A ELSE grow(f[i - 1])]
           S0 == {n \in Nat : \E f : C(f, n)}
<1>5. ReachableAvoiding(avoided) = steps[L]
  BY Zenon DEF ReachableAvoiding
<1> HIDE DEF grow, A
<1>1. 0 \in S0
  <2> DEFINE g == [i \in 0..0 |-> A]
  <2>1. g = [i \in 0..0 |-> IF i = 0 THEN A ELSE grow(g[i - 1])]
    OBVIOUS
  <2> QED BY <2>1
<1>2. ASSUME NEW n \in Nat, n \in S0 PROVE n + 1 \in S0
  <2>1. PICK f : C(f, n)
    BY <1>2
  <2> DEFINE g == [i \in 0..(n + 1) |-> IF i = n + 1 THEN grow(f[n]) ELSE f[i]]
  <2>2. \A i \in 0..n : g[i] = f[i] /\ i # n + 1 /\ i \in 0..(n + 1)
    OBVIOUS
  <2>3. \A i \in 0..n : f[i] = IF i = 0 THEN A ELSE grow(f[i - 1])
    BY <2>1, Zenon
  <2>4. ASSUME NEW i \in 0..(n + 1)
        PROVE  g[i] = IF i = 0 THEN A ELSE grow(g[i - 1])
    <3>1. CASE i = n + 1
      <4>1. g[i] = grow(f[n]) /\ i # 0 /\ i - 1 = n /\ n \in 0..n
        BY <3>1
      <4> HIDE DEF g
      <4> QED BY <4>1, <2>2
    <3>2. CASE i # n + 1
      <4>1. i \in 0..n /\ (i # 0 => i - 1 \in 0..n)
        BY <3>2
      <4> HIDE DEF g
      <4> QED BY <4>1, <2>2, <2>3
    <3> QED BY <3>1, <3>2
  <2>5. C(g, n + 1)
    BY <2>4, Zenon
  <2>6. \E h : C(h, n + 1)
    BY <2>5, Zenon
  <2>7. n + 1 \in Nat
    OBVIOUS
  <2> QED BY <2>6, <2>7, Zenon
<1>3. \E f : C(f, L)
  <2> HIDE DEF S0, L
  <2>0. L \in Nat
    BY DEF L
  <2>1. L \in S0
    BY <1>1, <1>2, <2>0, SetInduction
  <2> QED BY <2>1 DEF S0
<1>4. C(steps, L)
  <2>1. C(CHOOSE f : C(f, L), L)
    BY <1>3, Zenon
  <2> QED BY <2>1, Zenon
<1> HIDE DEF steps
<1>6. Steps(steps, avoided)
  <2>1. \A n \in 0..L : steps[n] = IF n = 0 THEN A ELSE grow(steps[n - 1])
    BY <1>4, Zenon
  <2> QED BY <2>1, Zenon DEF Steps, A, grow
<1> QED BY <1>5, <1>6

\* A block that every path to b goes through is not avoided on the way to b.
LEMMA DominatorsHold ==
  ASSUME NEW dom, Graph(ir, dom, {}), NEW e, NEW b \in ReachableAvoiding({e})
  PROVE  b \in 1..Len(ir.blocks) /\ e \notin dom[b] \cup {b}
<1>1. Len(ir.blocks) \in Nat /\ Len(ir.blocks) > 1 /\ dom[1] = {}
  BY SoundLength DEF Graph
<1>2. PICK f : Steps(f, {e}) /\ ReachableAvoiding({e}) = f[Len(ir.blocks)]
  BY <1>1, StepsUnfold
<1> DEFINE Free == {x \in 1..Len(ir.blocks) : e \notin dom[x] \cup {x}}
           T == {n \in Nat : n \in 0..Len(ir.blocks) => f[n] \subseteq Free}
<1>3. 0 \in T
  <2>0. 0 \in 0..Len(ir.blocks)
    BY <1>1
  <2>1. f[0] = {1} \ {e}
    BY <1>2, <2>0, Zenon DEF Steps, allocaBB
  <2>2. {1} \ {e} \subseteq Free
    BY <1>1
  <2> QED BY <2>1, <2>2
<1>4. ASSUME NEW n \in Nat, n \in T PROVE n + 1 \in T
  <2> SUFFICES ASSUME n + 1 \in 0..Len(ir.blocks) PROVE f[n + 1] \subseteq Free
    OBVIOUS
  <2>1. n \in 0..Len(ir.blocks) /\ n + 1 # 0 /\ (n + 1) - 1 = n
    BY <1>1
  <2>2. f[n] \subseteq Free
    BY <1>4, <2>1
  <2>3. f[n + 1] = (f[n] \cup UNION {Successors(x) : x \in f[n]}) \ {e}
    BY <1>2, <2>1 DEF Steps
  <2>4. ASSUME NEW x \in Free, NEW y \in Successors(x), y # e PROVE y \in Free
    <3>1. x \in 1..Len(ir.blocks) /\ e \notin dom[x] \cup {x}
      OBVIOUS
    <3>2. y \in Edges(ir, x)
      BY DEF Edges, Successors
    <3>3. y \in 2..Len(ir.blocks) /\ dom[y] \subseteq dom[x] \cup {x}
      BY <3>1, <3>2 DEF Graph, BlockInOrder
    <3>4. y \in 1..Len(ir.blocks)
      BY <3>3, <1>1
    <3> QED BY <3>1, <3>3, <3>4, <2>4
  <2> HIDE DEF Free
  <2> QED BY <2>2, <2>3, <2>4
<1>5. Len(ir.blocks) \in T
  <2> HIDE DEF T
  <2> QED BY <1>1, <1>3, <1>4, SetInduction
<1>6. f[Len(ir.blocks)] \subseteq Free
  BY <1>1, <1>5
<1> QED BY <1>2, <1>6

\* The verifier accepts the graph of a finished body.
LEMMA VerifierAccepts ==
  ASSUME Wellformed(ir)
  PROVE  FunctionVerifies
<1>1. PICK dom : Graph(ir, dom, {}) /\ hasTerminator(ir)
  BY DEF Wellformed
<1>2. BlockIds = 1..Len(ir.blocks) /\ Len(ir.blocks) \in Nat
  BY <1>1, SoundLength DEF Graph, BlockIds, Sound, Emission
<1>3. ASSUME NEW b \in BlockIds
      PROVE  /\ ir.blocks[b].term /\ ~ir.blocks[b].torn
             /\ ir.blocks[b].phi # "late"
             /\ Successors(b) \subseteq BlockIds \ {allocaBB}
  <2>1. BlockInOrder(ir, dom, b) /\ (b # ir.insert => ir.blocks[b].term)
    BY <1>1, <1>2 DEF Graph
  <2>2. ir.blocks[b].term
    BY <1>1, <2>1 DEF hasTerminator
  <2>3. \A x \in Successors(b) : x \in 2..Len(ir.blocks)
    BY <2>1 DEF BlockInOrder, Edges, Successors
  <2>4. Successors(b) \subseteq BlockIds \ {allocaBB}
    BY <1>2, <2>3 DEF allocaBB
  <2> QED BY <2>1, <2>2, <2>4 DEF BlockInOrder
<1>4. ASSUME NEW e, NEW b \in ReachableAvoiding({e})
      PROVE  e \notin ir.blocks[b].restores
  <2>1. b \in 1..Len(ir.blocks) /\ e \notin dom[b] \cup {b}
    BY <1>1, DominatorsHold
  <2>2. ir.blocks[b].restores \subseteq dom[b] \cup {b}
    BY <1>1, <2>1 DEF Graph, BlockInOrder
  <2> QED BY <2>1, <2>2
<1> QED BY <1>3, <1>4, Zenon DEF FunctionVerifies

\* The inductive invariant of a subroutine that uses none of the forms the
\* emitters are not prepared for: while the body is being emitted its graph,
\* the blocks that wait and the statements under way agree, and once it is
\* finished no block waits.
Sequel ==
  /\ Inv
  /\ phase = "body" => Verified(ir, nest)
  /\ phase = "done" => Wellformed(ir)

\* Every step of the emitters keeps that invariant.
LEMMA SequelStep ==
  ASSUME Prepared, Sequel, [Next]_vars
  PROVE  Sequel'
<1>0. Inv'
  BY StepInv DEF Sequel
<1>1. CASE UNCHANGED vars
  BY <1>0, <1>1 DEF Sequel, vars
<1>2. ASSUME NEW handled \in BOOLEAN, emitSubroutineBody(handled) PROVE Sequel'
  <2>1. ir = newFrame /\ phase' = "body"
    BY <1>2 DEF emitSubroutineBody, Sequel, Inv
  <2>2. Verified(ir', nest')
    BY <1>2, <2>1, SubroutineBodyVerified
  <2> QED BY <1>0, <2>1, <2>2 DEF Sequel
<1>3. ASSUME Verified(ir', nest'), phase' = "body" PROVE Sequel'
  BY <1>0, <1>3 DEF Sequel
<1>4. ASSUME phase = "body", phase' = phase,
             \/ emitSimpleStmt \/ emitReturnStmt \/ emitRaiseStmt \/ emitPragmaAssert
             \/ endBlockStmt \/ emitHandlers \/ endHandler \/ endHandlers \/ emitElse
      PROVE  Sequel'
  <2>1. Good(ir, nest) /\ Verified(ir, nest)
    BY <1>4 DEF Sequel, Inv
  <2>2. Verified(ir', nest')
    BY <1>4, <2>1, SimpleStmtVerified, ReturnStmtVerified, RaiseStmtVerified,
       PragmaAssertVerified, endBlockVerified, emitHandlersVerified, endHandlerVerified,
       endHandlersVerified, emitElseVerified
  <2> QED BY <1>3, <1>4, <2>2
<1>5. CASE emitSimpleStmt
  BY <1>4, <1>5 DEF emitSimpleStmt, Accepted, Emitted
<1>6. CASE emitReturnStmt
  BY <1>4, <1>6 DEF emitReturnStmt, Accepted, Emitted
<1>7. CASE emitRaiseStmt
  BY <1>4, <1>7 DEF emitRaiseStmt, Accepted, Emitted
<1>8. CASE emitPragmaAssert
  BY <1>4, <1>8 DEF emitPragmaAssert, Accepted, Emitted
<1>9. CASE endBlockStmt
  BY <1>4, <1>9 DEF endBlockStmt, Complete, End
<1>10. CASE emitHandlers
  BY <1>4, <1>10 DEF emitHandlers, Complete, Continue
<1>11. CASE endHandler
  BY <1>4, <1>11 DEF endHandler, Complete, End
<1>12. CASE endHandlers
  BY <1>4, <1>12 DEF endHandlers, Complete, End
<1>13. CASE emitElse
  BY <1>4, <1>13 DEF emitElse, Complete, Continue
<1>14. CASE endIfStmt
  <2>1. phase = "body" /\ phase' = phase /\ Inner.stmt \in {"if"}
    BY <1>14 DEF endIfStmt, Complete, End
  <2>2. Good(ir, nest) /\ Verified(ir, nest)
    BY <2>1 DEF Sequel, Inv
  <2>3. Len(nest) > 1
    BY <2>1, <2>2, InnerFacts
  <2> QED BY <1>3, <1>14, <2>1, <2>2, <2>3, endIfVerified
<1>15. CASE endLoopStmt
  <2>1. phase = "body" /\ phase' = phase /\ Inner.stmt \in Loops
    BY <1>15 DEF endLoopStmt, Complete, End
  <2>2. Good(ir, nest) /\ Verified(ir, nest)
    BY <2>1 DEF Sequel, Inv
  <2>3. Len(nest) > 1
    BY <2>1, <2>2, InnerFacts DEF Loops
  <2> QED BY <1>3, <1>15, <2>1, <2>2, <2>3, endLoopVerified
<1>16. ASSUME NEW tag \in Tag \cup {NoName}, NEW conditional \in BOOLEAN,
              emitExitStmt(tag, conditional)
       PROVE  Sequel'
  <2>1. phase = "body" /\ phase' = phase
    BY <1>16 DEF emitExitStmt, Accepted, Emitted
  <2> QED BY <1>3, <1>16, <2>1, ExitStmtVerified DEF Sequel
<1>17. ASSUME NEW label \in Tag \cup {NoName}, NEW handled \in BOOLEAN,
              beginBlockStmt(label, handled)
       PROVE  Sequel'
  <2>1. phase = "body" /\ phase' = phase
    BY <1>17 DEF beginBlockStmt, Accepted, Begin
  <2> QED BY <1>3, <1>17, <2>1, beginBlockVerified DEF Sequel
<1>18. ASSUME NEW choices \in 0..MaxChoices, beginHandler(choices) PROVE Sequel'
  <2>1. phase = "body" /\ phase' = phase
    BY <1>18 DEF beginHandler
  <2> QED BY <1>3, <1>18, <2>1, BoundAssumption, beginHandlerVerified DEF Sequel
<1>19. ASSUME NEW more \in {"none", "elsif", "else"}, beginIfStmt(more) \/ emitElsif(more)
       PROVE  Sequel'
  <2>1. phase = "body" /\ phase' = phase
    BY <1>19 DEF beginIfStmt, emitElsif, Accepted, Begin, Complete
  <2> QED BY <1>3, <1>19, <2>1, beginIfVerified, emitElsifVerified DEF Sequel
<1>20. ASSUME NEW tag \in Tag \cup {NoName},
              beginWhileStmt(tag) \/ beginForStmt(tag) \/ beginLoopStmt(tag)
       PROVE  Sequel'
  <2>1. phase = "body" /\ phase' = phase
    BY <1>20 DEF beginWhileStmt, beginForStmt, beginLoopStmt, Accepted, LoopBody, Begin
  <2> QED BY <1>3, <1>20, <2>1, beginWhileVerified, beginForVerified, beginLoopVerified
         DEF Sequel
<1>21. CASE endSubroutineBody
  <2>1. phase = "body"
    BY <1>21 DEF endSubroutineBody, Complete
  <2>2. Verified(ir, nest)
    BY <2>1 DEF Sequel
  <2>3. Wellformed(ir') /\ phase' = "done"
    BY <1>21, <2>2, endSubroutineBodyVerified
  <2> QED BY <1>0, <2>3 DEF Sequel
<1>22. CASE Next
  BY <1>2, <1>5, <1>6, <1>7, <1>8, <1>9, <1>10, <1>11, <1>12, <1>13, <1>14, <1>15, <1>16,
     <1>17, <1>18, <1>19, <1>20, <1>21, <1>22 DEF Next
<1> QED BY <1>1, <1>22

\* The verifier accepts every function the emitters produce: every block ends
\* in a terminator and has no other, PHI nodes come first, nothing branches to
\* the entry block and a stack pointer is restored only where every path from
\* the entry has saved it, for bodies of any size and nesting.  The subroutine
\* may repeat tags; with dead code in an if statement, or an allocation directly
\* in the body of a for loop, it fails.
THEOREM FunctionsVerify ==
  ASSUME Prepared
  PROVE  Spec => []FunctionVerifies
<1>1. Init => Sequel
  BY DEF Init, Sequel, Inv
<1>2. Sequel /\ [Next]_vars => Sequel'
  BY SequelStep
<1>3. Sequel => FunctionVerifies
  <2>1. ASSUME Sequel, phase = "done" PROVE FunctionVerifies
    BY <2>1, VerifierAccepts DEF Sequel
  <2>2. ASSUME phase # "done" PROVE FunctionVerifies
    BY <2>2 DEF FunctionVerifies
  <2> QED BY <2>1, <2>2
<1> QED BY <1>1, <1>2, <1>3, PTL DEF Spec
=============================================================================
