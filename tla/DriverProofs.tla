---------------------------- MODULE DriverProofs ----------------------------
(***************************************************************************)
(* Proofs about the dependency loader and the driver, for any files, with   *)
(* clauses and command line.                                                *)
(*                                                                          *)
(* The loader: its state is well typed, CycleTable is always the chain of   *)
(* items under way, a reported cycle is one, loading succeeds exactly for   *)
(* files that can be ordered, and the extraction orders them.               *)
(*                                                                          *)
(* The driver: when compileSourceItem takes an item, the items it depends   *)
(* on have their compilation units, and a run that succeeds has compiled,   *)
(* and written, everything the input file needs.                            *)
(***************************************************************************)
EXTENDS Driver, SequenceTheorems, TLAPS

\* An item's dependents come from its own with clauses, also when loading it
\* stopped half way.
DependentsAreNeeded ==
  \A p \in Path : \A i \in 1..Len(dependents[p]) : dependents[p][i] \in Needs(p)

\* The inductive invariant.
IInv == TypeOK /\ CycleTableIsChain /\ DependentsAreNeeded /\ ReportIsCycle
-----------------------------------------------------------------------------
(* The traversal stack and the SetVector *)

\* Returning from an activation leaves a well-typed stack.
LEMMA UnwindType ==
  ASSUME stack \in Seq(Frame), stack # <<>>, Unwind
  PROVE  /\ stack' \in Seq(Frame)
         /\ Len(stack') = Len(stack) - 1
         /\ \A i \in 1..(Len(stack) - 1) : stack'[i].item = stack[i].item
         /\ \A i \in 1..(Len(stack) - 2) : stack'[i] = stack[i]
         /\ Len(stack) > 1 =>
              stack'[Len(stack) - 1].next = stack[Len(stack) - 1].next + 1
<1>1. CASE Len(stack) = 1
  BY <1>1 DEF Unwind
<1>2. CASE Len(stack) # 1
  <2> DEFINE rest == SubSeq(stack, 1, Len(stack) - 1)
  <2>a. Len(stack) \in Nat /\ Len(stack) > 1
    BY <1>2, EmptySeq
  <2>b. \A i \in 1..(Len(stack) - 1) : stack[i] \in Frame
    BY <2>a
  <2>1. /\ Len(stack) \in Nat /\ Len(stack) > 1
        /\ rest \in Seq(Frame) /\ Len(rest) = Len(stack) - 1
        /\ \A i \in 1..Len(rest) : rest[i] = stack[i]
    BY <2>a, <2>b, SubSeqProperties
  <2>2. rest[Len(stack) - 1] \in Frame
    BY <2>1
  <2>3. [rest[Len(stack) - 1] EXCEPT !.next = @ + 1] \in Frame
    <3> DEFINE f == rest[Len(stack) - 1]
    <3>1. f \in Frame
      BY <2>2
    <3> HIDE DEF f
    <3>2. [f EXCEPT !.next = f.next + 1] \in Frame
      BY <3>1 DEF Frame
    <3> QED BY <3>2 DEF f
  <2>4. stack' = [rest EXCEPT ![Len(stack) - 1] =
                    [rest[Len(stack) - 1] EXCEPT !.next = @ + 1]]
    BY <1>2 DEF Unwind
  <2> HIDE DEF rest
  <2> DEFINE last == [rest[Len(stack) - 1] EXCEPT !.next = @ + 1]
  <2>5. last \in Frame /\ last.item = rest[Len(stack) - 1].item
    BY <2>2, <2>3 DEF Frame
  <2>13. last.next = rest[Len(stack) - 1].next + 1
    BY <2>2 DEF Frame
  <2> HIDE DEF last
  <2>6. stack' = [rest EXCEPT ![Len(stack) - 1] = last]
    BY <2>4 DEF last
  <2>7. stack' \in Seq(Frame) /\ Len(stack') = Len(rest)
    BY <2>1, <2>5, <2>6
  <2>8. \A i \in 1..Len(rest) : i # Len(stack) - 1 => stack'[i] = rest[i]
    BY <2>1, <2>6
  <2>9. stack'[Len(stack) - 1] = last
    BY <2>1, <2>6
  <2>10. rest[Len(stack) - 1] = stack[Len(stack) - 1]
    BY <2>1
  <2>11. \A i \in 1..(Len(stack) - 2) : stack'[i] = stack[i]
    BY <2>1, <2>8
  <2>12. \A i \in 1..(Len(stack) - 1) : stack'[i].item = stack[i].item
    BY <2>1, <2>5, <2>8, <2>9, <2>10
  <2> QED BY <2>1, <2>13, <2>7, <2>9, <2>10, <2>11, <2>12
<1> QED BY <1>1, <1>2

\* Removing an element of a set vector leaves its other elements in order; for
\* the last element it is the front of the vector that remains.
LEMMA RemoveLastElement ==
  ASSUME NEW S, NEW s \in Seq(S), s # <<>>,
         \A i, j \in 1..Len(s) : s[i] = s[j] => i = j
  PROVE  /\ SetRemove(s, s[Len(s)]) \in Seq(S)
         /\ Len(SetRemove(s, s[Len(s)])) = Len(s) - 1
         /\ \A i \in 1..(Len(s) - 1) : SetRemove(s, s[Len(s)])[i] = s[i]
<1> DEFINE n == Len(s)
<1>1. n \in Nat /\ n > 0 /\ n \in 1..n
  OBVIOUS
<1>2. Holds(s, s[n])
  BY <1>1 DEF Holds
<1>3. IndexOf(s, s[n]) = n
  <2>1. \E i \in 1..n : s[i] = s[n]
    BY <1>1
  <2>2. IndexOf(s, s[n]) \in 1..n /\ s[IndexOf(s, s[n])] = s[n]
    BY <2>1 DEF IndexOf
  <2> QED BY <1>1, <2>2
<1>4. SetRemove(s, s[n]) = SubSeq(s, 1, n - 1) \o SubSeq(s, n + 1, n)
  BY <1>2, <1>3 DEF SetRemove, RemoveAt
<1>5. SubSeq(s, n + 1, n) = <<>>
  BY <1>1, SubSeqEmpty
<1>6. /\ SubSeq(s, 1, n - 1) \in Seq(S) /\ Len(SubSeq(s, 1, n - 1)) = n - 1
      /\ \A i \in 1..(n - 1) : SubSeq(s, 1, n - 1)[i] = s[i]
  <2>1. \A i \in 1..(n - 1) : s[i] \in S
    BY <1>1
  <2>2. 1 \in Int /\ n - 1 \in Int
    BY <1>1
  <2> HIDE DEF n
  <2> QED BY <1>1, <2>1, <2>2, SubSeqProperties
<1> HIDE DEF n
<1>7. SetRemove(s, s[n]) = SubSeq(s, 1, n - 1)
  BY <1>4, <1>5, <1>6, ConcatEmptySeq
<1> QED BY <1>6, <1>7 DEF n

\* A set vector stays one of the same elements when an element is removed.
LEMMA RemoveType ==
  ASSUME NEW S, NEW s \in Seq(S), NEW x
  PROVE  SetRemove(s, x) \in Seq(S)
<1>1. CASE Holds(s, x)
  <2>1. IndexOf(s, x) \in 1..Len(s)
    BY <1>1 DEF Holds, IndexOf
  <2>2. /\ SubSeq(s, 1, IndexOf(s, x) - 1) \in Seq(S)
        /\ SubSeq(s, IndexOf(s, x) + 1, Len(s)) \in Seq(S)
    BY <2>1
  <2> QED BY <1>1, <2>2 DEF SetRemove, RemoveAt
<1>2. CASE ~Holds(s, x)
  BY <1>2 DEF SetRemove
<1> QED BY <1>1, <1>2
-----------------------------------------------------------------------------
(* Loading one item *)

\* The resolved prefix of an item's with clauses is a sequence of paths that
\* the item needs.
LEMMA ResolvedPrefix ==
  ASSUME TypeOK, NEW item \in Path, NEW count \in 0..Len(files[item].withs),
         \A i \in 1..count : files[item].withs[i] \in DOMAIN pathTable
  PROVE  /\ Resolved(item, count) \in Seq(Path)
         /\ \A i \in 1..Len(Resolved(item, count)) :
              Resolved(item, count)[i] \in Needs(item)
<1> DEFINE w == files[item].withs
<1>1. w \in Seq(Name)
  BY DEF TypeOK, File
<1>2. Len(w) \in Nat /\ DOMAIN w = 1..Len(w)
  BY <1>1
<1>3. count \in Nat /\ \A i \in 1..count : i \in DOMAIN w
  BY <1>2
<1>4. \A i \in 1..count : w[i] \in Range(w) \cap DOMAIN pathTable
  BY <1>3 DEF Range
<1>5. \A i \in 1..count : pathTable[w[i]] \in Path /\ pathTable[w[i]] \in Needs(item)
  BY <1>4, PathAssumption DEF Needs
<1>6. Resolved(item, count) = [i \in 1..count |-> pathTable[w[i]]]
  BY DEF Resolved
<1> HIDE DEF w
<1>7. Resolved(item, count) \in Seq(Path) /\ Len(Resolved(item, count)) = count
  BY <1>3, <1>5, <1>6
<1> QED BY <1>5, <1>6, <1>7

\* Loading an item, whether or not it succeeds, keeps the dependents typed and
\* needed, and does not touch another item.
LEMMA LoadStep ==
  ASSUME TypeOK, DependentsAreNeeded, NEW item \in Path, files' = files,
         \/ ~LoadFails(item) /\ dependents' = loadDependencies(item)
         \/ loadPartly(item)
  PROVE  /\ dependents' \in [Path -> Seq(Path)]
         /\ DependentsAreNeeded'
         /\ \A q \in Path : q # item => dependents'[q] = dependents[q]
<1>1. dependents \in [Path -> Seq(Path)]
  BY DEF TypeOK
<1>2. \A p \in Path : Needs(p)' = Needs(p)
  BY DEF Needs
<1>3. CASE dependents' = dependents
  BY <1>1, <1>2, <1>3 DEF DependentsAreNeeded
<1>4. ASSUME NEW count \in 0..Len(files[item].withs),
             \A i \in 1..count : files[item].withs[i] \in DOMAIN pathTable,
             dependents' = [dependents EXCEPT ![item] = Resolved(item, count)]
      PROVE  /\ dependents' \in [Path -> Seq(Path)]
             /\ DependentsAreNeeded'
             /\ \A q \in Path : q # item => dependents'[q] = dependents[q]
  <2>1. /\ Resolved(item, count) \in Seq(Path)
        /\ \A i \in 1..Len(Resolved(item, count)) :
             Resolved(item, count)[i] \in Needs(item)
    BY <1>4, ResolvedPrefix
  <2>2. /\ dependents' \in [Path -> Seq(Path)]
        /\ \A q \in Path : q # item => dependents'[q] = dependents[q]
        /\ dependents'[item] = Resolved(item, count)
    BY <1>1, <1>4, <2>1
  <2>3. ASSUME NEW p \in Path, NEW i \in 1..Len(dependents'[p])
        PROVE  dependents'[p][i] \in Needs(p)'
    <3>1. CASE p = item
      BY <1>2, <2>1, <2>2, <2>3, <3>1
    <3>2. CASE p # item
      BY <1>2, <2>2, <2>3, <3>2 DEF DependentsAreNeeded
    <3> QED BY <3>1, <3>2
  <2> QED BY <2>2, <2>3 DEF DependentsAreNeeded
<1>5. /\ files[item].withs \in Seq(Name)
      /\ Len(files[item].withs) \in Nat
      /\ DOMAIN files[item].withs = 1..Len(files[item].withs)
  BY DEF TypeOK, File
<1>6. CASE ~LoadFails(item) /\ dependents' = loadDependencies(item)
  <2>1. CASE dependents[item] # <<>>
    BY <1>3, <1>6, <2>1 DEF loadDependencies
  <2>2. CASE dependents[item] = <<>>
    <3>1. Unresolved(item) = {}
      BY <1>6, <2>2 DEF LoadFails
    <3>2. \A i \in 1..Len(files[item].withs) : files[item].withs[i] \in DOMAIN pathTable
      BY <1>5, <3>1 DEF Unresolved
    <3>3. dependents' = [dependents EXCEPT ![item] =
                           Resolved(item, Len(files[item].withs))]
      BY <1>6, <2>2 DEF loadDependencies
    <3>4. Len(files[item].withs) \in 0..Len(files[item].withs)
      BY <1>5
    <3> QED BY <1>4, <3>2, <3>3, <3>4
  <2> QED BY <2>1, <2>2
<1>7. CASE loadPartly(item)
  <2>1. CASE ~files[item].parses
    BY <1>3, <1>7, <2>1 DEF loadPartly
  <2>2. CASE files[item].parses
    <3>1. PICK k \in Unresolved(item) :
            /\ \A i \in 1..(k - 1) : i \notin Unresolved(item)
            /\ dependents' = [dependents EXCEPT ![item] = Resolved(item, k - 1)]
      BY <1>7, <2>2 DEF loadPartly
    <3>2. k \in 1..Len(files[item].withs)
      BY <1>5 DEF Unresolved
    <3>3. k - 1 \in 0..Len(files[item].withs)
      BY <1>5, <3>2
    <3>4. \A i \in 1..(k - 1) : files[item].withs[i] \in DOMAIN pathTable
      BY <1>5, <3>1, <3>2 DEF Unresolved
    <3> QED BY <1>4, <3>1, <3>3, <3>4
  <2> QED BY <2>1, <2>2
<1> QED BY <1>6, <1>7
-----------------------------------------------------------------------------
(* The invariant *)

\* The activation on top visits a path.
LEMMA VisitedPath ==
  ASSUME TypeOK, Visiting
  PROVE  /\ Len(stack) \in Nat \ {0} /\ Top \in Frame
         /\ Top.next \in 1..Len(dependents[Top.item])
         /\ Sub \in Path
<1>1. stack \in Seq(Frame) /\ stack # <<>>
  BY DEF TypeOK, Visiting
<1>2. Len(stack) \in Nat \ {0}
  BY <1>1, EmptySeq
<1>3. Top \in Frame
  BY <1>1, <1>2 DEF Top
<1>4. Top.item \in Path /\ Top.next \in Nat \ {0}
  BY <1>3 DEF Frame
<1>5. dependents[Top.item] \in Seq(Path)
  BY <1>4 DEF TypeOK
<1>6. Top.next \in 1..Len(dependents[Top.item])
  BY <1>4, <1>5 DEF Visiting
<1>7. Sub \in Path
  BY <1>5, <1>6 DEF Sub
<1> QED BY <1>2, <1>3, <1>6, <1>7

\* A report that does not change, or that is empty, needs no new argument.
LEMMA SameReport ==
  ASSUME ReportIsCycle, files' = files, report' = report \/ report' = <<>>
  PROVE  ReportIsCycle'
<1>1. \A p : Needs(p)' = Needs(p)
  BY DEF Needs
<1>2. CASE report' = report
  BY <1>1, <1>2 DEF ReportIsCycle
<1>3. CASE report' = <<>>
  BY <1>3 DEF ReportIsCycle
<1> QED BY <1>2, <1>3

\* Nor do dependents that do not change.
LEMMA SameDependents ==
  ASSUME DependentsAreNeeded, files' = files, dependents' = dependents
  PROVE  DependentsAreNeeded'
<1>1. \A p : Needs(p)' = Needs(p)
  BY DEF Needs
<1> QED BY <1>1 DEF DependentsAreNeeded

\* Entering a dependent extends the chain by one link.
LEMMA LoadSubInductive ==
  ASSUME IInv, loadSub
  PROVE  IInv'
<1>1. /\ Len(stack) \in Nat \ {0} /\ Top \in Frame /\ Sub \in Path
      /\ Top.next \in 1..Len(dependents[Top.item])
  BY VisitedPath DEF IInv, loadSub
<1>2. /\ dependents' \in [Path -> Seq(Path)]
      /\ DependentsAreNeeded'
      /\ \A q \in Path : q # Sub => dependents'[q] = dependents[q]
  BY <1>1, LoadStep DEF IInv, loadSub
<1>3. Enter(Sub) \in Frame
  BY <1>1 DEF Enter, Frame
<1>4. stack \in Seq(Frame) /\ cycleTable \in Seq(Path)
  BY DEF IInv, TypeOK
<1>5. /\ stack' \in Seq(Frame) /\ Len(stack') = Len(stack) + 1
      /\ \A i \in 1..Len(stack) : stack'[i] = stack[i]
      /\ stack'[Len(stack) + 1] = Enter(Sub)
  BY <1>3, <1>4, AppendProperties DEF loadSub
<1>6. /\ cycleTable' \in Seq(Path) /\ Len(cycleTable') = Len(cycleTable) + 1
      /\ \A i \in 1..Len(cycleTable) : cycleTable'[i] = cycleTable[i]
      /\ cycleTable'[Len(cycleTable) + 1] = Sub
  BY <1>1, <1>4, AppendProperties DEF loadSub
<1>7. TypeOK'
  BY <1>2, <1>5, <1>6 DEF IInv, TypeOK, loadSub
<1>8. CycleTableIsChain'
  <2>1. /\ Len(cycleTable) = Len(stack)
        /\ \A i \in 1..Len(stack) : cycleTable[i] = stack[i].item
        /\ \A i, j \in 1..Len(cycleTable) : cycleTable[i] = cycleTable[j] => i = j
        /\ \A i \in 1..(Len(stack) - 1) :
             /\ stack[i].next \in 1..Len(dependents[stack[i].item])
             /\ stack[i + 1].item = dependents[stack[i].item][stack[i].next]
    BY DEF IInv, CycleTableIsChain, loadSub
  <2>2. \A i \in 1..Len(stack) : cycleTable[i] # Sub
    BY <2>1 DEF loadSub, Holds
  <2>3. \A i \in 1..Len(stack) :
          stack[i].item \in Path /\ dependents'[stack[i].item] = dependents[stack[i].item]
    <3>1. \A i \in 1..Len(stack) : stack[i] \in Frame
      BY <1>4
    <3>2. \A i \in 1..Len(stack) : stack[i].item \in Path
      BY <3>1 DEF Frame
    <3> QED BY <1>2, <2>1, <2>2, <3>2
  <2>4. Enter(Sub).item = Sub
    BY DEF Enter
  <2>5. \A i \in 1..Len(stack') : cycleTable'[i] = stack'[i].item
    BY <1>1, <1>5, <1>6, <2>1, <2>4
  <2>6. \A i, j \in 1..Len(cycleTable') : cycleTable'[i] = cycleTable'[j] => i = j
    BY <1>1, <1>6, <2>1, <2>2
  <2>7. ASSUME NEW i \in 1..(Len(stack') - 1)
        PROVE  /\ stack'[i].next \in 1..Len(dependents'[stack'[i].item])
               /\ stack'[i + 1].item = dependents'[stack'[i].item][stack'[i].next]
    <3>1. i \in 1..Len(stack) /\ stack'[i] = stack[i]
      BY <1>1, <1>5
    <3>2. CASE i < Len(stack)
      <4>1. i \in 1..(Len(stack) - 1) /\ i + 1 \in 1..Len(stack)
        BY <1>1, <3>1, <3>2
      <4>2. stack'[i + 1] = stack[i + 1]
        BY <1>5, <4>1
      <4>3. dependents'[stack[i].item] = dependents[stack[i].item]
        BY <2>3, <3>1
      <4> QED BY <2>1, <3>1, <4>1, <4>2, <4>3
    <3>3. CASE i = Len(stack)
      <4>1. stack'[i + 1].item = Sub /\ stack'[i] = Top
        BY <1>5, <2>4, <3>1, <3>3 DEF Top
      <4>2. dependents'[Top.item] = dependents[Top.item]
        BY <2>3, <3>1, <3>3 DEF Top
      <4> QED BY <1>1, <4>1, <4>2 DEF Sub
    <3> QED BY <1>1, <3>1, <3>2, <3>3
  <2> QED BY <1>5, <1>6, <2>1, <2>5, <2>6, <2>7 DEF CycleTableIsChain
<1>9. ReportIsCycle'
  BY SameReport DEF IInv, loadSub
<1> QED BY <1>2, <1>7, <1>8, <1>9 DEF IInv

\* Returning from a dependent takes the last link off.
LEMMA LoadReturnInductive ==
  ASSUME IInv, loadSubReturns
  PROVE  IInv'
<1>1. stack \in Seq(Frame) /\ stack # <<>> /\ cycleTable \in Seq(Path)
  BY DEF IInv, TypeOK, loadSubReturns, AtEnd
<1>2. Len(stack) \in Nat \ {0}
  BY <1>1, EmptySeq
<1>3. /\ Len(cycleTable) = Len(stack)
      /\ \A i \in 1..Len(stack) : cycleTable[i] = stack[i].item
      /\ \A i, j \in 1..Len(cycleTable) : cycleTable[i] = cycleTable[j] => i = j
      /\ \A i \in 1..(Len(stack) - 1) :
           /\ stack[i].next \in 1..Len(dependents[stack[i].item])
           /\ stack[i + 1].item = dependents[stack[i].item][stack[i].next]
  BY DEF IInv, CycleTableIsChain, loadSubReturns
<1>4. cycleTable # <<>> /\ Top.item = cycleTable[Len(cycleTable)]
  BY <1>2, <1>3, EmptySeq DEF Top
<1>5. /\ cycleTable' \in Seq(Path) /\ Len(cycleTable') = Len(stack) - 1
      /\ \A i \in 1..(Len(stack) - 1) : cycleTable'[i] = cycleTable[i]
  BY <1>1, <1>3, <1>4, RemoveLastElement DEF loadSubReturns
<1>6. /\ stack' \in Seq(Frame) /\ Len(stack') = Len(stack) - 1
      /\ \A i \in 1..(Len(stack) - 1) : stack'[i].item = stack[i].item
      /\ \A i \in 1..(Len(stack) - 2) : stack'[i] = stack[i]
  BY <1>1, UnwindType DEF loadSubReturns
<1>7. TypeOK'
  BY <1>5, <1>6 DEF IInv, TypeOK, loadSubReturns, Statuses
<1>8. CycleTableIsChain'
  <2>1. \A i \in 1..Len(stack') : cycleTable'[i] = stack'[i].item
    <3>1. ASSUME NEW i \in 1..(Len(stack) - 1)
          PROVE  cycleTable'[i] = stack'[i].item
      <4>1. i \in 1..Len(stack)
        BY <1>2
      <4>2. cycleTable[i] = stack[i].item
        BY <4>1, <1>3
      <4> QED BY <4>2, <1>5, <1>6
    <3>2. Len(stack') = Len(stack) - 1
      BY <1>6
    <3> QED BY <3>1, <3>2
  <2>2. \A i, j \in 1..Len(cycleTable') : cycleTable'[i] = cycleTable'[j] => i = j
    <3>1. ASSUME NEW i \in 1..(Len(stack) - 1), NEW j \in 1..(Len(stack) - 1),
                 cycleTable'[i] = cycleTable'[j]
          PROVE  i = j
      <4>1. i \in 1..Len(cycleTable) /\ j \in 1..Len(cycleTable)
        BY <1>2, <1>3
      <4>2. cycleTable[i] = cycleTable[j]
        BY <1>5, <3>1
      <4> QED BY <4>1, <4>2, <1>3
    <3>2. Len(cycleTable') = Len(stack) - 1
      BY <1>5
    <3> QED BY <3>1, <3>2
  <2>3. ASSUME NEW i \in 1..(Len(stack') - 1)
        PROVE  /\ stack'[i].next \in 1..Len(dependents'[stack'[i].item])
               /\ stack'[i + 1].item = dependents'[stack'[i].item][stack'[i].next]
    <3>1. i \in 1..(Len(stack) - 2) /\ i + 1 \in 1..(Len(stack) - 1)
          /\ i \in 1..(Len(stack) - 1)
      BY <1>2, <1>6
    <3>2. stack'[i] = stack[i] /\ stack'[i + 1].item = stack[i + 1].item
      BY <1>6, <3>1
    <3> QED BY <1>3, <3>1, <3>2 DEF loadSubReturns
  <2> QED BY <1>5, <1>6, <2>1, <2>2, <2>3 DEF CycleTableIsChain
<1>9. ReportIsCycle' /\ DependentsAreNeeded'
  BY SameReport, SameDependents DEF IInv, loadSubReturns
<1> QED BY <1>7, <1>8, <1>9 DEF IInv

\* A reported cycle is closed: its links are those of the chain, and the last
\* one is the dependency that was found on the chain.
LEMMA ReportCycleInductive ==
  ASSUME IInv, reportCycle
  PROVE  IInv'
<1>1. /\ Len(stack) \in Nat \ {0} /\ Top \in Frame /\ Sub \in Path
      /\ Top.next \in 1..Len(dependents[Top.item])
  BY VisitedPath DEF IInv, reportCycle
<1>2. stack \in Seq(Frame) /\ cycleTable \in Seq(Path)
  BY DEF IInv, TypeOK
<1>3. /\ Len(cycleTable) = Len(stack)
      /\ \A i \in 1..Len(stack) : cycleTable[i] = stack[i].item
      /\ \A i \in 1..(Len(stack) - 1) :
           /\ stack[i].next \in 1..Len(dependents[stack[i].item])
           /\ stack[i + 1].item = dependents[stack[i].item][stack[i].next]
  BY DEF IInv, CycleTableIsChain, reportCycle
<1> DEFINE k == IndexOf(cycleTable, Sub)
           n == Len(cycleTable)
<1>4. k \in 1..n /\ cycleTable[k] = Sub
  BY DEF reportCycle, Holds, IndexOf
<1>5. n \in Nat \ {0} /\ k \in Int /\ n \in Int
  BY <1>1, <1>3, <1>4
<1> HIDE DEF k, n
<1>6. report' = SubSeq(cycleTable, k, n)
  BY DEF reportCycle, k, n
<1>7. \A i \in k..n : cycleTable[i] \in Path
  BY <1>2, <1>4, <1>5 DEF n
<1>8. /\ report' \in Seq(Path) /\ Len(report') = (n - k) + 1
      /\ \A i \in 1..((n - k) + 1) : report'[i] = cycleTable[k + i - 1]
  <2>1. /\ SubSeq(cycleTable, k, n) \in Seq(Path)
        /\ Len(SubSeq(cycleTable, k, n)) = (n - k) + 1
    BY <1>2, <1>4, <1>5, <1>7, SubSeqProperties
  <2>2. \A i \in 1..((n - k) + 1) : SubSeq(cycleTable, k, n)[i] = cycleTable[k + i - 1]
    BY <1>2, <1>4, <1>5, <1>7, SubSeqProperties
  <2> QED BY <1>6, <2>1, <2>2
<1>9. \A i \in 1..n : stack[i] \in Frame /\ stack[i].item \in Path
  <2>1. \A i \in 1..n : stack[i] \in Frame
    BY <1>2, <1>3 DEF n
  <2> QED BY <2>1 DEF Frame
<1>10. \A i \in 1..(n - 1) : cycleTable[i + 1] \in Needs(cycleTable[i])
  <2> SUFFICES ASSUME NEW i \in 1..(n - 1)
               PROVE  cycleTable[i + 1] \in Needs(cycleTable[i])
    OBVIOUS
  <2>1. i \in 1..n /\ i + 1 \in 1..n
    BY <1>5
  <2>2. dependents[stack[i].item][stack[i].next] \in Needs(stack[i].item)
    BY <1>3, <1>9, <2>1 DEF IInv, DependentsAreNeeded, n
  <2> QED BY <1>3, <2>1, <2>2 DEF n
<1>11. Sub \in Needs(cycleTable[n])
  <2>1. Top = stack[n] /\ Top.item = cycleTable[n] /\ Top.item \in Path
    BY <1>1, <1>3, <1>5, <1>9 DEF Top, n
  <2> QED BY <1>1, <2>1 DEF IInv, DependentsAreNeeded, Sub
<1>12. ReportIsCycle'
  <2>1. \A p : Needs(p)' = Needs(p)
    BY DEF Needs, reportCycle, Fail
  <2>2. ASSUME NEW i \in 1..Len(report')
        PROVE  report'[IF i = Len(report') THEN 1 ELSE i + 1] \in Needs(report'[i])
    <3>1. CASE i = Len(report')
      <4>1. report'[i] = cycleTable[n] /\ report'[1] = cycleTable[k]
        BY <1>4, <1>5, <1>8, <3>1
      <4> QED BY <1>4, <1>11, <3>1, <4>1
    <3>2. CASE i # Len(report')
      <4>1. k + i - 1 \in 1..(n - 1) /\ i + 1 \in 1..((n - k) + 1)
        BY <1>4, <1>5, <1>8, <3>2
      <4>2. report'[i] = cycleTable[k + i - 1] /\ report'[i + 1] = cycleTable[(k + i - 1) + 1]
        BY <1>4, <1>5, <1>8, <4>1
      <4> QED BY <1>10, <3>2, <4>1, <4>2
    <3> QED BY <3>1, <3>2
  <2> QED BY <2>1, <2>2 DEF ReportIsCycle
<1>13. TypeOK'
  BY <1>8 DEF IInv, TypeOK, reportCycle, Fail, Statuses
<1>14. CycleTableIsChain'
  BY DEF CycleTableIsChain, reportCycle, Fail
<1>15. DependentsAreNeeded'
  BY SameDependents DEF IInv, reportCycle, Fail
<1> QED BY <1>12, <1>13, <1>14, <1>15 DEF IInv

\* A failed load leaves typed and needed dependents and an empty chain.
LEMMA FailInductive ==
  ASSUME IInv, NEW item \in Path, loadPartly(item), Fail, report' = <<>>
  PROVE  IInv'
<1>1. files' = files
  BY DEF Fail
<1>2. dependents' \in [Path -> Seq(Path)] /\ DependentsAreNeeded'
  BY <1>1, LoadStep DEF IInv
<1>3. TypeOK'
  BY <1>2 DEF IInv, TypeOK, Fail, Statuses
<1>4. CycleTableIsChain'
  BY DEF CycleTableIsChain, Fail
<1>5. ReportIsCycle'
  BY <1>1, SameReport DEF IInv
<1> QED BY <1>2, <1>3, <1>4, <1>5 DEF IInv

\* The root starts a chain of one item.
LEMMA GetSourceItemInductive ==
  ASSUME IInv, getSourceItem
  PROVE  IInv'
<1>1. Root \in Path
  BY PathAssumption
<1>2. CASE loadPartly(Root) /\ Fail
  BY <1>1, <1>2, FailInductive DEF getSourceItem
<1>3. CASE ~(loadPartly(Root) /\ Fail)
  <2>1. /\ ~LoadFails(Root) /\ dependents' = loadDependencies(Root)
        /\ cycleTable' = <<Root>> /\ stack' = <<Enter(Root)>>
        /\ status' = "loading" /\ report' = <<>>
        /\ files' = files /\ sources' = sources
    BY <1>3 DEF getSourceItem
  <2>2. dependents' \in [Path -> Seq(Path)] /\ DependentsAreNeeded'
    BY <1>1, <2>1, LoadStep DEF IInv
  <2>3. Enter(Root) \in Frame /\ Enter(Root).item = Root
    BY <1>1 DEF Enter, Frame
  <2>4. TypeOK'
    BY <1>1, <2>1, <2>2, <2>3 DEF IInv, TypeOK, Statuses
  <2>5. CycleTableIsChain'
    BY <2>1, <2>3 DEF CycleTableIsChain
  <2>6. ReportIsCycle'
    BY <2>1, SameReport DEF IInv
  <2> QED BY <2>2, <2>4, <2>5, <2>6 DEF IInv
<1> QED BY <1>2, <1>3

\* The extraction works on a graph and a table that no longer change.
LEMMA ExtractInductive ==
  ASSUME IInv, extractDependencies \/ insertDependency \/ insertReturns
  PROVE  IInv'
<1>1. /\ files' = files /\ dependents' = dependents
      /\ cycleTable' = cycleTable /\ report' = report
  BY DEF extractDependencies, insertDependency, insertReturns
<1>2. status' \in Statuses /\ status' # "loading"
  BY DEF extractDependencies, insertDependency, insertReturns, Statuses
<1>3. stack' \in Seq(Frame) /\ sources' \in Seq(Path)
  <2>1. CASE extractDependencies
    <3>1. Root \in Path /\ Enter(Root) \in Frame
      BY PathAssumption DEF Enter, Frame
    <3> QED BY <2>1, <3>1 DEF extractDependencies
  <2>2. CASE insertDependency
    <3>1. Sub \in Path
      BY <2>2, VisitedPath DEF IInv, insertDependency
    <3>2. Enter(Sub) \in Frame
      BY <3>1 DEF Enter, Frame
    <3>3. SetRemove(sources, Sub) \in Seq(Path)
      BY RemoveType DEF IInv, TypeOK
    <3> QED BY <2>2, <3>1, <3>2, <3>3, AppendProperties DEF IInv, TypeOK, insertDependency
  <2>3. CASE insertReturns
    BY <2>3, UnwindType DEF IInv, TypeOK, insertReturns, AtEnd
  <2> QED BY <2>1, <2>2, <2>3
<1>4. TypeOK'
  BY <1>1, <1>2, <1>3 DEF IInv, TypeOK
<1>5. CycleTableIsChain'
  BY <1>2 DEF CycleTableIsChain
<1>6. ReportIsCycle' /\ DependentsAreNeeded'
  BY <1>1, SameReport, SameDependents DEF IInv
<1> QED BY <1>4, <1>5, <1>6 DEF IInv

\* A step that changes nothing keeps the invariant.
LEMMA StutterInductive ==
  ASSUME IInv, UNCHANGED smVars
  PROVE  IInv'
<1>1. /\ files' = files /\ dependents' = dependents /\ report' = report
      /\ cycleTable' = cycleTable /\ stack' = stack /\ status' = status
      /\ sources' = sources
  BY DEF smVars
<1>2. TypeOK' /\ CycleTableIsChain'
  BY <1>1 DEF IInv, TypeOK, CycleTableIsChain
<1>3. ReportIsCycle' /\ DependentsAreNeeded'
  BY <1>1, SameReport, SameDependents DEF IInv
<1> QED BY <1>2, <1>3 DEF IInv

\* A SourceManager that has just been constructed satisfies the invariant.
LEMMA InitIInv ==
  ASSUME smInit
  PROVE  IInv
<1>1. TypeOK
  BY PathAssumption DEF smInit, TypeOK, Statuses
<1>2. CycleTableIsChain /\ ReportIsCycle /\ DependentsAreNeeded
  BY DEF smInit, CycleTableIsChain, ReportIsCycle, DependentsAreNeeded
<1> QED BY <1>1, <1>2 DEF IInv
\* Every step of the loader keeps the invariant.
LEMMA LoaderStep ==
  ASSUME IInv, [smNext]_smVars
  PROVE  IInv'
<1>1. CASE getSourceItem
  BY <1>1, GetSourceItemInductive
<1>2. CASE loadSub
  BY <1>2, LoadSubInductive
<1>3. CASE loadSubFails
  <2>1. Sub \in Path
    BY <1>3, VisitedPath DEF IInv, loadSubFails
  <2> QED BY <1>3, <2>1, FailInductive DEF loadSubFails
<1>4. CASE reportCycle
  BY <1>4, ReportCycleInductive
<1>5. CASE loadSubReturns
  BY <1>5, LoadReturnInductive
<1>6. CASE extractDependencies \/ insertDependency \/ insertReturns
  BY <1>6, ExtractInductive
<1>7. CASE UNCHANGED smVars
  BY <1>7, StutterInductive
<1> QED BY <1>1, <1>2, <1>3, <1>4, <1>5, <1>6, <1>7 DEF smNext
-----------------------------------------------------------------------------
(* What loading establishes *)

\* The item's text is in order and its dependents are all of its with clauses.
Whole(p) == WellFormed(p) /\ dependents[p] = Resolved(p, Len(files[p].withs))

\* A set of loaded items that needs nothing outside it and has no cycle.
Settled(S) == (\A p \in S : Whole(p) /\ Needs(p) \subseteq S) /\ Acyclic(S)

\* The items that belong to such a set.
AllSettled == UNION {S \in SUBSET Path : Settled(S)}

\* The input file needs a cycle, or a file that is not in order.
Faulty == ~Acyclic(Reachable) \/ \E p \in Reachable : ~WellFormed(p)

\* What loading has established so far.  The items on the stack are loaded
\* and needed by the root, and the dependents their loops have passed are
\* settled; when the outermost loop ends, so is the root.  An item that still
\* has an empty list of dependents may not have been loaded: nothing else may
\* be read off the lists than that a non-empty one is complete, which is what
\* lets loadDependencies skip it.
LoadInv ==
  /\ status # "failed" => \A p \in Path : dependents[p] # <<>> => Whole(p)
  /\ status = "loading" =>
       /\ Len(stack) > 0 /\ stack[1].item = Root
       /\ \A i \in 1..Len(stack) :
            /\ Whole(stack[i].item) /\ stack[i].item \in Reachable
            /\ \A j \in 1..Len(dependents[stack[i].item]) :
                 j < stack[i].next => dependents[stack[i].item][j] \in AllSettled
  /\ status \in {"loaded", "extracting", "ready"} => Root \in AllSettled
  /\ status = "failed" => Faulty

\* What the text of the files says does not change with the loader's state.
LEMMA SameFiles ==
  ASSUME files' = files
  PROVE  /\ \A p : Needs(p)' = Needs(p)
         /\ \A p : WellFormed(p)' = WellFormed(p)
         /\ \A S : Acyclic(S)' = Acyclic(S)
         /\ \A p, n : Resolved(p, n)' = Resolved(p, n)
         /\ Reachable' = Reachable /\ Faulty' = Faulty
<1>1. /\ \A p : Needs(p)' = Needs(p)
      /\ \A p : WellFormed(p)' = WellFormed(p)
      /\ \A p, n : Resolved(p, n)' = Resolved(p, n)
  BY DEF Needs, WellFormed, Resolved
<1>2. \A S : Acyclic(S)' = Acyclic(S)
  BY <1>1, Zenon DEF Acyclic
<1>3. Reachable' = Reachable
  BY <1>1, Zenon DEF Reachable
<1>4. Faulty' = Faulty
  BY <1>1, <1>2, <1>3, Zenon DEF Faulty
<1> QED BY <1>1, <1>2, <1>3, <1>4

\* An item needs items.
LEMMA NeedsArePaths ==
  ASSUME TypeOK, NEW p \in Path
  PROVE  Needs(p) \subseteq Path
BY PathAssumption DEF Needs

\* Reachable is the least set that holds the root and what its members need.
LEMMA ReachableFacts ==
  ASSUME TypeOK
  PROVE  /\ Root \in Reachable /\ Reachable \subseteq Path
         /\ \A p \in Reachable : Needs(p) \subseteq Reachable
         /\ \A S \in SUBSET Path :
              Root \in S /\ (\A q \in S : Needs(q) \subseteq S) => Reachable \subseteq S
<1>1. Root \in Reachable /\ Reachable \subseteq Path
  BY PathAssumption DEF Reachable
<1>2. ASSUME NEW p \in Reachable, NEW d \in Needs(p) PROVE d \in Reachable
  <2>1. p \in Path
    BY <1>1
  <2>2. d \in Path
    BY <2>1, NeedsArePaths
  <2> QED BY <2>2 DEF Reachable
<1> QED BY <1>1, <1>2 DEF Reachable

\* The dependents of a whole item are exactly the items it needs.
LEMMA WholeNeeds ==
  ASSUME TypeOK, NEW p \in Path, Whole(p)
  PROVE  /\ \A d \in Needs(p) : \E j \in 1..Len(dependents[p]) : dependents[p][j] = d
         /\ \A j \in 1..Len(dependents[p]) : dependents[p][j] \in Needs(p)
<1> DEFINE w == files[p].withs
<1>1. w \in Seq(Name) /\ Len(w) \in Nat /\ DOMAIN w = 1..Len(w)
  BY DEF TypeOK, File
<1>2. \A i \in 1..Len(w) : w[i] \in DOMAIN pathTable
  BY <1>1 DEF Whole, WellFormed, Range
<1>3. dependents[p] = [i \in 1..Len(w) |-> pathTable[w[i]]]
  BY DEF Whole, Resolved
<1>4. Len(dependents[p]) = Len(w)
  <2>1. \A i \in 1..Len(w) : pathTable[w[i]] \in Path
    BY <1>2, PathAssumption
  <2> QED BY <1>1, <1>3, <2>1
<1>5. Needs(p) = {pathTable[n] : n \in {w[i] : i \in 1..Len(w)} \cap DOMAIN pathTable}
  BY <1>1 DEF Needs, Range
<1> QED BY <1>2, <1>3, <1>4, <1>5

\* A load that succeeds makes the item whole and leaves whole items whole, also
\* when the item had been loaded before.
LEMMA LoadWhole ==
  ASSUME TypeOK, NEW item \in Path, files' = files, ~LoadFails(item),
         dependents' = loadDependencies(item),
         \A p \in Path : dependents[p] # <<>> => Whole(p)
  PROVE  /\ Whole(item)'
         /\ \A p \in Path : Whole(p) => Whole(p)'
         /\ \A p \in Path : dependents'[p] # <<>> => Whole(p)'
<1>1. dependents \in [Path -> Seq(Path)]
  BY DEF TypeOK
<1>2. CASE dependents[item] # <<>>
  <2>1. dependents' = dependents
    BY <1>2 DEF loadDependencies
  <2>2. \A p \in Path : Whole(p) => Whole(p)'
    BY <2>1, SameFiles DEF Whole
  <2> QED BY <1>2, <2>1, <2>2
<1>3. CASE dependents[item] = <<>>
  <2>1. dependents' = [dependents EXCEPT ![item] = Resolved(item, Len(files[item].withs))]
    BY <1>3 DEF loadDependencies
  <2>2. WellFormed(item)
    <3>1. files[item].parses /\ Unresolved(item) = {}
      BY <1>3 DEF LoadFails
    <3> QED BY <3>1 DEF WellFormed, Unresolved, Range
  <2>3. Whole(item)'
    BY <1>1, <2>1, <2>2, SameFiles DEF Whole
  <2>4. \A p \in Path : p # item => dependents'[p] = dependents[p]
    BY <1>1, <2>1
  <2>5. \A p \in Path : p # item /\ Whole(p) => Whole(p)'
    BY <2>4, SameFiles DEF Whole
  <2> QED BY <2>3, <2>4, <2>5
<1> QED BY <1>2, <1>3

\* Settled items stay settled while whole items stay whole.
LEMMA SettledKept ==
  ASSUME files' = files, \A p \in Path : Whole(p) => Whole(p)'
  PROVE  AllSettled \subseteq AllSettled'
<1>1. ASSUME NEW S \in SUBSET Path, Settled(S) PROVE Settled(S)'
  BY <1>1, SameFiles DEF Settled
<1> QED BY <1>1 DEF AllSettled

\* The settled items together are settled: a cycle among them would have to lie
\* in one of the sets.
LEMMA SettledTogether == AllSettled \in SUBSET Path /\ Settled(AllSettled)
<1> DEFINE U == AllSettled
<1>1. U \in SUBSET Path
  BY DEF AllSettled
<1>2. \A p \in U : \E S \in SUBSET Path : Settled(S) /\ p \in S
  BY DEF AllSettled
<1>3. \A S \in SUBSET Path : Settled(S) => S \subseteq U
  BY DEF AllSettled
<1> HIDE DEF U
<1>4. \A p \in U : Whole(p) /\ Needs(p) \subseteq U
  BY <1>2, <1>3 DEF Settled
<1>5. ASSUME NEW T \in SUBSET U, T # {} PROVE \E p \in T : Needs(p) \cap T = {}
  <2>1. PICK y \in T : TRUE
    BY <1>5
  <2>2. PICK S \in SUBSET Path : Settled(S) /\ y \in S
    BY <1>2, <2>1
  <2>3. T \cap S \in SUBSET S /\ T \cap S # {}
    BY <2>1, <2>2
  <2>4. PICK p \in T \cap S : Needs(p) \cap (T \cap S) = {}
    BY <2>2, <2>3 DEF Settled, Acyclic
  <2>5. Needs(p) \subseteq S
    BY <2>2, <2>4 DEF Settled
  <2> QED BY <2>4, <2>5
<1>6. Settled(U)
  BY <1>4, <1>5 DEF Settled, Acyclic
<1> QED BY <1>1, <1>6 DEF U

\* A whole item is settled when all its dependents are.
LEMMA SettledItem ==
  ASSUME TypeOK, NEW x \in Path, Whole(x),
         \A j \in 1..Len(dependents[x]) : dependents[x][j] \in AllSettled
  PROVE  x \in AllSettled
<1> DEFINE U == AllSettled
           S == U \cup {x}
<1>1. U \in SUBSET Path /\ Settled(U)
  BY SettledTogether
<1>2. Needs(x) \subseteq U
  BY WholeNeeds
<1> HIDE DEF U
<1>3. CASE x \in U
  BY <1>3 DEF U
<1>4. CASE x \notin U
  <2>1. ASSUME NEW T \in SUBSET S, T # {} PROVE \E p \in T : Needs(p) \cap T = {}
    <3>1. CASE T \cap U = {}
      <4>1. x \in T /\ Needs(x) \cap T = {}
        BY <1>2, <2>1, <3>1
      <4> QED BY <4>1
    <3>2. CASE T \cap U # {}
      <4>1. PICK p \in T \cap U : Needs(p) \cap (T \cap U) = {}
        BY <1>1, <3>2 DEF Settled, Acyclic
      <4>2. Needs(p) \subseteq U
        BY <1>1, <4>1 DEF Settled
      <4> QED BY <4>1, <4>2
    <3> QED BY <3>1, <3>2
  <2>2. Settled(S)
    BY <1>1, <1>2, <2>1 DEF Settled, Acyclic
  <2>3. S \in SUBSET Path /\ x \in S
    BY <1>1
  <2> HIDE DEF S
  <2> QED BY <2>2, <2>3 DEF AllSettled
<1> QED BY <1>3, <1>4

\* Once the root is settled, everything it needs is in order and acyclic.
LEMMA RootSettled ==
  ASSUME TypeOK, Root \in AllSettled
  PROVE  Acyclic(Reachable) /\ (\A p \in Reachable : WellFormed(p)) /\ Reachable \subseteq AllSettled
<1>1. AllSettled \in SUBSET Path /\ Settled(AllSettled)
  BY SettledTogether
<1>2. Reachable \subseteq AllSettled
  BY <1>1, ReachableFacts DEF Settled
<1>3. \A p \in Reachable : WellFormed(p)
  BY <1>1, <1>2 DEF Settled, Whole
<1>4. Acyclic(Reachable)
  <2>1. Acyclic(AllSettled)
    BY <1>1 DEF Settled
  <2> QED BY <1>2, <2>1 DEF Acyclic
<1> QED BY <1>2, <1>3, <1>4

\* Loading fails only for a file that is not in order.
LEMMA FailsMeansIllFormed ==
  ASSUME TypeOK, NEW item \in Path, LoadFails(item)
  PROVE  ~WellFormed(item)
BY DEF LoadFails, Unresolved, WellFormed, Range

\* A failure to load an item the root needs is a fault of the files.
LEMMA FailsLoadInv ==
  ASSUME IInv, NEW item \in Reachable, LoadFails(item), Fail
  PROVE  LoadInv'
<1>1. item \in Path
  BY ReachableFacts DEF IInv
<1>2. ~WellFormed(item)
  BY <1>1, FailsMeansIllFormed DEF IInv
<1>3. Faulty
  BY <1>2 DEF Faulty
<1>4. files' = files /\ status' = "failed"
  BY DEF Fail
<1>5. Faulty'
  BY <1>3, <1>4, SameFiles
<1> QED BY <1>4, <1>5 DEF LoadInv

\* The root is loaded, with no dependent passed yet.
LEMMA GetSourceItemLoadInv ==
  ASSUME IInv, LoadInv, getSourceItem
  PROVE  LoadInv'
<1>1. Root \in Path /\ Root \in Reachable
  BY PathAssumption, ReachableFacts DEF IInv
<1>2. CASE loadPartly(Root) /\ Fail
  BY <1>1, <1>2, FailsLoadInv DEF loadPartly
<1>3. CASE ~(loadPartly(Root) /\ Fail)
  <2>1. /\ ~LoadFails(Root) /\ dependents' = loadDependencies(Root)
        /\ stack' = <<Enter(Root)>> /\ status' = "loading" /\ files' = files
    BY <1>3 DEF getSourceItem
  <2>2. \A p \in Path : dependents[p] # <<>> => Whole(p)
    BY DEF LoadInv, getSourceItem
  <2>3. Whole(Root)' /\ \A p \in Path : dependents'[p] # <<>> => Whole(p)'
    BY <1>1, <2>1, <2>2, LoadWhole DEF IInv
  <2>4. Root \in Reachable'
    BY <1>1, <2>1, SameFiles
  <2>5. /\ Len(stack') = 1 /\ stack'[1].item = Root /\ stack'[1].next = 1
    BY <2>1 DEF Enter
  <2>6. \A i \in 1..Len(stack') :
          /\ Whole(stack[i].item)' /\ stack'[i].item \in Reachable'
          /\ \A j \in 1..Len(dependents'[stack'[i].item]) : ~(j < stack'[i].next)
    BY <2>3, <2>4, <2>5
  <2> QED BY <2>1, <2>3, <2>5, <2>6 DEF LoadInv
<1> QED BY <1>2, <1>3

\* Activations are of paths, at positions.
LEMMA StackItems ==
  ASSUME TypeOK
  PROVE  \A i \in 1..Len(stack) : stack[i].item \in Path /\ stack[i].next \in Nat \ {0}
                                  /\ dependents[stack[i].item] \in Seq(Path)
                                  /\ Len(dependents[stack[i].item]) \in Nat
<1>1. \A i \in 1..Len(stack) : stack[i] \in Frame
  BY DEF TypeOK
<1>2. \A i \in 1..Len(stack) : stack[i].item \in Path /\ stack[i].next \in Nat \ {0}
  BY <1>1 DEF Frame
<1> QED BY <1>2 DEF TypeOK

\* The dependency visited is one the root needs.
LEMMA SubReachable ==
  ASSUME IInv, LoadInv, status = "loading", Visiting
  PROVE  Sub \in Reachable
<1>1. /\ Len(stack) \in Nat \ {0} /\ Top \in Frame /\ Sub \in Path
      /\ Top.next \in 1..Len(dependents[Top.item])
  BY VisitedPath DEF IInv
<1>2. Len(stack) \in 1..Len(stack)
  BY <1>1
<1>3. Top.item \in Reachable /\ Top.item \in Path
  BY <1>2, StackItems DEF LoadInv, Top, IInv
<1>4. Sub \in Needs(Top.item)
  BY <1>1, <1>3 DEF IInv, DependentsAreNeeded, Sub
<1> QED BY <1>3, <1>4, ReachableFacts DEF IInv

\* Entering a dependency loads it and passes none of its own.
LEMMA LoadSubLoadInv ==
  ASSUME IInv, LoadInv, loadSub
  PROVE  LoadInv'
<1>1. /\ status = "loading" /\ Visiting /\ ~LoadFails(Sub)
      /\ dependents' = loadDependencies(Sub) /\ stack' = Append(stack, Enter(Sub))
      /\ files' = files /\ status' = "loading"
  BY DEF loadSub
<1>2. Sub \in Path /\ Sub \in Reachable /\ Len(stack) \in Nat \ {0}
  BY <1>1, SubReachable, VisitedPath DEF IInv
<1>3. \A p \in Path : dependents[p] # <<>> => Whole(p)
  BY <1>1 DEF LoadInv
<1>a. PICK item \in Path : item = Sub
  BY <1>2
<1>4. /\ Whole(item)' /\ (\A p \in Path : Whole(p) => Whole(p)')
      /\ \A p \in Path : dependents'[p] # <<>> => Whole(p)'
  <2>1. ~LoadFails(item) /\ dependents' = loadDependencies(item)
    BY <1>1, <1>a
  <2> QED BY <1>1, <2>1, <1>3, LoadWhole DEF IInv
<1>5. AllSettled \subseteq AllSettled' /\ Reachable' = Reachable
  BY <1>1, <1>4, SettledKept, SameFiles
<1>6. Enter(Sub) \in Frame /\ Enter(Sub).item = Sub /\ Enter(Sub).next = 1
  BY <1>2 DEF Enter, Frame
<1>7. /\ Len(stack') = Len(stack) + 1
      /\ \A i \in 1..Len(stack) : stack'[i] = stack[i]
      /\ stack'[Len(stack) + 1] = Enter(Sub)
  BY <1>1, <1>6, AppendProperties DEF IInv, TypeOK
<1>8. /\ stack[1].item = Root
      /\ \A i \in 1..Len(stack) :
           /\ Whole(stack[i].item) /\ stack[i].item \in Reachable
           /\ \A j \in 1..Len(dependents[stack[i].item]) :
                j < stack[i].next => dependents[stack[i].item][j] \in AllSettled
  BY <1>1 DEF LoadInv
<1>9. ASSUME NEW i \in 1..Len(stack')
      PROVE  /\ Whole(stack[i].item)' /\ stack'[i].item \in Reachable'
             /\ \A j \in 1..Len(dependents'[stack'[i].item]) :
                  j < stack'[i].next => dependents'[stack'[i].item][j] \in AllSettled'
  <2>1. CASE i = Len(stack) + 1
    <3>1. stack'[i].item = item /\ item \in Reachable /\ stack'[i].next = 1
      BY <1>2, <1>a, <1>6, <1>7, <2>1
    <3>3. Whole(stack[i].item)'
      BY <1>4, <3>1 DEF Whole, WellFormed, Resolved
    <3>2. \A j \in 1..Len(dependents'[stack'[i].item]) : ~(j < stack'[i].next)
      BY <3>1
    <3> QED BY <1>5, <3>1, <3>2, <3>3
  <2>2. CASE i # Len(stack) + 1
    <3>1. i \in 1..Len(stack) /\ stack'[i] = stack[i]
      BY <1>2, <1>7, <2>2
    <3>2. PICK x \in Path : x = stack[i].item
      BY <3>1, StackItems DEF IInv
    <3>3. Whole(x) /\ Whole(x)'
      BY <1>4, <1>8, <3>1, <3>2
    <3>4. dependents'[x] = dependents[x]
      BY <1>1, <3>3, SameFiles DEF Whole
    <3>5. Whole(stack[i].item)'
      BY <3>1, <3>2, <3>3 DEF Whole, WellFormed, Resolved
    <3> QED BY <1>5, <1>8, <3>1, <3>2, <3>4, <3>5
  <2> QED BY <2>1, <2>2
<1>10. Len(stack') > 0 /\ stack'[1].item = Root
  BY <1>2, <1>7, <1>8
<1> QED BY <1>1, <1>4, <1>9, <1>10 DEF LoadInv

\* A reported cycle is a cycle among the items the root needs, so the load
\* fails for a reason.
LEMMA ReportCycleLoadInv ==
  ASSUME IInv, LoadInv, reportCycle, IInv'
  PROVE  LoadInv'
<1> DEFINE S == {report'[i] : i \in 1..Len(report')}
<1>1. /\ status = "loading" /\ Visiting /\ Holds(cycleTable, Sub)
      /\ report' = SubSeq(cycleTable, IndexOf(cycleTable, Sub), Len(cycleTable))
      /\ files' = files /\ status' = "failed"
  BY DEF reportCycle, Fail
<1>2. IndexOf(cycleTable, Sub) \in 1..Len(cycleTable) /\ cycleTable \in Seq(Path)
  BY <1>1 DEF Holds, IndexOf, IInv, TypeOK
<1>3. \A i \in 1..Len(cycleTable) : cycleTable[i] \in Reachable
  BY <1>1 DEF IInv, CycleTableIsChain, LoadInv
<1> DEFINE k == IndexOf(cycleTable, Sub)
           n == Len(cycleTable)
<1>4. k \in Int /\ n \in Int /\ k \in 1..n
  BY <1>2
<1> HIDE DEF k, n
<1>5. \A i \in k..n : cycleTable[i] \in Path
  BY <1>2, <1>4 DEF n
<1>6. /\ Len(report') = (n - k) + 1
      /\ \A i \in 1..((n - k) + 1) : report'[i] = cycleTable[k + i - 1]
  <2>1. report' = SubSeq(cycleTable, k, n)
    BY <1>1 DEF k, n
  <2>2. Len(SubSeq(cycleTable, k, n)) = (n - k) + 1
    BY <1>2, <1>4, <1>5, SubSeqProperties
  <2>3. \A i \in 1..((n - k) + 1) : SubSeq(cycleTable, k, n)[i] = cycleTable[k + i - 1]
    BY <1>2, <1>4, <1>5, SubSeqProperties
  <2> QED BY <2>1, <2>2, <2>3
<1>7. 1 \in 1..Len(report') /\ Len(report') \in Nat
  BY <1>4, <1>6
<1>8. S # {}
  BY <1>7
<1>9. S \subseteq Reachable
  <2>1. \A i \in 1..((n - k) + 1) : k + i - 1 \in 1..Len(cycleTable)
    BY <1>4 DEF n
  <2> QED BY <1>3, <1>6, <2>1
<1>10. ASSUME NEW i \in 1..Len(report') PROVE Needs(report'[i]) \cap S # {}
  <2> DEFINE m == IF i = Len(report') THEN 1 ELSE i + 1
  <2>1. m \in 1..Len(report')
    BY <1>7
  <2>2. ReportIsCycle'
    BY DEF IInv
  <2>3. report'[m] \in Needs(report'[i])
    BY <1>1, <2>2 DEF Needs, ReportIsCycle
  <2> QED BY <2>1, <2>3
<1>11. ~Acyclic(Reachable)
  <2>1. \A p \in S : Needs(p) \cap S # {}
    BY <1>10
  <2> HIDE DEF S
  <2> QED BY <1>8, <1>9, <2>1 DEF Acyclic
<1>12. Faulty'
  BY <1>1, <1>11, SameFiles DEF Faulty
<1> QED BY <1>1, <1>12 DEF LoadInv

\* Returning from a dependency settles it, and with it the position its
\* caller's loop passes.
LEMMA LoadReturnLoadInv ==
  ASSUME IInv, LoadInv, loadSubReturns
  PROVE  LoadInv'
<1>1. /\ status = "loading" /\ AtEnd /\ Unwind
      /\ status' = IF Len(stack) = 1 THEN "loaded" ELSE "loading"
      /\ files' = files /\ dependents' = dependents
  BY DEF loadSubReturns
<1>2. stack \in Seq(Frame) /\ stack # <<>> /\ Len(stack) \in Nat \ {0}
  BY <1>1, EmptySeq DEF IInv, TypeOK, AtEnd
<1> DEFINE n == Len(stack)
<1>3. /\ stack[1].item = Root
      /\ \A i \in 1..n :
           /\ Whole(stack[i].item) /\ stack[i].item \in Reachable
           /\ \A j \in 1..Len(dependents[stack[i].item]) :
                j < stack[i].next => dependents[stack[i].item][j] \in AllSettled
  BY <1>1 DEF LoadInv
<1>4. \A p \in Path : Whole(p) => Whole(p)'
  BY <1>1, SameFiles DEF Whole
<1>5. AllSettled \subseteq AllSettled' /\ Reachable' = Reachable
  BY <1>1, <1>4, SettledKept, SameFiles
<1>6. stack[n].item \in AllSettled
  <2>1. n \in 1..n /\ stack[n].item \in Path
    BY <1>2, StackItems DEF IInv
  <2>2. stack[n].next > Len(dependents[stack[n].item])
        /\ Len(dependents[stack[n].item]) \in Nat /\ stack[n].next \in Nat
    BY <1>1, <2>1, StackItems DEF AtEnd, Top, IInv
  <2>3. \A j \in 1..Len(dependents[stack[n].item]) : dependents[stack[n].item][j] \in AllSettled
    BY <1>3, <2>1, <2>2
  <2> QED BY <1>3, <2>1, <2>3, SettledItem DEF IInv
<1>7. \A p \in Path : dependents'[p] # <<>> => Whole(p)'
  BY <1>1, <1>4 DEF LoadInv
<1>8. CASE n = 1
  BY <1>1, <1>3, <1>5, <1>6, <1>7, <1>8 DEF LoadInv
<1>9. CASE n # 1
  <2>1. /\ Len(stack') = n - 1 /\ n > 1
        /\ \A i \in 1..(n - 1) : stack'[i].item = stack[i].item
        /\ \A i \in 1..(n - 2) : stack'[i] = stack[i]
        /\ stack'[n - 1].next = stack[n - 1].next + 1
    BY <1>1, <1>2, <1>9, UnwindType
  <2>2. stack[n - 1].next \in Nat
        /\ stack[n].item = dependents[stack[n - 1].item][stack[n - 1].next]
    <3>1. n - 1 \in 1..(Len(stack) - 1) /\ n - 1 \in 1..Len(stack) /\ (n - 1) + 1 = n
      BY <1>2, <2>1
    <3> QED BY <1>1, <3>1, StackItems DEF IInv, CycleTableIsChain
  <2> HIDE DEF n
  <2>3. ASSUME NEW i \in 1..(n - 1)
        PROVE  /\ Whole(stack[i].item)' /\ stack'[i].item \in Reachable'
               /\ \A j \in 1..Len(dependents'[stack'[i].item]) :
                    j < stack'[i].next => dependents'[stack'[i].item][j] \in AllSettled'
    <3>1. i \in 1..n /\ stack'[i].item = stack[i].item /\ stack[i].item \in Path
      BY <1>2, <2>1, StackItems DEF IInv, n
    <3>5. Whole(stack[i].item)'
      <4>1. PICK x \in Path : x = stack[i].item
        BY <3>1
      <4>2. Whole(x)'
        BY <1>3, <1>4, <3>1, <4>1
      <4> QED BY <3>1, <4>1, <4>2 DEF Whole, WellFormed, Resolved
    <3>2. Whole(stack[i].item)' /\ stack'[i].item \in Reachable'
      BY <1>3, <1>5, <3>1, <3>5
    <3>3. CASE i # n - 1
      <4>1. stack'[i] = stack[i]
        BY <1>2, <2>1, <3>3 DEF n
      <4> QED BY <1>1, <1>3, <1>5, <3>1, <3>2, <4>1
    <3>4. CASE i = n - 1
      <4>1. \A j \in 1..Len(dependents[stack[i].item]) :
              j < stack'[i].next => j < stack[i].next \/ j = stack[i].next
        <5>1. stack'[i].next = stack[i].next + 1 /\ stack[i].next \in Nat
          BY <2>1, <2>2, <3>4
        <5>2. Len(dependents[stack[i].item]) \in Nat
          BY <3>1, StackItems DEF IInv, n
        <5> QED BY <5>1, <5>2
      <4>2. dependents[stack[i].item][stack[i].next] \in AllSettled
        BY <1>6, <2>2, <3>4 DEF n
      <4> QED BY <1>1, <1>3, <1>5, <3>1, <3>2, <4>1, <4>2
    <3> QED BY <3>3, <3>4
  <2>4. Len(stack') > 0 /\ stack'[1].item = Root
    BY <1>2, <1>3, <2>1 DEF n
  <2>5. status' = "loading"
    BY <1>1, <1>9 DEF n
  <2> QED BY <1>7, <2>1, <2>3, <2>4, <2>5 DEF LoadInv
<1> QED BY <1>8, <1>9

\* The extraction does not disturb what loading has established.
LEMMA GraphKeepsLoadInv ==
  ASSUME IInv, LoadInv, files' = files, dependents' = dependents,
         \/ status' = status /\ stack' = stack
         \/ /\ status \in {"loaded", "extracting"}
            /\ status' \in {"extracting", "ready"}
  PROVE  LoadInv'
<1>1. \A p : Whole(p)' = Whole(p)
  BY SameFiles DEF Whole
<1>2. \A S : Settled(S)' = Settled(S)
  BY <1>1, SameFiles, Zenon DEF Settled
<1>3. AllSettled' = AllSettled
  BY <1>2, Zenon DEF AllSettled
<1>4. Reachable' = Reachable /\ Faulty' = Faulty
  BY SameFiles
<1>5. CASE status' = status /\ stack' = stack
  BY <1>1, <1>3, <1>4, <1>5 DEF LoadInv
<1>6. CASE status \in {"loaded", "extracting"} /\ status' \in {"extracting", "ready"}
  BY <1>1, <1>3, <1>4, <1>6 DEF LoadInv
<1> QED BY <1>5, <1>6

\* Every step keeps what loading has established.
LEMMA LoadInvStep ==
  ASSUME IInv, LoadInv, [smNext]_smVars
  PROVE  LoadInv'
<1>1. CASE getSourceItem
  BY <1>1, GetSourceItemLoadInv
<1>2. CASE loadSub
  BY <1>2, LoadSubLoadInv
<1>3. CASE loadSubFails
  <2>1. Sub \in Reachable
    BY <1>3, SubReachable DEF loadSubFails
  <2> QED BY <1>3, <2>1, FailsLoadInv DEF loadSubFails, loadPartly
<1>4. CASE reportCycle
  BY <1>4, ReportCycleInductive, ReportCycleLoadInv
<1>5. CASE loadSubReturns
  BY <1>5, LoadReturnLoadInv
<1>6. CASE extractDependencies \/ insertDependency \/ insertReturns
  BY <1>6, GraphKeepsLoadInv DEF extractDependencies, insertDependency, insertReturns
<1>7. CASE UNCHANGED smVars
  BY <1>7, GraphKeepsLoadInv DEF smVars
<1> QED BY <1>1, <1>2, <1>3, <1>4, <1>5, <1>6, <1>7 DEF smNext

\* Nothing is loaded at the start.
LEMMA InitLoadInv ==
  ASSUME smInit
  PROVE  LoadInv
BY DEF smInit, LoadInv
-----------------------------------------------------------------------------
(* What the extraction establishes *)

\* A SetVector holds an element once.
Distinct(s) == \A i, j \in 1..Len(s) : s[i] = s[j] => i = j

\* One element comes before another.
Precedes(s, x, y) == \E i, j \in 1..Len(s) : i < j /\ s[i] = x /\ s[j] = y

\* Removing an element closes the gap it leaves.
LEMMA RemoveShape ==
  ASSUME NEW S, NEW s \in Seq(S), NEW x, Distinct(s), Holds(s, x)
  PROVE  \E k \in 1..Len(s) :
           /\ s[k] = x
           /\ SetRemove(s, x) \in Seq(S) /\ Len(SetRemove(s, x)) = Len(s) - 1
           /\ \A i \in 1..(k - 1) : SetRemove(s, x)[i] = s[i]
           /\ \A i \in k..(Len(s) - 1) : SetRemove(s, x)[i] = s[i + 1]
<1> DEFINE k == IndexOf(s, x)
           n == Len(s)
           a == SubSeq(s, 1, k - 1)
           b == SubSeq(s, k + 1, n)
<1>1. k \in 1..n /\ s[k] = x
  BY DEF Holds, IndexOf
<1>2. n \in Nat /\ k \in Int /\ k - 1 \in Int /\ k + 1 \in Int /\ 1 \in Int /\ n \in Int
  BY <1>1
<1>3. SetRemove(s, x) = a \o b
  BY DEF SetRemove, RemoveAt
<1>4. \A i \in 1..n : s[i] \in S
  OBVIOUS
<1> HIDE DEF k, n
<1>5. /\ a \in Seq(S) /\ Len(a) = k - 1
      /\ \A i \in 1..(k - 1) : a[i] = s[i]
  <2>1. \A i \in 1..(k - 1) : s[i] \in S
    BY <1>1, <1>2, <1>4
  <2>2. a \in Seq(S) /\ Len(a) = k - 1
    BY <1>1, <1>2, <2>1, SubSeqProperties
  <2>3. \A i \in 1..((k - 1) - 1 + 1) : a[i] = s[1 + i - 1]
    BY <1>1, <1>2, <2>1, SubSeqProperties
  <2> QED BY <1>1, <1>2, <2>2, <2>3
<1>6. /\ b \in Seq(S) /\ Len(b) = n - k
      /\ \A i \in 1..(n - k) : b[i] = s[k + i]
  <2>1. \A i \in (k + 1)..n : s[i] \in S
    BY <1>1, <1>2, <1>4
  <2>2. b \in Seq(S)
    BY <1>1, <1>2, <2>1, SubSeqProperties
  <2>3. Len(b) = n - k
    BY <1>1, <1>2, <2>1, SubSeqProperties
  <2>4. \A i \in 1..(n - k) : b[i] = s[(k + 1) + i - 1]
    BY <1>1, <1>2, <2>1, SubSeqProperties
  <2> QED BY <1>1, <1>2, <2>2, <2>3, <2>4
<1> HIDE DEF a, b
<1>7. /\ a \o b \in Seq(S) /\ Len(a \o b) = Len(a) + Len(b)
      /\ \A i \in 1..(Len(a) + Len(b)) :
           (a \o b)[i] = IF i <= Len(a) THEN a[i] ELSE b[i - Len(a)]
  BY <1>5, <1>6, ConcatProperties
<1>8. \A i \in 1..(k - 1) : (a \o b)[i] = s[i]
  BY <1>1, <1>2, <1>5, <1>6, <1>7
<1>9. ASSUME NEW i \in k..(n - 1) PROVE (a \o b)[i] = s[i + 1]
  <2>1. /\ i \in 1..(Len(a) + Len(b)) /\ ~(i <= Len(a)) /\ i - Len(a) \in 1..(n - k)
        /\ k + (i - Len(a)) = i + 1
    BY <1>1, <1>2, <1>5, <1>6
  <2>2. (a \o b)[i] = b[i - Len(a)]
    BY <1>7, <2>1
  <2>3. b[i - Len(a)] = s[k + (i - Len(a))]
    BY <1>6, <2>1
  <2> QED BY <2>1, <2>2, <2>3
<1>10. Len(a \o b) = n - 1
  BY <1>1, <1>2, <1>5, <1>6, <1>7
<1> QED BY <1>1, <1>3, <1>7, <1>8, <1>9, <1>10 DEF n

\* What insertDependencies does to the list: the element is last now, and the
\* others keep their order.
MovedToEnd(S, s, x, m) ==
  /\ m \in Seq(S) /\ Distinct(m)
  /\ Holds(m, x)
  /\ \A a : Holds(m, a) => a = x \/ Holds(s, a)
  /\ \A a : Holds(s, a) => Holds(m, a)
  /\ \A a : a # x /\ Holds(s, a) => Precedes(m, a, x)
  /\ \A a, b : a # x /\ b # x /\ Precedes(s, a, b) => Precedes(m, a, b)
  /\ Len(s) > 0 /\ s[1] # x => Len(m) > 0 /\ m[1] = s[1]

\* Removing an element and appending it again moves it to the end.
LEMMA MoveToEnd ==
  ASSUME NEW S, NEW s \in Seq(S), NEW x \in S, Distinct(s),
         NEW m, m = Append(SetRemove(s, x), x)
  PROVE  MovedToEnd(S, s, x, m)
<1> DEFINE r == SetRemove(s, x)
           n == Len(s)
<1>1. n \in Nat /\ DOMAIN s = 1..n
  OBVIOUS
<1>2. \E q \in Nat : Len(r) = q /\ r \in Seq(S)
      /\ \E f \in [1..q -> 1..n] :
           /\ \A i, j \in 1..q : i < j => f[i] < f[j]
           /\ \A i \in 1..q : r[i] = s[f[i]] /\ s[f[i]] # x
           /\ \A i \in 1..n : s[i] # x => \E j \in 1..q : f[j] = i
           /\ n > 0 /\ s[1] # x => q > 0 /\ f[1] = 1
  <2>1. CASE ~Holds(s, x)
    <3> DEFINE f == [i \in 1..n |-> i]
    <3>1. r = s
      BY <2>1 DEF SetRemove
    <3>2. f \in [1..n -> 1..n]
      OBVIOUS
    <3>3. \A i \in 1..n : s[i] # x
      BY <2>1 DEF Holds
    <3>4. /\ \A i, j \in 1..n : i < j => f[i] < f[j]
          /\ \A i \in 1..n : r[i] = s[f[i]] /\ s[f[i]] # x
          /\ \A i \in 1..n : s[i] # x => \E j \in 1..n : f[j] = i
          /\ n > 0 /\ s[1] # x => n > 0 /\ f[1] = 1
      BY <1>1, <3>1, <3>3
    <3>5. Len(r) = n /\ r \in Seq(S)
      BY <3>1
    <3> HIDE DEF r, n, f
    <3> QED BY <1>1, <3>2, <3>4, <3>5
  <2>2. CASE Holds(s, x)
    <3>1. PICK k \in 1..n :
            /\ s[k] = x /\ r \in Seq(S) /\ Len(r) = n - 1
            /\ \A i \in 1..(k - 1) : r[i] = s[i]
            /\ \A i \in k..(n - 1) : r[i] = s[i + 1]
      BY <2>2, RemoveShape
    <3> HIDE DEF r
    <3> DEFINE q == n - 1
               f == [i \in 1..q |-> IF i < k THEN i ELSE i + 1]
    <3>2. q \in Nat /\ k \in Nat
      BY <1>1, <3>1
    <3>3. f \in [1..q -> 1..n]
      BY <1>1, <3>1, <3>2
    <3>4. \A i, j \in 1..q : i < j => f[i] < f[j]
      BY <1>1, <3>1, <3>2
    <3>5. \A i \in 1..n : s[i] = x => i = k
      BY <3>1 DEF Distinct
    <3>6. \A i \in 1..q : f[i] # k
      BY <1>1, <3>1, <3>2
    <3>7. \A i \in 1..q : r[i] = s[f[i]] /\ s[f[i]] # x
      BY <1>1, <3>1, <3>2, <3>3, <3>5, <3>6
    <3>8. ASSUME NEW i \in 1..n, s[i] # x PROVE \E j \in 1..q : f[j] = i
      <4>1. i # k
        BY <3>1, <3>8
      <4>2. CASE i < k
        <5>1. i \in 1..q /\ f[i] = i
          BY <1>1, <3>1, <3>2, <4>2
        <5> QED BY <5>1
      <4>3. CASE i > k
        <5>1. i - 1 \in 1..q /\ f[i - 1] = i
          BY <1>1, <3>1, <3>2, <4>3
        <5> QED BY <5>1
      <4> QED BY <3>2, <4>1, <4>2, <4>3
    <3>9. n > 0 /\ s[1] # x => q > 0 /\ f[1] = 1
      BY <1>1, <3>1, <3>2
    <3> HIDE DEF f, q
    <3>10. Len(r) = q
      BY <3>1 DEF q
    <3> QED BY <3>1, <3>2, <3>3, <3>4, <3>7, <3>8, <3>9, <3>10
  <2> QED BY <2>1, <2>2
<1> HIDE DEF r, n
<1>3. PICK q \in Nat : Len(r) = q /\ r \in Seq(S)
      /\ \E f \in [1..q -> 1..n] :
           /\ \A i, j \in 1..q : i < j => f[i] < f[j]
           /\ \A i \in 1..q : r[i] = s[f[i]] /\ s[f[i]] # x
           /\ \A i \in 1..n : s[i] # x => \E j \in 1..q : f[j] = i
           /\ n > 0 /\ s[1] # x => q > 0 /\ f[1] = 1
  BY <1>2
<1>4. PICK f \in [1..q -> 1..n] :
           /\ \A i, j \in 1..q : i < j => f[i] < f[j]
           /\ \A i \in 1..q : r[i] = s[f[i]] /\ s[f[i]] # x
           /\ \A i \in 1..n : s[i] # x => \E j \in 1..q : f[j] = i
           /\ n > 0 /\ s[1] # x => q > 0 /\ f[1] = 1
  BY <1>3
<1>5. /\ m \in Seq(S) /\ Len(m) = q + 1
      /\ \A i \in 1..q : m[i] = r[i]
      /\ m[q + 1] = x
  <2>1. m = Append(r, x)
    BY DEF r
  <2> QED BY <1>3, <2>1, AppendProperties
<1>6. \A i \in 1..q : m[i] = s[f[i]] /\ m[i] # x /\ f[i] \in 1..n
  BY <1>4, <1>5
<1>7. \A i, j \in 1..q : f[i] = f[j] => i = j
  <2> SUFFICES ASSUME NEW i \in 1..q, NEW j \in 1..q, f[i] = f[j] PROVE i = j
    OBVIOUS
  <2>1. f[i] \in 1..n /\ f[j] \in 1..n /\ ~(f[i] < f[j]) /\ ~(f[j] < f[i])
    BY <1>1, <1>4
  <2>2. ~(i < j) /\ ~(j < i)
    BY <1>4, <2>1
  <2> QED BY <2>2
<1>8. Distinct(m)
  <2> SUFFICES ASSUME NEW i \in 1..(q + 1), NEW j \in 1..(q + 1), m[i] = m[j] PROVE i = j
    BY <1>5 DEF Distinct
  <2>1. CASE i \in 1..q /\ j \in 1..q
    <3>1. s[f[i]] = s[f[j]] /\ f[i] \in 1..n /\ f[j] \in 1..n
      BY <1>6, <2>1
    <3>2. f[i] = f[j]
      BY <3>1 DEF Distinct, n
    <3> QED BY <1>7, <2>1, <3>2
  <2>2. CASE i \notin 1..q /\ j \in 1..q
    <3>1. i = q + 1
      BY <1>3, <2>2
    <3> QED BY <1>5, <1>6, <2>2, <3>1
  <2>3. CASE i \in 1..q /\ j \notin 1..q
    <3>1. j = q + 1
      BY <1>3, <2>3
    <3> QED BY <1>5, <1>6, <2>3, <3>1
  <2>4. CASE i \notin 1..q /\ j \notin 1..q
    BY <1>3, <2>4
  <2> QED BY <2>1, <2>2, <2>3, <2>4
<1>9. q + 1 \in 1..(q + 1) /\ \A i \in 1..q : i \in 1..(q + 1) /\ i < q + 1
  BY <1>3
<1>10. Holds(m, x)
  BY <1>5, <1>9 DEF Holds
<1>11. ASSUME NEW a, Holds(m, a) PROVE a = x \/ Holds(s, a)
  <2>1. PICK i \in 1..(q + 1) : m[i] = a
    BY <1>5, <1>11 DEF Holds
  <2>2. CASE i \in 1..q
    <3>1. f[i] \in 1..Len(s) /\ s[f[i]] = a
      BY <1>6, <2>1, <2>2 DEF n
    <3> QED BY <3>1 DEF Holds
  <2>3. CASE i \notin 1..q
    <3>1. i = q + 1
      BY <1>3, <2>3
    <3> QED BY <1>5, <2>1, <3>1
  <2> QED BY <2>2, <2>3
<1>12. ASSUME NEW a, a # x, Holds(s, a) PROVE Precedes(m, a, x) /\ Holds(m, a)
  <2>1. PICK i \in 1..n : s[i] = a
    BY <1>12 DEF Holds, n
  <2>2. PICK j \in 1..q : f[j] = i
    BY <1>4, <1>12, <2>1
  <2>3. m[j] = a
    BY <1>6, <2>1, <2>2
  <2> QED BY <1>5, <1>9, <2>3 DEF Precedes, Holds
<1>13. ASSUME NEW a, NEW b, a # x, b # x, Precedes(s, a, b) PROVE Precedes(m, a, b)
  <2>1. PICK i \in 1..n, j \in 1..n : i < j /\ s[i] = a /\ s[j] = b
    BY <1>13 DEF Precedes, n
  <2>2. PICK c \in 1..q : f[c] = i
    BY <1>4, <1>13, <2>1
  <2>3. PICK d \in 1..q : f[d] = j
    BY <1>4, <1>13, <2>1
  <2>4. m[c] = a /\ m[d] = b
    BY <1>6, <2>1, <2>2, <2>3
  <2>5. ~(d < c) /\ ~(d = c)
    <3>1. i \in Int /\ j \in Int
      BY <1>1
    <3> QED BY <1>4, <2>1, <2>2, <2>3, <3>1
  <2>6. c < d
    BY <2>5
  <2> QED BY <1>5, <1>9, <2>4, <2>6 DEF Precedes
<1>14. n > 0 /\ s[1] # x => Len(m) > 0 /\ m[1] = s[1]
  <2> SUFFICES ASSUME n > 0, s[1] # x PROVE Len(m) > 0 /\ m[1] = s[1]
    OBVIOUS
  <2>1. q > 0 /\ f[1] = 1 /\ 1 \in 1..q
    BY <1>3, <1>4
  <2> QED BY <1>5, <1>6, <2>1
<1> QED BY <1>5, <1>8, <1>10, <1>11, <1>12, <1>13, <1>14 DEF n, MovedToEnd

\* The item is in the list of sources.
Held(x) == Holds(sources, x)
\* A loop under way will still come to the j-th dependent of the item.
Pending(x, j) == \E k \in 1..Len(stack) : stack[k].item = x /\ j >= stack[k].next

\* What the extraction has established so far: each item in the list comes
\* before each of its dependents, except those that a loop under way is still
\* to move to the end.  When no loop is left, the list is in order.  The items
\* on the stack come one before the other, which is what the position that a
\* loop passes leaves behind.
ExtractInv ==
  /\ status \in {"extracting", "ready"} =>
       /\ Distinct(sources) /\ Len(sources) > 0 /\ sources[1] = Root
       /\ \A x : Held(x) => x \in AllSettled
  /\ status = "extracting" =>
       /\ Len(stack) > 0 /\ stack[1].item = Root
       /\ \A i \in 1..Len(stack) : Held(stack[i].item)
       /\ \A i \in 1..(Len(stack) - 1) :
            /\ stack[i].next \in 1..Len(dependents[stack[i].item])
            /\ stack[i + 1].item = dependents[stack[i].item][stack[i].next]
            /\ Precedes(sources, stack[i].item, stack[i + 1].item)
       /\ \A x : Held(x) => \A j \in 1..Len(dependents[x]) :
            Precedes(sources, x, dependents[x][j]) \/ Pending(x, j)
  /\ status = "ready" =>
       \A x : Held(x) => \A j \in 1..Len(dependents[x]) :
            Precedes(sources, x, dependents[x][j])

\* The settled items are those of the graph.
LEMMA SameSettled ==
  ASSUME files' = files, dependents' = dependents
  PROVE  AllSettled' = AllSettled
<1>1. \A p : Whole(p)' = Whole(p)
  BY SameFiles DEF Whole
<1>2. \A S : Settled(S)' = Settled(S)
  BY <1>1, SameFiles, Zenon DEF Settled
<1> QED BY <1>2, Zenon DEF AllSettled

\* The extraction never meets an item it is inside of: the settled items have
\* no cycle.  Without this the item moved to the end would pass its callers.
LEMMA SubNotOnStack ==
  ASSUME IInv, ExtractInv, status = "extracting", Visiting
  PROVE  \A i \in 1..Len(stack) : stack[i].item # Sub
<1> SUFFICES ASSUME NEW k \in 1..Len(stack), stack[k].item = Sub
             PROVE  FALSE
  OBVIOUS
<1> DEFINE n == Len(stack)
           S == {stack[i].item : i \in k..n}
<1>1. n \in Nat \ {0} /\ k \in 1..n /\ Top.next \in 1..Len(dependents[Top.item]) /\ Sub \in Path
  BY VisitedPath DEF IInv
<1>2. \A i \in 1..n : stack[i].item \in AllSettled /\ stack[i].item \in Path
  BY StackItems DEF ExtractInv, IInv
<1>3. \A i \in 1..n : \A j \in 1..Len(dependents[stack[i].item]) :
        dependents[stack[i].item][j] \in Needs(stack[i].item)
  BY <1>2 DEF IInv, DependentsAreNeeded
<1>4. ASSUME NEW i \in k..n PROVE Needs(stack[i].item) \cap S # {}
  <2>1. CASE i = n
    <3>1. n \in 1..n /\ Top = stack[n] /\ k \in k..n
      BY <1>1 DEF Top
    <3>2. Sub \in Needs(stack[n].item)
      BY <1>1, <1>3, <3>1 DEF Sub
    <3>3. Sub \in S
      BY <3>1
    <3> QED BY <2>1, <3>2, <3>3
  <2>2. CASE i # n
    <3>1. i \in 1..n /\ i \in 1..(n - 1) /\ i + 1 \in k..n
      BY <1>1, <2>2
    <3>2. /\ stack[i].next \in 1..Len(dependents[stack[i].item])
          /\ stack[i + 1].item = dependents[stack[i].item][stack[i].next]
      BY <3>1 DEF ExtractInv
    <3>3. stack[i + 1].item \in Needs(stack[i].item)
      BY <1>3, <3>1, <3>2
    <3>4. stack[i + 1].item \in S
      BY <3>1
    <3> QED BY <3>3, <3>4
  <2> QED BY <2>1, <2>2
<1>5. S # {} /\ S \subseteq AllSettled
  BY <1>1, <1>2
<1>6. \A p \in S : Needs(p) \cap S # {}
  BY <1>4
<1>7. Acyclic(AllSettled)
  BY SettledTogether DEF Settled
<1> HIDE DEF S
<1> QED BY <1>5, <1>6, <1>7 DEF Acyclic

\* The extraction starts with the root and all its dependents pending.
LEMMA StartExtractInv ==
  ASSUME IInv, LoadInv, extractDependencies, AllSettled' = AllSettled
  PROVE  ExtractInv'
<1>1. /\ sources' = <<Root>> /\ stack' = <<Enter(Root)>> /\ status' = "extracting"
      /\ Root \in AllSettled
  BY DEF extractDependencies, LoadInv
<1>2. Len(sources') = 1 /\ sources'[1] = Root /\ \A x : Held(x)' <=> x = Root
  BY <1>1 DEF Held, Holds
<1>3. Distinct(sources)'
  BY <1>2 DEF Distinct
<1>4. Len(stack') = 1 /\ stack'[1].item = Root /\ stack'[1].next = 1
  BY <1>1 DEF Enter
<1>5. \A j \in Nat : j >= 1 => Pending(Root, j)'
  BY <1>4 DEF Pending
<1>6. dependents'[Root] \in Seq(Path)
  BY PathAssumption DEF IInv, TypeOK, extractDependencies
<1>7. \A x : Held(x)' => \A j \in 1..Len(dependents'[x]) : Pending(x, j)'
  BY <1>2, <1>5, <1>6
<1>8. \A i \in 1..Len(stack') : Held(stack[i].item)'
  <2>1. \A i \in 1..Len(stack') : stack'[i].item = Root
    BY <1>4
  <2> QED BY <1>2, <2>1 DEF Held
<1>9. 1..(Len(stack') - 1) = {}
  BY <1>4
<1> QED BY <1>1, <1>2, <1>3, <1>4, <1>7, <1>8, <1>9 DEF ExtractInv

\* Moving a dependency to the end puts it behind every item that depends on it;
\* its own dependents are pending again.
LEMMA InsertExtractInv ==
  ASSUME IInv, ExtractInv, insertDependency, AllSettled' = AllSettled
  PROVE  ExtractInv'
<1>1. /\ status = "extracting" /\ Visiting /\ status' = "extracting"
      /\ sources' = Append(SetRemove(sources, Sub), Sub)
      /\ stack' = Append(stack, Enter(Sub)) /\ dependents' = dependents
  BY DEF insertDependency
<1>2. /\ Len(stack) \in Nat \ {0} /\ Sub \in Path
      /\ Top.next \in 1..Len(dependents[Top.item])
  BY <1>1, VisitedPath DEF IInv
<1>3. PICK y \in Path : y = Sub
  BY <1>2
<1> DEFINE n == Len(stack)
<1>4. \A i \in 1..n : stack[i].item # y
  BY <1>1, <1>3, SubNotOnStack
<1>5. /\ Distinct(sources) /\ Len(sources) > 0 /\ sources[1] = Root
      /\ (\A x : Held(x) => x \in AllSettled)
      /\ Len(stack) > 0 /\ stack[1].item = Root
      /\ (\A i \in 1..Len(stack) : Held(stack[i].item))
      /\ (\A i \in 1..(Len(stack) - 1) :
            /\ stack[i].next \in 1..Len(dependents[stack[i].item])
            /\ stack[i + 1].item = dependents[stack[i].item][stack[i].next]
            /\ Precedes(sources, stack[i].item, stack[i + 1].item))
      /\ \A x : Held(x) => \A j \in 1..Len(dependents[x]) :
            Precedes(sources, x, dependents[x][j]) \/ Pending(x, j)
  BY <1>1 DEF ExtractInv
<1>6. 1 \in 1..n /\ n \in 1..n /\ Root # y
  BY <1>2, <1>4, <1>5
<1>7. /\ sources' \in Seq(Path) /\ Distinct(sources')
      /\ Holds(sources', y) /\ (\A a : Holds(sources', a) => a = y \/ Holds(sources, a))
      /\ (\A a : Holds(sources, a) => Holds(sources', a))
      /\ (\A a : a # y /\ Holds(sources, a) => Precedes(sources', a, y))
      /\ (\A a, b : a # y /\ b # y /\ Precedes(sources, a, b) => Precedes(sources', a, b))
      /\ (Len(sources) > 0 /\ sources[1] # y => Len(sources') > 0 /\ sources'[1] = sources[1])
  <2>1. sources' = Append(SetRemove(sources, y), y) /\ sources \in Seq(Path)
    BY <1>1, <1>3 DEF IInv, TypeOK
  <2>2. PICK s \in Seq(Path) : s = sources
    BY <2>1
  <2>3. PICK m : m = sources'
    OBVIOUS
  <2>4. Distinct(s) /\ m = Append(SetRemove(s, y), y)
    BY <1>5, <2>1, <2>2, <2>3
  <2>5. MovedToEnd(Path, s, y, m)
    BY <2>4, MoveToEnd
  <2> QED BY <2>2, <2>3, <2>5 DEF MovedToEnd
<1>8. Enter(y).item = y /\ Enter(y).next = 1 /\ Enter(y) \in Frame
  BY DEF Enter, Frame
<1>9. /\ Len(stack') = n + 1 /\ stack'[n + 1] = Enter(y)
      /\ \A i \in 1..n : stack'[i] = stack[i]
  <2>1. stack \in Seq(Frame) /\ stack' = Append(stack, Enter(y))
    BY <1>1, <1>3 DEF IInv, TypeOK
  <2> QED BY <1>8, <2>1, AppendProperties
<1>10. y \in AllSettled
  <2>1. stack[n].item \in AllSettled /\ stack[n].item \in Path
    BY <1>5, <1>6, StackItems DEF IInv
  <2>2. y \in Needs(stack[n].item)
    BY <1>2, <1>3, <2>1 DEF IInv, DependentsAreNeeded, Sub, Top
  <2> QED BY <2>1, <2>2, SettledTogether DEF Settled
<1>11. /\ Distinct(sources)' /\ Len(sources') > 0 /\ sources'[1] = Root
       /\ \A x : Held(x)' => x \in AllSettled'
  BY <1>5, <1>6, <1>7, <1>10 DEF Held
<1> HIDE DEF n
<1>12. Len(stack') > 0 /\ stack'[1].item = Root
  BY <1>2, <1>5, <1>6, <1>9 DEF n
<1>13. ASSUME NEW i \in 1..Len(stack') PROVE Holds(sources', stack'[i].item)
  <2>1. CASE i = n + 1
    BY <1>7, <1>8, <1>9, <2>1
  <2>2. CASE i # n + 1
    <3>1. i \in 1..n
      BY <1>2, <1>9, <2>2 DEF n
    <3> QED BY <1>5, <1>7, <1>9, <3>1 DEF Held, n
  <2> QED BY <2>1, <2>2
<1>14. ASSUME NEW i \in 1..(Len(stack') - 1)
       PROVE  /\ stack'[i].next \in 1..Len(dependents'[stack'[i].item])
              /\ stack'[i + 1].item = dependents'[stack'[i].item][stack'[i].next]
              /\ Precedes(sources', stack'[i].item, stack'[i + 1].item)
  <2>1. i \in 1..n /\ stack'[i] = stack[i]
    BY <1>2, <1>9 DEF n
  <2>2. Held(stack[i].item) /\ stack[i].item # y
    BY <1>4, <1>5, <2>1 DEF n
  <2>3. CASE i = n
    <3>1. stack'[i + 1].item = y /\ stack[i] = Top
      BY <1>8, <1>9, <2>3 DEF Top, n
    <3>2. Precedes(sources', stack[i].item, y)
      BY <1>7, <2>2 DEF Held
    <3> QED BY <1>1, <1>2, <1>3, <2>1, <3>1, <3>2 DEF Sub
  <2>4. CASE i # n
    <3>1. i \in 1..(n - 1) /\ i + 1 \in 1..n
      BY <1>2, <2>1, <2>4 DEF n
    <3>2. stack'[i + 1] = stack[i + 1] /\ stack[i + 1].item # y
      BY <1>4, <1>9, <3>1 DEF n
    <3>3. Precedes(sources', stack[i].item, stack[i + 1].item)
      BY <1>5, <1>7, <2>2, <3>1, <3>2 DEF n
    <3> QED BY <1>1, <1>5, <2>1, <3>1, <3>2, <3>3 DEF n
  <2> QED BY <2>3, <2>4
<1>15. ASSUME NEW x, Holds(sources', x), NEW j \in 1..Len(dependents[x])
       PROVE  \/ Precedes(sources', x, dependents[x][j])
              \/ \E k \in 1..Len(stack') : stack'[k].item = x /\ j >= stack'[k].next
  <2>1. CASE x = y
    <3>1. n + 1 \in 1..Len(stack') /\ stack'[n + 1].item = x /\ j >= stack'[n + 1].next
      <4>1. dependents[y] \in Seq(Path)
        BY DEF IInv, TypeOK
      <4>2. j \in Int /\ j >= 1
        BY <2>1, <4>1
      <4> QED BY <1>2, <1>8, <1>9, <2>1, <4>2 DEF n
    <3> QED BY <3>1
  <2>2. CASE x # y /\ dependents[x][j] = y
    BY <1>7, <1>15, <2>2
  <2>3. CASE x # y /\ dependents[x][j] # y
    <3>1. Precedes(sources, x, dependents[x][j]) \/ Pending(x, j)
      BY <1>5, <1>7, <1>15, <2>3 DEF Held
    <3>2. CASE Precedes(sources, x, dependents[x][j])
      BY <1>7, <2>3, <3>2
    <3>3. CASE Pending(x, j)
      <4>1. PICK k \in 1..n : stack[k].item = x /\ j >= stack[k].next
        BY <3>3 DEF Pending, n
      <4>2. k \in 1..Len(stack') /\ stack'[k] = stack[k]
        BY <1>2, <1>9 DEF n
      <4> QED BY <4>1, <4>2
    <3> QED BY <3>1, <3>2, <3>3
  <2> QED BY <2>1, <2>2, <2>3
<1>16. \A x : Held(x)' => \A j \in 1..Len(dependents'[x]) :
            Precedes(sources', x, dependents'[x][j]) \/ Pending(x, j)'
  BY <1>1, <1>15 DEF Held, Pending
<1>17. \A i \in 1..Len(stack') : Held(stack[i].item)'
  BY <1>13 DEF Held
<1>18. \A i \in 1..(Len(stack') - 1) :
              /\ stack'[i].next \in 1..Len(dependents'[stack'[i].item])
              /\ stack'[i + 1].item = dependents'[stack'[i].item][stack'[i].next]
              /\ Precedes(sources', stack'[i].item, stack'[i + 1].item)
  BY <1>14
<1> QED BY <1>1, <1>11, <1>12, <1>16, <1>17, <1>18 DEF ExtractInv

\* A loop that ends leaves no dependent of its item pending.
LEMMA InsertReturnsExtractInv ==
  ASSUME IInv, ExtractInv, insertReturns, AllSettled' = AllSettled
  PROVE  ExtractInv'
<1>1. /\ status = "extracting" /\ AtEnd /\ Unwind
      /\ status' = IF Len(stack) = 1 THEN "ready" ELSE "extracting"
      /\ sources' = sources /\ dependents' = dependents
  BY DEF insertReturns
<1>2. stack \in Seq(Frame) /\ stack # <<>> /\ Len(stack) \in Nat \ {0}
  BY <1>1, EmptySeq DEF IInv, TypeOK, AtEnd
<1> DEFINE n == Len(stack)
<1>3. /\ Distinct(sources) /\ Len(sources) > 0 /\ sources[1] = Root
      /\ (\A x : Held(x) => x \in AllSettled)
      /\ Len(stack) > 0 /\ stack[1].item = Root
      /\ (\A i \in 1..n : Held(stack[i].item))
      /\ (\A i \in 1..(n - 1) :
            /\ stack[i].next \in 1..Len(dependents[stack[i].item])
            /\ stack[i + 1].item = dependents[stack[i].item][stack[i].next]
            /\ Precedes(sources, stack[i].item, stack[i + 1].item))
      /\ \A x : Held(x) => \A j \in 1..Len(dependents[x]) :
            Precedes(sources, x, dependents[x][j]) \/ Pending(x, j)
  BY <1>1 DEF ExtractInv
<1>4. /\ Distinct(sources)' /\ Len(sources') > 0 /\ sources'[1] = Root
      /\ (\A x : Held(x)' => x \in AllSettled')
      /\ \A x : Held(x)' = Held(x)
  BY <1>1, <1>3 DEF Held, Distinct
<1>5. /\ Len(stack') = n - 1
      /\ (\A i \in 1..(n - 1) : stack'[i].item = stack[i].item)
      /\ (\A i \in 1..(n - 2) : stack'[i] = stack[i])
      /\ n > 1 => stack'[n - 1].next = stack[n - 1].next + 1
  BY <1>1, <1>2, UnwindType
<1>6. \A i \in 1..n : /\ stack[i].item \in Path /\ stack[i].next \in Nat
                      /\ Len(dependents[stack[i].item]) \in Nat
  BY StackItems DEF IInv
<1>7. stack[n].next > Len(dependents[stack[n].item])
  BY <1>1 DEF AtEnd, Top
<1> HIDE DEF n
<1>8. n \in Nat \ {0} /\ n \in 1..n
  BY <1>2 DEF n
<1>9. ASSUME NEW x, Held(x), NEW j \in 1..Len(dependents[x])
      PROVE  \/ Precedes(sources, x, dependents[x][j])
             \/ \E k \in 1..(n - 1) : stack'[k].item = x /\ j >= stack'[k].next
  <2>1. CASE Precedes(sources, x, dependents[x][j])
    BY <2>1
  <2>2. CASE Pending(x, j)
    <3>1. PICK k \in 1..n : stack[k].item = x /\ j >= stack[k].next
      BY <2>2 DEF Pending, n
    <3>2. stack[k].next \in Nat /\ Len(dependents[x]) \in Nat /\ j \in Nat
      BY <1>6, <3>1
    <3>3. k # n
      BY <1>7, <3>1, <3>2
    <3>4. k \in 1..(n - 1) /\ n > 1
      BY <1>8, <3>3
    <3>5. CASE k # n - 1
      <4>1. stack'[k] = stack[k]
        BY <1>5, <1>8, <3>4, <3>5
      <4> QED BY <3>1, <3>4, <4>1
    <3>6. CASE k = n - 1 /\ j = stack[k].next
      <4>1. k + 1 \in 1..n
        BY <1>8, <3>4
      <4>2. Precedes(sources, x, stack[k + 1].item) /\ stack[k + 1].item = dependents[x][j]
        BY <1>3, <3>1, <3>4, <3>6
      <4> QED BY <4>2
    <3>7. CASE k = n - 1 /\ j # stack[k].next
      <4>1. stack'[k].next = stack[k].next + 1 /\ stack'[k].item = x
        BY <1>5, <3>1, <3>4, <3>7
      <4>2. j >= stack'[k].next
        BY <3>1, <3>2, <3>7, <4>1
      <4> QED BY <3>4, <4>1, <4>2
    <3> QED BY <3>5, <3>6, <3>7
  <2> QED BY <1>3, <1>9, <2>1, <2>2
<1>10. CASE n = 1
  <2>1. status' = "ready" /\ 1..(n - 1) = {}
    BY <1>1, <1>10 DEF n
  <2>2. \A x : Held(x)' => \A j \in 1..Len(dependents'[x]) :
            Precedes(sources', x, dependents'[x][j])
    BY <1>1, <1>4, <1>9, <2>1
  <2> QED BY <1>4, <2>1, <2>2 DEF ExtractInv
<1>11. CASE n # 1
  <2>1. status' = "extracting" /\ n > 1
    <3>1. n > 1
      BY <1>8, <1>11
    <3>2. Len(stack) # 1
      BY <1>11 DEF n
    <3> QED BY <1>1, <3>1, <3>2
  <2>2. Len(stack') > 0 /\ stack'[1].item = Root
    BY <1>3, <1>5, <1>8, <2>1
  <2>3. ASSUME NEW i \in 1..(n - 1) PROVE Holds(sources', stack'[i].item)
    BY <1>1, <1>3, <1>5, <1>8 DEF Held
  <2>4. ASSUME NEW i \in 1..(Len(stack') - 1)
        PROVE  /\ stack'[i].next \in 1..Len(dependents'[stack'[i].item])
               /\ stack'[i + 1].item = dependents'[stack'[i].item][stack'[i].next]
               /\ Precedes(sources', stack'[i].item, stack'[i + 1].item)
    <3>1. i \in 1..(n - 2) /\ i \in 1..(n - 1) /\ i + 1 \in 1..(n - 1)
      BY <1>5, <1>8
    <3>2. stack'[i] = stack[i] /\ stack'[i + 1].item = stack[i + 1].item
      BY <1>5, <3>1
    <3> QED BY <1>1, <1>3, <3>1, <3>2
  <2>5. \A x : Held(x)' => \A j \in 1..Len(dependents'[x]) :
            Precedes(sources', x, dependents'[x][j]) \/ Pending(x, j)'
    BY <1>1, <1>4, <1>5, <1>9 DEF Pending
  <2>6. \A i \in 1..Len(stack') : Held(stack[i].item)'
    BY <1>5, <2>3 DEF Held
  <2>7. \A i \in 1..(Len(stack') - 1) :
               /\ stack'[i].next \in 1..Len(dependents'[stack'[i].item])
               /\ stack'[i + 1].item = dependents'[stack'[i].item][stack'[i].next]
               /\ Precedes(sources', stack'[i].item, stack'[i + 1].item)
    BY <2>4
  <2> QED BY <1>4, <2>1, <2>2, <2>5, <2>6, <2>7 DEF ExtractInv
<1> QED BY <1>10, <1>11

\* Every step keeps what the extraction has established.
LEMMA ExtractInvStep ==
  ASSUME IInv, LoadInv, ExtractInv, [smNext]_smVars
  PROVE  ExtractInv'
<1>1. CASE status' \notin {"extracting", "ready"}
  BY <1>1 DEF ExtractInv
<1>2. CASE extractDependencies \/ insertDependency \/ insertReturns
  <2>1. AllSettled' = AllSettled
    <3>1. files' = files /\ dependents' = dependents
      BY <1>2 DEF extractDependencies, insertDependency, insertReturns
    <3> QED BY <3>1, SameSettled
  <2> QED BY <1>2, <2>1, StartExtractInv, InsertExtractInv, InsertReturnsExtractInv
<1>3. CASE UNCHANGED smVars
  <2>1. /\ files' = files /\ dependents' = dependents /\ status' = status
        /\ stack' = stack /\ sources' = sources
    BY <1>3 DEF smVars
  <2>2. AllSettled' = AllSettled
    BY <2>1, SameSettled
  <2> QED BY <2>1, <2>2 DEF ExtractInv, Held, Pending
<1>4. CASE getSourceItem \/ loadSub \/ loadSubFails \/ reportCycle \/ loadSubReturns
  BY <1>1, <1>4 DEF getSourceItem, loadSub, loadSubFails, reportCycle, loadSubReturns, Fail
<1> QED BY <1>2, <1>3, <1>4 DEF smNext

\* Nothing is extracted at the start.
LEMMA InitExtractInv ==
  ASSUME smInit
  PROVE  ExtractInv
BY DEF smInit, ExtractInv

\* The finished list holds everything the root needs.
LEMMA ReadyHoldsAll ==
  ASSUME IInv, ExtractInv, status = "ready"
  PROVE  \A p \in Reachable : Held(p)
<1> DEFINE S == {p \in Path : Held(p)}
<1>1. Root \in S
  <2>1. 1 \in 1..Len(sources) /\ sources[1] = Root
    BY DEF ExtractInv, IInv, TypeOK
  <2> QED BY <2>1, PathAssumption DEF Held, Holds
<1>2. ASSUME NEW q \in S, NEW d \in Needs(q) PROVE d \in S
  <2>1. q \in AllSettled /\ q \in Path
    BY DEF ExtractInv
  <2>2. Whole(q)
    BY <2>1, SettledTogether DEF Settled
  <2>3. PICK j \in 1..Len(dependents[q]) : dependents[q][j] = d
    BY <2>1, <2>2, WholeNeeds DEF IInv
  <2>4. Precedes(sources, q, d)
    BY <2>3 DEF ExtractInv
  <2>5. d \in Path
    BY <2>1, NeedsArePaths DEF IInv
  <2> QED BY <2>4, <2>5 DEF Precedes, Held, Holds
<1>3. S \in SUBSET Path /\ \A q \in S : Needs(q) \subseteq S
  BY <1>2
<1> HIDE DEF S
<1>4. Reachable \subseteq S
  BY <1>1, <1>3, ReachableFacts DEF IInv
<1> QED BY <1>4 DEF S
-----------------------------------------------------------------------------
(* The theorems *)

\* The loader keeps its inductive invariant, for any files, path table and
\* depth of dependencies.
THEOREM LoaderInvariant == smSpec => []IInv
<1>1. smInit => IInv
  BY InitIInv
<1>2. IInv /\ [smNext]_smVars => IInv'
  BY LoaderStep
<1> QED BY <1>1, <1>2, PTL DEF smSpec

\* The loader's state is well typed: in particular the loop positions and the
\* elements the traversals reach are always those of existing items.
THEOREM TypeCorrect == smSpec => []TypeOK
<1>1. IInv => TypeOK
  BY DEF IInv
<1> QED BY <1>1, LoaderInvariant, PTL

\* CycleTable is the chain of items under way, so loadSubDependencies takes a
\* dependency for cyclic only when it is its own indirect dependency.
THEOREM CycleTableCorrect == smSpec => []CycleTableIsChain
<1>1. IInv => CycleTableIsChain
  BY DEF IInv
<1> QED BY <1>1, LoaderInvariant, PTL

\* What reportCycleDependencies prints is a cycle of the with clauses.
THEOREM ReportCorrect == smSpec => []ReportIsCycle
<1>1. IInv => ReportIsCycle
  BY DEF IInv
<1> QED BY <1>1, LoaderInvariant, PTL

\* getSourceItem succeeds exactly when everything the input file needs parses,
\* resolves and is free of cycles: for any files, whatever the order of the
\* with clauses, and although items reached twice are loaded once.
THEOREM LoaderExact == smSpec => []LoadsExactlyWellFounded
<1>1. smInit => IInv /\ LoadInv
  BY InitIInv, InitLoadInv
<1>2. IInv /\ LoadInv /\ [smNext]_smVars => (IInv /\ LoadInv)'
  BY LoaderStep, LoadInvStep
<1>3. IInv /\ LoadInv => LoadsExactlyWellFounded
  <2> SUFFICES ASSUME IInv, LoadInv PROVE LoadsExactlyWellFounded
    OBVIOUS
  <2>1. status \in {"loaded", "extracting", "ready"} =>
          Acyclic(Reachable) /\ \A p \in Reachable : WellFormed(p)
    BY RootSettled DEF LoadInv, IInv
  <2>2. status = "failed" => ~Acyclic(Reachable) \/ \E p \in Reachable : ~WellFormed(p)
    BY DEF LoadInv, Faulty
  <2> QED BY <2>1, <2>2 DEF LoadsExactlyWellFounded
<1> QED BY <1>1, <1>2, <1>3, PTL DEF smSpec
-----------------------------------------------------------------------------
(* The driver *)

\* compileSourceItem has begun.
Started == pos > 0 \/ cunit[Root] # "absent"

\* The item is compiled, and written as the command line asks.
Processed(x) ==
  /\ cunit[x] # "absent"
  /\ "EmitLLVM" \in options /\ "SyntaxOnly" \notin options => x \in irPath
  /\ "EmitLLVMBitcode" \in options /\ "SyntaxOnly" \notin options => x \in bitcode

\* The loop over the items goes from the back: those behind pos are processed.
\* An entry point has forced bitcode since the loop began.
LoopInv ==
  /\ Started =>
       /\ status = "ready"
       /\ \A i \in 1..Len(sources) : i > pos => Processed(sources[i])
       /\ "EntryPoint" \in options => "EmitLLVMBitcode" \in options
  /\ exit = "ok" =>
       pos = 0 /\ cunit[Root] # "absent" /\ (linked => "EntryPoint" \in options)

\* What the loader promises, as the driver relies on it.
LoaderInv == IInv /\ LoadInv /\ ExtractInv

\* The inductive invariant of the driver.
DriverInv == LoaderInv /\ DriverTypeOK /\ LoopInv
-----------------------------------------------------------------------------
\* Items that come behind pos are those that the item at pos depends on.
LEMMA DependenciesBehind ==
  ASSUME DriverInv, pos > 0
  PROVE  /\ Item \in Path /\ pos \in 1..Len(sources)
         /\ \A d \in Range(dependents[Item]) :
              \E k \in 1..Len(sources) : k > pos /\ sources[k] = d
<1>1. /\ status = "ready" /\ pos \in 0..Len(sources) /\ sources \in Seq(Path)
      /\ dependents \in [Path -> Seq(Path)]
  BY DEF DriverInv, LoopInv, Started, DriverTypeOK, LoaderInv, IInv, TypeOK
<1>2. pos \in 1..Len(sources) /\ Item \in Path /\ Len(sources) \in Nat
  BY <1>1 DEF Item
<1>3. Held(Item)
  BY <1>2 DEF Held, Holds, Item
<1>4. ASSUME NEW d \in Range(dependents[Item])
      PROVE  \E k \in 1..Len(sources) : k > pos /\ sources[k] = d
  <2>1. PICK j \in 1..Len(dependents[Item]) : dependents[Item][j] = d
    BY <1>1, <1>2 DEF Range
  <2>2. Precedes(sources, Item, d)
    BY <1>1, <1>3, <2>1 DEF DriverInv, LoaderInv, ExtractInv
  <2>3. PICK i \in 1..Len(sources), k \in 1..Len(sources) :
          i < k /\ sources[i] = Item /\ sources[k] = d
    BY <2>2 DEF Precedes
  <2>4. i = pos
    BY <1>1, <1>2, <2>3 DEF DriverInv, LoaderInv, ExtractInv, Distinct, Item
  <2> QED BY <1>2, <2>3, <2>4
<1> QED BY <1>2, <1>4

\* A step of the loader happens before the compilation starts.
LEMMA LoadKeeps ==
  ASSUME DriverInv, LoaderInv', [smNext]_smVars, UNCHANGED compileVars
  PROVE  DriverTypeOK' /\ LoopInv'
<1>1. /\ options' = options /\ pos' = pos /\ cunit' = cunit /\ irPath' = irPath
      /\ bitcode' = bitcode /\ linked' = linked /\ exit' = exit
  BY DEF compileVars
<1>2. CASE Started
  <2>1. status = "ready"
    BY <1>2 DEF DriverInv, LoopInv
  <2>2. ~smNext
    BY <2>1 DEF smNext, getSourceItem, loadSub, loadSubFails, reportCycle,
         loadSubReturns, extractDependencies, insertDependency, insertReturns
  <2>3. sources' = sources /\ status' = status
    BY <2>2 DEF smVars
  <2> QED BY <1>1, <2>3
          DEF DriverInv, DriverTypeOK, LoopInv, Started, Processed
<1>3. CASE ~Started
  <2>1. ~(pos > 0) /\ pos \in Nat /\ cunit[Root] = "absent"
    <3>1. pos \in 0..Len(sources) /\ Len(sources) \in Nat
      BY DEF DriverInv, DriverTypeOK, LoaderInv, IInv, TypeOK
    <3> QED BY <1>3, <3>1 DEF Started
  <2>2. pos' = 0 /\ Len(sources') \in Nat
    BY <1>1, <2>1 DEF LoaderInv, IInv, TypeOK
  <2>3. ~Started'
    BY <1>1, <1>3 DEF Started
  <2>4. exit' # "ok"
    BY <1>1, <2>1 DEF DriverInv, LoopInv
  <2> QED BY <1>1, <2>2, <2>3, <2>4 DEF DriverInv, DriverTypeOK, LoopInv
<1> QED BY <1>2, <1>3

\* The loader's state does not change once it has answered.
LEMMA LoaderRests ==
  ASSUME DriverInv, UNCHANGED smVars
  PROVE  LoaderInv'
BY LoaderStep, LoadInvStep, ExtractInvStep DEF DriverInv, LoaderInv

\* A step that only sets the exit code to an error, and what it was writing.
LEMMA ErrorKeeps ==
  ASSUME DriverInv, UNCHANGED <<smVars, options, pos, bitcode>>,
         exit' = "error", linked' \in BOOLEAN,
         cunit' \in [Path -> Compilations], irPath' \subseteq Path,
         irPath \subseteq irPath',
         cunit' = cunit \/ (pos > 0 /\ \A x \in Path : cunit[x] # "absent" => cunit'[x] # "absent")
  PROVE  DriverTypeOK' /\ LoopInv'
<1>1. /\ options' = options /\ pos' = pos /\ bitcode' = bitcode
      /\ sources' = sources /\ status' = status
  BY DEF smVars
<1>2. DriverTypeOK'
  BY <1>1 DEF DriverInv, DriverTypeOK
<1>3. Started' => Started
  BY <1>1 DEF Started
<1>4. sources \in Seq(Path)
  BY DEF DriverInv, LoaderInv, IInv, TypeOK
<1>5. ASSUME Started, NEW i \in 1..Len(sources), i > pos
      PROVE  Processed(sources[i])'
  <2>1. Processed(sources[i])
    BY <1>5 DEF DriverInv, LoopInv
  <2>2. sources[i] \in Path /\ sources'[i] = sources[i]
    BY <1>1, <1>4, <1>5
  <2>3. cunit'[sources[i]] # "absent"
    BY <2>1, <2>2 DEF Processed
  <2> QED BY <1>1, <2>1, <2>2, <2>3 DEF Processed
<1>6. Started' => /\ status' = "ready"
                  /\ \A i \in 1..Len(sources') : i > pos' => Processed(sources[i])'
                  /\ "EntryPoint" \in options' => "EmitLLVMBitcode" \in options'
  BY <1>1, <1>3, <1>5 DEF DriverInv, LoopInv
<1> QED BY <1>2, <1>6 DEF LoopInv

\* compileSourceItem starts behind the last item.
LEMMA StartKeeps ==
  ASSUME DriverInv, StartCompile
  PROVE  DriverTypeOK' /\ LoopInv'
<1>1. /\ sources' = sources /\ status' = status /\ status = "ready" /\ pos' = Len(sources)
      /\ cunit' = cunit /\ irPath' = irPath /\ bitcode' = bitcode /\ linked' = linked
      /\ exit' = exit /\ exit = "running"
      /\ options' = options \cup IF "EntryPoint" \in options THEN {"EmitLLVMBitcode"}
                                                             ELSE {}
  BY DEF StartCompile, smVars
<1>2. sources \in Seq(Path) /\ Len(sources) \in Nat
  BY DEF DriverInv, LoaderInv, IInv, TypeOK
<1>3. options' \subseteq Switches
  BY <1>1 DEF DriverInv, DriverTypeOK, Switches
<1>4. DriverTypeOK'
  BY <1>1, <1>2, <1>3 DEF DriverInv, DriverTypeOK
<1>5. \A i \in 1..Len(sources') : ~(i > pos')
  BY <1>1, <1>2
<1>6. "EntryPoint" \in options' => "EmitLLVMBitcode" \in options'
  BY <1>1
<1> QED BY <1>1, <1>4, <1>5, <1>6 DEF LoopInv

\* A compiled item is processed, and the loop moves to the one before it.
LEMMA CompileKeeps ==
  ASSUME DriverInv, CompileItem
  PROVE  DriverTypeOK' /\ LoopInv'
<1>1. /\ sources' = sources /\ status' = status /\ options' = options /\ linked' = linked
      /\ exit' = exit /\ exit = "running" /\ pos > 0 /\ pos' = pos - 1
  BY DEF CompileItem, Compiling, smVars
<1>2. Item \in Path /\ pos \in 1..Len(sources) /\ sources \in Seq(Path) /\ Len(sources) \in Nat
  BY <1>1, DependenciesBehind DEF DriverInv, LoaderInv, IInv, TypeOK
<1>3. cunit \in [Path -> Compilations] /\ irPath \subseteq Path /\ bitcode \subseteq Path
  BY DEF DriverInv, DriverTypeOK
<1>4. PICK c \in Compilations \ {"absent"} : cunit' = [cunit EXCEPT ![Item] = c]
  BY DEF CompileItem
<1>5. /\ cunit' \in [Path -> Compilations] /\ cunit'[Item] # "absent"
      /\ \A x \in Path : cunit[x] # "absent" => cunit'[x] # "absent"
  BY <1>2, <1>3, <1>4
<1>6. /\ irPath' = irPath \/ irPath' = irPath \cup {Item}
      /\ bitcode' = bitcode \/ bitcode' = bitcode \cup {Item}
      /\ "EmitLLVM" \in options /\ "SyntaxOnly" \notin options => Item \in irPath'
      /\ "EmitLLVMBitcode" \in options /\ "SyntaxOnly" \notin options => Item \in bitcode'
  BY DEF CompileItem
<1>7. DriverTypeOK'
  <2>1. pos' \in 0..Len(sources')
    BY <1>1, <1>2
  <2> QED BY <1>1, <1>2, <1>3, <1>5, <1>6, <2>1 DEF DriverInv, DriverTypeOK
<1>8. /\ Started /\ status = "ready"
      /\ (\A i \in 1..Len(sources) : i > pos => Processed(sources[i]))
      /\ "EntryPoint" \in options => "EmitLLVMBitcode" \in options
  BY <1>1 DEF Started, DriverInv, LoopInv
<1>9. ASSUME NEW i \in 1..Len(sources), i > pos - 1
      PROVE  Processed(sources[i])'
  <2>1. sources[i] \in Path /\ sources'[i] = sources[i]
    BY <1>1, <1>2
  <2>2. CASE i = pos
    BY <1>1, <1>5, <1>6, <2>1, <2>2 DEF Processed, Item
  <2>3. CASE i # pos
    <3>1. Processed(sources[i])
      BY <1>2, <1>8, <1>9, <2>3
    <3> QED BY <1>1, <1>5, <1>6, <2>1, <3>1 DEF Processed
  <2> QED BY <2>2, <2>3
<1>10. \A i \in 1..Len(sources') : i > pos' => Processed(sources[i])'
  BY <1>1, <1>9
<1> QED BY <1>1, <1>7, <1>8, <1>10 DEF LoopInv

\* Success is reported at the front of the items.
LEMMA FinishKeeps ==
  ASSUME DriverInv, Finish
  PROVE  DriverTypeOK' /\ LoopInv'
<1>1. /\ sources' = sources /\ status' = status /\ options' = options /\ pos' = pos
      /\ cunit' = cunit /\ irPath' = irPath /\ bitcode' = bitcode
      /\ linked' = ("EntryPoint" \in options) /\ exit' = "ok"
      /\ pos = 0 /\ cunit[Root] # "absent"
  BY DEF Finish, Compiled, Exit, smVars
<1>2. linked' \in BOOLEAN /\ (linked' => "EntryPoint" \in options)
  <2>1. linked' \in BOOLEAN
    BY DEF Finish
  <2>2. "EntryPoint" \notin options => ~linked'
    BY DEF Finish
  <2> QED BY <2>1, <2>2
<1>3. DriverTypeOK'
  BY <1>1, <1>2 DEF DriverInv, DriverTypeOK
<1> QED BY <1>1, <1>2, <1>3 DEF DriverInv, LoopInv, Started, Processed

\* Every step of the driver keeps its invariant.
LEMMA DriverStep ==
  ASSUME DriverInv, [Next]_vars
  PROVE  DriverInv'
<1>1. CASE Load
  <2>1. [smNext]_smVars /\ UNCHANGED compileVars
    BY <1>1 DEF Load
  <2>2. LoaderInv'
    BY <2>1, LoaderStep, LoadInvStep, ExtractInvStep DEF DriverInv, LoaderInv
  <2> QED BY <2>1, <2>2, LoadKeeps DEF DriverInv
<1>2. CASE UNCHANGED vars
  <2>1. UNCHANGED smVars /\ UNCHANGED compileVars
    BY <1>2 DEF vars
  <2> QED BY <2>1, LoaderRests, LoadKeeps DEF DriverInv
<1>3. CASE LoadError \/ PrincipleMissing \/ CheckFails \/ LinkFails
  <2>1. /\ UNCHANGED <<smVars, options, pos, bitcode>> /\ cunit' = cunit
        /\ irPath' = irPath /\ exit' = "error" /\ linked' \in BOOLEAN
    BY <1>3 DEF LoadError, PrincipleMissing, CheckFails, LinkFails, Exit, DriverInv,
         DriverTypeOK
  <2>2. cunit' \in [Path -> Compilations] /\ irPath' \subseteq Path /\ irPath \subseteq irPath'
    BY <2>1 DEF DriverInv, DriverTypeOK
  <2>3. DriverTypeOK' /\ LoopInv'
    BY <2>1, <2>2, ErrorKeeps
  <2> QED BY <2>1, <2>3, LoaderRests DEF DriverInv
<1>4. CASE GenerateFails
  <2>1. /\ UNCHANGED <<smVars, options, pos, bitcode>> /\ exit' = "error" /\ pos > 0
        /\ linked' = linked
        /\ irPath' \in {irPath} \cup IF "EmitLLVM" \in options THEN {irPath \cup {Item}} ELSE {}
    BY <1>4 DEF GenerateFails, Compiling, Exit
  <2>2. Item \in Path
    BY <2>1, DependenciesBehind
  <2>3. PICK c \in Compilations \ {"absent"} : cunit' = [cunit EXCEPT ![Item] = c]
    BY <1>4 DEF GenerateFails
  <2>4. /\ cunit' \in [Path -> Compilations]
        /\ \A x \in Path : cunit[x] # "absent" => cunit'[x] # "absent"
    BY <2>2, <2>3 DEF DriverInv, DriverTypeOK
  <2>5. irPath' \subseteq Path /\ irPath \subseteq irPath' /\ linked' \in BOOLEAN
    <3>1. irPath' = irPath \/ irPath' = irPath \cup {Item}
      BY <2>1
    <3> QED BY <2>1, <2>2, <3>1 DEF DriverInv, DriverTypeOK
  <2>6. DriverTypeOK' /\ LoopInv'
    BY <2>1, <2>4, <2>5, ErrorKeeps
  <2> QED BY <2>1, <2>6, LoaderRests DEF DriverInv
<1>5. CASE StartCompile
  BY <1>5, StartKeeps, LoaderRests DEF DriverInv, StartCompile
<1>6. CASE CompileItem
  BY <1>6, CompileKeeps, LoaderRests DEF DriverInv, CompileItem
<1>7. CASE Finish
  BY <1>7, FinishKeeps, LoaderRests DEF DriverInv, Finish
<1> QED BY <1>1, <1>2, <1>3, <1>4, <1>5, <1>6, <1>7 DEF Next

\* main starts in the invariant.
LEMMA DriverInit ==
  ASSUME Init
  PROVE  DriverInv
<1>1. LoaderInv
  BY InitIInv, InitLoadInv, InitExtractInv DEF Init, LoaderInv
<1>2. Root \in Path /\ sources = <<>>
  BY PathAssumption DEF Init, smInit
<1>3. DriverTypeOK
  <2>1. options \subseteq Switches
    BY DriverAssumption DEF Init
  <2>2. pos \in 0..Len(sources)
    BY <1>2 DEF Init
  <2>3. cunit \in [Path -> Compilations]
    BY DEF Init, Compilations
  <2>4. linked \in BOOLEAN
    BY Zenon DEF Init
  <2> QED BY <2>1, <2>2, <2>3, <2>4 DEF Init, DriverTypeOK
<1>4. LoopInv
  BY <1>2 DEF Init, LoopInv, Started
<1> QED BY <1>1, <1>3, <1>4 DEF DriverInv
-----------------------------------------------------------------------------
\* The driver keeps its inductive invariant.
THEOREM DriverInvariant == Spec => []DriverInv
<1>1. Init => DriverInv
  BY DriverInit
<1>2. DriverInv /\ [Next]_vars => DriverInv'
  BY DriverStep
<1> QED BY <1>1, <1>2, PTL DEF Spec

\* The assertion "Dependency not resolved!" of findPrincipleDeclaration never
\* fails: an item is compiled after the items it depends on.
THEOREM CompiledInOrder == Spec => []DependenciesCompiledFirst
<1>1. DriverInv => DependenciesCompiledFirst
  <2> SUFFICES ASSUME DriverInv, Compiling, NEW d \in Range(dependents[Item])
               PROVE  cunit[d] # "absent"
    BY DEF DependenciesCompiledFirst
  <2>1. pos > 0
    BY DEF Compiling
  <2>2. PICK k \in 1..Len(sources) : k > pos /\ sources[k] = d
    BY <2>1, DependenciesBehind
  <2>3. Processed(sources[k])
    BY <2>1, <2>2 DEF DriverInv, LoopInv, Started
  <2> QED BY <2>2, <2>3 DEF Processed
<1> QED BY <1>1, DriverInvariant, PTL

\* Exit code 0 means that the input file and everything it needs, directly or
\* not, were compiled, and, unless -fsyntax-only keeps code from being
\* generated, written in the forms the command line asks for.
THEOREM SuccessComplete == Spec => []SuccessMeansComplete
<1>1. DriverInv => SuccessMeansComplete
  <2> SUFFICES ASSUME DriverInv, exit = "ok" PROVE SuccessMeansComplete
    BY DEF SuccessMeansComplete
  <2>1. pos = 0 /\ Started /\ (linked => "EntryPoint" \in options)
    BY DEF DriverInv, LoopInv, Started
  <2>2. /\ status = "ready"
        /\ \A i \in 1..Len(sources) : i > pos => Processed(sources[i])
        /\ "EntryPoint" \in options => "EmitLLVMBitcode" \in options
    BY <2>1 DEF DriverInv, LoopInv
  <2>3. ASSUME NEW p \in Reachable PROVE Processed(p)
    <3>1. Held(p)
      BY <2>2, ReadyHoldsAll DEF DriverInv, LoaderInv
    <3>2. PICK i \in 1..Len(sources) : sources[i] = p
      BY <3>1 DEF Held, Holds
    <3>3. i > pos
      BY <2>1
    <3> QED BY <2>2, <3>2, <3>3
  <2> QED BY <2>1, <2>2, <2>3 DEF Processed, SuccessMeansComplete
<1> QED BY <1>1, DriverInvariant, PTL
=============================================================================
