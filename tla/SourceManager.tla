---------------------------- MODULE SourceManager ----------------------------
(***************************************************************************)
(* The driver's dependency loader: tools/driver/SourceManager.{h,cpp} with  *)
(* lib/parser/DepParser.cpp.                                                *)
(*                                                                          *)
(* Starting from the file on the command line, the with clauses of every    *)
(* file are resolved to source items, depth first, while CycleTable holds   *)
(* the items under way.  The graph is then flattened by                     *)
(* SourceItem::extractDependencies into the list the driver compiles from   *)
(* back to front.  The C++ recursion is a stack of loop positions here.     *)
(***************************************************************************)
EXTENDS Integers, Sequences, FiniteSets, SequencesExt

CONSTANTS
  Path,        \* file paths; SourceTable keeps one SourceItem for each
  Name,        \* unit names, lower case, as they appear in with clauses
  pathTable,   \* SourceManager::PathTable: from some names to paths
  Root,        \* the input file as spelled on the command line
  FileSystems  \* the contents the files may have, one of them for each run

\* What DepParser finds in a file: the with clauses, in order (of a dotted
\* name only the first component is kept), and whether they parse at all.
File == [withs: Seq(Name), parses: BOOLEAN]

ASSUME PathAssumption ==
  /\ Root \in Path
  /\ DOMAIN pathTable \subseteq Name /\ pathTable \in [DOMAIN pathTable -> Path]
  /\ FileSystems \subseteq [Path -> File]

VARIABLES
  files,       \* the text of every file
  dependents,  \* SourceItem::dependents of every item
  cycleTable,  \* SourceManager::CycleTable, a SetVector
  stack,       \* the activations of a recursive traversal, outermost first
  status,      \* how far the traversal has come
  report,      \* the items named by reportCycleDependencies
  sources      \* the SetVector filled by insertDependencies

smVars == <<files, dependents, cycleTable, stack, status, report, sources>>

\* A loop over the dependents of item, at position next.
Frame == [item: Path, next: Nat \ {0}]
Statuses == {"start", "loading", "loaded", "failed", "extracting", "ready"}

TypeOK ==
  /\ files \in [Path -> File]
  /\ dependents \in [Path -> Seq(Path)]
  /\ cycleTable \in Seq(Path)
  /\ stack \in Seq(Frame)
  /\ status \in Statuses
  /\ report \in Seq(Path)
  /\ sources \in Seq(Path)
-----------------------------------------------------------------------------
(* llvm::SetVector *)

\* The elements are distinct, so an element has one position.
Holds(set, x) == \E i \in 1..Len(set) : set[i] = x
IndexOf(set, x) == CHOOSE i \in 1..Len(set) : set[i] = x

\* Mutant: remove() does nothing.
SetKeep(set, x) == set

SetRemove(set, x) == IF Holds(set, x) THEN RemoveAt(set, IndexOf(set, x)) ELSE set
-----------------------------------------------------------------------------
(* The traversal stack *)

Top == stack[Len(stack)]

Enter(item) == [item |-> item, next |-> 1]
\* The loop at the top has more dependents to visit; the one it is at.
Visiting == stack # <<>> /\ Top.next =< Len(dependents[Top.item])
Sub == dependents[Top.item][Top.next]
AtEnd == stack # <<>> /\ Top.next > Len(dependents[Top.item])

\* Mutant of Unwind: the caller's loop does not move on.
UnwindInPlace ==
  stack' = IF Len(stack) = 1 THEN <<>> ELSE SubSeq(stack, 1, Len(stack) - 1)

\* The activation on top returns and its caller's loop moves on.
Unwind ==
  stack' = IF Len(stack) = 1 THEN <<>>
           ELSE [SubSeq(stack, 1, Len(stack) - 1)
                   EXCEPT ![Len(stack) - 1].next = @ + 1]
-----------------------------------------------------------------------------
(* Loading *)

Unresolved(item) ==
  {i \in DOMAIN files[item].withs : files[item].withs[i] \notin DOMAIN pathTable}

\* loadDependencies does nothing for an item that already has dependents.
LoadFails(item) ==
  /\ dependents[item] = <<>>
  /\ ~files[item].parses \/ Unresolved(item) # {}

Resolved(item, count) == [i \in 1..count |-> pathTable[files[item].withs[i]]]

loadDependencies(item) ==
  IF dependents[item] # <<>> THEN dependents
  ELSE [dependents EXCEPT ![item] = Resolved(item, Len(files[item].withs))]

\* A name that cannot be resolved leaves the dependencies found before it.
loadPartly(item) ==
  /\ LoadFails(item)
  /\ IF files[item].parses
     THEN \E k \in Unresolved(item) :
            /\ \A i \in 1..(k - 1) : i \notin Unresolved(item)
            /\ dependents' = [dependents EXCEPT ![item] = Resolved(item, k - 1)]
     ELSE UNCHANGED dependents

\* An error unwinds every activation; each CycleEntry removes its item.
Fail ==
  /\ status' = "failed"
  /\ stack' = <<>> /\ cycleTable' = <<>>
  /\ UNCHANGED <<files, sources>>

\* getSourceItem and processDependencies for the root.
getSourceItem ==
  /\ status = "start"
  /\ report' = <<>>
  /\ \/ loadPartly(Root) /\ Fail
     \/ /\ ~LoadFails(Root)
        /\ dependents' = loadDependencies(Root)
        /\ cycleTable' = <<Root>>
        /\ stack' = <<Enter(Root)>>
        /\ status' = "loading"
        /\ UNCHANGED <<files, sources>>

\* The loop of loadSubDependencies: the next dependent is loaded, and its own
\* dependents become the innermost loop.
loadSub ==
  /\ status = "loading" /\ Visiting
  /\ ~Holds(cycleTable, Sub) /\ ~LoadFails(Sub)
  /\ cycleTable' = Append(cycleTable, Sub)
  /\ dependents' = loadDependencies(Sub)
  /\ stack' = Append(stack, Enter(Sub))
  /\ UNCHANGED <<files, status, report, sources>>

loadSubFails ==
  /\ status = "loading" /\ Visiting
  /\ ~Holds(cycleTable, Sub) /\ loadPartly(Sub)
  /\ report' = <<>>
  /\ Fail

\* Mutant: the whole table is printed, not only the cycle.
reportChain ==
  /\ status = "loading" /\ Visiting
  /\ Holds(cycleTable, Sub)
  /\ report' = cycleTable
  /\ UNCHANGED dependents
  /\ Fail

\* reportCycleDependencies prints the table from the item's first occurrence.
reportCycle ==
  /\ status = "loading" /\ Visiting
  /\ Holds(cycleTable, Sub)
  /\ report' = SubSeq(cycleTable, IndexOf(cycleTable, Sub), Len(cycleTable))
  /\ UNCHANGED dependents
  /\ Fail

\* Mutant: an item that is loaded stays in the table.
loadSubKeeps ==
  /\ status = "loading" /\ AtEnd
  /\ UNCHANGED cycleTable
  /\ Unwind
  /\ status' = IF Len(stack) = 1 THEN "loaded" ELSE "loading"
  /\ UNCHANGED <<files, dependents, report, sources>>

loadSubReturns ==
  /\ status = "loading" /\ AtEnd
  /\ cycleTable' = SetRemove(cycleTable, Top.item)
  /\ Unwind
  /\ status' = IF Len(stack) = 1 THEN "loaded" ELSE "loading"
  /\ UNCHANGED <<files, dependents, report, sources>>
-----------------------------------------------------------------------------
(* SourceItem::extractDependencies *)

extractDependencies ==
  /\ status = "loaded"
  /\ sources' = <<Root>>
  /\ stack' = <<Enter(Root)>>
  /\ status' = "extracting"
  /\ UNCHANGED <<files, dependents, cycleTable, report>>

\* Mutant: a dependency met again stays where it is.
insertUnlessPresent ==
  /\ status = "extracting" /\ Visiting
  /\ sources' = IF Holds(sources, Sub) THEN sources ELSE Append(sources, Sub)
  /\ stack' = Append(stack, Enter(Sub))
  /\ UNCHANGED <<files, dependents, cycleTable, status, report>>

\* A dependency met again moves to the end, and so do its own dependencies.
insertDependency ==
  /\ status = "extracting" /\ Visiting
  /\ sources' = Append(SetRemove(sources, Sub), Sub)
  /\ stack' = Append(stack, Enter(Sub))
  /\ UNCHANGED <<files, dependents, cycleTable, status, report>>

insertReturns ==
  /\ status = "extracting" /\ AtEnd
  /\ Unwind
  /\ status' = IF Len(stack) = 1 THEN "ready" ELSE "extracting"
  /\ UNCHANGED <<files, dependents, cycleTable, report, sources>>
-----------------------------------------------------------------------------
smInit ==
  /\ files \in FileSystems
  /\ dependents = [p \in Path |-> <<>>]
  /\ cycleTable = <<>> /\ stack = <<>> /\ report = <<>> /\ sources = <<>>
  /\ status = "start"

smNext ==
  \/ getSourceItem \/ loadSub \/ loadSubFails \/ reportCycle \/ loadSubReturns
  \/ extractDependencies \/ insertDependency \/ insertReturns

smSpec == smInit /\ [][smNext]_smVars /\ WF_smVars(smNext)
-----------------------------------------------------------------------------
(* Properties *)

\* The files an item needs, as its text says.
Needs(p) == {pathTable[n] : n \in Range(files[p].withs) \cap DOMAIN pathTable}

\* The root and everything it needs, directly or not.
Reachable ==
  {p \in Path : \A S \in SUBSET Path :
     Root \in S /\ (\A q \in S : Needs(q) \subseteq S) => p \in S}

WellFormed(p) == files[p].parses /\ Range(files[p].withs) \subseteq DOMAIN pathTable

\* Every non-empty set of items has one that needs none of the others.
Acyclic(items) ==
  \A S \in SUBSET items : S # {} => \E p \in S : Needs(p) \cap S = {}

\* While loading, CycleTable is the chain of items being loaded, each one a
\* dependency of the one before, and no item is on the chain twice: the
\* explicit remove and the destructors of CycleEntry agree with the recursion.
CycleTableIsChain ==
  status = "loading" =>
    /\ Len(cycleTable) = Len(stack)
    /\ \A i \in 1..Len(stack) : cycleTable[i] = stack[i].item
    /\ \A i, j \in 1..Len(cycleTable) : cycleTable[i] = cycleTable[j] => i = j
    /\ \A i \in 1..(Len(stack) - 1) :
         /\ stack[i].next \in 1..Len(dependents[stack[i].item])
         /\ stack[i + 1].item = dependents[stack[i].item][stack[i].next]

\* Each line "A depends on B" printed by reportCycleDependencies is true of
\* the files, and the last line closes the cycle.
ReportIsCycle ==
  \A i \in 1..Len(report) :
    report[IF i = Len(report) THEN 1 ELSE i + 1] \in Needs(report[i])

\* getSourceItem succeeds exactly for a root whose dependencies all parse and
\* resolve and contain no cycle, whatever the order they are found in.
LoadsExactlyWellFounded ==
  /\ status \in {"loaded", "extracting", "ready"} =>
       Acyclic(Reachable) /\ \A p \in Reachable : WellFormed(p)
  /\ status = "failed" =>
       ~Acyclic(Reachable) \/ \E p \in Reachable : ~WellFormed(p)
=============================================================================
