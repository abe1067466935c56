-------------------------------- MODULE Scope --------------------------------
(***************************************************************************)
(* The symbol table of the type checker: lib/typecheck/Scope.{h,cpp},       *)
(* Homonym.h and Resolver.{h,cpp}.                                          *)
(*                                                                          *)
(* A Scope is a stack of entries.  The bindings themselves live elsewhere:  *)
(* every identifier carries a Homonym with one list of direct and one list  *)
(* of imported declarations, so each operation on an entry must keep these  *)
(* per-identifier lists in step.  Identifiers (and their homonyms) outlive  *)
(* the Scope: the driver builds one Scope per compilation unit on the same  *)
(* identifier pool.                                                         *)
(***************************************************************************)
EXTENDS Integers, Sequences, FiniteSets, SequencesExt

CONSTANTS
  Name,            \* identifiers (IdentifierInfo)
  Decl,            \* declaration nodes
  Package,         \* package instances that a use clause can import
  idInfo,          \* Decl -> Name, Decl::getIdInfo
  astKind,         \* Decl -> AstKinds, Decl::getKind
  stype,           \* the (uniqued) SubroutineType of a subroutine
  profile,         \* what compareProfiles tells apart: coarser than stype
  region,          \* DeclRegion contents of a package or a type declaration
  PushKinds,       \* kinds of scope the run pushes
  EntryCacheSize,  \* Scope::ENTRY_CACHE_SIZE
  MaxEntries,      \* bound: nesting depth
  MaxImported      \* bound: length of a homonym's import list

Routines == {"Procedure", "Function", "EnumLiteral"}
Types    == {"Array", "Enumeration", "Integer", "PrivateType", "Record",
             "Access", "Incomplete"}
AstKinds == Routines \cup Types \cup {"Value", "Package", "Exception",
                                      "Component"}

ScopeKinds == {"DEAD_SCOPE", "BASIC_SCOPE", "CUNIT_SCOPE", "PACKAGE_SCOPE",
               "SUBROUTINE_SCOPE", "RECORD_SCOPE"}

IsSubroutine(d) == astKind[d] \in Routines

ASSUME DeclAssumption ==
  /\ idInfo \in [Decl -> Name]
  /\ astKind \in [Decl -> AstKinds]
  /\ \A x, y \in Decl : stype[x] = stype[y] => profile[x] = profile[y]

\* The region of a type holds its components, literals and primitive
\* operators, so the recursion over nested regions is one level deep.
ASSUME RegionAssumption ==
  /\ \A r \in Package \cup Decl : region[r] \in Seq(Decl)
  /\ \A t \in Decl : astKind[t] \in Types =>
       \A x \in Range(region[t]) : astKind[x] \in Routines \cup {"Component"}

\* A region lists its own declarations, each once: an instance has copies of
\* what its package declares (Decl.cpp:1043).  Array types declare nothing.
ASSUME OwnerAssumption ==
  /\ \A r, s \in Package \cup Decl :
       \A i \in DOMAIN region[r], j \in DOMAIN region[s] :
         region[r][i] = region[s][j] => r = s /\ i = j
  /\ \A p \in Package \cap Decl : astKind[p] = "Package"
  /\ \A t \in Decl : astKind[t] = "Array" => region[t] = <<>>

ASSUME BoundAssumption ==
  /\ PushKinds \subseteq ScopeKinds \ {"DEAD_SCOPE"}
  /\ EntryCacheSize \in Nat /\ MaxEntries \in Nat \ {0} /\ MaxImported \in Nat

VARIABLES
  entries,      \* Scope::entries, the front (innermost) first
  entryCache,   \* the first numCachedEntries slots of Scope::entryCache
  directDecls,  \* Homonym::directDecls of every identifier
  importDecls   \* Homonym::importDecls of every identifier

vars == <<entries, entryCache, directDecls, importDecls>>

Entry == [kind: ScopeKinds, directDecls: SUBSET Decl, importDecls: Seq(Package)]

TypeOK ==
  /\ entries \in Seq(Entry) /\ Len(entries) =< MaxEntries
  /\ entryCache \in Seq(Entry) /\ Len(entryCache) =< EntryCacheSize
  /\ directDecls \in [Name -> Seq(Decl)]
  /\ importDecls \in [Name -> Seq(Decl)]
-----------------------------------------------------------------------------
(* Scope::Entry *)

\* The declarations named n among those of the set given.
Named(S, n) == {d \in S : idInfo[d] = n}

\* addDirectDecl, addImportDecl of a homonym: the latest comes first.
Link(lists, d) == [lists EXCEPT ![idInfo[d]] = <<d>> \o @]

\* Mutants of Unlink: the last occurrence goes, or every occurrence.
UnlinkLast(lists, d) ==
  [lists EXCEPT ![idInfo[d]] = Reverse(RemoveFirst(Reverse(@), d))]
UnlinkEvery(lists, d) == [lists EXCEPT ![idInfo[d]] = Remove(@, d)]

\* removeDirectDecl, removeImportDecl: unlink the first occurrence.
Unlink(lists, d) == [lists EXCEPT ![idInfo[d]] = RemoveFirst(@, d)]

\* The order in which a package's declarations are visited, descending into
\* the regions of the type declarations of the given kinds.
Visit(package, kinds) ==
  FlattenSeq([i \in DOMAIN region[package] |->
                LET d == region[package][i]
                IN  <<d>> \o IF astKind[d] \in kinds THEN region[d] ELSE <<>>])

ImportedKinds == {"Array", "Enumeration", "Integer", "PrivateType"}

importDeclarativeRegion(lists, package) ==
  FoldLeft(Link, lists, Visit(package, ImportedKinds))

\* Mutant: the regions of enumeration types are not cleared.
ClearedKindsIntegerOnly == {"Integer"}

ClearedKinds == {"Enumeration", "Integer"}

clearDeclarativeRegion(lists, package) ==
  FoldLeft(Unlink, lists, Visit(package, ClearedKinds))

\* Entry::clear, as a function of the entry.
ClearedEntry(e) ==
  [e EXCEPT !.kind = "DEAD_SCOPE", !.directDecls = {}, !.importDecls = <<>>]

\* The homonym lists once the entry's declarations are unlinked.  Each
\* declaration is removed from its own list, so the order does not matter.
UnlinkDirect(lists, e) == FoldLeft(Unlink, lists, SetToSeq(e.directDecls))
UnlinkImports(lists, e) == FoldLeft(clearDeclarativeRegion, lists, e.importDecls)
-----------------------------------------------------------------------------
(* Scope *)

\* Scope::push once the guard on the depth is met: a cached entry is reused
\* with whatever clear() left in it.
Pushed(kind, stack, cache) ==
  IF cache # <<>>
  THEN <<[Last(cache) EXCEPT !.kind = kind]>> \o stack
  ELSE <<[kind |-> kind, directDecls |-> {}, importDecls |-> <<>>]>> \o stack

push(kind) ==
  /\ entries # <<>> /\ Len(entries) < MaxEntries
  /\ entries' = Pushed(kind, entries, entryCache)
  /\ entryCache' = IF entryCache # <<>> THEN Front(entryCache) ELSE <<>>
  /\ UNCHANGED <<directDecls, importDecls>>

\* The compilation-unit scope itself is only popped by the destructor.
pop ==
  /\ Len(entries) > 1
  /\ directDecls' = UnlinkDirect(directDecls, Head(entries))
  /\ importDecls' = UnlinkImports(importDecls, Head(entries))
  /\ entries' = Tail(entries)
  /\ entryCache' = IF Len(entryCache) < EntryCacheSize
                   THEN Append(entryCache, ClearedEntry(Head(entries)))
                   ELSE entryCache

\* Scope::Scope: a new compilation unit begins, with an empty entry cache.
Create ==
  /\ entries = <<>>
  /\ entries' = Pushed("CUNIT_SCOPE", <<>>, <<>>)
  /\ entryCache' = <<>>
  /\ UNCHANGED <<directDecls, importDecls>>

\* Scope::~Scope: every entry is popped, innermost first.
Destroy ==
  /\ entries # <<>>
  /\ directDecls' = FoldLeft(UnlinkDirect, directDecls, entries)
  /\ importDecls' = FoldLeft(UnlinkImports, importDecls, entries)
  /\ entries' = <<>> /\ entryCache' = <<>>

\* The early return: some entry has imported the package already.
AlreadyImported(package) ==
  \E i \in DOMAIN entries : Contains(entries[i].importDecls, package)

addImport(package) ==
  /\ entries # <<>>
  /\ ~AlreadyImported(package)
  /\ importDecls' = importDeclarativeRegion(importDecls, package)
  /\ \A n \in Name : Len(importDecls'[n]) =< MaxImported
  /\ entries' = [entries EXCEPT ![1].importDecls = Append(@, package)]
  /\ UNCHANGED <<entryCache, directDecls>>

directDeclsConflict(x, y) ==
  /\ idInfo[x] = idInfo[y]
  /\ IsSubroutine(x) /\ IsSubroutine(y) => profile[x] = profile[y]

findConflictingDirectDecl(d) ==
  {x \in Head(entries).directDecls : directDeclsConflict(x, d)}

\* addDirectDecl and addDirectDeclNoConflicts: a declaration in conflict with
\* one of the current entry is refused (or asserted away) and nothing changes.
addDirectDecl(d) ==
  /\ entries # <<>>
  /\ findConflictingDirectDecl(d) = {}
  /\ entries' = [entries EXCEPT ![1].directDecls = @ \cup {d}]
  /\ directDecls' = Link(directDecls, d)
  /\ UNCHANGED <<entryCache, importDecls>>

\* What a package exports is only imported; the rest is declared lexically.
Exported == UNION {Range(Visit(p, Types)) : p \in Package}

Init ==
  /\ entries = <<>> /\ entryCache = <<>>
  /\ directDecls = [n \in Name |-> <<>>]
  /\ importDecls = [n \in Name |-> <<>>]

Next ==
  \/ Create \/ Destroy \/ pop
  \/ \E k \in PushKinds : push(k)
  \/ \E p \in Package : addImport(p)
  \/ \E d \in Decl \ Exported : addDirectDecl(d)

Spec == Init /\ [][Next]_vars
-----------------------------------------------------------------------------
(* Resolver: what a lookup collects from a homonym. *)

\* Mutant of LeadingSubroutines: a value or type does not end the search.
AllSubroutines(n) == SelectSeq(directDecls[n], IsSubroutine)

\* The declarations in front of the first one that is not a subroutine.
LeadingSubroutines(n) ==
  LET stop == SelectInSeq(directDecls[n], LAMBDA d : ~IsSubroutine(d))
  IN  IF stop = 0 THEN directDecls[n] ELSE SubSeq(directDecls[n], 1, stop - 1)

\* The inner loop stops at the first collected overload of another type, so a
\* candidate counts as duplicated only when it equals every one of them.
Duplicated(d, overloads) ==
  overloads # <<>> /\ \A i \in DOMAIN overloads : stype[overloads[i]] = stype[d]

directOverloads(n) ==
  FoldLeft(LAMBDA found, d : IF Duplicated(d, found) THEN found
                                                     ELSE Append(found, d),
           <<>>, LeadingSubroutines(n))

\* Resolver::directDecl, as the set of at most one declaration.
directDecl(n) ==
  {d \in Range(directDecls[n]) : d = Head(directDecls[n]) /\ ~IsSubroutine(d)}

\* The imports of n of these kinds, as their positions in its list.
Indirect(n, kinds) == {i \in DOMAIN importDecls[n] : astKind[importDecls[n][i]] \in kinds}
At(list, places) == {list[i] : i \in places}

\* Resolver::getVisibleSubroutines after filterFunctionals (statement names)
\* or filterProcedures (expression names) kept the routines of these kinds.
getVisibleSubroutines(n, kinds) ==
  {d \in Range(directOverloads(n)) : astKind[d] \in kinds}
    \cup IF Indirect(n, {"Value"}) # {} THEN {} ELSE At(importDecls[n], Indirect(n, kinds))

\* TypeCheck::checkDirectName with checkIndirectName: the declarations a
\* simple name may denote, empty when the name is reported as an error.
checkDirectName(n, forStatement) ==
  LET kinds  == IF forStatement THEN {"Procedure"} ELSE {"Function", "EnumLiteral"}
      direct == {d \in directDecl(n) : astKind[d] # "Component"}
      types  == Indirect(n, Types)
      values == Indirect(n, {"Value"})
      overloaded == {d \in Range(directOverloads(n)) : astKind[d] \in kinds}
      indirect   == Indirect(n, kinds)
  IN  IF direct # {} THEN direct
      ELSE IF overloaded # {} THEN getVisibleSubroutines(n, kinds)
      ELSE IF Cardinality(types) = 1 /\ values = {} /\ indirect = {}
      THEN At(importDecls[n], types)
      ELSE IF indirect # {} /\ values = {} /\ types = {}
      THEN getVisibleSubroutines(n, kinds)
      ELSE {}
-----------------------------------------------------------------------------
(* Properties *)

\* How many declarations named n the first i entries of the stack have made.
Upto(stack, n) ==
  LET sum[i \in 0..Len(stack)] ==
        IF i = 0 THEN 0
        ELSE sum[i - 1] + Cardinality(Named(stack[i].directDecls, n))
  IN  sum

\* The part of n's list that entry i contributed, were the list the
\* concatenation of what the entries declare, innermost first.
Block(n, i) ==
  SubSeq(directDecls[n], Upto(entries, n)[i - 1] + 1, Upto(entries, n)[i])

Lexical == INSTANCE LexicalScope
             WITH frames <- [i \in DOMAIN entries |-> [n \in Name |-> Block(n, i)]]

\* The flat per-identifier lists implement a stack of frames: Scope::pop
\* unlinks exactly the innermost frame's declarations and leaves every outer
\* binding in its place, even where one declaration is bound in two frames (a
\* subroutine is visible in its own body, CheckSubroutine.cpp:211).
ImplementsLexicalScope == Lexical!Spec

\* No homonym list holds a direct declaration that no entry owns, and each
\* frame's part of a list is what its entry says it declared: the assertions
\* of Entry::removeDirectDecl cannot fail, a destroyed Scope leaves nothing
\* behind for the next compilation unit, and an entry from the cache, of which
\* Entry::initialize resets the kind only, brings nothing with it.
HomonymsMatchEntries ==
  \A n \in Name :
    /\ Len(directDecls[n]) = Upto(entries, n)[Len(entries)]
    /\ \A i \in DOMAIN entries :
         Range(Block(n, i)) = Named(entries[i].directDecls, n)

\* The declarations now made visible by some use clause.
ImportedNow ==
  UNION {Range(Visit(p, ImportedKinds)) :
           p \in UNION {Range(entries[i].importDecls) : i \in DOMAIN entries}}

\* As long as some entry imports a package, everything a use clause makes
\* visible can be looked up, including the operators of its types: clearing
\* another entry never unlinks it (Entry::clearDeclarativeRegion).  And what
\* outlives its scope is confined to the operators of private types, which
\* clearDeclarativeRegion does not walk into.  A package left in an entry of
\* the cache would be one that Scope::addImport takes for imported.
ImportsFollowEntries ==
  /\ \A d \in ImportedNow : Contains(importDecls[idInfo[d]], d)
  /\ \A n \in Name : \A d \in Range(importDecls[n]) \ ImportedNow :
       \E t \in Decl : astKind[t] = "PrivateType" /\ Contains(region[t], d)

\* The innermost entry that declares n, 0 if none does.
Innermost(n) ==
  SelectInSeq(entries, LAMBDA e : Named(e.directDecls, n) # {})

\* A simple name denotes what the innermost scope declaring it says: a value,
\* type, package or exception there hides every other declaration; subroutines
\* there are all candidates, and none of the candidates lies beyond a
\* declaration that is not a subroutine (CheckName.cpp:92, Resolver.cpp:76).
InnermostDeclarationWins ==
  \A n \in Name : Innermost(n) # 0 =>
    LET here   == Named(entries[Innermost(n)].directDecls, n)
        hiding == {d \in here : ~IsSubroutine(d) /\ astKind[d] # "Component"}
        \* Entries in front of which no other kind of declaration intervenes.
        reach  == {i \in DOMAIN entries : \A j \in 1..i :
                     \A d \in Named(entries[j].directDecls, n) : IsSubroutine(d)}
        seen   == UNION {entries[i].directDecls : i \in reach}
    IN  \A forStatement \in BOOLEAN :
          LET found == checkDirectName(n, forStatement)
              kinds == IF forStatement THEN {"Procedure"}
                                       ELSE {"Function", "EnumLiteral"}
          IN  /\ hiding # {} => found = hiding
              /\ \A d \in here : astKind[d] \in kinds => d \in found
              /\ found \ Exported \subseteq hiding \cup seen
=============================================================================
