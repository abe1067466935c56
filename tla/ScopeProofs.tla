---------------------------- MODULE ScopeProofs ----------------------------
(***************************************************************************)
(* The symbol table keeps its promises, for every set of declarations: the  *)
(* flat lists of the homonyms implement a stack of frames, each entry owns  *)
(* its part of every list, cached entries carry nothing over, and a simple  *)
(* name denotes what its innermost scope declares.                          *)
(*                                                                          *)
(* The argument.  Folds: FoldLeft is a choice of a function on sets; its    *)
(* successive results form a run (FoldRun), and claims about runs are       *)
(* proved by induction on numbers.  Lists: a list leads with the set S of   *)
(* declarations before the list rest (Leads); pushing a declaration and     *)
(* unlinking the first occurrence of one preserve this shape, so unlinking  *)
(* S in any order leaves rest, even where rest holds members of S too.      *)
(* The inductive invariant chains this shape through all entries (Chain):   *)
(* popping the i innermost entries would leave the lists R[i].  It is not   *)
(* enough that each entry's declarations occur in the lists: only that they *)
(* occur in front of those of the outer entries makes the removal of the    *)
(* first occurrence remove the right one.  Imports are another matter, as   *)
(* their lists are not cleared in the order they grew: there each operation *)
(* is described by what it loses (Loses) or gains, and it is an            *)
(* invariant that but for the operators of private types no declaration is  *)
(* listed twice, nor a package imported by two entries (ImportsKept).       *)
(***************************************************************************)
EXTENDS Scope, OrderLemmas

\* The step of FoldLeft in directOverloads.
AddOverload(found, d) == IF Duplicated(d, found) THEN found ELSE Append(found, d)

\* The steps of all folds of the module, by a tag, so that one induction serves
\* them all.
Step(tag, x, y) ==
  IF tag = "link" THEN Link(x, y)
  ELSE IF tag = "unlink" THEN Unlink(x, y)
  ELSE IF tag = "region" THEN clearDeclarativeRegion(x, y)
  ELSE IF tag = "direct" THEN UnlinkDirect(x, y)
  ELSE IF tag = "imports" THEN UnlinkImports(x, y)
  ELSE AddOverload(x, y)

\* The function that the fold of a sequence of length n chooses.
IsFold(tag, base, s, n, f) ==
  f = [t \in SUBSET (1..n) |->
         IF t = {} THEN base ELSE Step(tag, f[t \ {Max(t)}], s[Max(t)])]

\* There is such a function, by induction on the length.
LEMMA FoldExists ==
  ASSUME NEW tag, NEW base, NEW s, NEW n \in Nat
  PROVE  \E f : IsFold(tag, base, s, n, f)
<1> DEFINE T == {m \in Nat : \E f : IsFold(tag, base, s, m, f)}
<1>1. 0 \in T
  <2> DEFINE f == [t \in SUBSET (1..0) |-> base]
  <2>1. \A t \in SUBSET (1..0) : t = {}
    OBVIOUS
  <2>2. f = [t \in SUBSET (1..0) |->
               IF t = {} THEN base ELSE Step(tag, f[t \ {Max(t)}], s[Max(t)])]
    BY <2>1
  <2>3. IsFold(tag, base, s, 0, f)
    BY <2>2, Zenon DEF IsFold
  <2> QED BY <2>3
<1>2. ASSUME NEW m \in Nat, m \in T PROVE m + 1 \in T
  <2>1. PICK f : IsFold(tag, base, s, m, f)
    BY <1>2
  <2>2. \A t \in SUBSET (1..m) :
          f[t] = IF t = {} THEN base ELSE Step(tag, f[t \ {Max(t)}], s[Max(t)])
    BY <2>1, Zenon DEF IsFold
  <2> DEFINE g == [t \in SUBSET (1..(m + 1)) |->
                     IF m + 1 \in t THEN Step(tag, f[t \ {m + 1}], s[m + 1]) ELSE f[t]]
  <2>3. ASSUME NEW t \in SUBSET (1..(m + 1))
        PROVE  g[t] = IF t = {} THEN base ELSE Step(tag, g[t \ {Max(t)}], s[Max(t)])
    <3>1. CASE m + 1 \in t
      <4>1. Max(t) = m + 1
        <5>1. t \in SUBSET (0..(m + 1)) /\ t # {} /\ m + 1 \in Nat
          BY <3>1
        <5>2. Max(t) \in t /\ \A k \in t : k =< Max(t)
          BY <5>1, MaxOfBounded
        <5>3. Max(t) \in 1..(m + 1) /\ m + 1 =< Max(t)
          BY <3>1, <5>2
        <5> QED BY <5>3
      <4>2. t \ {m + 1} \in SUBSET (1..(m + 1)) /\ m + 1 \notin t \ {m + 1}
        OBVIOUS
      <4>3. g[t \ {m + 1}] = f[t \ {m + 1}]
        BY <4>2
      <4>4. g[t] = Step(tag, f[t \ {m + 1}], s[m + 1])
        BY <3>1
      <4> HIDE DEF g
      <4> QED BY <3>1, <4>1, <4>3, <4>4
    <3>2. CASE m + 1 \notin t
      <4>1. t \in SUBSET (1..m)
        BY <3>2
      <4>2. g[t] = f[t]
        BY <3>2
      <4>3. CASE t = {}
        BY <2>2, <4>1, <4>2, <4>3
      <4>4. CASE t # {}
        <5> DEFINE u == t \ {Max(t)}
        <5>1. u \in SUBSET (1..m) /\ u \in SUBSET (1..(m + 1)) /\ m + 1 \notin u
          BY <3>2, <4>1
        <5>2. g[u] = f[u]
          BY <5>1
        <5> HIDE DEF g
        <5> QED BY <2>2, <4>1, <4>2, <4>4, <5>2
      <4> QED BY <4>3, <4>4
    <3> QED BY <3>1, <3>2
  <2>4. g = [t \in SUBSET (1..(m + 1)) |-> g[t]]
    BY Zenon
  <2> HIDE DEF g
  <2>5. IsFold(tag, base, s, m + 1, g)
    BY <2>3, <2>4, Zenon DEF IsFold
  <2> QED BY <2>5
<1>3. Nat \subseteq T
  <2> HIDE DEF T
  <2> QED BY <1>1, <1>2, SetInduction
<1> QED BY <1>3

\* The successive results of a fold.
IsRun(tag, base, s, n, r) ==
  r[0] = base /\ \A k \in 1..n : r[k] = Step(tag, r[k - 1], s[k])

\* Its values on the initial segments are the successive results.
LEMMA FoldRun ==
  ASSUME NEW tag, NEW base, NEW s, NEW n \in Nat, NEW f, IsFold(tag, base, s, n, f)
  PROVE  \E r : IsRun(tag, base, s, n, r) /\ r[n] = f[1..n]
<1> DEFINE r == [k \in 0..n |-> f[1..k]]
<1>1. \A t \in SUBSET (1..n) :
        f[t] = IF t = {} THEN base ELSE Step(tag, f[t \ {Max(t)}], s[Max(t)])
  BY Zenon DEF IsFold
<1>2. 0 \in 0..n /\ n \in 0..n /\ 1..0 = {} /\ {} \in SUBSET (1..n)
  OBVIOUS
<1>3. r[0] = base /\ r[n] = f[1..n]
  BY <1>1, <1>2
<1>4. ASSUME NEW k \in 1..n PROVE r[k] = Step(tag, r[k - 1], s[k])
  <2>1. /\ k \in 0..n /\ k - 1 \in 0..n /\ 1..k \in SUBSET (1..n) /\ 1..k # {}
        /\ (1..k) \ {k} = 1..(k - 1)
    OBVIOUS
  <2>2. Max(1..k) = k
    <3>1. k \in Nat /\ 1..k \in SUBSET (0..k) /\ 1..k # {} /\ k \in 1..k
      OBVIOUS
    <3>2. Max(1..k) \in 1..k /\ \A j \in 1..k : j =< Max(1..k)
      BY <3>1, MaxOfBounded
    <3>3. k =< Max(1..k)
      BY <3>1, <3>2
    <3> QED BY <3>2, <3>3
  <2>3. f[1..k] = Step(tag, f[(1..k) \ {k}], s[k])
    BY <1>1, <2>1, <2>2
  <2>4. r[k] = f[1..k] /\ r[k - 1] = f[1..(k - 1)]
    BY <2>1
  <2> HIDE DEF r
  <2> QED BY <2>1, <2>3, <2>4
<1> HIDE DEF r
<1>5. IsRun(tag, base, s, n, r)
  BY <1>3, <1>4 DEF IsRun
<1> QED BY <1>3, <1>5

\* The fold of importDeclarativeRegion.
LEMMA FoldLink ==
  ASSUME NEW base, NEW s, NEW n \in Nat, DOMAIN s = 1..n
  PROVE  \E r : IsRun("link", base, s, n, r) /\ FoldLeft(Link, base, s) = r[n]
<1> DEFINE P(f) == f = [t \in SUBSET (DOMAIN s) |->
                          IF t = {} THEN base ELSE Link(f[t \ {Max(t)}], s[Max(t)])]
           g == CHOOSE f : P(f)
<1>1. FoldLeft(Link, base, s) = g[DOMAIN s]
  BY Zenon DEF FoldLeft, MapThenFoldSet
<1>2. \A x, y : Step("link", x, y) = Link(x, y)
  BY DEF Step
<1>3. \A f : P(f) <=> IsFold("link", base, s, n, f)
  BY <1>2 DEF IsFold
<1>4. P(g)
  BY <1>3, FoldExists, Zenon
<1>5. IsFold("link", base, s, n, g)
  BY <1>3, <1>4
<1> HIDE DEF g, P
<1>6. PICK r : IsRun("link", base, s, n, r) /\ r[n] = g[1..n]
  BY <1>5, FoldRun
<1> QED BY <1>1, <1>6

\* The fold of UnlinkDirect and clearDeclarativeRegion.
LEMMA FoldUnlink ==
  ASSUME NEW base, NEW s, NEW n \in Nat, DOMAIN s = 1..n
  PROVE  \E r : IsRun("unlink", base, s, n, r) /\ FoldLeft(Unlink, base, s) = r[n]
<1> DEFINE P(f) == f = [t \in SUBSET (DOMAIN s) |->
                          IF t = {} THEN base ELSE Unlink(f[t \ {Max(t)}], s[Max(t)])]
           g == CHOOSE f : P(f)
<1>1. FoldLeft(Unlink, base, s) = g[DOMAIN s]
  BY Zenon DEF FoldLeft, MapThenFoldSet
<1>2. \A x, y : Step("unlink", x, y) = Unlink(x, y)
  BY DEF Step
<1>3. \A f : P(f) <=> IsFold("unlink", base, s, n, f)
  BY <1>2 DEF IsFold
<1>4. P(g)
  BY <1>3, FoldExists, Zenon
<1>5. IsFold("unlink", base, s, n, g)
  BY <1>3, <1>4
<1> HIDE DEF g, P
<1>6. PICK r : IsRun("unlink", base, s, n, r) /\ r[n] = g[1..n]
  BY <1>5, FoldRun
<1> QED BY <1>1, <1>6

\* The fold of UnlinkImports.
LEMMA FoldRegions ==
  ASSUME NEW base, NEW s, NEW n \in Nat, DOMAIN s = 1..n
  PROVE  \E r : IsRun("region", base, s, n, r) /\ FoldLeft(clearDeclarativeRegion, base, s) = r[n]
<1> DEFINE P(f) == f = [t \in SUBSET (DOMAIN s) |->
                          IF t = {} THEN base ELSE clearDeclarativeRegion(f[t \ {Max(t)}], s[Max(t)])]
           g == CHOOSE f : P(f)
<1>1. FoldLeft(clearDeclarativeRegion, base, s) = g[DOMAIN s]
  BY Zenon DEF FoldLeft, MapThenFoldSet
<1>2. \A x, y : Step("region", x, y) = clearDeclarativeRegion(x, y)
  BY DEF Step
<1>3. \A f : P(f) <=> IsFold("region", base, s, n, f)
  BY <1>2 DEF IsFold
<1>4. P(g)
  BY <1>3, FoldExists, Zenon
<1>5. IsFold("region", base, s, n, g)
  BY <1>3, <1>4
<1> HIDE DEF g, P
<1>6. PICK r : IsRun("region", base, s, n, r) /\ r[n] = g[1..n]
  BY <1>5, FoldRun
<1> QED BY <1>1, <1>6

\* The fold of Destroy over the direct declarations.
LEMMA FoldDirect ==
  ASSUME NEW base, NEW s, NEW n \in Nat, DOMAIN s = 1..n
  PROVE  \E r : IsRun("direct", base, s, n, r) /\ FoldLeft(UnlinkDirect, base, s) = r[n]
<1> DEFINE P(f) == f = [t \in SUBSET (DOMAIN s) |->
                          IF t = {} THEN base ELSE UnlinkDirect(f[t \ {Max(t)}], s[Max(t)])]
           g == CHOOSE f : P(f)
<1>1. FoldLeft(UnlinkDirect, base, s) = g[DOMAIN s]
  BY Zenon DEF FoldLeft, MapThenFoldSet
<1>2. \A x, y : Step("direct", x, y) = UnlinkDirect(x, y)
  BY DEF Step
<1>3. \A f : P(f) <=> IsFold("direct", base, s, n, f)
  BY <1>2 DEF IsFold
<1>4. P(g)
  BY <1>3, FoldExists, Zenon
<1>5. IsFold("direct", base, s, n, g)
  BY <1>3, <1>4
<1> HIDE DEF g, P
<1>6. PICK r : IsRun("direct", base, s, n, r) /\ r[n] = g[1..n]
  BY <1>5, FoldRun
<1> QED BY <1>1, <1>6

\* The fold of Destroy over the imports.
LEMMA FoldImports ==
  ASSUME NEW base, NEW s, NEW n \in Nat, DOMAIN s = 1..n
  PROVE  \E r : IsRun("imports", base, s, n, r) /\ FoldLeft(UnlinkImports, base, s) = r[n]
<1> DEFINE P(f) == f = [t \in SUBSET (DOMAIN s) |->
                          IF t = {} THEN base ELSE UnlinkImports(f[t \ {Max(t)}], s[Max(t)])]
           g == CHOOSE f : P(f)
<1>1. FoldLeft(UnlinkImports, base, s) = g[DOMAIN s]
  BY Zenon DEF FoldLeft, MapThenFoldSet
<1>2. \A x, y : Step("imports", x, y) = UnlinkImports(x, y)
  BY DEF Step
<1>3. \A f : P(f) <=> IsFold("imports", base, s, n, f)
  BY <1>2 DEF IsFold
<1>4. P(g)
  BY <1>3, FoldExists, Zenon
<1>5. IsFold("imports", base, s, n, g)
  BY <1>3, <1>4
<1> HIDE DEF g, P
<1>6. PICK r : IsRun("imports", base, s, n, r) /\ r[n] = g[1..n]
  BY <1>5, FoldRun
<1> QED BY <1>1, <1>6

\* The fold of directOverloads.
OverloadsOf(base, s) ==
  FoldLeft(LAMBDA found, d : IF Duplicated(d, found) THEN found ELSE Append(found, d), base, s)

\* And its run.
LEMMA FoldOverloads ==
  ASSUME NEW base, NEW s, NEW n \in Nat, DOMAIN s = 1..n
  PROVE  \E r : IsRun("overload", base, s, n, r) /\ OverloadsOf(base, s) = r[n]
<1> DEFINE P(f) == f = [t \in SUBSET (DOMAIN s) |->
                          IF t = {} THEN base ELSE AddOverload(f[t \ {Max(t)}], s[Max(t)])]
           g == CHOOSE f : P(f)
<1>1. OverloadsOf(base, s) = g[DOMAIN s]
  BY Zenon DEF FoldLeft, MapThenFoldSet, OverloadsOf, AddOverload
<1>2. \A x, y : Step("overload", x, y) = AddOverload(x, y)
  BY DEF Step
<1>3. \A f : P(f) <=> IsFold("overload", base, s, n, f)
  BY <1>2 DEF IsFold
<1>4. P(g)
  BY <1>3, FoldExists, Zenon
<1>5. IsFold("overload", base, s, n, g)
  BY <1>3, <1>4
<1> HIDE DEF g, P
<1>6. PICK r : IsRun("overload", base, s, n, r) /\ r[n] = g[1..n]
  BY <1>5, FoldRun
<1> QED BY <1>1, <1>6

-----------------------------------------------------------------------------
(* Homonym lists *)

\* The lists of direct declarations, by identifier.
Lists == [Name -> Seq(Decl)]

\* t is s without its p-th element.
Without(s, p, t) ==
  /\ t \in Seq(Decl) /\ Len(t) = Len(s) - 1
  /\ \A i \in 1..(p - 1) : t[i] = s[i]
  /\ \A i \in p..(Len(s) - 1) : t[i] = s[i + 1]

\* RemoveFirst takes out the first occurrence and nothing else.
LEMMA RemoveFacts ==
  ASSUME NEW s \in Seq(Decl), NEW p \in 1..Len(s), \A j \in 1..(p - 1) : s[j] # s[p]
  PROVE  Without(s, p, RemoveFirst(s, s[p]))
<1> DEFINE e == s[p]
<1> HIDE DEF e
<1>0. e = s[p] /\ \A j \in 1..(p - 1) : s[j] # e
  BY DEF e
<1> DEFINE I == {i \in 1..Len(s) : s[i] = e}
           at == SelectInSeq(s, LAMBDA v : v = e)
<1>1. at = IF I # {} THEN Min(I) ELSE 0
  BY Zenon DEF SelectInSeq
<1>2. p \in I /\ I \in SUBSET Nat
  BY <1>0
<1>3. Min(I) \in I /\ \A k \in I : Min(I) =< k
  BY <1>2, MinOfNaturals
<1>4. Min(I) = p
  <2>1. Min(I) \in 1..Len(s) /\ s[Min(I)] = e /\ Min(I) =< p
    BY <1>2, <1>3
  <2>2. Min(I) \notin 1..(p - 1)
    BY <1>0, <2>1
  <2> QED BY <2>1, <2>2
<1>5. at = p
  BY <1>1, <1>2, <1>4
<1>6. RemoveFirst(s, e) = RemoveAt(s, at)
  BY <1>0, Zenon DEF RemoveFirst
<1> HIDE DEF at, I
<1>7. RemoveFirst(s, e) = SubSeq(s, 1, p - 1) \o SubSeq(s, p + 1, Len(s))
  BY <1>5, <1>6 DEF RemoveAt
<1>8. PICK a : a = SubSeq(s, 1, p - 1)
  OBVIOUS
<1>9. PICK b : b = SubSeq(s, p + 1, Len(s))
  OBVIOUS
<1>10. a \in Seq(Decl) /\ Len(a) = p - 1 /\ \A i \in 1..(p - 1) : a[i] = s[i]
  <2>1. p - 1 \in 0..Len(s)
    OBVIOUS
  <2> QED BY <1>8, <2>1, PrefixFacts
<1>11. b \in Seq(Decl) /\ Len(b) = Len(s) - p /\ \A i \in 1..(Len(s) - p) : b[i] = s[p + i]
  <2>1. p + 1 \in Int /\ Len(s) \in Int /\ \A i \in (p + 1)..Len(s) : s[i] \in Decl
    OBVIOUS
  <2>2. /\ b \in Seq(Decl)
        /\ Len(b) = IF p + 1 <= Len(s) THEN Len(s) - (p + 1) + 1 ELSE 0
        /\ \A i \in 1..(Len(s) - (p + 1) + 1) : b[i] = s[(p + 1) + i - 1]
    BY <1>9, <2>1, SubSeqProperties
  <2>4. Len(b) = Len(s) - p
    BY <2>2
  <2>5. \A i \in 1..(Len(s) - p) : b[i] = s[p + i]
    <3> SUFFICES ASSUME NEW i \in 1..(Len(s) - p) PROVE b[i] = s[p + i]
      OBVIOUS
    <3>1. i \in 1..(Len(s) - (p + 1) + 1) /\ (p + 1) + i - 1 = p + i
      OBVIOUS
    <3> QED BY <2>2, <3>1
  <2> QED BY <2>2, <2>4, <2>5
<1>12. PICK c : c = a \o b
  OBVIOUS
<1>13. /\ c \in Seq(Decl) /\ Len(c) = Len(a) + Len(b)
       /\ \A i \in 1..(Len(a) + Len(b)) : c[i] = IF i <= Len(a) THEN a[i] ELSE b[i - Len(a)]
  BY <1>10, <1>11, <1>12, ConcatProperties
<1>14. Len(c) = Len(s) - 1
  BY <1>10, <1>11, <1>13
<1>15. \A i \in 1..(p - 1) : c[i] = s[i]
  <2> SUFFICES ASSUME NEW i \in 1..(p - 1) PROVE c[i] = s[i]
    OBVIOUS
  <2>1. i \in 1..(Len(a) + Len(b)) /\ i <= Len(a)
    BY <1>10, <1>11
  <2> QED BY <1>10, <1>13, <2>1
<1>16. \A i \in p..(Len(s) - 1) : c[i] = s[i + 1]
  <2> SUFFICES ASSUME NEW i \in p..(Len(s) - 1) PROVE c[i] = s[i + 1]
    OBVIOUS
  <2>1. i \in 1..(Len(a) + Len(b)) /\ ~(i <= Len(a)) /\ i - Len(a) = i - (p - 1)
    BY <1>10, <1>11
  <2>2. i - (p - 1) \in 1..(Len(s) - p) /\ p + (i - (p - 1)) = i + 1
    OBVIOUS
  <2>3. c[i] = b[i - Len(a)]
    BY <1>13, <2>1
  <2> QED BY <1>11, <2>1, <2>2, <2>3
<1>17. Without(s, p, c)
  BY <1>13, <1>14, <1>15, <1>16 DEF Without
<1> QED BY <1>0, <1>7, <1>8, <1>9, <1>12, <1>17

\* list is the declarations of S in some order, each once, and then rest.
Leads(list, rest, S) ==
  /\ Len(list) - Len(rest) \in Nat
  /\ {list[i] : i \in 1..(Len(list) - Len(rest))} = S
  /\ \A i, j \in 1..(Len(list) - Len(rest)) : list[i] = list[j] => i = j
  /\ \A i \in 1..Len(rest) : list[(Len(list) - Len(rest)) + i] = rest[i]

\* Unlinking a leading declaration, whatever the rest of the list holds.
LEMMA LeadsRemove ==
  ASSUME NEW list \in Seq(Decl), NEW rest \in Seq(Decl), NEW S, Leads(list, rest, S), NEW d \in S
  PROVE  RemoveFirst(list, d) \in Seq(Decl) /\ Leads(RemoveFirst(list, d), rest, S \ {d})
<1>1. PICK p \in Nat : p = Len(list) - Len(rest)
  BY DEF Leads
<1>2. /\ {list[i] : i \in 1..p} = S
      /\ \A i, j \in 1..p : list[i] = list[j] => i = j
      /\ \A i \in 1..Len(rest) : list[p + i] = rest[i]
  BY <1>1 DEF Leads
<1>3. PICK q \in 1..p : list[q] = d
  BY <1>2
<1>4. p =< Len(list) /\ q \in 1..Len(list) /\ Len(list) \in Nat /\ Len(rest) \in Nat
  BY <1>1
<1>5. \A j \in 1..(q - 1) : list[j] # d
  <2>1. \A j \in 1..(q - 1) : j \in 1..p /\ j # q
    OBVIOUS
  <2> QED BY <1>2, <1>3, <2>1
<1>6. PICK new : new = RemoveFirst(list, d)
  OBVIOUS
<1>7. /\ new \in Seq(Decl) /\ Len(new) = Len(list) - 1
      /\ \A i \in 1..(q - 1) : new[i] = list[i]
      /\ \A i \in q..(Len(list) - 1) : new[i] = list[i + 1]
  <2>1. Without(list, q, RemoveFirst(list, list[q]))
    BY <1>3, <1>4, <1>5, RemoveFacts
  <2> QED BY <1>3, <1>6, <2>1 DEF Without
<1>8. Len(new) - Len(rest) = p - 1 /\ p - 1 \in Nat
  BY <1>1, <1>4, <1>7
<1>9. ASSUME NEW i \in 1..(p - 1)
      PROVE  \E j \in 1..p : j # q /\ new[i] = list[j] /\ j = IF i < q THEN i ELSE i + 1
  <2>1. CASE i < q
    <3>1. i \in 1..(q - 1) /\ i \in 1..p /\ i # q
      BY <2>1
    <3> QED BY <1>7, <2>1, <3>1
  <2>2. CASE ~(i < q)
    <3>1. i \in q..(Len(list) - 1) /\ i + 1 \in 1..p /\ i + 1 # q
      BY <1>4, <2>2
    <3> QED BY <1>7, <2>2, <3>1
  <2> QED BY <2>1, <2>2
<1>10. {new[i] : i \in 1..(p - 1)} = S \ {d}
  <2>1. ASSUME NEW i \in 1..(p - 1) PROVE new[i] \in S \ {d}
    <3>1. PICK j \in 1..p : j # q /\ new[i] = list[j]
      BY <1>9
    <3>2. list[j] # d
      BY <1>2, <1>3, <3>1
    <3> QED BY <1>2, <3>1, <3>2
  <2>2. ASSUME NEW x \in S \ {d} PROVE \E i \in 1..(p - 1) : new[i] = x
    <3>1. PICK j \in 1..p : list[j] = x
      BY <1>2
    <3>2. j # q
      BY <1>3, <3>1
    <3>3. CASE j < q
      <4>1. j \in 1..(q - 1) /\ j \in 1..(p - 1)
        BY <3>3
      <4> QED BY <1>7, <3>1, <4>1
    <3>4. CASE ~(j < q)
      <4>1. j - 1 \in q..(Len(list) - 1) /\ j - 1 \in 1..(p - 1) /\ (j - 1) + 1 = j
        BY <1>4, <3>2, <3>4
      <4> QED BY <1>7, <3>1, <4>1
    <3> QED BY <3>3, <3>4
  <2> QED BY <2>1, <2>2
<1>11. \A i, j \in 1..(p - 1) : new[i] = new[j] => i = j
  <2> SUFFICES ASSUME NEW i \in 1..(p - 1), NEW j \in 1..(p - 1), new[i] = new[j] PROVE i = j
    OBVIOUS
  <2>1. PICK k \in 1..p : new[i] = list[k] /\ k = IF i < q THEN i ELSE i + 1
    BY <1>9
  <2>2. PICK l \in 1..p : new[j] = list[l] /\ l = IF j < q THEN j ELSE j + 1
    BY <1>9
  <2>3. k = l
    BY <1>2, <2>1, <2>2
  <2> QED BY <2>1, <2>2, <2>3
<1>12. \A i \in 1..Len(rest) : new[(p - 1) + i] = rest[i]
  <2> SUFFICES ASSUME NEW i \in 1..Len(rest) PROVE new[(p - 1) + i] = rest[i]
    OBVIOUS
  <2>1. (p - 1) + i \in q..(Len(list) - 1) /\ ((p - 1) + i) + 1 = p + i
    BY <1>1, <1>4
  <2> QED BY <1>2, <1>7, <2>1
<1>13. Leads(new, rest, S \ {d})
  BY <1>8, <1>10, <1>11, <1>12 DEF Leads
<1> QED BY <1>6, <1>7, <1>13

\* A list in which nothing leads is its rest.
LEMMA LeadsEmpty ==
  ASSUME NEW list \in Seq(Decl), NEW rest \in Seq(Decl)
  PROVE  Leads(list, rest, {}) <=> list = rest
<1>1. Len(list) \in Nat /\ Len(rest) \in Nat
  OBVIOUS
<1>2. ASSUME Leads(list, rest, {}) PROVE list = rest
  <2>1. PICK p \in Nat : p = Len(list) - Len(rest)
    BY <1>2 DEF Leads
  <2>2. {list[i] : i \in 1..p} = {} /\ \A i \in 1..Len(rest) : list[p + i] = rest[i]
    BY <1>2, <2>1 DEF Leads
  <2>3. 1..p = {}
    BY <2>2
  <2>4. p = 0
    BY <2>3
  <2>5. Len(list) = Len(rest) /\ \A i \in 1..Len(list) : list[i] = rest[i]
    BY <1>1, <2>1, <2>2, <2>4
  <2> QED BY <2>5, SeqEqual
<1>3. ASSUME list = rest PROVE Leads(list, rest, {})
  <2>1. Len(list) - Len(rest) = 0 /\ 1..0 = {}
    BY <1>1, <1>3
  <2>2. \A i \in 1..Len(rest) : 0 + i = i
    BY <1>1
  <2> QED BY <1>3, <2>1, <2>2 DEF Leads
<1> QED BY <1>2, <1>3

\* Linking a declaration that does not lead yet.
LEMMA LeadsPush ==
  ASSUME NEW list \in Seq(Decl), NEW rest \in Seq(Decl), NEW S, Leads(list, rest, S),
         NEW d \in Decl, d \notin S
  PROVE  Leads(<<d>> \o list, rest, S \cup {d}) /\ <<d>> \o list \in Seq(Decl)
<1>1. PICK p \in Nat : p = Len(list) - Len(rest)
  BY DEF Leads
<1>2. /\ {list[i] : i \in 1..p} = S
      /\ \A i, j \in 1..p : list[i] = list[j] => i = j
      /\ \A i \in 1..Len(rest) : list[p + i] = rest[i]
  BY <1>1 DEF Leads
<1>3. PICK new : new = <<d>> \o list
  OBVIOUS
<1>4. Len(list) \in Nat /\ Len(rest) \in Nat /\ p =< Len(list)
  BY <1>1
<1>5. /\ new \in Seq(Decl) /\ Len(new) = Len(list) + 1 /\ new[1] = d
      /\ \A i \in 1..Len(list) : new[i + 1] = list[i]
  BY <1>3
<1>6. Len(new) - Len(rest) = p + 1
  BY <1>1, <1>4, <1>5
<1>7. \A i \in 1..(p + 1) : i = 1 \/ (i - 1 \in 1..p /\ i - 1 \in 1..Len(list) /\ (i - 1) + 1 = i)
  BY <1>4
<1>8. \A i \in 1..p : new[i + 1] = list[i] /\ i + 1 \in 1..(p + 1)
  BY <1>4, <1>5
<1>9. {new[i] : i \in 1..(p + 1)} = S \cup {d}
  <2>1. ASSUME NEW i \in 1..(p + 1) PROVE new[i] \in S \cup {d}
    <3>1. CASE i = 1
      BY <1>5, <3>1
    <3>2. CASE i # 1
      <4>1. new[i] = list[i - 1] /\ i - 1 \in 1..p
        BY <1>5, <1>7, <3>2
      <4> QED BY <1>2, <4>1
    <3> QED BY <3>1, <3>2
  <2>2. 1 \in 1..(p + 1)
    OBVIOUS
  <2>3. ASSUME NEW x \in S PROVE \E i \in 1..(p + 1) : new[i] = x
    BY <1>2, <1>8
  <2> QED BY <1>5, <2>1, <2>2, <2>3
<1>10. \A i, j \in 1..(p + 1) : new[i] = new[j] => i = j
  <2> SUFFICES ASSUME NEW i \in 1..(p + 1), NEW j \in 1..(p + 1), new[i] = new[j] PROVE i = j
    OBVIOUS
  <2>1. \A k \in 1..p : list[k] # d
    BY <1>2
  <2>2. \A k \in 1..(p + 1) : k # 1 => new[k] = list[k - 1] /\ k - 1 \in 1..p
    BY <1>5, <1>7
  <2>3. CASE i = 1 \/ j = 1
    BY <1>5, <2>1, <2>2, <2>3
  <2>4. CASE i # 1 /\ j # 1
    <3>1. i - 1 = j - 1
      BY <1>2, <2>2, <2>4
    <3> QED BY <3>1
  <2> QED BY <2>3, <2>4
<1>11. \A i \in 1..Len(rest) : new[(p + 1) + i] = rest[i]
  <2> SUFFICES ASSUME NEW i \in 1..Len(rest) PROVE new[(p + 1) + i] = rest[i]
    OBVIOUS
  <2>1. p + i \in 1..Len(list) /\ (p + i) + 1 = (p + 1) + i
    BY <1>1, <1>4
  <2> QED BY <1>2, <1>5, <2>1
<1>12. Leads(new, rest, S \cup {d})
  <2>1. p + 1 \in Nat
    OBVIOUS
  <2> QED BY <1>6, <1>9, <1>10, <1>11, <2>1 DEF Leads
<1> QED BY <1>3, <1>5, <1>12

\* Unlink on all lists at once.
LEMMA UnlinkOne ==
  ASSUME NEW lists \in Lists, NEW rests \in Lists, NEW T, NEW d \in T, T \subseteq Decl,
         \A n \in Name : Leads(lists[n], rests[n], Named(T, n))
  PROVE  /\ Unlink(lists, d) \in Lists
         /\ \A n \in Name : Leads(Unlink(lists, d)[n], rests[n], Named(T \ {d}, n))
<1>1. PICK new : new = Unlink(lists, d)
  OBVIOUS
<1>2. PICK m \in Name : m = idInfo[d]
  BY DeclAssumption
<1>3. d \in Named(T, m)
  BY <1>2 DEF Named
<1>4. lists[m] \in Seq(Decl) /\ rests[m] \in Seq(Decl)
  BY DEF Lists
<1>5. PICK l : l = RemoveFirst(lists[m], d)
  OBVIOUS
<1>6. l \in Seq(Decl) /\ Leads(l, rests[m], Named(T, m) \ {d})
  BY <1>3, <1>4, <1>5, LeadsRemove
<1>7. new = [lists EXCEPT ![m] = l]
  BY <1>1, <1>2, <1>5 DEF Unlink
<1>8. new \in Lists /\ new[m] = l /\ \A n \in Name : n # m => new[n] = lists[n]
  BY <1>6, <1>7 DEF Lists
<1>9. Named(T \ {d}, m) = Named(T, m) \ {d}
  BY DEF Named
<1>10. \A n \in Name : n # m => Named(T \ {d}, n) = Named(T, n)
  BY <1>2 DEF Named
<1>11. ASSUME NEW n \in Name PROVE Leads(new[n], rests[n], Named(T \ {d}, n))
  <2>1. CASE n = m
    BY <1>6, <1>8, <1>9, <2>1
  <2>2. CASE n # m
    BY <1>8, <1>10, <2>2
  <2> QED BY <2>1, <2>2
<1> QED BY <1>1, <1>8, <1>11

\* Entry::clear leaves the lists as they were before the entry's declarations,
\* in whatever order it visits them.
LEMMA UnlinkAll ==
  ASSUME NEW lists \in Lists, NEW rests \in Lists, NEW e, IsFiniteSet(e.directDecls),
         e.directDecls \subseteq Decl,
         \A n \in Name : Leads(lists[n], rests[n], Named(e.directDecls, n))
  PROVE  UnlinkDirect(lists, e) = rests
<1>1. PICK S : S = e.directDecls
  OBVIOUS
<1>2. PICK s : s = SetToSeq(S)
  OBVIOUS
<1>3. /\ s \in Seq(S) /\ DOMAIN s = 1..Len(s) /\ Len(s) \in Nat
      /\ \A i, j \in 1..Len(s) : s[i] = s[j] => i = j
      /\ {s[i] : i \in 1..Len(s)} = S
  BY <1>1, <1>2, SetToSeqFacts
<1>4. PICK n \in Nat : n = Len(s)
  <2>1. Len(s) \in Nat
    BY <1>3
  <2> QED BY <2>1
<1>5. PICK r : IsRun("unlink", lists, s, n, r) /\ FoldLeft(Unlink, lists, s) = r[n]
  BY <1>3, <1>4, FoldUnlink
<1>6. r[0] = lists /\ \A k \in 1..n : r[k] = Unlink(r[k - 1], s[k])
  BY <1>5 DEF IsRun, Step
<1> DEFINE left(k) == {s[i] : i \in (k + 1)..n}
           Good(k) == /\ r[k] \in Lists
                      /\ \A m \in Name : Leads(r[k][m], rests[m], Named(left(k), m))
           T == {k \in Nat : k =< n => Good(k)}
<1>7. 0 \in T
  <2>1. left(0) = S
    BY <1>3, <1>4
  <2> HIDE DEF left
  <2> QED BY <1>1, <1>6, <2>1
<1>8. ASSUME NEW k \in Nat, k \in T PROVE k + 1 \in T
  <2> SUFFICES ASSUME k + 1 =< n PROVE Good(k + 1)
    OBVIOUS
  <2>1. Good(k) /\ k + 1 \in 1..n /\ (k + 1) - 1 = k
    BY <1>8
  <2>2. PICK d : d = s[k + 1]
    OBVIOUS
  <2>3. d \in left(k) /\ left(k) \subseteq Decl
    <3>1. k + 1 \in (k + 1)..n /\ \A i \in (k + 1)..n : i \in 1..n
      BY <2>1
    <3> QED BY <1>1, <1>3, <1>4, <2>2, <3>1
  <2>4. left(k + 1) = left(k) \ {d}
    <3>1. \A i \in (k + 1)..n : i = k + 1 \/ i \in ((k + 1) + 1)..n
      BY <2>1
    <3>2. \A i \in ((k + 1) + 1)..n : i \in (k + 1)..n /\ i # k + 1 /\ i \in 1..n
      BY <2>1
    <3>3. \A i \in ((k + 1) + 1)..n : s[i] # d
      BY <1>3, <1>4, <2>1, <2>2, <3>2
    <3> QED BY <2>2, <3>1, <3>2, <3>3
  <2> HIDE DEF left
  <2>5. r[k] \in Lists /\ \A m \in Name : Leads(r[k][m], rests[m], Named(left(k), m))
    BY <2>1
  <2>6. /\ Unlink(r[k], d) \in Lists
        /\ \A m \in Name : Leads(Unlink(r[k], d)[m], rests[m], Named(left(k) \ {d}, m))
    BY <2>3, <2>5, UnlinkOne
  <2>7. r[k + 1] = Unlink(r[k], d)
    BY <1>6, <2>1, <2>2
  <2> QED BY <2>4, <2>6, <2>7
<1>9. Good(n)
  <2>1. n \in T
    <3> HIDE DEF T
    <3> QED BY <1>7, <1>8, SetInduction
  <2> QED BY <2>1
<1>10. left(n) = {}
  <2>1. (n + 1)..n = {}
    OBVIOUS
  <2> QED BY <2>1
<1>11. r[n] \in Lists /\ \A m \in Name : r[n][m] = rests[m]
  <2>1. \A m \in Name : Named(left(n), m) = {}
    BY <1>10 DEF Named
  <2> HIDE DEF left
  <2>2. ASSUME NEW m \in Name PROVE r[n][m] = rests[m]
    <3>1. r[n][m] \in Seq(Decl) /\ rests[m] \in Seq(Decl) /\ Leads(r[n][m], rests[m], {})
      BY <1>9, <2>1 DEF Lists
    <3> QED BY <3>1, LeadsEmpty
  <2> QED BY <1>9, <2>2
<1>12. r[n] = rests
  <2>1. r[n] = [m \in Name |-> r[n][m]] /\ rests = [m \in Name |-> rests[m]]
    BY <1>11 DEF Lists
  <2> QED BY <1>11, <2>1, Zenon
<1> QED BY <1>1, <1>2, <1>5, <1>12 DEF UnlinkDirect
-----------------------------------------------------------------------------
(* Imported declarations *)

\* The lists of imported declarations, by identifier.
ImportLists == [Name -> Seq(Exported)]

\* The rows that Visit flattens.
VisitRows(package, kinds) ==
  [i \in DOMAIN region[package] |->
     <<region[package][i]>>
       \o IF astKind[region[package][i]] \in kinds THEN region[region[package][i]] ELSE <<>>]

\* Visiting fewer kinds of region visits fewer declarations.
LEMMA VisitIn ==
  ASSUME NEW p \in Package, NEW kinds \in SUBSET Types
  PROVE  /\ Visit(p, kinds) \in Seq(Decl)
         /\ \A x : Contains(Visit(p, kinds), x) => Contains(Visit(p, Types), x)
<1>1. PICK s : s = region[p]
  OBVIOUS
<1>2. s \in Seq(Decl)
  BY <1>1, RegionAssumption
<1>3. DOMAIN s = 1..Len(s) /\ Len(s) \in Nat /\ \A i \in 1..Len(s) : s[i] \in Decl
  BY <1>2
<1> DEFINE tail(k, i) == IF astKind[s[i]] \in k THEN region[s[i]] ELSE <<>>
<1>4. \A k : \A i \in 1..Len(s) : tail(k, i) \in Seq(Decl) /\ <<s[i]>> \in Seq(Decl)
  BY <1>3, RegionAssumption
<1>5. ASSUME NEW k
      PROVE  /\ Visit(p, k) = FlattenSeq(VisitRows(p, k))
             /\ VisitRows(p, k) = [i \in 1..Len(s) |-> <<s[i]>> \o tail(k, i)]
  BY <1>1, <1>3, Zenon DEF Visit, VisitRows
<1> HIDE DEF tail
<1>6. ASSUME NEW k
      PROVE  VisitRows(p, k) \in Seq(Seq(Decl)) /\ Len(VisitRows(p, k)) = Len(s)
  <2>1. \A i \in 1..Len(s) : <<s[i]>> \o tail(k, i) \in Seq(Decl)
    BY <1>4
  <2>2. PICK rows : rows = VisitRows(p, k)
    OBVIOUS
  <2>3. rows \in [1..Len(s) -> Seq(Decl)]
    BY <1>5, <2>1, <2>2
  <2>4. rows \in Seq(Seq(Decl)) /\ Len(rows) = Len(s)
    BY <1>3, <2>3
  <2> QED BY <2>2, <2>4
<1>7. CASE Len(s) = 0
  <2>1. ASSUME NEW k PROVE Visit(p, k) = <<>>
    <3>1. VisitRows(p, k) = <<>>
      BY <1>6, <1>7
    <3>2. Len(<<>>) = 0
      OBVIOUS
    <3>3. FlattenSeq(<<>>) = <<>>
      BY <3>2, Zenon DEF FlattenSeq
    <3> QED BY <1>5, <3>1, <3>3
  <2>2. Visit(p, kinds) = <<>> /\ Visit(p, Types) = <<>> /\ <<>> \in Seq(Decl)
    BY <2>1
  <2> QED BY <2>2
<1>8. CASE Len(s) # 0
  <2>1. ASSUME NEW k
        PROVE  /\ Visit(p, k) \in Seq(Decl)
               /\ \A x : Contains(Visit(p, k), x) <=>
                           \E i \in 1..Len(s) : Contains(<<s[i]>> \o tail(k, i), x)
    <3>1. PICK rows : rows = VisitRows(p, k)
      OBVIOUS
    <3>2. rows \in Seq(Seq(Decl)) /\ Len(rows) = Len(s) /\ Len(rows) # 0
      BY <1>6, <1>8, <3>1
    <3>3. /\ FlattenSeq(rows) \in Seq(Decl)
          /\ \A x : Contains(FlattenSeq(rows), x) <=>
                      \E i \in 1..Len(rows) : Contains(rows[i], x)
      BY <3>2, FlattenFacts
    <3>4. \A i \in 1..Len(s) : rows[i] = <<s[i]>> \o tail(k, i)
      BY <1>5, <3>1
    <3> QED BY <1>5, <3>1, <3>2, <3>3, <3>4
  <2>2. ASSUME NEW i \in 1..Len(s), NEW x, Contains(<<s[i]>> \o tail(kinds, i), x)
        PROVE  Contains(<<s[i]>> \o tail(Types, i), x)
    <3>1. CASE astKind[s[i]] \in kinds
      <4>1. tail(kinds, i) = tail(Types, i)
        BY <3>1 DEF tail
      <4> QED BY <2>2, <4>1
    <3>2. CASE astKind[s[i]] \notin kinds
      <4>1. tail(kinds, i) = <<>>
        BY <3>2 DEF tail
      <4>2. ~Contains(<<>>, x)
        BY DEF Contains
      <4>3. Contains(<<s[i]>>, x)
        BY <1>4, <2>2, <4>1, <4>2, ConcatContains
      <4> QED BY <1>4, <4>3, ConcatContains
    <3> QED BY <3>1, <3>2
  <2> QED BY <2>1, <2>2
<1> QED BY <1>7, <1>8

\* What is visited is exported.
LEMMA VisitExported ==
  ASSUME NEW p \in Package, NEW kinds \in SUBSET Types
  PROVE  /\ Visit(p, kinds) \in Seq(Exported)
         /\ DOMAIN Visit(p, kinds) = 1..Len(Visit(p, kinds)) /\ Len(Visit(p, kinds)) \in Nat
<1>1. PICK v : v = Visit(p, kinds)
  OBVIOUS
<1>2. PICK w : w = Visit(p, Types)
  OBVIOUS
<1>3. v \in Seq(Decl) /\ \A x : Contains(v, x) => Contains(w, x)
  BY <1>1, <1>2, VisitIn
<1>4. w \in Seq(Decl)
  BY <1>2, VisitIn
<1>5. \A i \in 1..Len(w) : w[i] \in Range(w)
  BY <1>4 DEF Range
<1>6. Range(w) \subseteq Exported
  BY <1>2 DEF Exported
<1>7. ASSUME NEW i \in 1..Len(v) PROVE v[i] \in Exported
  <2>1. Contains(w, v[i])
    BY <1>3 DEF Contains
  <2> QED BY <1>5, <1>6, <2>1 DEF Contains
<1>8. v \in Seq(Exported) /\ DOMAIN v = 1..Len(v) /\ Len(v) \in Nat
  BY <1>3, <1>7, SeqDef
<1> QED BY <1>1, <1>8

\* What is exported is declared.
LEMMA ExportedDecls == Exported \subseteq Decl
<1> SUFFICES ASSUME NEW x \in Exported PROVE x \in Decl
  OBVIOUS
<1>1. PICK p \in Package : x \in Range(Visit(p, Types))
  BY DEF Exported
<1>2. Visit(p, Types) \in Seq(Decl)
  BY VisitIn
<1> QED BY <1>1, <1>2 DEF Range

\* RemoveFirst introduces nothing.
LEMMA RemoveStays ==
  ASSUME NEW S, NEW s \in Seq(S), NEW e
  PROVE  RemoveFirst(s, e) \in Seq(S)
<1> DEFINE I == {i \in 1..Len(s) : s[i] = e}
           at == SelectInSeq(s, LAMBDA v : v = e)
<1>1. at = IF I # {} THEN Min(I) ELSE 0
  BY Zenon DEF SelectInSeq
<1>2. CASE I = {}
  BY <1>2 DEF RemoveFirst
<1>3. CASE I # {}
  <2>1. RemoveFirst(s, e) = RemoveAt(s, at)
    BY <1>3, Zenon DEF RemoveFirst
  <2>2. I \in SUBSET Nat
    OBVIOUS
  <2>3. at \in 1..Len(s)
    BY <1>1, <1>3, <2>2, MinOfNaturals
  <2> HIDE DEF at
  <2>4. SubSeq(s, 1, at - 1) \in Seq(S)
    <3>1. at - 1 \in 0..Len(s)
      BY <2>3
    <3> QED BY <3>1, PrefixFacts
  <2>5. SubSeq(s, at + 1, Len(s)) \in Seq(S)
    <3>1. at + 1 \in Int /\ Len(s) \in Int /\ \A i \in (at + 1)..Len(s) : s[i] \in S
      BY <2>3
    <3> QED BY <3>1, SubSeqProperties
  <2> QED BY <2>1, <2>4, <2>5 DEF RemoveAt
<1> QED BY <1>2, <1>3

\* A fold stays in a set that its step stays in.
LEMMA RunStays ==
  ASSUME NEW tag, NEW base, NEW s, NEW n \in Nat, NEW r, IsRun(tag, base, s, n, r),
         NEW X, base \in X, \A x \in X : \A k \in 1..n : Step(tag, x, s[k]) \in X
  PROVE  r[n] \in X
<1> DEFINE T == {k \in Nat : k =< n => r[k] \in X}
<1>1. 0 \in T
  BY DEF IsRun
<1>2. ASSUME NEW k \in Nat, k \in T PROVE k + 1 \in T
  <2> SUFFICES ASSUME k + 1 =< n PROVE r[k + 1] \in X
    OBVIOUS
  <2>1. k + 1 \in 1..n /\ (k + 1) - 1 = k /\ r[k] \in X
    BY <1>2
  <2>2. r[k + 1] = Step(tag, r[k], s[k + 1])
    BY <2>1 DEF IsRun
  <2> QED BY <2>1, <2>2
<1>3. n \in T
  <2> HIDE DEF T
  <2> QED BY <1>1, <1>2, SetInduction
<1> QED BY <1>3

\* importDeclarativeRegion links only exported declarations.
LEMMA ImportStays ==
  ASSUME NEW lists \in ImportLists, NEW p \in Package
  PROVE  importDeclarativeRegion(lists, p) \in ImportLists
<1>1. PICK kinds : kinds = ImportedKinds
  OBVIOUS
<1>2. kinds \in SUBSET Types
  BY <1>1 DEF Types, ImportedKinds
<1>3. PICK v : v = Visit(p, kinds)
  OBVIOUS
<1>4. v \in Seq(Exported) /\ DOMAIN v = 1..Len(v) /\ Len(v) \in Nat
  BY <1>2, <1>3, VisitExported
<1>5. PICK r : IsRun("link", lists, v, Len(v), r) /\ FoldLeft(Link, lists, v) = r[Len(v)]
  BY <1>4, FoldLink
<1>6. ASSUME NEW x \in ImportLists, NEW k \in 1..Len(v)
      PROVE  Step("link", x, v[k]) \in ImportLists
  <2>1. v[k] \in Exported
    BY <1>4
  <2>2. \A m \in Name : <<v[k]>> \o x[m] \in Seq(Exported)
    BY <2>1 DEF ImportLists
  <2>3. Link(x, v[k]) \in ImportLists
    BY <2>2 DEF Link, ImportLists
  <2> QED BY <2>3 DEF Step
<1>7. r[Len(v)] \in ImportLists
  BY <1>4, <1>5, <1>6, RunStays
<1> QED BY <1>1, <1>3, <1>5, <1>7 DEF importDeclarativeRegion

\* clearDeclarativeRegion links nothing.
LEMMA ClearStays ==
  ASSUME NEW lists \in ImportLists, NEW p \in Package
  PROVE  clearDeclarativeRegion(lists, p) \in ImportLists
<1>1. PICK kinds : kinds = ClearedKinds
  OBVIOUS
<1>2. kinds \in SUBSET Types
  BY <1>1 DEF Types, ClearedKinds
<1>3. PICK v : v = Visit(p, kinds)
  OBVIOUS
<1>4. v \in Seq(Exported) /\ DOMAIN v = 1..Len(v) /\ Len(v) \in Nat
  BY <1>2, <1>3, VisitExported
<1>5. PICK r : IsRun("unlink", lists, v, Len(v), r) /\ FoldLeft(Unlink, lists, v) = r[Len(v)]
  BY <1>4, FoldUnlink
<1>6. ASSUME NEW x \in ImportLists, NEW k \in 1..Len(v)
      PROVE  Step("unlink", x, v[k]) \in ImportLists
  <2>1. \A m \in Name : x[m] \in Seq(Exported)
    BY DEF ImportLists
  <2>2. \A m \in Name : RemoveFirst(x[m], v[k]) \in Seq(Exported)
    BY <2>1, RemoveStays
  <2>3. Unlink(x, v[k]) \in ImportLists
    BY <2>2 DEF Unlink, ImportLists
  <2> QED BY <2>3 DEF Step
<1>7. r[Len(v)] \in ImportLists
  BY <1>4, <1>5, <1>6, RunStays
<1> QED BY <1>1, <1>3, <1>5, <1>7 DEF clearDeclarativeRegion

\* Nor does the removal of an entry's imports.
LEMMA UnlinkImportsStays ==
  ASSUME NEW lists \in ImportLists, NEW e, e.importDecls \in Seq(Package)
  PROVE  UnlinkImports(lists, e) \in ImportLists
<1>1. PICK v : v = e.importDecls
  OBVIOUS
<1>2. v \in Seq(Package) /\ DOMAIN v = 1..Len(v) /\ Len(v) \in Nat
  BY <1>1
<1>3. PICK r : /\ IsRun("region", lists, v, Len(v), r)
               /\ FoldLeft(clearDeclarativeRegion, lists, v) = r[Len(v)]
  BY <1>2, FoldRegions
<1>4. ASSUME NEW x \in ImportLists, NEW k \in 1..Len(v)
      PROVE  Step("region", x, v[k]) \in ImportLists
  <2>1. v[k] \in Package
    BY <1>2
  <2>2. clearDeclarativeRegion(x, v[k]) \in ImportLists
    BY <2>1, ClearStays
  <2> QED BY <2>2 DEF Step
<1>5. r[Len(v)] \in ImportLists
  BY <1>2, <1>3, <1>4, RunStays
<1> QED BY <1>1, <1>3, <1>5 DEF UnlinkImports

\* Nor the removal of all imports by the destructor.
LEMMA UnlinkAllImportsStays ==
  ASSUME NEW lists \in ImportLists, NEW E \in Seq(Entry)
  PROVE  FoldLeft(UnlinkImports, lists, E) \in ImportLists
<1>1. DOMAIN E = 1..Len(E) /\ Len(E) \in Nat
  OBVIOUS
<1>2. PICK r : /\ IsRun("imports", lists, E, Len(E), r)
               /\ FoldLeft(UnlinkImports, lists, E) = r[Len(E)]
  BY <1>1, FoldImports
<1>3. ASSUME NEW x \in ImportLists, NEW k \in 1..Len(E)
      PROVE  Step("imports", x, E[k]) \in ImportLists
  <2>1. E[k] \in Entry
    OBVIOUS
  <2>2. E[k].importDecls \in Seq(Package)
    BY <2>1 DEF Entry
  <2>3. UnlinkImports(x, E[k]) \in ImportLists
    BY <2>2, UnlinkImportsStays
  <2> QED BY <2>3 DEF Step
<1>4. r[Len(E)] \in ImportLists
  BY <1>1, <1>2, <1>3, RunStays
<1> QED BY <1>2, <1>4
-----------------------------------------------------------------------------
(* The stack of entries and the lists *)

\* Declarations that one entry can hold together.
Compatible(D) ==
  \A x, y \in D : x # y /\ idInfo[x] = idInfo[y] =>
    IsSubroutine(x) /\ IsSubroutine(y) /\ profile[x] # profile[y]

\* The entries on the stack.
OpenEntry == {e \in Entry : IsFiniteSet(e.directDecls) /\ Compatible(e.directDecls)}

\* R[i] is what is left of the lists once the first i entries are popped.
Chain(R, lists, E) ==
  /\ R \in [0..Len(E) -> Lists]
  /\ R[0] = lists
  /\ \A n \in Name : R[Len(E)][n] = <<>>
  /\ \A i \in 1..Len(E) : \A n \in Name :
       Leads(R[i - 1][n], R[i][n], Named(E[i].directDecls, n))

\* How the operations change the chain.
ChainPush(R, k) == [i \in 0..(k + 1) |-> IF i = 0 THEN R[0] ELSE R[i - 1]]
ChainPop(R, k) == [i \in 0..(k - 1) |-> R[i + 1]]
ChainDeclare(R, d) == [R EXCEPT ![0] = Link(R[0], d)]

\* Empty lists form a chain for the empty stack.
LEMMA ChainEmpty ==
  ASSUME NEW lists \in Lists, \A n \in Name : lists[n] = <<>>
  PROVE  Chain([i \in 0..0 |-> lists], lists, <<>>)
<1>1. Len(<<>>) = 0 /\ 0 \in 0..0 /\ 1..0 = {}
  OBVIOUS
<1>2. PICK R : R = [i \in 0..0 |-> lists]
  OBVIOUS
<1>3. R \in [0..0 -> Lists] /\ R[0] = lists
  BY <1>1, <1>2
<1>4. Chain(R, lists, <<>>)
  BY <1>1, <1>3 DEF Chain
<1> QED BY <1>2, <1>4

\* A new entry owns nothing.
LEMMA ChainOfPush ==
  ASSUME NEW E \in Seq(Entry), NEW lists \in Lists, NEW R, Chain(R, lists, E),
         NEW e \in Entry, e.directDecls = {}
  PROVE  Chain(ChainPush(R, Len(E)), lists, <<e>> \o E)
<1>1. PICK k \in Nat : k = Len(E)
  OBVIOUS
<1>2. PICK F : F = <<e>> \o E
  OBVIOUS
<1>3. Len(F) = k + 1 /\ F[1] = e /\ \A i \in 1..k : F[i + 1] = E[i]
  BY <1>1, <1>2
<1>4. PICK Q : Q = ChainPush(R, k)
  OBVIOUS
<1>5. R \in [0..k -> Lists] /\ R[0] = lists /\ \A n \in Name : R[k][n] = <<>>
  BY <1>1 DEF Chain
<1>6. \A i \in 1..k : \A n \in Name : Leads(R[i - 1][n], R[i][n], Named(E[i].directDecls, n))
  BY <1>1 DEF Chain
<1>7. \A i \in 0..(k + 1) : Q[i] = IF i = 0 THEN R[0] ELSE R[i - 1]
  BY <1>4 DEF ChainPush
<1>8. Q \in [0..(k + 1) -> Lists]
  <2>1. \A i \in 0..(k + 1) : i # 0 => i - 1 \in 0..k
    OBVIOUS
  <2>2. \A i \in 0..(k + 1) : (IF i = 0 THEN R[0] ELSE R[i - 1]) \in Lists
    BY <1>5, <2>1
  <2> QED BY <1>4, <2>2 DEF ChainPush
<1>9. Q[0] = lists /\ Q[k + 1] = R[k] /\ Q[1] = R[0]
  <2>1. 0 \in 0..(k + 1) /\ k + 1 \in 0..(k + 1) /\ 1 \in 0..(k + 1) /\ (k + 1) - 1 = k /\ k + 1 # 0
        /\ 1 - 1 = 0
    OBVIOUS
  <2> QED BY <1>5, <1>7, <2>1
<1>10. ASSUME NEW i \in 1..(k + 1), NEW n \in Name
       PROVE  Leads(Q[i - 1][n], Q[i][n], Named(F[i].directDecls, n))
  <2>1. CASE i = 1
    <3>1. Named(F[i].directDecls, n) = {}
      BY <1>3, <2>1 DEF Named
    <3>2. Q[i - 1][n] = lists[n] /\ Q[i][n] = lists[n] /\ lists[n] \in Seq(Decl)
      BY <1>5, <1>9, <2>1 DEF Lists
    <3> QED BY <3>1, <3>2, LeadsEmpty
  <2>2. CASE i # 1
    <3>1. PICK j \in 1..k : j = i - 1
      BY <2>2
    <3>2. /\ j \in 0..(k + 1) /\ i \in 0..(k + 1) /\ j # 0 /\ i # 0 /\ i = j + 1
      BY <3>1
    <3>3. Q[i] = R[j] /\ Q[j] = R[j - 1] /\ F[i] = E[j]
      BY <1>3, <1>7, <3>1, <3>2
    <3>4. Leads(R[j - 1][n], R[j][n], Named(E[j].directDecls, n))
      BY <1>6
    <3> QED BY <3>1, <3>3, <3>4
  <2> QED BY <2>1, <2>2
<1>11. Chain(Q, lists, F)
  BY <1>3, <1>5, <1>8, <1>9, <1>10 DEF Chain
<1> QED BY <1>1, <1>2, <1>4, <1>11

\* Without its first entry the chain begins with the lists that are left.
LEMMA ChainOfPop ==
  ASSUME NEW E \in Seq(Entry), Len(E) > 0, NEW lists \in Lists, NEW R, Chain(R, lists, E)
  PROVE  R[1] \in Lists /\ Chain(ChainPop(R, Len(E)), R[1], Tail(E))
<1>1. PICK k \in Nat : k = Len(E)
  OBVIOUS
<1>2. PICK F : F = Tail(E)
  OBVIOUS
<1>3. k > 0 /\ Len(F) = k - 1 /\ k - 1 \in Nat /\ \A i \in 1..(k - 1) : F[i] = E[i + 1]
  BY <1>1, <1>2
<1>4. PICK Q : Q = ChainPop(R, k)
  OBVIOUS
<1>5. R \in [0..k -> Lists] /\ R[0] = lists /\ \A n \in Name : R[k][n] = <<>>
  BY <1>1 DEF Chain
<1>6. \A i \in 1..k : \A n \in Name : Leads(R[i - 1][n], R[i][n], Named(E[i].directDecls, n))
  BY <1>1 DEF Chain
<1>7. \A i \in 0..(k - 1) : Q[i] = R[i + 1] /\ i + 1 \in 0..k
  BY <1>3, <1>4 DEF ChainPop
<1>8. Q \in [0..(k - 1) -> Lists]
  BY <1>4, <1>5, <1>7 DEF ChainPop
<1>9. Q[0] = R[1] /\ Q[k - 1] = R[k] /\ R[1] \in Lists
  <2>1. 0 \in 0..(k - 1) /\ k - 1 \in 0..(k - 1) /\ (k - 1) + 1 = k /\ 0 + 1 = 1
    BY <1>3
  <2> QED BY <1>5, <1>7, <2>1
<1>10. ASSUME NEW i \in 1..(k - 1), NEW n \in Name
       PROVE  Leads(Q[i - 1][n], Q[i][n], Named(F[i].directDecls, n))
  <2>1. PICK j \in 1..k : j = i + 1
    OBVIOUS
  <2>2. i - 1 \in 0..(k - 1) /\ i \in 0..(k - 1) /\ (i - 1) + 1 = j - 1
    BY <2>1
  <2>3. Q[i - 1] = R[j - 1] /\ Q[i] = R[j] /\ F[i] = E[j]
    BY <1>3, <1>7, <2>1, <2>2
  <2> QED BY <1>6, <2>3
<1>11. Chain(Q, R[1], F)
  BY <1>3, <1>5, <1>8, <1>9, <1>10 DEF Chain
<1> QED BY <1>1, <1>2, <1>4, <1>9, <1>11

\* A declaration goes in front of those of its entry.
LEMMA ChainOfDeclare ==
  ASSUME NEW E \in Seq(Entry), Len(E) > 0, NEW lists \in Lists, NEW R, Chain(R, lists, E),
         NEW d \in Decl, d \notin E[1].directDecls, NEW F \in Seq(Entry), Len(F) = Len(E),
         F[1].directDecls = E[1].directDecls \cup {d},
         \A i \in 2..Len(E) : F[i].directDecls = E[i].directDecls
  PROVE  Link(lists, d) \in Lists /\ Chain(ChainDeclare(R, d), Link(lists, d), F)
<1>1. PICK k \in Nat : k = Len(E)
  OBVIOUS
<1>2. PICK m \in Name : m = idInfo[d]
  BY DeclAssumption
<1>3. PICK new : new = Link(lists, d)
  OBVIOUS
<1>4. R \in [0..k -> Lists] /\ R[0] = lists /\ \A n \in Name : R[k][n] = <<>>
  BY <1>1 DEF Chain
<1>5. \A i \in 1..k : \A n \in Name : Leads(R[i - 1][n], R[i][n], Named(E[i].directDecls, n))
  BY <1>1 DEF Chain
<1>6. k > 0 /\ 0 \in 0..k /\ 1 \in 0..k /\ 1 \in 1..k /\ 1 - 1 = 0
  BY <1>1
<1>7. lists[m] \in Seq(Decl) /\ R[1][m] \in Seq(Decl)
  BY <1>4, <1>6 DEF Lists
<1>8. Leads(lists[m], R[1][m], Named(E[1].directDecls, m)) /\ d \notin Named(E[1].directDecls, m)
  <2>1. Leads(R[1 - 1][m], R[1][m], Named(E[1].directDecls, m))
    BY <1>5, <1>6
  <2>2. R[1 - 1] = lists
    BY <1>4, <1>6
  <2> QED BY <2>1, <2>2 DEF Named
<1>9. PICK l : l = <<d>> \o lists[m]
  OBVIOUS
<1>10. l \in Seq(Decl) /\ Leads(l, R[1][m], Named(E[1].directDecls, m) \cup {d})
  BY <1>7, <1>8, <1>9, LeadsPush
<1>11. new = [lists EXCEPT ![m] = l]
  BY <1>2, <1>3, <1>9 DEF Link
<1>12. new \in Lists /\ new[m] = l /\ \A n \in Name : n # m => new[n] = lists[n]
  BY <1>10, <1>11 DEF Lists
<1>13. PICK Q : Q = ChainDeclare(R, d)
  OBVIOUS
<1>14. Q = [R EXCEPT ![0] = new]
  BY <1>3, <1>4, <1>13 DEF ChainDeclare
<1>15. Q \in [0..k -> Lists] /\ Q[0] = new /\ \A i \in 1..k : Q[i] = R[i]
  BY <1>4, <1>6, <1>12, <1>14
<1>16. \A n \in Name : Q[k][n] = <<>>
  BY <1>4, <1>6, <1>15
<1>17. ASSUME NEW i \in 1..k, NEW n \in Name
       PROVE  Leads(Q[i - 1][n], Q[i][n], Named(F[i].directDecls, n))
  <2>1. CASE i # 1
    <3>1. i \in 2..k /\ i - 1 \in 1..k
      BY <2>1
    <3>2. F[i].directDecls = E[i].directDecls
      BY <1>1, <3>1
    <3>3. Q[i - 1] = R[i - 1] /\ Q[i] = R[i]
      BY <1>15, <3>1
    <3> QED BY <1>5, <3>2, <3>3
  <2>2. CASE i = 1 /\ n = m
    <3>1. Named(F[1].directDecls, m) = Named(E[1].directDecls, m) \cup {d}
      BY <1>2 DEF Named
    <3>2. Q[i - 1] = new /\ Q[i] = R[1]
      BY <1>6, <1>15, <2>2
    <3> QED BY <1>10, <1>12, <2>2, <3>1, <3>2
  <2>3. CASE i = 1 /\ n # m
    <3>1. Named(F[1].directDecls, n) = Named(E[1].directDecls, n)
      BY <1>2, <2>3 DEF Named
    <3>2. Q[i - 1] = new /\ Q[i] = R[1] /\ R[i - 1] = lists
      BY <1>4, <1>6, <1>15, <2>3
    <3>3. Leads(R[i - 1][n], R[i][n], Named(E[i].directDecls, n))
      BY <1>5
    <3> QED BY <1>12, <2>3, <3>1, <3>2, <3>3
  <2> QED BY <2>1, <2>2, <2>3
<1>18. Chain(Q, new, F)
  BY <1>1, <1>15, <1>16, <1>17 DEF Chain
<1> QED BY <1>3, <1>12, <1>13, <1>18

\* The chain depends only on the direct declarations of the entries.
LEMMA ChainOfSame ==
  ASSUME NEW E, NEW F, Len(F) = Len(E), NEW lists, NEW R, Chain(R, lists, E),
         \A i \in 1..Len(E) : F[i].directDecls = E[i].directDecls
  PROVE  Chain(R, lists, F)
BY DEF Chain

\* Clearing all entries, innermost first, leaves empty lists.
LEMMA ChainOfDestroy ==
  ASSUME NEW E \in Seq(OpenEntry), NEW lists \in Lists, NEW R, Chain(R, lists, E)
  PROVE  FoldLeft(UnlinkDirect, lists, E) \in Lists
         /\ \A n \in Name : FoldLeft(UnlinkDirect, lists, E)[n] = <<>>
<1>1. PICK k \in Nat : k = Len(E)
  OBVIOUS
<1>2. PICK r : IsRun("direct", lists, E, k, r) /\ FoldLeft(UnlinkDirect, lists, E) = r[k]
  <2>1. DOMAIN E = 1..k
    BY <1>1
  <2> QED BY <2>1, FoldDirect
<1>3. r[0] = lists /\ \A i \in 1..k : r[i] = UnlinkDirect(r[i - 1], E[i])
  BY <1>2 DEF IsRun, Step
<1>4. R \in [0..k -> Lists] /\ R[0] = lists /\ \A n \in Name : R[k][n] = <<>>
  BY <1>1 DEF Chain
<1>5. \A i \in 1..k : \A n \in Name : Leads(R[i - 1][n], R[i][n], Named(E[i].directDecls, n))
  BY <1>1 DEF Chain
<1> DEFINE T == {i \in Nat : i =< k => r[i] = R[i]}
<1>6. 0 \in T
  BY <1>3, <1>4
<1>7. ASSUME NEW i \in Nat, i \in T PROVE i + 1 \in T
  <2> SUFFICES ASSUME i + 1 =< k PROVE r[i + 1] = R[i + 1]
    OBVIOUS
  <2>1. i + 1 \in 1..k /\ (i + 1) - 1 = i /\ r[i] = R[i] /\ i \in 0..k /\ i + 1 \in 0..k
    BY <1>7
  <2>2. PICK e : e = E[i + 1]
    OBVIOUS
  <2>3. e \in OpenEntry
    BY <1>1, <2>1, <2>2
  <2>4. IsFiniteSet(e.directDecls) /\ e.directDecls \subseteq Decl
    BY <2>3 DEF OpenEntry, Entry
  <2>5. R[i] \in Lists /\ R[i + 1] \in Lists
    BY <1>4, <2>1
  <2>6. \A n \in Name : Leads(R[i][n], R[i + 1][n], Named(e.directDecls, n))
    BY <1>5, <2>1, <2>2
  <2>7. UnlinkDirect(R[i], e) = R[i + 1]
    BY <2>4, <2>5, <2>6, UnlinkAll
  <2> QED BY <1>3, <2>1, <2>2, <2>7
<1>8. k \in T
  <2> HIDE DEF T
  <2> QED BY <1>6, <1>7, SetInduction
<1>9. r[k] = R[k] /\ R[k] \in Lists
  BY <1>4, <1>8
<1> QED BY <1>2, <1>4, <1>9
-----------------------------------------------------------------------------
(* The inductive invariant *)

\* What Entry::clear makes of an entry.
Blank == [kind |-> "DEAD_SCOPE", directDecls |-> {}, importDecls |-> <<>>]

\* The lists are what the entries on the stack declared, in their order.
Linked == \E R : Chain(R, directDecls, entries)

\* The inductive invariant.
Inv ==
  /\ entries \in Seq(OpenEntry) /\ Len(entries) =< MaxEntries
  /\ entryCache \in Seq({Blank}) /\ Len(entryCache) =< EntryCacheSize
  /\ directDecls \in Lists /\ Linked
  /\ importDecls \in ImportLists

\* Entries on the stack are entries.
LEMMA OpenIsEntry == \A E \in Seq(OpenEntry) : E \in Seq(Entry)
<1> SUFFICES ASSUME NEW E \in Seq(OpenEntry) PROVE E \in Seq(Entry)
  OBVIOUS
<1>1. \A i \in 1..Len(E) : E[i] \in Entry
  BY DEF OpenEntry
<1> QED BY <1>1, SeqDef

\* A new entry can be on the stack.
LEMMA NewEntry ==
  ASSUME NEW kind \in ScopeKinds, NEW e,
         e = [kind |-> kind, directDecls |-> {}, importDecls |-> <<>>]
  PROVE  e \in OpenEntry /\ e \in Entry /\ e.directDecls = {}
<1>1. e \in Entry /\ e.directDecls = {}
  BY DEF Entry
<1>2. IsFiniteSet({})
  BY FS_EmptySet
<1> QED BY <1>1, <1>2 DEF OpenEntry, Compatible

\* Entry::clear erases everything, Entry::initialize sets the kind.
LEMMA BlankFacts ==
  /\ \A e \in Entry : ClearedEntry(e) = Blank
  /\ \A kind \in ScopeKinds :
       [Blank EXCEPT !.kind = kind] = [kind |-> kind, directDecls |-> {}, importDecls |-> <<>>]
<1>1. Blank \in Entry /\ Blank.directDecls = {} /\ Blank.importDecls = <<>> /\ Blank.kind = "DEAD_SCOPE"
  BY DEF Blank, Entry, ScopeKinds
<1>2. ASSUME NEW e \in Entry PROVE ClearedEntry(e) = Blank
  <2>1. PICK a, x, y : a = "DEAD_SCOPE" /\ x = {} /\ y = <<>>
    OBVIOUS
  <2>2. a \in ScopeKinds /\ x \in SUBSET Decl /\ y \in Seq(Package)
    BY <2>1 DEF ScopeKinds
  <2>3. PICK c : c = [e EXCEPT !.kind = a, !.directDecls = x, !.importDecls = y]
    OBVIOUS
  <2>4. c = ClearedEntry(e)
    BY <2>1, <2>3 DEF ClearedEntry
  <2>5. c \in Entry /\ c.kind = a /\ c.directDecls = x /\ c.importDecls = y
    BY <2>2, <2>3 DEF Entry
  <2>6. Blank.kind = a /\ Blank.directDecls = x /\ Blank.importDecls = y
    BY <1>1, <2>1
  <2>7. c = Blank
    BY <1>1, <2>5, <2>6 DEF Entry
  <2> QED BY <2>4, <2>7
<1>3. ASSUME NEW kind \in ScopeKinds
      PROVE  [Blank EXCEPT !.kind = kind] = [kind |-> kind, directDecls |-> {}, importDecls |-> <<>>]
  <2>1. PICK x, y : x = {} /\ y = <<>>
    OBVIOUS
  <2>2. PICK b : b = Blank
    OBVIOUS
  <2>3. b \in Entry /\ b.directDecls = x /\ b.importDecls = y
    BY <1>1, <2>1, <2>2
  <2>4. [b EXCEPT !.kind = kind] = [kind |-> kind, directDecls |-> x, importDecls |-> y]
    BY <2>3 DEF Entry
  <2> QED BY <2>1, <2>2, <2>4
<1> QED BY <1>2, <1>3

\* A recycled entry is as good as a new one.
LEMMA PushedFacts ==
  ASSUME NEW kind \in ScopeKinds, NEW E, NEW cache \in Seq({Blank})
  PROVE  Pushed(kind, E, cache)
           = <<[kind |-> kind, directDecls |-> {}, importDecls |-> <<>>]>> \o E
<1>1. CASE cache = <<>>
  BY <1>1 DEF Pushed
<1>2. CASE cache # <<>>
  <2>1. Len(cache) \in 1..Len(cache)
    BY <1>2
  <2>2. Last(cache) = Blank
    BY <2>1 DEF Last
  <2>3. [Last(cache) EXCEPT !.kind = kind] = [kind |-> kind, directDecls |-> {}, importDecls |-> <<>>]
    BY <2>2, BlankFacts
  <2> QED BY <1>2, <2>3 DEF Pushed
<1> QED BY <1>1, <1>2

\* push and the constructor preserve the invariant.
LEMMA PushInv ==
  ASSUME Inv, NEW kind \in ScopeKinds, entryCache' \in Seq({Blank}), Len(entryCache') =< EntryCacheSize,
         NEW cache \in Seq({Blank}), entries' = Pushed(kind, entries, cache),
         Len(entries) < MaxEntries, UNCHANGED <<directDecls, importDecls>>
  PROVE  Inv'
<1>1. PICK e : e = [kind |-> kind, directDecls |-> {}, importDecls |-> <<>>]
  OBVIOUS
<1>2. e \in OpenEntry /\ e \in Entry /\ e.directDecls = {}
  BY <1>1, NewEntry
<1>3. entries' = <<e>> \o entries
  BY <1>1, PushedFacts
<1>4. entries \in Seq(OpenEntry) /\ entries \in Seq(Entry)
  BY OpenIsEntry DEF Inv
<1>5. PICK R : Chain(R, directDecls, entries)
  BY DEF Inv, Linked
<1>6. Chain(ChainPush(R, Len(entries)), directDecls, <<e>> \o entries)
  BY <1>2, <1>4, <1>5, ChainOfPush DEF Inv
<1>7. Linked'
  BY <1>3, <1>6 DEF Linked
<1>8. entries' \in Seq(OpenEntry) /\ Len(entries') = Len(entries) + 1 /\ Len(entries) \in Nat
  BY <1>2, <1>3, <1>4
<1>9. Len(entries') =< MaxEntries
  BY <1>8, BoundAssumption
<1> QED BY <1>7, <1>8, <1>9 DEF Inv

\* pop leaves the lists that the chain says.
LEMMA PopUnlinks ==
  ASSUME Inv, pop, NEW R, Chain(R, directDecls, entries)
  PROVE  directDecls' = R[1]
<1>1. PICK e : e = Head(entries)
  OBVIOUS
<1>2. entries \in Seq(OpenEntry) /\ entries \in Seq(Entry) /\ Len(entries) > 1 /\ Len(entries) \in Nat
  BY OpenIsEntry DEF Inv, pop
<1>3. e = entries[1] /\ e \in OpenEntry
  BY <1>1, <1>2
<1>4. IsFiniteSet(e.directDecls) /\ e.directDecls \subseteq Decl
  BY <1>3 DEF OpenEntry, Entry
<1>5. R[1] \in Lists
  BY <1>2, ChainOfPop DEF Inv
<1>6. R[0] = directDecls /\ \A i \in 1..Len(entries) : \A n \in Name :
        Leads(R[i - 1][n], R[i][n], Named(entries[i].directDecls, n))
  BY DEF Chain
<1>7. 1 \in 1..Len(entries) /\ 1 - 1 = 0
  BY <1>2
<1>8. \A n \in Name : Leads(directDecls[n], R[1][n], Named(e.directDecls, n))
  BY <1>3, <1>6, <1>7
<1>9. UnlinkDirect(directDecls, e) = R[1]
  BY <1>4, <1>5, <1>8, UnlinkAll DEF Inv
<1> QED BY <1>1, <1>9 DEF pop

\* pop preserves the invariant.
LEMMA PopInv ==
  ASSUME Inv, pop
  PROVE  Inv'
<1>1. PICK e : e = Head(entries)
  OBVIOUS
<1>2. PICK R : Chain(R, directDecls, entries)
  BY DEF Inv, Linked
<1>3. entries \in Seq(OpenEntry) /\ entries \in Seq(Entry) /\ Len(entries) > 1 /\ Len(entries) \in Nat
  BY OpenIsEntry DEF Inv, pop
<1>4. e = entries[1] /\ e \in OpenEntry
  BY <1>1, <1>3
<1>5. IsFiniteSet(e.directDecls) /\ e.directDecls \subseteq Decl /\ e.importDecls \in Seq(Package)
  BY <1>4 DEF OpenEntry, Entry
<1>6. R[1] \in Lists /\ Chain(ChainPop(R, Len(entries)), R[1], Tail(entries))
  BY <1>2, <1>3, ChainOfPop DEF Inv
<1>7. directDecls' = R[1]
  BY <1>2, PopUnlinks
<1>8. Linked' /\ directDecls' \in Lists
  BY <1>6, <1>7 DEF Linked, pop
<1>9. importDecls' \in ImportLists
  BY <1>1, <1>5, UnlinkImportsStays DEF Inv, pop
<1>10. entries' \in Seq(OpenEntry) /\ Len(entries') =< MaxEntries
  <2>1. Tail(entries) \in Seq(OpenEntry) /\ Len(Tail(entries)) = Len(entries) - 1
    BY <1>3
  <2> QED BY <1>3, <2>1, BoundAssumption DEF Inv, pop
<1>11. entryCache' \in Seq({Blank}) /\ Len(entryCache') =< EntryCacheSize
  <2>1. ClearedEntry(e) = Blank
    BY <1>4, BlankFacts DEF OpenEntry
  <2>2. Append(entryCache, Blank) \in Seq({Blank}) /\ Len(Append(entryCache, Blank)) = Len(entryCache) + 1
    BY DEF Inv
  <2>3. entryCache' = IF Len(entryCache) < EntryCacheSize THEN Append(entryCache, Blank) ELSE entryCache
    BY <1>1, <2>1 DEF pop
  <2>4. Len(entryCache) \in Nat /\ EntryCacheSize \in Nat
    BY BoundAssumption DEF Inv
  <2>5. CASE Len(entryCache) < EntryCacheSize
    BY <2>2, <2>3, <2>4, <2>5
  <2>6. CASE ~(Len(entryCache) < EntryCacheSize)
    BY <2>3, <2>6 DEF Inv
  <2> QED BY <2>5, <2>6
<1> QED BY <1>8, <1>9, <1>10, <1>11 DEF Inv

\* The destructor preserves the invariant.
LEMMA DestroyInv ==
  ASSUME Inv, Destroy
  PROVE  Inv'
<1>1. entries \in Seq(OpenEntry) /\ entries \in Seq(Entry)
  BY OpenIsEntry DEF Inv
<1>2. PICK R : Chain(R, directDecls, entries)
  BY DEF Inv, Linked
<1>3. directDecls' \in Lists /\ \A n \in Name : directDecls'[n] = <<>>
  BY <1>1, <1>2, ChainOfDestroy DEF Inv, Destroy
<1>4. entries' = <<>> /\ entryCache' = <<>>
  BY DEF Destroy
<1>5. Chain([i \in 0..0 |-> directDecls'], directDecls', <<>>)
  BY <1>3, ChainEmpty
<1>6. Linked'
  BY <1>4, <1>5 DEF Linked
<1>7. importDecls' \in ImportLists
  BY <1>1, UnlinkAllImportsStays DEF Inv, Destroy
<1>8. <<>> \in Seq(OpenEntry) /\ <<>> \in Seq({Blank}) /\ Len(<<>>) = 0
  OBVIOUS
<1>9. 0 =< MaxEntries /\ 0 =< EntryCacheSize
  BY BoundAssumption
<1> QED BY <1>3, <1>4, <1>6, <1>7, <1>8, <1>9 DEF Inv

\* addImport does not touch the direct declarations.
LEMMA ImportKeeps ==
  ASSUME Inv, NEW p \in Package, addImport(p), NEW R, Chain(R, directDecls, entries)
  PROVE  /\ entries' \in Seq(OpenEntry) /\ Len(entries') = Len(entries)
         /\ directDecls' = directDecls /\ Chain(R, directDecls, entries')
<1>1. entries \in Seq(OpenEntry) /\ Len(entries) \in Nat /\ Len(entries) > 0
  BY DEF Inv, addImport
<1>2. PICK e : e = [entries[1] EXCEPT !.importDecls = Append(@, p)]
  OBVIOUS
<1>3. entries' = [entries EXCEPT ![1] = e]
  BY <1>1, <1>2 DEF addImport
<1>4. entries[1] \in OpenEntry /\ 1 \in 1..Len(entries)
  BY <1>1
<1>5. e \in OpenEntry /\ e.directDecls = entries[1].directDecls
  <2>1. entries[1] \in Entry
    BY <1>4 DEF OpenEntry
  <2>2. Append(entries[1].importDecls, p) \in Seq(Package)
    BY <2>1 DEF Entry
  <2>3. e \in Entry /\ e.directDecls = entries[1].directDecls
    BY <1>2, <2>1, <2>2 DEF Entry
  <2> QED BY <1>4, <2>3 DEF OpenEntry
<1>6. entries' \in Seq(OpenEntry) /\ Len(entries') = Len(entries)
  BY <1>1, <1>3, <1>5
<1>7. \A i \in 1..Len(entries) : entries'[i].directDecls = entries[i].directDecls
  BY <1>1, <1>3, <1>5
<1>8. Chain(R, directDecls, entries')
  BY <1>6, <1>7, ChainOfSame
<1> QED BY <1>6, <1>8 DEF addImport

\* addImport preserves the invariant.
LEMMA ImportInv ==
  ASSUME Inv, NEW p \in Package, addImport(p)
  PROVE  Inv'
<1>1. PICK R : Chain(R, directDecls, entries)
  BY DEF Inv, Linked
<1>2. /\ entries' \in Seq(OpenEntry) /\ Len(entries') = Len(entries)
      /\ directDecls' = directDecls /\ Chain(R, directDecls, entries')
  BY <1>1, ImportKeeps
<1>3. entryCache' = entryCache
  BY DEF addImport
<1>4. Linked'
  BY <1>2 DEF Linked
<1>5. importDecls' \in ImportLists
  BY ImportStays DEF Inv, addImport
<1> QED BY <1>2, <1>3, <1>4, <1>5 DEF Inv

\* What addDirectDecl leaves on the stack.
LEMMA DeclareFacts ==
  ASSUME Inv, NEW d \in Decl, addDirectDecl(d)
  PROVE  /\ entries \in Seq(Entry) /\ Len(entries) > 0 /\ d \notin entries[1].directDecls
         /\ entries' \in Seq(OpenEntry) /\ entries' \in Seq(Entry) /\ Len(entries') = Len(entries)
         /\ entries'[1].directDecls = entries[1].directDecls \cup {d}
         /\ \A i \in 2..Len(entries) : entries'[i].directDecls = entries[i].directDecls
<1>1. entries \in Seq(OpenEntry) /\ Len(entries) \in Nat /\ Len(entries) > 0
  BY DEF Inv, addDirectDecl
<1>2. entries[1] \in OpenEntry /\ 1 \in 1..Len(entries) /\ Head(entries) = entries[1]
  BY <1>1
<1>3. PICK D : D = entries[1].directDecls
  OBVIOUS
<1>4. \A x \in D : ~directDeclsConflict(x, d)
  BY <1>2, <1>3 DEF addDirectDecl, findConflictingDirectDecl
<1>5. d \notin D
  <2>1. directDeclsConflict(d, d)
    BY DEF directDeclsConflict
  <2> QED BY <1>4, <2>1
<1>6. PICK e : e = [entries[1] EXCEPT !.directDecls = D \cup {d}]
  OBVIOUS
<1>7. entries' = [entries EXCEPT ![1] = e]
  BY <1>1, <1>3, <1>6 DEF addDirectDecl
<1>8. D \subseteq Decl /\ IsFiniteSet(D) /\ Compatible(D) /\ entries[1] \in Entry
  BY <1>2, <1>3 DEF OpenEntry, Entry
<1>9. e \in Entry /\ e.directDecls = D \cup {d}
  BY <1>6, <1>8 DEF Entry
<1>10. IsFiniteSet(D \cup {d})
  BY <1>8, FS_AddElement
<1>11. Compatible(D \cup {d})
  <2> SUFFICES ASSUME NEW x \in D \cup {d}, NEW y \in D \cup {d}, x # y, idInfo[x] = idInfo[y]
               PROVE  IsSubroutine(x) /\ IsSubroutine(y) /\ profile[x] # profile[y]
    BY DEF Compatible
  <2>1. CASE x \in D /\ y \in D
    BY <1>8, <2>1 DEF Compatible
  <2>2. CASE x \in D /\ y = d
    BY <1>4, <2>2 DEF directDeclsConflict
  <2>3. CASE x = d /\ y \in D
    BY <1>4, <2>3 DEF directDeclsConflict
  <2> QED BY <2>1, <2>2, <2>3
<1>12. e \in OpenEntry
  BY <1>9, <1>10, <1>11 DEF OpenEntry
<1>13. /\ entries' \in Seq(OpenEntry) /\ Len(entries') = Len(entries) /\ entries'[1] = e
       /\ \A i \in 2..Len(entries) : entries'[i] = entries[i]
  BY <1>1, <1>7, <1>12
<1>14. entries' \in Seq(Entry) /\ entries \in Seq(Entry)
  BY <1>1, <1>13, OpenIsEntry
<1> QED BY <1>1, <1>3, <1>5, <1>9, <1>13, <1>14

\* addDirectDecl preserves the invariant.
LEMMA DeclareInv ==
  ASSUME Inv, NEW d \in Decl, addDirectDecl(d)
  PROVE  Inv'
<1>1. /\ entries \in Seq(Entry) /\ Len(entries) > 0 /\ d \notin entries[1].directDecls
      /\ entries' \in Seq(OpenEntry) /\ entries' \in Seq(Entry) /\ Len(entries') = Len(entries)
      /\ entries'[1].directDecls = entries[1].directDecls \cup {d}
      /\ \A i \in 2..Len(entries) : entries'[i].directDecls = entries[i].directDecls
  BY DeclareFacts
<1>2. PICK R : Chain(R, directDecls, entries)
  BY DEF Inv, Linked
<1>3. directDecls \in Lists
  BY DEF Inv
<1>4. Link(directDecls, d) \in Lists /\ Chain(ChainDeclare(R, d), Link(directDecls, d), entries')
  BY <1>1, <1>2, <1>3, ChainOfDeclare
<1>5. directDecls' = Link(directDecls, d) /\ entryCache' = entryCache /\ importDecls' = importDecls
  BY DEF addDirectDecl
<1>6. Linked'
  BY <1>4, <1>5 DEF Linked
<1> QED BY <1>1, <1>4, <1>5, <1>6 DEF Inv

\* The invariant holds in every behaviour of the symbol table.
THEOREM Invariance == Spec => []Inv
<1>1. Init => Inv
  <2> SUFFICES ASSUME Init PROVE Inv
    OBVIOUS
  <2>1. directDecls \in Lists /\ importDecls \in ImportLists /\ \A n \in Name : directDecls[n] = <<>>
    BY DEF Init, Lists, ImportLists
  <2>2. Chain([i \in 0..0 |-> directDecls], directDecls, <<>>)
    BY <2>1, ChainEmpty
  <2>3. Linked
    BY <2>2 DEF Linked, Init
  <2>4. <<>> \in Seq(OpenEntry) /\ <<>> \in Seq({Blank}) /\ Len(<<>>) = 0
    OBVIOUS
  <2>5. 0 =< MaxEntries /\ 0 =< EntryCacheSize
    BY BoundAssumption
  <2> QED BY <2>1, <2>3, <2>4, <2>5 DEF Inv, Init
<1>2. Inv /\ [Next]_vars => Inv'
  <2> SUFFICES ASSUME Inv, [Next]_vars PROVE Inv'
    OBVIOUS
  <2>1. CASE Create
    <3>1. <<>> \in Seq({Blank}) /\ Len(<<>>) = 0 /\ 0 =< EntryCacheSize /\ 0 < MaxEntries
          /\ "CUNIT_SCOPE" \in ScopeKinds
      BY BoundAssumption DEF ScopeKinds
    <3>2. /\ entryCache' \in Seq({Blank}) /\ Len(entryCache') =< EntryCacheSize
          /\ entries' = Pushed("CUNIT_SCOPE", entries, <<>>) /\ Len(entries) < MaxEntries
          /\ UNCHANGED <<directDecls, importDecls>>
      BY <2>1, <3>1 DEF Create
    <3> QED BY <3>1, <3>2, PushInv
  <2>2. CASE Destroy
    BY <2>2, DestroyInv
  <2>3. CASE pop
    BY <2>3, PopInv
  <2>4. ASSUME NEW k \in PushKinds, push(k) PROVE Inv'
    <3>1. k \in ScopeKinds /\ entryCache \in Seq({Blank})
      BY BoundAssumption DEF Inv
    <3>2. entryCache' \in Seq({Blank}) /\ Len(entryCache') =< EntryCacheSize
      <4>1. CASE entryCache = <<>>
        BY <2>4, <4>1 DEF push, Inv
      <4>2. CASE entryCache # <<>>
        <5>1. Len(entryCache) > 0 /\ Len(entryCache) \in Nat /\ Len(entryCache) =< EntryCacheSize
          BY <3>1, <4>2 DEF Inv
        <5>2. Front(entryCache) \in Seq({Blank}) /\ Len(Front(entryCache)) = Len(entryCache) - 1
          BY <3>1, <5>1, FrontFacts
        <5> QED BY <2>4, <4>2, <5>1, <5>2, BoundAssumption DEF push
      <4> QED BY <4>1, <4>2
    <3>3. /\ entries' = Pushed(k, entries, entryCache) /\ Len(entries) < MaxEntries
          /\ UNCHANGED <<directDecls, importDecls>>
      BY <2>4 DEF push
    <3> QED BY <3>1, <3>2, <3>3, PushInv
  <2>5. ASSUME NEW p \in Package, addImport(p) PROVE Inv'
    BY <2>5, ImportInv
  <2>6. ASSUME NEW d \in Decl \ Exported, addDirectDecl(d) PROVE Inv'
    BY <2>6, DeclareInv
  <2>7. CASE UNCHANGED vars
    BY <2>7 DEF vars, Inv, Linked
  <2> QED BY <2>1, <2>2, <2>3, <2>4, <2>5, <2>6, <2>7 DEF Next
<1> QED BY <1>1, <1>2, PTL DEF Spec

\* Type correctness; the imports are exported declarations only.
THEOREM TypesRight == Spec => []TypeOK
<1>1. Inv => TypeOK
  <2> SUFFICES ASSUME Inv PROVE TypeOK
    OBVIOUS
  <2>1. entries \in Seq(Entry) /\ Len(entries) =< MaxEntries
    BY OpenIsEntry DEF Inv
  <2>2. entryCache \in Seq(Entry)
    <3>1. Blank \in Entry
      BY DEF Blank, Entry, ScopeKinds
    <3>2. entryCache \in Seq({Blank})
      BY DEF Inv
    <3> QED BY <3>1, <3>2, SeqDef
  <2>3. importDecls \in [Name -> Seq(Decl)]
    <3>1. \A s \in Seq(Exported) : s \in Seq(Decl)
      BY ExportedDecls, SeqDef
    <3> QED BY <3>1 DEF Inv, ImportLists
  <2> QED BY <2>1, <2>2, <2>3 DEF TypeOK, Inv, Lists
<1> QED BY <1>1, Invariance, PTL
-----------------------------------------------------------------------------
(* The blocks of the lists *)

\* As many lead as there are declarations in the set.
LEMMA LeadsCount ==
  ASSUME NEW list \in Seq(Decl), NEW rest \in Seq(Decl), NEW S, Leads(list, rest, S)
  PROVE  IsFiniteSet(S) /\ Cardinality(S) = Len(list) - Len(rest)
<1>1. PICK p \in Nat : p = Len(list) - Len(rest)
  BY DEF Leads
<1>2. {list[i] : i \in 1..p} = S /\ \A i, j \in 1..p : list[i] = list[j] => i = j
  BY <1>1 DEF Leads
<1> DEFINE f == [i \in 1..p |-> list[i]]
<1>3. f \in Bijection(1..p, S)
  BY <1>2 DEF Bijection, Injection, Surjection, IsInjective
<1>4. IsFiniteSet(1..p) /\ Cardinality(1..p) = p
  <2>1. 1 \in Int /\ p \in Int
    OBVIOUS
  <2> QED BY <2>1, FS_Interval
<1>5. IsFiniteSet(S) /\ Cardinality(S) = p
  <2> HIDE DEF f
  <2>1. ExistsBijection(1..p, S)
    BY <1>3 DEF ExistsBijection
  <2>2. Cardinality(S) = Cardinality(1..p) /\ IsFiniteSet(S)
    BY <1>4, <2>1, FS_Bijection
  <2> QED BY <1>4, <2>2
<1> QED BY <1>1, <1>5

\* The function that Upto chooses.
IsSum(E, n, f) ==
  f = [i \in 0..Len(E) |->
         IF i = 0 THEN 0 ELSE f[i - 1] + Cardinality(Named(E[i].directDecls, n))]

\* Upto counts what is gone from a list after i entries.
LEMMA UptoFacts ==
  ASSUME NEW E \in Seq(Entry), NEW lists \in Lists, NEW R, Chain(R, lists, E), NEW n \in Name
  PROVE  \A i \in 0..Len(E) : Upto(E, n)[i] = Len(lists[n]) - Len(R[i][n])
<1>1. PICK k \in Nat : k = Len(E)
  OBVIOUS
<1>2. R \in [0..k -> Lists] /\ R[0] = lists
  BY <1>1 DEF Chain
<1>3. \A i \in 0..k : R[i][n] \in Seq(Decl) /\ Len(R[i][n]) \in Nat
  BY <1>2 DEF Lists
<1>4. ASSUME NEW i \in 1..k
      PROVE  Cardinality(Named(E[i].directDecls, n)) = Len(R[i - 1][n]) - Len(R[i][n])
  <2>1. i - 1 \in 0..k /\ i \in 0..k
    OBVIOUS
  <2>2. Leads(R[i - 1][n], R[i][n], Named(E[i].directDecls, n))
    BY <1>1 DEF Chain
  <2> QED BY <1>3, <2>1, <2>2, LeadsCount
<1> DEFINE w == [i \in 0..k |-> Len(R[0][n]) - Len(R[i][n])]
           g == CHOOSE f : IsSum(E, n, f)
<1>5. IsSum(E, n, w)
  <2>1. ASSUME NEW i \in 0..k
        PROVE  w[i] = IF i = 0 THEN 0 ELSE w[i - 1] + Cardinality(Named(E[i].directDecls, n))
    <3>1. CASE i = 0
      BY <1>3, <3>1
    <3>2. CASE i # 0
      <4>1. i \in 1..k /\ i - 1 \in 0..k /\ 0 \in 0..k
        BY <3>2
      <4>2. w[i] = Len(R[0][n]) - Len(R[i][n]) /\ w[i - 1] = Len(R[0][n]) - Len(R[i - 1][n])
        BY <4>1
      <4>3. Len(R[0][n]) \in Nat /\ Len(R[i][n]) \in Nat /\ Len(R[i - 1][n]) \in Nat
        BY <1>3, <4>1
      <4>4. PICK c : c = Cardinality(Named(E[i].directDecls, n))
        OBVIOUS
      <4>5. c = Len(R[i - 1][n]) - Len(R[i][n])
        BY <1>4, <4>1, <4>4
      <4> HIDE DEF w
      <4>6. w[i] = w[i - 1] + c
        BY <4>2, <4>3, <4>5
      <4> QED BY <3>2, <4>4, <4>6
    <3> QED BY <3>1, <3>2
  <2>2. w = [i \in 0..k |-> w[i]]
    BY Zenon
  <2> HIDE DEF w
  <2>3. w = [i \in 0..k |->
               IF i = 0 THEN 0 ELSE w[i - 1] + Cardinality(Named(E[i].directDecls, n))]
    BY <2>1, <2>2, Zenon
  <2> QED BY <1>1, <2>3 DEF IsSum
<1>6. IsSum(E, n, g)
  <2> HIDE DEF w
  <2> QED BY <1>5, Zenon
<1>7. Upto(E, n) = g
  BY Zenon DEF Upto, IsSum
<1> HIDE DEF g, w
<1>8. \A i \in 0..k : g[i] = IF i = 0 THEN 0 ELSE g[i - 1] + Cardinality(Named(E[i].directDecls, n))
  BY <1>1, <1>6, Zenon DEF IsSum
<1> DEFINE Good(i) == g[i] = Len(R[0][n]) - Len(R[i][n])
           T == {i \in Nat : i =< k => Good(i)}
<1>9. 0 \in T
  <2>1. 0 \in 0..k
    OBVIOUS
  <2> QED BY <1>3, <1>8, <2>1
<1>10. ASSUME NEW i \in Nat, i \in T PROVE i + 1 \in T
  <2>0. SUFFICES ASSUME i + 1 =< k PROVE Good(i + 1)
    <3> HIDE DEF Good
    <3> QED OBVIOUS
  <2>1. i + 1 \in 1..k /\ i + 1 \in 0..k /\ (i + 1) - 1 = i /\ i + 1 # 0 /\ i \in 0..k /\ 0 \in 0..k
    BY <1>1, <2>0
  <2>2. Good(i)
    <3> HIDE DEF Good
    <3> QED BY <1>10, <2>1
  <2>3. g[i + 1] = g[i] + Cardinality(Named(E[i + 1].directDecls, n))
    BY <1>8, <2>1
  <2>4. Cardinality(Named(E[i + 1].directDecls, n)) = Len(R[i][n]) - Len(R[i + 1][n])
    BY <1>4, <2>1
  <2> QED BY <1>3, <2>1, <2>2, <2>3, <2>4
<1>11. ASSUME NEW i \in 0..k PROVE Good(i)
  <2>1. Nat \subseteq T
    <3> HIDE DEF T
    <3> QED BY <1>9, <1>10, SetInduction
  <2> HIDE DEF Good
  <2> QED BY <2>1
<1> QED BY <1>1, <1>2, <1>7, <1>11

\* rest is a suffix of list.
EndsIn(list, rest) ==
  /\ Len(list) - Len(rest) \in Nat
  /\ \A j \in 1..Len(rest) : list[(Len(list) - Len(rest)) + j] = rest[j]

\* What is left of a list after i entries is a suffix of it.
LEMMA SuffixFacts ==
  ASSUME NEW E \in Seq(Entry), NEW lists \in Lists, NEW R, Chain(R, lists, E), NEW n \in Name
  PROVE  \A i \in 0..Len(E) : EndsIn(lists[n], R[i][n])
<1>1. PICK k \in Nat : k = Len(E)
  OBVIOUS
<1>2. R \in [0..k -> Lists] /\ R[0] = lists
  BY <1>1 DEF Chain
<1>3. \A i \in 0..k : R[i][n] \in Seq(Decl) /\ Len(R[i][n]) \in Nat
  BY <1>2 DEF Lists
<1> DEFINE L(i) == Len(R[i][n])
           Good(i) == /\ L(0) - L(i) \in Nat
                      /\ \A j \in 1..L(i) : R[0][n][(L(0) - L(i)) + j] = R[i][n][j]
           T == {i \in Nat : i =< k => Good(i)}
<1>4. \A i \in 0..k : L(i) \in Nat
  BY <1>3
<1>5. 0 \in T
  <2>1. L(0) \in Nat
    BY <1>4
  <2> HIDE DEF L
  <2>2. L(0) - L(0) = 0 /\ \A j \in 1..L(0) : 0 + j = j
    BY <2>1
  <2> QED BY <2>2
<1>6. ASSUME NEW i \in Nat, i \in T PROVE i + 1 \in T
  <2>0. SUFFICES ASSUME i + 1 =< k PROVE Good(i + 1)
    <3> HIDE DEF Good
    <3> QED OBVIOUS
  <2>1. i + 1 \in 1..k /\ i + 1 \in 0..k /\ (i + 1) - 1 = i /\ i \in 0..k /\ 0 \in 0..k
    BY <1>1, <2>0
  <2>2. Good(i)
    <3> HIDE DEF Good
    <3> QED BY <1>6, <2>1
  <2>3. Leads(R[i][n], R[i + 1][n], Named(E[i + 1].directDecls, n))
    BY <1>1, <2>1 DEF Chain
  <2>4. /\ L(i) - L(i + 1) \in Nat
        /\ \A j \in 1..L(i + 1) : R[i][n][(L(i) - L(i + 1)) + j] = R[i + 1][n][j]
    BY <2>3 DEF Leads
  <2>5. L(0) \in Nat /\ L(i) \in Nat /\ L(i + 1) \in Nat
    BY <1>4, <2>1
  <2> HIDE DEF L
  <2>6. L(0) - L(i + 1) \in Nat
    BY <2>2, <2>4, <2>5
  <2>7. ASSUME NEW j \in 1..L(i + 1)
        PROVE  R[0][n][(L(0) - L(i + 1)) + j] = R[i + 1][n][j]
    <3>1. PICK m : m = (L(i) - L(i + 1)) + j
      OBVIOUS
    <3>2. m \in 1..L(i) /\ (L(0) - L(i)) + m = (L(0) - L(i + 1)) + j
      BY <2>4, <2>5, <3>1
    <3>3. R[0][n][(L(0) - L(i)) + m] = R[i][n][m]
      BY <2>2, <3>2
    <3> QED BY <2>4, <3>1, <3>2, <3>3
  <2> QED BY <2>6, <2>7
<1>7. Nat \subseteq T
  <2> HIDE DEF T
  <2> QED BY <1>5, <1>6, SetInduction
<1>8. ASSUME NEW i \in 0..k PROVE Good(i)
  <2> HIDE DEF Good
  <2> QED BY <1>1, <1>7
<1>9. \A i \in 0..k : EndsIn(R[0][n], R[i][n])
  BY <1>8 DEF EndsIn
<1> QED BY <1>1, <1>2, <1>9

\* Block, of any lists and stack.
BlockOf(lists, E, n, i) == SubSeq(lists[n], Upto(E, n)[i - 1] + 1, Upto(E, n)[i])

\* The same part of the list, taken from the chain.
Part(R, n, i) == [j \in 1..(Len(R[i - 1][n]) - Len(R[i][n])) |-> R[i - 1][n][j]]

\* They agree, and hold what the entry declares under the name.
LEMMA BlockIsPart ==
  ASSUME NEW E \in Seq(Entry), NEW lists \in Lists, NEW R, Chain(R, lists, E), NEW n \in Name,
         NEW i \in 1..Len(E)
  PROVE  /\ BlockOf(lists, E, n, i) = Part(R, n, i)
         /\ Part(R, n, i) \in Seq(Decl)
         /\ Range(Part(R, n, i)) = Named(E[i].directDecls, n)
<1>1. PICK k \in Nat : k = Len(E)
  OBVIOUS
<1>2. R \in [0..k -> Lists] /\ R[0] = lists
  BY <1>1 DEF Chain
<1>3. i - 1 \in 0..k /\ i \in 0..k /\ i \in 1..k
  BY <1>1
<1>4. PICK l : l = lists[n]
  OBVIOUS
<1>5. PICK a : a = R[i - 1][n]
  OBVIOUS
<1>6. PICK b : b = R[i][n]
  OBVIOUS
<1>7. l \in Seq(Decl) /\ a \in Seq(Decl) /\ b \in Seq(Decl)
  BY <1>2, <1>3, <1>4, <1>5, <1>6 DEF Lists
<1>8. Leads(a, b, Named(E[i].directDecls, n))
  BY <1>1, <1>3, <1>5, <1>6 DEF Chain
<1>9. PICK p \in Nat : p = Len(a) - Len(b)
  BY <1>8 DEF Leads
<1>10. {a[j] : j \in 1..p} = Named(E[i].directDecls, n)
  BY <1>8, <1>9 DEF Leads
<1>11. EndsIn(l, a)
  BY <1>1, <1>3, <1>4, <1>5, SuffixFacts
<1>12. PICK q \in Nat : q = Len(l) - Len(a) /\ \A j \in 1..Len(a) : l[q + j] = a[j]
  BY <1>11 DEF EndsIn
<1>13. Len(l) \in Nat /\ Len(a) \in Nat /\ Len(b) \in Nat
  BY <1>7
<1>14. Upto(E, n)[i - 1] = q /\ Upto(E, n)[i] = q + p
  <2>1. Upto(E, n)[i - 1] = Len(l) - Len(a) /\ Upto(E, n)[i] = Len(l) - Len(b)
    BY <1>1, <1>3, <1>4, <1>5, <1>6, UptoFacts
  <2> QED BY <1>9, <1>12, <1>13, <2>1
<1>15. PICK s : s = SubSeq(l, q + 1, q + p)
  OBVIOUS
<1>16. s = BlockOf(lists, E, n, i)
  BY <1>4, <1>14, <1>15 DEF BlockOf
<1>17. s \in Seq(Decl) /\ Len(s) = p /\ \A j \in 1..p : s[j] = a[j]
  <2>1. q + 1 \in Int /\ q + p \in Int /\ \A j \in (q + 1)..(q + p) : l[j] \in Decl
    BY <1>7, <1>9, <1>12, <1>13
  <2>2. /\ s \in Seq(Decl)
        /\ Len(s) = IF q + 1 <= q + p THEN (q + p) - (q + 1) + 1 ELSE 0
        /\ \A j \in 1..((q + p) - (q + 1) + 1) : s[j] = l[(q + 1) + j - 1]
    BY <1>15, <2>1, SubSeqProperties
  <2>3. Len(s) = p
    BY <2>2
  <2>4. ASSUME NEW j \in 1..p PROVE s[j] = a[j]
    <3>1. j \in 1..((q + p) - (q + 1) + 1) /\ (q + 1) + j - 1 = q + j /\ j \in 1..Len(a)
      BY <1>9, <1>13
    <3> QED BY <1>12, <2>2, <3>1
  <2> QED BY <2>2, <2>3, <2>4
<1>18. PICK t : t = Part(R, n, i)
  OBVIOUS
<1>19. t = [j \in 1..p |-> a[j]]
  BY <1>5, <1>6, <1>9, <1>18 DEF Part
<1>20. t \in Seq(Decl) /\ Len(t) = p /\ DOMAIN t = 1..p /\ \A j \in 1..p : t[j] = a[j]
  <2>1. \A j \in 1..p : a[j] \in Decl
    BY <1>7, <1>9, <1>13
  <2>2. t \in [1..p -> Decl]
    BY <1>19, <2>1
  <2> QED BY <1>19, <2>2
<1>21. s = t
  BY <1>17, <1>20, SeqEqual
<1>22. Range(t) = Named(E[i].directDecls, n)
  BY <1>10, <1>20 DEF Range
<1> QED BY <1>16, <1>18, <1>20, <1>21, <1>22

\* The lists of a homonym hold what the entries say they declared and nothing else,
\* each entry's part in its place: the assertions of Entry::removeDirectDecl hold and
\* ~Scope leaves nothing behind.
THEOREM HomonymsMatch == Spec => []HomonymsMatchEntries
<1>1. Inv => HomonymsMatchEntries
  <2> SUFFICES ASSUME Inv, NEW n \in Name
               PROVE  /\ Len(directDecls[n]) = Upto(entries, n)[Len(entries)]
                      /\ \A i \in DOMAIN entries :
                           Range(Block(n, i)) = Named(entries[i].directDecls, n)
    BY DEF HomonymsMatchEntries
  <2>1. PICK R : Chain(R, directDecls, entries)
    BY DEF Inv, Linked
  <2>2. entries \in Seq(Entry) /\ directDecls \in Lists /\ Len(entries) \in Nat
        /\ DOMAIN entries = 1..Len(entries)
    BY OpenIsEntry DEF Inv
  <2>3. Upto(entries, n)[Len(entries)] = Len(directDecls[n]) - Len(R[Len(entries)][n])
    <3>1. Len(entries) \in 0..Len(entries)
      BY <2>2
    <3> QED BY <2>1, <2>2, <3>1, UptoFacts
  <2>4. R[Len(entries)][n] = <<>>
    BY <2>1 DEF Chain
  <2>5. Len(directDecls[n]) \in Nat /\ Len(<<>>) = 0
    BY <2>2 DEF Lists
  <2>6. ASSUME NEW i \in 1..Len(entries)
        PROVE  Range(Block(n, i)) = Named(entries[i].directDecls, n)
    <3>1. Block(n, i) = BlockOf(directDecls, entries, n, i)
      BY DEF Block, BlockOf
    <3> QED BY <2>1, <2>2, <3>1, BlockIsPart
  <2> QED BY <2>2, <2>3, <2>4, <2>5, <2>6
<1> QED BY <1>1, Invariance, PTL
-----------------------------------------------------------------------------
(* The refinement *)

\* The frames that Lexical is instantiated with, of any lists and stack.
FrameMap(lists, E) == [i \in DOMAIN E |-> [n \in Name |-> BlockOf(lists, E, n, i)]]

\* The same frames, taken from the chain.
FramesOf(R, k) == [i \in 1..k |-> [n \in Name |-> Part(R, n, i)]]

\* They agree.
LEMMA FramesFacts ==
  ASSUME NEW E \in Seq(Entry), NEW lists \in Lists, NEW R, Chain(R, lists, E)
  PROVE  /\ FrameMap(lists, E) = FramesOf(R, Len(E))
         /\ FramesOf(R, Len(E)) \in Seq(Lists) /\ Len(FramesOf(R, Len(E))) = Len(E)
<1>1. PICK k \in Nat : k = Len(E)
  OBVIOUS
<1>2. ASSUME NEW i \in 1..k, NEW n \in Name
      PROVE  BlockOf(lists, E, n, i) = Part(R, n, i) /\ Part(R, n, i) \in Seq(Decl)
  BY <1>1, BlockIsPart
<1>3. DOMAIN E = 1..k
  BY <1>1
<1>4. \A i \in 1..k : [n \in Name |-> BlockOf(lists, E, n, i)] = [n \in Name |-> Part(R, n, i)]
  BY <1>2, Zenon
<1>5. FrameMap(lists, E) = FramesOf(R, k)
  BY <1>3, <1>4, Zenon DEF FrameMap, FramesOf
<1>6. PICK f : f = FramesOf(R, k)
  OBVIOUS
<1>7. \A i \in 1..k : [n \in Name |-> Part(R, n, i)] \in Lists
  BY <1>2 DEF Lists
<1>8. f \in [1..k -> Lists]
  BY <1>6, <1>7, Zenon DEF FramesOf
<1>9. f \in Seq(Lists) /\ Len(f) = k
  BY <1>1, <1>8
<1> QED BY <1>1, <1>5, <1>6, <1>9

\* The binding of a name in a frame.
LEMMA FrameAt ==
  ASSUME NEW R, NEW k \in Nat, NEW i \in 1..k, NEW n \in Name
  PROVE  FramesOf(R, k)[i][n] = Part(R, n, i)
BY Zenon DEF FramesOf

\* Two frames with the same parts.
LEMMA FrameEqual ==
  ASSUME NEW f \in Lists, NEW g \in Lists, \A n \in Name : f[n] = g[n]
  PROVE  f = g
<1>1. f = [n \in Name |-> f[n]] /\ g = [n \in Name |-> g[n]]
  BY DEF Lists
<1> QED BY <1>1, Zenon

\* The empty frame.
NoBindings == [n \in Name |-> <<>>]

\* Pushing an entry enters an empty frame.
LEMMA EnterFrames ==
  ASSUME NEW E \in Seq(Entry), NEW lists \in Lists, NEW R, Chain(R, lists, E),
         NEW e \in Entry, e.directDecls = {}
  PROVE  FrameMap(lists, <<e>> \o E) = <<NoBindings>> \o FrameMap(lists, E)
<1>1. PICK k \in Nat : k = Len(E)
  OBVIOUS
<1>2. PICK F : F = <<e>> \o E
  OBVIOUS
<1>3. F \in Seq(Entry) /\ Len(F) = k + 1
  BY <1>1, <1>2
<1>4. PICK Q : Q = ChainPush(R, k)
  OBVIOUS
<1>5. Chain(Q, lists, F)
  BY <1>1, <1>2, <1>4, ChainOfPush
<1>6. PICK f : f = FramesOf(R, k)
  OBVIOUS
<1>7. f = FrameMap(lists, E) /\ f \in Seq(Lists) /\ Len(f) = k
  BY <1>1, <1>6, FramesFacts
<1>8. PICK g : g = FramesOf(Q, k + 1)
  OBVIOUS
<1>9. g = FrameMap(lists, F) /\ g \in Seq(Lists) /\ Len(g) = k + 1
  BY <1>3, <1>5, <1>8, FramesFacts
<1>10. \A i \in 0..(k + 1) : Q[i] = IF i = 0 THEN R[0] ELSE R[i - 1]
  BY <1>4 DEF ChainPush
<1>11. NoBindings \in Lists /\ \A n \in Name : NoBindings[n] = <<>>
  BY DEF NoBindings, Lists
<1>12. g[1] = NoBindings
  <2>1. 1 \in 1..(k + 1) /\ k + 1 \in Nat
    BY <1>1
  <2>2. ASSUME NEW n \in Name PROVE g[1][n] = <<>>
    <3>1. g[1][n] = Part(Q, n, 1)
      BY <1>8, <2>1, FrameAt
    <3>2. Q[1 - 1] = R[0] /\ Q[1] = R[0]
      <4>1. 0 \in 0..(k + 1) /\ 1 \in 0..(k + 1) /\ 1 - 1 = 0 /\ 1 # 0
        BY <1>1
      <4> QED BY <1>10, <4>1
    <3>3. Len(R[0][n]) \in Nat
      BY <1>1 DEF Chain, Lists
    <3>4. Len(Q[1 - 1][n]) - Len(Q[1][n]) = 0
      BY <3>2, <3>3
    <3>5. Part(Q, n, 1) = [j \in 1..0 |-> Q[1 - 1][n][j]]
      BY <3>4 DEF Part
    <3>6. g[1][n] \in Seq(Decl) /\ Len(g[1][n]) = 0
      <4>1. g[1] \in Lists
        BY <1>9, <2>1
      <4>2. g[1][n] \in Seq(Decl)
        BY <4>1 DEF Lists
      <4>3. DOMAIN g[1][n] = 1..0
        BY <3>1, <3>5
      <4>4. Len(g[1][n]) \in Nat /\ DOMAIN g[1][n] = 1..Len(g[1][n])
        BY <4>2
      <4> QED BY <4>2, <4>3, <4>4
    <3> QED BY <3>6
  <2>3. g[1] \in Lists
    BY <1>9, <2>1
  <2> QED BY <1>11, <2>2, <2>3, FrameEqual
<1>13. ASSUME NEW i \in 1..k PROVE g[i + 1] = f[i]
  <2>1. i + 1 \in 1..(k + 1) /\ k + 1 \in Nat /\ (i + 1) - 1 = i
    BY <1>1
  <2>2. Q[(i + 1) - 1] = R[i - 1] /\ Q[i + 1] = R[i]
    <3>1. i \in 0..(k + 1) /\ i # 0 /\ i + 1 \in 0..(k + 1) /\ i + 1 # 0
      BY <1>1
    <3> QED BY <1>10, <2>1, <3>1
  <2>3. ASSUME NEW n \in Name PROVE g[i + 1][n] = f[i][n]
    <3>1. g[i + 1][n] = Part(Q, n, i + 1) /\ f[i][n] = Part(R, n, i)
      BY <1>1, <1>6, <1>8, <2>1, FrameAt
    <3>2. Part(Q, n, i + 1) = Part(R, n, i)
      BY <2>2, Zenon DEF Part
    <3> QED BY <3>1, <3>2
  <2>4. g[i + 1] \in Lists /\ f[i] \in Lists
    BY <1>7, <1>9, <2>1
  <2> QED BY <2>3, <2>4, FrameEqual
<1>14. PICK h : h = <<NoBindings>> \o f
  OBVIOUS
<1>15. /\ h \in Seq(Lists) /\ Len(h) = k + 1 /\ h[1] = NoBindings
       /\ \A i \in 1..k : h[i + 1] = f[i]
  <2>1. PICK nb : nb = NoBindings
    OBVIOUS
  <2>2. nb \in Lists /\ h = <<nb>> \o f
    BY <1>11, <1>14, <2>1
  <2>3. h \in Seq(Lists) /\ Len(h) = k + 1 /\ h[1] = nb /\ \A i \in 1..k : h[i + 1] = f[i]
    BY <1>7, <2>2
  <2> QED BY <2>1, <2>3
<1>16. ASSUME NEW i \in 1..(k + 1) PROVE g[i] = h[i]
  <2>1. CASE i = 1
    BY <1>12, <1>15, <2>1
  <2>2. CASE i # 1
    <3>1. i - 1 \in 1..k /\ (i - 1) + 1 = i
      BY <1>1, <2>2
    <3> QED BY <1>13, <1>15, <3>1
  <2> QED BY <2>1, <2>2
<1>17. g = h
  BY <1>9, <1>15, <1>16, SeqEqual
<1> QED BY <1>2, <1>7, <1>9, <1>14, <1>17

\* Popping an entry leaves the innermost frame.
LEMMA LeaveFrames ==
  ASSUME NEW E \in Seq(Entry), Len(E) > 0, NEW lists \in Lists, NEW R, Chain(R, lists, E)
  PROVE  FrameMap(R[1], Tail(E)) = Tail(FrameMap(lists, E)) /\ FrameMap(lists, E) # <<>>
<1>1. PICK k \in Nat : k = Len(E)
  OBVIOUS
<1>2. PICK F : F = Tail(E)
  OBVIOUS
<1>3. F \in Seq(Entry) /\ Len(F) = k - 1 /\ k > 0 /\ k - 1 \in Nat
  BY <1>1, <1>2
<1>4. PICK Q : Q = ChainPop(R, k)
  OBVIOUS
<1>5. Chain(Q, R[1], F) /\ R[1] \in Lists
  BY <1>1, <1>2, <1>4, ChainOfPop
<1>6. PICK f : f = FramesOf(R, k)
  OBVIOUS
<1>7. f = FrameMap(lists, E) /\ f \in Seq(Lists) /\ Len(f) = k
  BY <1>1, <1>6, FramesFacts
<1>8. PICK g : g = FramesOf(Q, k - 1)
  OBVIOUS
<1>9. g = FrameMap(R[1], F) /\ g \in Seq(Lists) /\ Len(g) = k - 1
  BY <1>3, <1>5, <1>8, FramesFacts
<1>10. \A i \in 0..(k - 1) : Q[i] = R[i + 1]
  BY <1>4 DEF ChainPop
<1>11. ASSUME NEW i \in 1..(k - 1) PROVE g[i] = f[i + 1]
  <2>1. i + 1 \in 1..k /\ (i + 1) - 1 = i /\ i - 1 \in 0..(k - 1) /\ i \in 0..(k - 1) /\ (i - 1) + 1 = i
    BY <1>1, <1>3
  <2>2. Q[i - 1] = R[(i + 1) - 1] /\ Q[i] = R[i + 1]
    BY <1>10, <2>1
  <2>3. ASSUME NEW n \in Name PROVE g[i][n] = f[i + 1][n]
    <3>1. g[i][n] = Part(Q, n, i) /\ f[i + 1][n] = Part(R, n, i + 1)
      BY <1>1, <1>3, <1>6, <1>8, <2>1, FrameAt
    <3>2. Part(Q, n, i) = Part(R, n, i + 1)
      BY <2>2, Zenon DEF Part
    <3> QED BY <3>1, <3>2
  <2>4. g[i] \in Lists /\ f[i + 1] \in Lists
    BY <1>7, <1>9, <2>1
  <2> QED BY <2>3, <2>4, FrameEqual
<1>12. PICK h : h = Tail(f)
  OBVIOUS
<1>13. h \in Seq(Lists) /\ Len(h) = k - 1 /\ \A i \in 1..(k - 1) : h[i] = f[i + 1]
  BY <1>3, <1>7, <1>12
<1>14. g = h
  BY <1>9, <1>11, <1>13, SeqEqual
<1>15. f # <<>>
  BY <1>3, <1>7
<1> QED BY <1>2, <1>7, <1>9, <1>12, <1>14, <1>15

\* The frames g are f with d declared in the innermost one, where it is new.
DeclaredIn(f, g, d) ==
  /\ f # <<>>
  /\ \A i \in DOMAIN Head(f)[idInfo[d]] : Head(f)[idInfo[d]][i] # d
  /\ g = [f EXCEPT ![1][idInfo[d]] = <<d>> \o @]

\* A direct declaration is declared in the innermost frame.
LEMMA DeclareFrames ==
  ASSUME NEW E \in Seq(Entry), Len(E) > 0, NEW lists \in Lists, NEW R, Chain(R, lists, E),
         NEW d \in Decl, d \notin E[1].directDecls, NEW F \in Seq(Entry), Len(F) = Len(E),
         F[1].directDecls = E[1].directDecls \cup {d},
         \A i \in 2..Len(E) : F[i].directDecls = E[i].directDecls,
         NEW f, f = FrameMap(lists, E)
  PROVE  DeclaredIn(f, FrameMap(Link(lists, d), F), d)
<1>1. PICK k \in Nat : k = Len(E)
  OBVIOUS
<1>2. PICK m \in Name : m = idInfo[d]
  BY DeclAssumption
<1>3. PICK Q : Q = ChainDeclare(R, d)
  OBVIOUS
<1>4. Link(lists, d) \in Lists /\ Chain(Q, Link(lists, d), F)
  BY <1>3, ChainOfDeclare
<1>5. f = FramesOf(R, k) /\ f \in Seq(Lists) /\ Len(f) = k
  BY <1>1, FramesFacts
<1>6. PICK g : g = FramesOf(Q, k)
  OBVIOUS
<1>7. g = FrameMap(Link(lists, d), F) /\ g \in Seq(Lists) /\ Len(g) = k
  BY <1>1, <1>4, <1>6, FramesFacts
<1>8. R \in [0..k -> Lists] /\ R[0] = lists
  BY <1>1 DEF Chain
<1>9. k > 0 /\ 0 \in 0..k /\ 1 \in 0..k /\ 1 \in 1..k /\ 1 - 1 = 0
  BY <1>1
<1>10. /\ Q[0] = Link(lists, d) /\ Q[0][m] = <<d>> \o lists[m]
       /\ (\A n \in Name : n # m => Q[0][n] = lists[n])
       /\ \A i \in 1..k : Q[i] = R[i]
  BY <1>2, <1>3, <1>8, <1>9 DEF ChainDeclare, Link, Lists
<1>11. f # <<>> /\ Head(f) = f[1] /\ f[1] \in Lists
  BY <1>5, <1>9
<1>12. f[1][m] = Part(R, m, 1) /\ g[1][m] = Part(Q, m, 1)
  BY <1>5, <1>6, <1>9, FrameAt
<1>13. f[1][m] \in Seq(Decl)
  BY <1>11 DEF Lists
<1>14. \A i \in DOMAIN f[1][m] : f[1][m][i] # d
  <2>1. Range(Part(R, m, 1)) = Named(E[1].directDecls, m)
    BY <1>1, <1>9, BlockIsPart
  <2> QED BY <1>12, <2>1 DEF Range, Named
<1>15. g[1][m] = <<d>> \o f[1][m]
  <2>1. PICK l : l = lists[m]
    OBVIOUS
  <2>2. PICK b : b = R[1][m]
    OBVIOUS
  <2>3. l \in Seq(Decl) /\ b \in Seq(Decl) /\ Len(l) \in Nat /\ Len(b) \in Nat
    <3>1. R[1] \in Lists
      BY <1>8, <1>9
    <3>2. l \in Seq(Decl) /\ b \in Seq(Decl)
      BY <2>1, <2>2, <3>1 DEF Lists
    <3> QED BY <3>2
  <2>4. Leads(l, b, Named(E[1].directDecls, m))
    <3>1. Leads(R[1 - 1][m], R[1][m], Named(E[1].directDecls, m))
      BY <1>1, <1>9 DEF Chain
    <3> QED BY <1>8, <1>9, <2>1, <2>2, <3>1
  <2>5. PICK p \in Nat : p = Len(l) - Len(b)
    BY <2>4 DEF Leads
  <2>6. PICK a : a = <<d>> \o l
    OBVIOUS
  <2>7. a \in Seq(Decl) /\ Len(a) = Len(l) + 1 /\ a[1] = d /\ \A i \in 1..Len(l) : a[i + 1] = l[i]
    BY <2>3, <2>6
  <2>8. Q[1 - 1][m] = a /\ Q[1][m] = b /\ R[1 - 1][m] = l
    BY <1>8, <1>9, <1>10, <2>1, <2>2, <2>6
  <2>9. Len(a) - Len(b) = p + 1
    BY <2>3, <2>5, <2>7
  <2>10. PICK u : u = Part(R, m, 1)
    OBVIOUS
  <2>11. PICK v : v = Part(Q, m, 1)
    OBVIOUS
  <2>12. u = [j \in 1..p |-> l[j]]
    BY <2>2, <2>5, <2>8, <2>10 DEF Part
  <2>13. v = [j \in 1..(p + 1) |-> a[j]]
    BY <2>8, <2>9, <2>11 DEF Part
  <2>14. u \in Seq(Decl) /\ Len(u) = p /\ \A j \in 1..p : u[j] = l[j]
    <3>1. \A j \in 1..p : l[j] \in Decl
      BY <2>3, <2>5
    <3>2. u \in [1..p -> Decl]
      BY <2>12, <3>1
    <3> QED BY <2>12, <3>2
  <2>15. v \in Seq(Decl) /\ Len(v) = p + 1 /\ \A j \in 1..(p + 1) : v[j] = a[j]
    <3>1. \A j \in 1..(p + 1) : a[j] \in Decl
      BY <2>3, <2>5, <2>7
    <3>2. v \in [1..(p + 1) -> Decl]
      BY <2>13, <3>1
    <3> QED BY <2>13, <3>2
  <2>16. PICK w : w = <<d>> \o u
    OBVIOUS
  <2>17. w \in Seq(Decl) /\ Len(w) = p + 1 /\ w[1] = d /\ \A j \in 1..p : w[j + 1] = u[j]
    BY <2>14, <2>16
  <2>18. ASSUME NEW j \in 1..(p + 1) PROVE v[j] = w[j]
    <3>1. CASE j = 1
      BY <2>7, <2>15, <2>17, <3>1
    <3>2. CASE j # 1
      <4>1. j - 1 \in 1..p /\ (j - 1) + 1 = j /\ j - 1 \in 1..Len(l)
        BY <2>3, <2>5, <3>2
      <4>2. w[j] = u[j - 1] /\ u[j - 1] = l[j - 1] /\ a[j] = l[j - 1]
        BY <2>7, <2>14, <2>17, <4>1
      <4> QED BY <2>15, <4>2
    <3> QED BY <3>1, <3>2
  <2>19. v = w
    BY <2>15, <2>17, <2>18, SeqEqual
  <2> QED BY <1>12, <2>10, <2>11, <2>16, <2>19
<1>16. PICK x : x = <<d>> \o f[1][m]
  OBVIOUS
<1>17. x \in Seq(Decl)
  BY <1>13, <1>16
<1>18. g[1] = [f[1] EXCEPT ![m] = x]
  <2>1. PICK y : y = [f[1] EXCEPT ![m] = x]
    OBVIOUS
  <2>2. y \in Lists /\ y[m] = x /\ \A n \in Name : n # m => y[n] = f[1][n]
    BY <1>11, <1>17, <2>1 DEF Lists
  <2>3. ASSUME NEW n \in Name PROVE g[1][n] = y[n]
    <3>1. CASE n = m
      BY <1>15, <1>16, <2>2, <3>1
    <3>2. CASE n # m
      <4>1. f[1][n] = Part(R, n, 1) /\ g[1][n] = Part(Q, n, 1)
        BY <1>5, <1>6, <1>9, FrameAt
      <4>2. Q[1 - 1][n] = R[1 - 1][n] /\ Q[1][n] = R[1][n]
        BY <1>8, <1>9, <1>10, <3>2
      <4>3. Part(Q, n, 1) = Part(R, n, 1)
        BY <4>2, Zenon DEF Part
      <4> QED BY <2>2, <3>2, <4>1, <4>3
    <3> QED BY <3>1, <3>2
  <2>4. g[1] \in Lists
    BY <1>7, <1>9
  <2> QED BY <2>1, <2>2, <2>3, <2>4, FrameEqual
<1>19. ASSUME NEW i \in 2..k PROVE g[i] = f[i]
  <2>1. i \in 1..k /\ i - 1 \in 1..k
    BY <1>1
  <2>2. Q[i - 1] = R[i - 1] /\ Q[i] = R[i]
    BY <1>10, <2>1
  <2>3. ASSUME NEW n \in Name PROVE g[i][n] = f[i][n]
    <3>1. f[i][n] = Part(R, n, i) /\ g[i][n] = Part(Q, n, i)
      BY <1>5, <1>6, <2>1, FrameAt
    <3>2. Part(Q, n, i) = Part(R, n, i)
      BY <2>2, Zenon DEF Part
    <3> QED BY <3>1, <3>2
  <2>4. g[i] \in Lists /\ f[i] \in Lists
    BY <1>5, <1>7, <2>1
  <2> QED BY <2>3, <2>4, FrameEqual
<1>20. PICK z : z = [f EXCEPT ![1] = g[1]]
  OBVIOUS
<1>21. z \in Seq(Lists) /\ Len(z) = k /\ z[1] = g[1] /\ \A i \in 2..k : z[i] = f[i]
  <2>1. g[1] \in Lists
    BY <1>7, <1>9
  <2> QED BY <1>5, <1>9, <1>20, <2>1
<1>22. g = z
  <2>1. ASSUME NEW i \in 1..k PROVE g[i] = z[i]
    <3>1. i = 1 \/ i \in 2..k
      BY <1>1
    <3> QED BY <1>19, <1>21, <3>1
  <2> QED BY <1>7, <1>21, <2>1, SeqEqual
<1>23. z = [f EXCEPT ![1][m] = <<d>> \o @]
  BY <1>16, <1>18, <1>20
<1> QED BY <1>2, <1>7, <1>11, <1>14, <1>22, <1>23 DEF DeclaredIn

\* The frames of a state.
Frames == [i \in DOMAIN entries |-> [n \in Name |-> Block(n, i)]]

\* The flat lists of Homonym.h implement a stack of frames.
THEOREM ScopeRefinesFrames == Spec => ImplementsLexicalScope
<1>0. Frames = FrameMap(directDecls, entries) /\ Frames' = FrameMap(directDecls', entries')
  BY Zenon DEF Frames, FrameMap, Block, BlockOf
<1>1. Init => Lexical!Init
  <2> SUFFICES ASSUME Init PROVE Frames = <<>>
    BY DEF Lexical!Init, Frames
  <2>1. DOMAIN entries = {}
    BY DEF Init
  <2> QED BY <2>1 DEF Frames
<1>2. Inv /\ Inv' /\ [Next]_vars => [Lexical!Next]_(Frames)
  <2> SUFFICES ASSUME Inv, Inv', [Next]_vars, Frames' # Frames PROVE Lexical!Next
    OBVIOUS
  <2>1. PICK R : Chain(R, directDecls, entries)
    BY DEF Inv, Linked
  <2>2. entries \in Seq(OpenEntry) /\ entries \in Seq(Entry) /\ directDecls \in Lists
    BY OpenIsEntry DEF Inv
  <2>3. ASSUME NEW kind \in ScopeKinds, NEW cache \in Seq({Blank}),
               entries' = Pushed(kind, entries, cache), directDecls' = directDecls
        PROVE  Lexical!Next
    <3>1. PICK e : e = [kind |-> kind, directDecls |-> {}, importDecls |-> <<>>]
      OBVIOUS
    <3>2. e \in Entry /\ e.directDecls = {}
      BY <3>1, NewEntry
    <3>3. entries' = <<e>> \o entries
      BY <2>3, <3>1, PushedFacts
    <3>4. FrameMap(directDecls, <<e>> \o entries) = <<NoBindings>> \o FrameMap(directDecls, entries)
      BY <2>1, <2>2, <3>2, EnterFrames
    <3>5. Frames' = <<NoBindings>> \o Frames
      BY <1>0, <2>3, <3>3, <3>4
    <3> QED BY <3>5, Zenon DEF Lexical!Next, Lexical!Enter, Lexical!EmptyFrame, NoBindings, Frames
  <2>4. CASE Create
    <3>1. "CUNIT_SCOPE" \in ScopeKinds /\ <<>> \in Seq({Blank})
      BY DEF ScopeKinds
    <3>2. entries' = Pushed("CUNIT_SCOPE", entries, <<>>) /\ directDecls' = directDecls
      BY <2>4 DEF Create
    <3> QED BY <2>3, <3>1, <3>2
  <2>5. CASE Destroy
    <3>1. DOMAIN entries' = {}
      BY <2>5 DEF Destroy
    <3>2. Frames' = <<>>
      BY <3>1 DEF Frames
    <3> QED BY <3>2 DEF Lexical!Next, Lexical!LeaveAll, Frames
  <2>6. CASE pop
    <3>1. Len(entries) > 0
      BY <2>2, <2>6 DEF pop
    <3>2. directDecls' = R[1]
      BY <2>1, <2>6, PopUnlinks
    <3>3. FrameMap(R[1], Tail(entries)) = Tail(FrameMap(directDecls, entries))
          /\ FrameMap(directDecls, entries) # <<>>
      BY <2>1, <2>2, <3>1, LeaveFrames
    <3>4. Frames' = Tail(Frames) /\ Frames # <<>>
      BY <1>0, <2>6, <3>2, <3>3 DEF pop
    <3> QED BY <3>4 DEF Lexical!Next, Lexical!Leave, Frames
  <2>7. ASSUME NEW k \in PushKinds, push(k) PROVE Lexical!Next
    <3>1. k \in ScopeKinds /\ entryCache \in Seq({Blank})
      BY BoundAssumption DEF Inv
    <3>2. entries' = Pushed(k, entries, entryCache) /\ directDecls' = directDecls
      BY <2>7 DEF push
    <3> QED BY <2>3, <3>1, <3>2
  <2>8. ASSUME NEW p \in Package, addImport(p) PROVE FALSE
    <3>1. directDecls' = directDecls /\ Chain(R, directDecls, entries') /\ Len(entries') = Len(entries)
      BY <2>1, <2>8, ImportKeeps
    <3>2. entries' \in Seq(Entry)
      BY OpenIsEntry DEF Inv
    <3>3. FrameMap(directDecls, entries') = FramesOf(R, Len(entries'))
      BY <2>2, <3>1, <3>2, FramesFacts
    <3>4. FrameMap(directDecls, entries) = FramesOf(R, Len(entries))
      BY <2>1, <2>2, FramesFacts
    <3> QED BY <1>0, <3>1, <3>3, <3>4
  <2>9. ASSUME NEW d \in Decl \ Exported, addDirectDecl(d) PROVE Lexical!Next
    <3>1. /\ Len(entries) > 0 /\ d \notin entries[1].directDecls
          /\ entries' \in Seq(Entry) /\ Len(entries') = Len(entries)
          /\ entries'[1].directDecls = entries[1].directDecls \cup {d}
          /\ \A i \in 2..Len(entries) : entries'[i].directDecls = entries[i].directDecls
      BY <2>9, DeclareFacts
    <3>2. directDecls' = Link(directDecls, d)
      BY <2>9 DEF addDirectDecl
    <3>3. PICK f : f = FrameMap(directDecls, entries)
      OBVIOUS
    <3>4. DeclaredIn(f, FrameMap(Link(directDecls, d), entries'), d)
      BY <2>1, <2>2, <3>1, <3>3, DeclareFrames
    <3>5. DeclaredIn(Frames, Frames', d)
      BY <1>0, <3>2, <3>3, <3>4
    <3> QED BY <3>5, Zenon DEF Lexical!Next, Lexical!Declare, DeclaredIn, Frames
  <2>10. CASE UNCHANGED vars
    BY <1>0, <2>10 DEF vars
  <2> QED BY <2>4, <2>5, <2>6, <2>7, <2>8, <2>9, <2>10 DEF Next
<1> QED BY Invariance, <1>1, <1>2, PTL DEF Spec, ImplementsLexicalScope, Lexical!Spec, Frames
-----------------------------------------------------------------------------
(* Lookup *)

\* The list of a name begins with the block of the innermost entry declaring it.
LEMMA FirstBlock ==
  ASSUME NEW E \in Seq(Entry), NEW lists \in Lists, NEW R, Chain(R, lists, E), NEW n \in Name,
         NEW k \in 1..Len(E), \A j \in 1..(k - 1) : Named(E[j].directDecls, n) = {}
  PROVE  Leads(lists[n], R[k][n], Named(E[k].directDecls, n)) /\ R[k][n] \in Seq(Decl)
<1>1. PICK z \in Nat : z = Len(E)
  OBVIOUS
<1>2. R \in [0..z -> Lists] /\ R[0] = lists /\ k \in 1..z
  BY <1>1 DEF Chain
<1>3. \A i \in 0..z : R[i][n] \in Seq(Decl)
  BY <1>2 DEF Lists
<1>4. \A i \in 1..z : Leads(R[i - 1][n], R[i][n], Named(E[i].directDecls, n))
  BY <1>1 DEF Chain
<1> DEFINE Same(i) == R[i][n] = lists[n]
           T == {i \in Nat : i < k => Same(i)}
<1>5. 0 \in T
  BY <1>2
<1>6. ASSUME NEW i \in Nat, i \in T PROVE i + 1 \in T
  <2>0. SUFFICES ASSUME i + 1 < k PROVE Same(i + 1)
    <3> HIDE DEF Same
    <3> QED OBVIOUS
  <2>1. /\ i + 1 \in 1..z /\ (i + 1) - 1 = i /\ i \in 0..z /\ i + 1 \in 0..z /\ i + 1 \in 1..(k - 1)
        /\ i < k
    BY <1>1, <1>2, <2>0
  <2>2. Same(i)
    <3> HIDE DEF Same
    <3> QED BY <1>6, <2>1
  <2>3. Leads(R[i][n], R[i + 1][n], {})
    BY <1>4, <2>1
  <2>4. R[i][n] = R[i + 1][n]
    BY <1>3, <2>1, <2>3, LeadsEmpty
  <2> QED BY <2>2, <2>4
<1>7. Same(k - 1)
  <2>1. Nat \subseteq T
    <3> HIDE DEF T
    <3> QED BY <1>5, <1>6, SetInduction
  <2>2. k - 1 \in Nat /\ k - 1 < k
    BY <1>2
  <2> HIDE DEF Same
  <2> QED BY <2>1, <2>2
<1>8. k \in 0..z
  BY <1>2
<1>9. Leads(R[k - 1][n], R[k][n], Named(E[k].directDecls, n))
  BY <1>2, <1>4
<1> QED BY <1>3, <1>7, <1>8, <1>9

\* Every position of a list lies in the block of an entry, behind the blocks of
\* the inner entries.
LEMMA PlaceOf ==
  ASSUME NEW E \in Seq(Entry), NEW lists \in Lists, NEW R, Chain(R, lists, E), NEW n \in Name,
         NEW i \in 1..Len(lists[n])
  PROVE  \E e \in 1..Len(E) :
           /\ lists[n][i] \in Named(E[e].directDecls, n)
           /\ \A j \in 1..(e - 1) : \A y \in Named(E[j].directDecls, n) :
                \E q \in 1..i : lists[n][q] = y
<1>1. PICK z \in Nat : z = Len(E)
  OBVIOUS
<1>2. PICK a : a = lists[n]
  OBVIOUS
<1>3. R \in [0..z -> Lists] /\ R[0] = lists /\ R[z][n] = <<>>
  BY <1>1 DEF Chain
<1>4. \A j \in 0..z : R[j][n] \in Seq(Decl) /\ Len(R[j][n]) \in Nat
  BY <1>3 DEF Lists
<1>5. a \in Seq(Decl) /\ Len(a) \in Nat /\ i \in 1..Len(a) /\ R[0][n] = a
  BY <1>2, <1>3 DEF Lists
<1> DEFINE c(j) == Len(a) - Len(R[j][n])
           S == {j \in 0..z : i =< c(j)}
<1>6. z \in S
  <2>1. Len(R[z][n]) = 0 /\ z \in 0..z
    BY <1>1, <1>3
  <2> QED BY <1>5, <2>1
<1>7. PICK e \in S : \A j \in S : e =< j
  <2>1. S \in SUBSET Nat /\ S # {}
    BY <1>6
  <2> HIDE DEF S
  <2> QED BY <2>1, LeastNatural
<1>8. e \in 0..z /\ i =< c(e)
  BY <1>7
<1>9. \A j \in 0..z : j < e => c(j) < i
  <2> SUFFICES ASSUME NEW j \in 0..z, j < e PROVE c(j) < i
    OBVIOUS
  <2>1. j \notin S
    <3> HIDE DEF S
    <3> QED BY <1>7, <1>8
  <2>2. ~(i =< c(j))
    BY <2>1
  <2>3. c(j) \in Int /\ i \in Int
    BY <1>4, <1>5
  <2> HIDE DEF c
  <2> QED BY <2>2, <2>3
<1>10. c(0) = 0
  BY <1>4, <1>5
<1>11. e \in 1..z
  <2>1. e # 0
    <3> HIDE DEF c
    <3> QED BY <1>5, <1>8, <1>10
  <2> QED BY <1>1, <1>8, <2>1
\* Where the elements of the blocks are.
<1>12. ASSUME NEW j \in 1..z
       PROVE  /\ \A q \in 1..(c(j) - c(j - 1)) :
                   R[j - 1][n][q] = a[c(j - 1) + q]
              /\ {R[j - 1][n][q] : q \in 1..(c(j) - c(j - 1))} = Named(E[j].directDecls, n)
              /\ c(j) \in Nat /\ c(j - 1) \in Nat /\ c(j - 1) =< c(j)
  <2>1. j - 1 \in 0..z /\ j \in 0..z
    BY <1>1
  <2>2. EndsIn(a, R[j - 1][n]) /\ EndsIn(a, R[j][n])
    BY <1>1, <1>2, <2>1, SuffixFacts
  <2>3. Leads(R[j - 1][n], R[j][n], Named(E[j].directDecls, n))
    BY <1>1 DEF Chain
  <2>4. PICK x : x = R[j - 1][n]
    OBVIOUS
  <2>5. PICK y : y = R[j][n]
    OBVIOUS
  <2>6. Len(x) \in Nat /\ Len(y) \in Nat
    BY <1>4, <2>1, <2>4, <2>5
  <2>7. c(j) = Len(a) - Len(y) /\ c(j - 1) = Len(a) - Len(x)
    BY <2>4, <2>5
  <2>8. Len(x) - Len(y) \in Nat /\ {x[q] : q \in 1..(Len(x) - Len(y))} = Named(E[j].directDecls, n)
    BY <2>3, <2>4, <2>5 DEF Leads
  <2>9. /\ Len(a) - Len(x) \in Nat /\ Len(a) - Len(y) \in Nat
        /\ \A q \in 1..Len(x) : a[(Len(a) - Len(x)) + q] = x[q]
    BY <2>2, <2>4, <2>5 DEF EndsIn
  <2> HIDE DEF c
  <2>10. c(j) - c(j - 1) = Len(x) - Len(y)
    BY <1>5, <2>6, <2>7
  <2>11. c(j) \in Nat /\ c(j - 1) \in Nat /\ c(j - 1) =< c(j)
    BY <2>6, <2>7, <2>8, <2>9, <2>10
  <2>12. ASSUME NEW q \in 1..(c(j) - c(j - 1)) PROVE x[q] = a[c(j - 1) + q]
    <3>1. q \in 1..Len(x)
      BY <2>6, <2>8, <2>10
    <3> QED BY <2>7, <2>9, <3>1
  <2> QED BY <2>4, <2>8, <2>10, <2>11, <2>12
<1> HIDE DEF c, S
<1>13. a[i] \in Named(E[e].directDecls, n)
  <2>1. e - 1 \in 0..z /\ e - 1 < e
    BY <1>1, <1>11
  <2>2. c(e - 1) < i
    BY <1>9, <2>1
  <2>3. PICK q : q = i - c(e - 1)
    OBVIOUS
  <2>4. c(e) \in Nat /\ c(e - 1) \in Nat
    BY <1>11, <1>12
  <2>5. q \in 1..(c(e) - c(e - 1)) /\ c(e - 1) + q = i
    BY <1>5, <1>8, <2>2, <2>3, <2>4
  <2>6. R[e - 1][n][q] = a[c(e - 1) + q]
    BY <1>11, <1>12, <2>5
  <2>7. R[e - 1][n][q] \in Named(E[e].directDecls, n)
    BY <1>11, <1>12, <2>5
  <2> QED BY <2>5, <2>6, <2>7
<1>14. ASSUME NEW j \in 1..(e - 1), NEW y \in Named(E[j].directDecls, n)
       PROVE  \E q \in 1..i : a[q] = y
  <2>1. j \in 1..z /\ j \in 0..z /\ j < e
    BY <1>1, <1>11
  <2>2. PICK q \in 1..(c(j) - c(j - 1)) : R[j - 1][n][q] = y
    <3>1. {R[j - 1][n][q] : q \in 1..(c(j) - c(j - 1))} = Named(E[j].directDecls, n)
      BY <1>12, <2>1
    <3> QED BY <3>1
  <2>3. a[c(j - 1) + q] = y
    BY <1>12, <2>1, <2>2
  <2>4. c(j) < i /\ c(j) \in Nat /\ c(j - 1) \in Nat
    BY <1>9, <1>12, <2>1
  <2>5. c(j - 1) + q \in 1..i
    BY <1>5, <2>2, <2>4
  <2> QED BY <2>3, <2>5
<1> QED BY <1>1, <1>2, <1>11, <1>13, <1>14

\* What LeadingSubroutines returns: the longest prefix of subroutines.
IsLeading(a, s) ==
  /\ s \in Seq(Decl) /\ Len(s) =< Len(a)
  /\ \A i \in 1..Len(s) : s[i] = a[i] /\ IsSubroutine(a[i])
  /\ \A p \in 1..Len(a) : (\A i \in 1..p : IsSubroutine(a[i])) => p =< Len(s)

\* It does.
LEMMA LeadingFacts ==
  ASSUME directDecls \in Lists, NEW n \in Name
  PROVE  IsLeading(directDecls[n], LeadingSubroutines(n))
<1>1. PICK a : a = directDecls[n]
  OBVIOUS
<1>2. a \in Seq(Decl) /\ Len(a) \in Nat
  BY <1>1 DEF Lists
<1> DEFINE I == {i \in 1..Len(a) : ~IsSubroutine(a[i])}
           stop == SelectInSeq(a, LAMBDA d : ~IsSubroutine(d))
<1>3. stop = IF I # {} THEN Min(I) ELSE 0
  BY Zenon DEF SelectInSeq
<1>4. LeadingSubroutines(n) = IF stop = 0 THEN a ELSE SubSeq(a, 1, stop - 1)
  BY <1>1, Zenon DEF LeadingSubroutines
<1> HIDE DEF stop
<1>5. CASE I = {}
  <2>1. LeadingSubroutines(n) = a
    BY <1>3, <1>4, <1>5
  <2>2. \A i \in 1..Len(a) : IsSubroutine(a[i])
    BY <1>5
  <2>3. IsLeading(a, a)
    BY <1>2, <2>2 DEF IsLeading
  <2> QED BY <1>1, <2>1, <2>3
<1>6. CASE I # {}
  <2>1. I \in SUBSET Nat
    OBVIOUS
  <2>2. stop \in I /\ \A j \in I : stop =< j
    BY <1>3, <1>6, <2>1, MinOfNaturals
  <2>3. stop \in 1..Len(a) /\ ~IsSubroutine(a[stop])
    BY <2>2
  <2>4. \A j \in 1..(stop - 1) : j \in 1..Len(a) /\ IsSubroutine(a[j])
    <3> SUFFICES ASSUME NEW j \in 1..(stop - 1) PROVE j \in 1..Len(a) /\ IsSubroutine(a[j])
      OBVIOUS
    <3>1. j \in 1..Len(a) /\ ~(stop =< j)
      BY <1>2, <2>3
    <3>2. j \notin I
      BY <2>2, <3>1
    <3> QED BY <3>1, <3>2
  <2> HIDE DEF I
  <2>5. PICK s : s = SubSeq(a, 1, stop - 1)
    OBVIOUS
  <2>6. s = LeadingSubroutines(n)
    BY <1>4, <2>3, <2>5
  <2>7. s \in Seq(Decl) /\ Len(s) = stop - 1 /\ \A j \in 1..(stop - 1) : s[j] = a[j]
    <3>1. stop - 1 \in 0..Len(a)
      BY <1>2, <2>3
    <3> QED BY <1>2, <2>5, <3>1, PrefixFacts
  <2>8. ASSUME NEW p \in 1..Len(a), \A i \in 1..p : IsSubroutine(a[i]) PROVE p =< Len(s)
    <3>1. stop \notin 1..p
      BY <2>3, <2>8
    <3> QED BY <2>3, <2>7, <3>1
  <2>9. IsLeading(a, s)
    <3>1. Len(s) =< Len(a)
      BY <1>2, <2>3, <2>7
    <3> QED BY <2>4, <2>7, <2>8, <3>1 DEF IsLeading
  <2> QED BY <1>1, <2>6, <2>9
<1> QED BY <1>5, <1>6

\* What directOverloads keeps of a list of subroutines: only its elements, and
\* all those of a prefix whose first element has a type of its own.
LEMMA OverloadFacts ==
  ASSUME NEW s \in Seq(Decl), NEW p \in 0..Len(s),
         \A j \in 2..p : stype[s[j]] # stype[s[1]]
  PROVE  /\ \A x \in Range(OverloadsOf(<<>>, s)) : \E j \in 1..Len(s) : s[j] = x
         /\ \A j \in 1..p : s[j] \in Range(OverloadsOf(<<>>, s))
<1>1. PICK z \in Nat : z = Len(s)
  OBVIOUS
<1>2. PICK r : IsRun("overload", <<>>, s, z, r) /\ OverloadsOf(<<>>, s) = r[z]
  <2>1. DOMAIN s = 1..z
    BY <1>1
  <2> QED BY <2>1, FoldOverloads
<1>3. r[0] = <<>> /\ \A j \in 1..z : r[j] = AddOverload(r[j - 1], s[j])
  BY <1>2 DEF IsRun, Step
<1>4. \A j \in 1..z : s[j] \in Decl
  BY <1>1
<1> DEFINE Good(j) == /\ r[j] \in Seq(Decl)
                      /\ \A x \in Range(r[j]) : \E i \in 1..j : s[i] = x
                      /\ \A i \in 1..j : i =< p => Contains(r[j], s[i])
                      /\ j > 0 => Contains(r[j], s[1])
           T == {j \in Nat : j =< z => Good(j)}
<1>5. 0 \in T
  <2>1. r[0] \in Seq(Decl) /\ DOMAIN r[0] = {} /\ 1..0 = {}
    BY <1>3
  <2>2. Good(0)
    BY <2>1 DEF Range
  <2> HIDE DEF Good
  <2> QED BY <2>2
<1>6. ASSUME NEW j \in Nat, j \in T PROVE j + 1 \in T
  <2>0. SUFFICES ASSUME j + 1 =< z PROVE Good(j + 1)
    <3> HIDE DEF Good
    <3> QED OBVIOUS
  <2>1. j + 1 \in 1..z /\ (j + 1) - 1 = j /\ j =< z
    BY <1>1, <2>0
  <2>2. Good(j)
    <3> HIDE DEF Good
    <3> QED BY <1>6, <2>1
  <2>3. PICK d \in Decl : d = s[j + 1]
    BY <1>4, <2>1
  <2>4. r[j + 1] = IF Duplicated(d, r[j]) THEN r[j] ELSE Append(r[j], d)
    BY <1>3, <2>1, <2>3 DEF AddOverload
  <2>5. PICK u : u = r[j]
    OBVIOUS
  <2>6. PICK v : v = r[j + 1]
    OBVIOUS
  <2>7. u \in Seq(Decl) /\ DOMAIN u = 1..Len(u) /\ Len(u) \in Nat
    BY <2>2, <2>5
  <2>8. CASE Duplicated(d, u)
    <3>1. v = u
      BY <2>4, <2>5, <2>6, <2>8
    <3>2. j > 0
      <4>1. u # <<>>
        BY <2>8 DEF Duplicated
      <4> QED BY <1>3, <2>5, <4>1
    <3>3. Contains(u, s[1])
      BY <2>2, <2>5, <3>2
    <3>4. stype[s[1]] = stype[d]
      BY <2>7, <2>8, <3>3 DEF Duplicated, Contains
    <3>5. ~(j + 1 =< p)
      <4>1. j + 1 \in 2..p => stype[d] # stype[s[1]]
        BY <2>3
      <4> QED BY <3>2, <3>4, <4>1
    <3>6. \A x \in Range(v) : \E i \in 1..(j + 1) : s[i] = x
      <4>1. 1..j \subseteq 1..(j + 1)
        OBVIOUS
      <4> QED BY <2>2, <2>5, <3>1, <4>1
    <3>7. \A i \in 1..(j + 1) : i =< p => Contains(v, s[i])
      <4>1. \A i \in 1..(j + 1) : i =< p => i \in 1..j
        BY <3>5
      <4> QED BY <2>2, <2>5, <3>1, <4>1
    <3> QED BY <2>6, <2>7, <3>1, <3>3, <3>6, <3>7
  <2>9. CASE ~Duplicated(d, u)
    <3>1. v = Append(u, d)
      BY <2>4, <2>5, <2>6, <2>9
    <3>2. /\ v \in Seq(Decl) /\ Len(v) = Len(u) + 1 /\ v[Len(u) + 1] = d
          /\ \A i \in 1..Len(u) : v[i] = u[i]
      BY <2>7, <3>1
    <3>3. DOMAIN v = 1..(Len(u) + 1)
      BY <2>7, <3>2
    <3>4. \A i \in 1..(Len(u) + 1) : i \in 1..Len(u) \/ i = Len(u) + 1
      BY <2>7
    <3>5. Contains(v, d) /\ \A x : Contains(u, x) => Contains(v, x)
      BY <2>7, <3>2 DEF Contains
    <3>6. \A x \in Range(v) : x \in Range(u) \/ x = d
      BY <2>7, <3>2, <3>3, <3>4 DEF Range
    <3>7. \A i \in 1..(j + 1) : i \in 1..j \/ i = j + 1
      OBVIOUS
    <3>8. \A x \in Range(v) : \E i \in 1..(j + 1) : s[i] = x
      <4>1. 1..j \subseteq 1..(j + 1) /\ j + 1 \in 1..(j + 1)
        OBVIOUS
      <4> QED BY <2>2, <2>3, <2>5, <3>6, <4>1
    <3>9. \A i \in 1..(j + 1) : i =< p => Contains(v, s[i])
      BY <2>2, <2>3, <2>5, <3>5, <3>7
    <3>10. Contains(v, s[1])
      <4>1. CASE j = 0
        BY <2>3, <3>5, <4>1
      <4>2. CASE j # 0
        BY <2>2, <2>5, <3>5, <4>2
      <4> QED BY <4>1, <4>2
    <3> QED BY <2>6, <3>2, <3>8, <3>9, <3>10
  <2> QED BY <2>5, <2>8, <2>9
<1>7. Good(z)
  <2>1. Nat \subseteq T
    <3> HIDE DEF T
    <3> QED BY <1>5, <1>6, SetInduction
  <2> HIDE DEF Good
  <2> QED BY <1>1, <2>1
<1>8. ASSUME NEW j \in 1..p PROVE s[j] \in Range(r[z])
  <2>1. Contains(r[z], s[j]) /\ r[z] \in Seq(Decl)
    BY <1>1, <1>7
  <2> QED BY <2>1 DEF Contains, Range
<1> QED BY <1>1, <1>2, <1>7, <1>8

\* A declaration that is no subroutine is alone under its name in its entry.
LEMMA AloneOrSubroutines ==
  ASSUME NEW e \in OpenEntry, NEW n, NEW x \in Named(e.directDecls, n)
  PROVE  /\ ~IsSubroutine(x) => Named(e.directDecls, n) = {x}
         /\ IsSubroutine(x) => \A y \in Named(e.directDecls, n) : IsSubroutine(y)
BY DEF OpenEntry, Compatible, Named

\* What is looked up among the imports is exported.
LEMMA ImportsAreExported ==
  ASSUME importDecls \in ImportLists, NEW n \in Name, NEW kinds
  PROVE  At(importDecls[n], Indirect(n, kinds)) \subseteq Exported
<1>1. importDecls[n] \in Seq(Exported)
  BY DEF ImportLists
<1>2. \A i \in DOMAIN importDecls[n] : importDecls[n][i] \in Exported
  BY <1>1
<1> QED BY <1>2 DEF At, Indirect

\* Innermost is the first entry that declares the name.
LEMMA InnermostFacts ==
  ASSUME entries \in Seq(OpenEntry), NEW n \in Name, Innermost(n) # 0
  PROVE  /\ Innermost(n) \in 1..Len(entries)
         /\ Named(entries[Innermost(n)].directDecls, n) # {}
         /\ \A j \in 1..(Innermost(n) - 1) : Named(entries[j].directDecls, n) = {}
<1> DEFINE I == {i \in 1..Len(entries) : Named(entries[i].directDecls, n) # {}}
<1>1. Innermost(n) = IF I # {} THEN Min(I) ELSE 0
  BY Zenon DEF Innermost, SelectInSeq
<1>2. I # {} /\ I \in SUBSET Nat
  <2>1. I \in SUBSET Nat
    OBVIOUS
  <2> HIDE DEF I
  <2> QED BY <1>1, <2>1
<1>3. PICK k : k = Innermost(n)
  OBVIOUS
<1>4. k \in I /\ \A j \in I : k =< j
  BY <1>1, <1>2, <1>3, MinOfNaturals
<1>5. k \in 1..Len(entries) /\ Named(entries[k].directDecls, n) # {}
  BY <1>4
<1>6. ASSUME NEW j \in 1..(k - 1) PROVE Named(entries[j].directDecls, n) = {}
  <2>1. j \in 1..Len(entries) /\ ~(k =< j)
    BY <1>5
  <2>2. j \notin I
    BY <1>4, <2>1
  <2> QED BY <2>1, <2>2
<1> QED BY <1>3, <1>5, <1>6

\* Entries in front of which only subroutines named n are declared.
Reach(n) == {i \in DOMAIN entries : \A j \in 1..i :
               \A d \in Named(entries[j].directDecls, n) : IsSubroutine(d)}
\* What they declare.
Seen(n) == UNION {entries[i].directDecls : i \in Reach(n)}

\* No overload that directOverloads collects lies behind another kind of declaration.
LEMMA OverloadsSeen ==
  ASSUME Inv, NEW n \in Name
  PROVE  Range(directOverloads(n)) \subseteq Seen(n)
<1>1. entries \in Seq(OpenEntry) /\ entries \in Seq(Entry) /\ directDecls \in Lists
      /\ Len(entries) \in Nat /\ DOMAIN entries = 1..Len(entries)
  BY OpenIsEntry DEF Inv
<1>2. PICK R : Chain(R, directDecls, entries)
  BY DEF Inv, Linked
<1>3. PICK a : a = directDecls[n]
  OBVIOUS
<1>4. PICK s : s = LeadingSubroutines(n)
  OBVIOUS
<1>5. IsLeading(a, s)
  BY <1>1, <1>3, <1>4, LeadingFacts
<1>6. directOverloads(n) = OverloadsOf(<<>>, s)
  BY <1>4, Zenon DEF directOverloads, OverloadsOf
<1>7. a \in Seq(Decl) /\ Len(a) \in Nat /\ s \in Seq(Decl) /\ Len(s) \in Nat
  BY <1>1, <1>3, <1>5 DEF Lists, IsLeading
<1> SUFFICES ASSUME NEW x \in Range(directOverloads(n)) PROVE x \in Seen(n)
  OBVIOUS
<1>8. PICK i \in 1..Len(s) : s[i] = x
  <2>1. 0 \in 0..Len(s) /\ \A j \in 2..0 : stype[s[j]] # stype[s[1]]
    BY <1>7
  <2> QED BY <1>6, <1>7, <2>1, OverloadFacts
<1>9. i \in 1..Len(a) /\ a[i] = x /\ \A q \in 1..i : IsSubroutine(a[q])
  BY <1>5, <1>7, <1>8 DEF IsLeading
<1>10. PICK e \in 1..Len(entries) :
         /\ a[i] \in Named(entries[e].directDecls, n)
         /\ \A j \in 1..(e - 1) : \A y \in Named(entries[j].directDecls, n) :
              \E q \in 1..i : a[q] = y
  BY <1>1, <1>2, <1>3, <1>9, PlaceOf
<1>11. e \in Reach(n)
  <2>1. ASSUME NEW j \in 1..e, NEW d \in Named(entries[j].directDecls, n) PROVE IsSubroutine(d)
    <3>1. CASE j = e
      <4>1. entries[e] \in OpenEntry /\ i \in 1..i
        BY <1>1, <1>9
      <4>2. IsSubroutine(a[i])
        BY <1>9, <4>1
      <4> QED BY <1>10, <3>1, <4>1, <4>2, AloneOrSubroutines
    <3>2. CASE j # e
      <4>1. j \in 1..(e - 1)
        BY <3>2
      <4> QED BY <1>9, <1>10, <4>1
    <3> QED BY <3>1, <3>2
  <2> QED BY <1>1, <2>1 DEF Reach
<1> QED BY <1>9, <1>10, <1>11 DEF Seen, Named

\* A lookup meets every subroutine of the innermost scope, or the one declaration
\* there that is none.
LEMMA InnermostOverloads ==
  ASSUME Inv, NEW n \in Name, Innermost(n) # 0,
         NEW d \in Named(entries[Innermost(n)].directDecls, n)
  PROVE  /\ IsSubroutine(d) => d \in Range(directOverloads(n)) /\ directDecl(n) = {}
         /\ ~IsSubroutine(d) => directDecl(n) = {d}
<1>1. entries \in Seq(OpenEntry) /\ entries \in Seq(Entry) /\ directDecls \in Lists
  BY OpenIsEntry DEF Inv
<1>2. PICK R : Chain(R, directDecls, entries)
  BY DEF Inv, Linked
<1>3. PICK k : k = Innermost(n)
  OBVIOUS
<1>4. k \in 1..Len(entries) /\ \A j \in 1..(k - 1) : Named(entries[j].directDecls, n) = {}
  BY <1>1, <1>3, InnermostFacts
<1>5. PICK a : a = directDecls[n]
  OBVIOUS
<1>6. PICK S : S = Named(entries[k].directDecls, n)
  OBVIOUS
<1>7. PICK b : b = R[k][n]
  OBVIOUS
<1>8. Leads(a, b, S) /\ b \in Seq(Decl)
  BY <1>1, <1>2, <1>4, <1>5, <1>6, <1>7, FirstBlock
<1>9. a \in Seq(Decl) /\ Len(a) \in Nat /\ Len(b) \in Nat
  BY <1>1, <1>5, <1>8 DEF Lists
<1>10. PICK p \in Nat : p = Len(a) - Len(b)
  BY <1>8 DEF Leads
<1>11. {a[i] : i \in 1..p} = S /\ \A i, j \in 1..p : a[i] = a[j] => i = j
  BY <1>8, <1>10 DEF Leads
<1>12. d \in S /\ entries[k] \in OpenEntry
  BY <1>1, <1>3, <1>4, <1>6
<1>13. PICK q \in 1..p : a[q] = d
  BY <1>11, <1>12
<1>14. p \in 1..Len(a) /\ 1 \in 1..p /\ a # <<>> /\ Head(a) = a[1] /\ a[1] \in S
  <2>1. p \in 1..Len(a) /\ 1 \in 1..p
    BY <1>9, <1>10, <1>13
  <2> QED BY <1>9, <1>11, <2>1
<1>15. a[1] \in Range(a)
  BY <1>9, <1>14 DEF Range
<1>16. ASSUME ~IsSubroutine(d) PROVE directDecl(n) = {d}
  <2>1. a[1] = d
    <3>1. S = {d}
      BY <1>6, <1>12, <1>16, AloneOrSubroutines
    <3> QED BY <1>14, <3>1
  <2> QED BY <1>5, <1>14, <1>15, <1>16, <2>1 DEF directDecl
<1>17. ASSUME IsSubroutine(d) PROVE d \in Range(directOverloads(n)) /\ directDecl(n) = {}
  <2>1. \A y \in S : IsSubroutine(y)
    BY <1>6, <1>12, <1>17, AloneOrSubroutines
  <2>2. directDecl(n) = {}
    BY <1>5, <1>14, <2>1 DEF directDecl
  <2>3. PICK s : s = LeadingSubroutines(n)
    OBVIOUS
  <2>4. IsLeading(a, s)
    BY <1>1, <1>5, <2>3, LeadingFacts
  <2>5. directOverloads(n) = OverloadsOf(<<>>, s)
    BY <2>3, Zenon DEF directOverloads, OverloadsOf
  <2>6. \A i \in 1..p : IsSubroutine(a[i])
    BY <1>11, <2>1
  <2>7. p =< Len(s) /\ s \in Seq(Decl) /\ Len(s) \in Nat /\ \A i \in 1..Len(s) : s[i] = a[i]
    BY <1>14, <2>4, <2>6 DEF IsLeading
  <2>8. \A i \in 1..p : s[i] = a[i]
    BY <2>7
  <2>9. ASSUME NEW j \in 2..p PROVE stype[s[j]] # stype[s[1]]
    <3>1. j \in 1..p /\ 1 \in 1..p /\ j # 1
      OBVIOUS
    <3>2. a[j] # a[1] /\ a[j] \in S /\ a[1] \in S
      BY <1>11, <3>1
    <3>3. profile[a[j]] # profile[a[1]]
      BY <1>6, <1>12, <3>2 DEF OpenEntry, Compatible, Named
    <3>4. a[j] \in Decl /\ a[1] \in Decl
      BY <1>6, <1>12, <3>2 DEF OpenEntry, Entry, Named
    <3> QED BY <2>8, <3>1, <3>3, <3>4, DeclAssumption
  <2>10. p \in 0..Len(s)
    BY <2>7
  <2>11. s[q] \in Range(OverloadsOf(<<>>, s))
    BY <2>7, <2>9, <2>10, OverloadFacts
  <2> QED BY <1>13, <2>2, <2>5, <2>8, <2>11
<1> QED BY <1>16, <1>17

\* What a lookup of n found, given what its innermost scope declares.
Wins(n, here, hiding, kinds, found) ==
  /\ hiding # {} => found = hiding
  /\ \A d \in here : astKind[d] \in kinds => d \in found
  /\ found \ Exported \subseteq hiding \cup Seen(n)

\* checkDirectName combines the direct and the imported candidates so.
LEMMA LookupFacts ==
  ASSUME Inv, NEW n \in Name, Innermost(n) # 0, NEW forStatement \in BOOLEAN,
         NEW here, here = Named(entries[Innermost(n)].directDecls, n),
         NEW hiding, hiding = {d \in here : ~IsSubroutine(d) /\ astKind[d] # "Component"},
         NEW kinds, kinds = IF forStatement THEN {"Procedure"} ELSE {"Function", "EnumLiteral"},
         NEW found, found = checkDirectName(n, forStatement)
  PROVE  Wins(n, here, hiding, kinds, found)
<1>1. \A d : astKind[d] \in kinds => IsSubroutine(d) /\ astKind[d] # "Component"
  BY DEF IsSubroutine, Routines
<1> DEFINE direct == {d \in directDecl(n) : astKind[d] # "Component"}
           types == Indirect(n, Types)
           values == Indirect(n, {"Value"})
           overloaded == {d \in Range(directOverloads(n)) : astKind[d] \in kinds}
           indirect == Indirect(n, kinds)
           visible == getVisibleSubroutines(n, kinds)
<1>2. found = IF direct # {} THEN direct
              ELSE IF overloaded # {} THEN visible
              ELSE IF Cardinality(types) = 1 /\ values = {} /\ indirect = {}
              THEN At(importDecls[n], types)
              ELSE IF indirect # {} /\ values = {} /\ types = {}
              THEN visible
              ELSE {}
  BY DEF checkDirectName
<1>3. overloaded \subseteq visible /\ visible \subseteq overloaded \cup At(importDecls[n], indirect)
  BY DEF getVisibleSubroutines
<1>4. At(importDecls[n], types) \subseteq Exported /\ At(importDecls[n], indirect) \subseteq Exported
  BY ImportsAreExported DEF Inv
<1>5. overloaded \subseteq Seen(n)
  BY OverloadsSeen
<1>6. \A d \in here : IsSubroutine(d) => d \in Range(directOverloads(n)) /\ directDecl(n) = {}
  BY InnermostOverloads
<1>7. \A d \in here : ~IsSubroutine(d) => directDecl(n) = {d}
  BY InnermostOverloads
<1>8. here # {}
  BY InnermostFacts DEF Inv
<1>9. direct \subseteq hiding
  BY <1>6, <1>7, <1>8
<1>10. hiding # {} => direct = hiding
  <2> SUFFICES ASSUME NEW d \in hiding PROVE hiding \subseteq direct
    BY <1>9
  <2>1. \A x \in hiding : directDecl(n) = {x} /\ astKind[x] # "Component"
    BY <1>7
  <2> QED BY <2>1
<1>11. ASSUME NEW d \in here, astKind[d] \in kinds PROVE d \in overloaded /\ direct = {}
  BY <1>1, <1>6, <1>11
<1> HIDE DEF direct, types, values, overloaded, indirect, visible
<1>12. hiding # {} => found = hiding
  BY <1>2, <1>10
<1>13. ASSUME NEW d \in here, astKind[d] \in kinds PROVE d \in found
  BY <1>2, <1>3, <1>11, <1>13
<1>14. found \ Exported \subseteq hiding \cup Seen(n)
  BY <1>2, <1>3, <1>4, <1>5, <1>9
<1> QED BY <1>12, <1>13, <1>14 DEF Wins

\* Resolver and checkDirectName: a value, type, package or exception of the innermost
\* scope hides everything else, the subroutines of that scope are all candidates, and
\* none of the candidates lies beyond a declaration that is not a subroutine.
THEOREM LookupIsLexical == Spec => []InnermostDeclarationWins
<1>1. Inv => InnermostDeclarationWins
  <2> SUFFICES ASSUME Inv, NEW n \in Name, Innermost(n) # 0, NEW forStatement \in BOOLEAN
               PROVE  LET here   == Named(entries[Innermost(n)].directDecls, n)
                          hiding == {d \in here : ~IsSubroutine(d) /\ astKind[d] # "Component"}
                          kinds  == IF forStatement THEN {"Procedure"}
                                                    ELSE {"Function", "EnumLiteral"}
                      IN  Wins(n, here, hiding, kinds, checkDirectName(n, forStatement))
    BY Zenon DEF InnermostDeclarationWins, Wins, Seen, Reach
  <2> QED BY LookupFacts
<1> QED BY <1>1, Invariance, PTL
-----------------------------------------------------------------------------
(* What imports link and clear *)

\* A sequence that lists nothing twice.
Distinct(s) == \A i, j \in 1..Len(s) : s[i] = s[j] => i = j

\* A concatenation lists nothing twice if its parts do not and share nothing.
LEMMA ConcatDistinct ==
  ASSUME NEW S, NEW s \in Seq(S), NEW t \in Seq(S), Distinct(s), Distinct(t),
         \A x : ~(Contains(s, x) /\ Contains(t, x))
  PROVE  Distinct(s \o t)
<1> DEFINE u == s \o t
<1>1. /\ u \in Seq(S) /\ Len(u) = Len(s) + Len(t) /\ Len(s) \in Nat /\ Len(t) \in Nat
      /\ \A i \in 1..(Len(s) + Len(t)) : u[i] = IF i <= Len(s) THEN s[i] ELSE t[i - Len(s)]
  BY ConcatProperties
<1> HIDE DEF u
<1>2. ASSUME NEW i \in 1..Len(u)
      PROVE  \/ i \in 1..Len(s) /\ u[i] = s[i]
             \/ i - Len(s) \in 1..Len(t) /\ u[i] = t[i - Len(s)]
  BY <1>1
<1>3. ASSUME NEW i \in 1..Len(u), NEW j \in 1..Len(u), u[i] = u[j] PROVE i = j
  <2>1. CASE i \in 1..Len(s) /\ u[i] = s[i] /\ j \in 1..Len(s) /\ u[j] = s[j]
    BY <1>3, <2>1 DEF Distinct
  <2>2. CASE /\ i - Len(s) \in 1..Len(t) /\ u[i] = t[i - Len(s)]
             /\ j - Len(s) \in 1..Len(t) /\ u[j] = t[j - Len(s)]
    <3>1. i - Len(s) = j - Len(s)
      BY <1>3, <2>2 DEF Distinct
    <3> QED BY <1>1, <3>1
  <2>3. CASE i \in 1..Len(s) /\ u[i] = s[i] /\ j - Len(s) \in 1..Len(t) /\ u[j] = t[j - Len(s)]
    <3>1. Contains(s, u[i]) /\ Contains(t, u[i])
      BY <1>3, <2>3 DEF Contains
    <3> QED BY <3>1
  <2>4. CASE i - Len(s) \in 1..Len(t) /\ u[i] = t[i - Len(s)] /\ j \in 1..Len(s) /\ u[j] = s[j]
    <3>1. Contains(s, u[i]) /\ Contains(t, u[i])
      BY <1>3, <2>4 DEF Contains
    <3> QED BY <3>1
  <2> QED BY <1>2, <2>1, <2>2, <2>3, <2>4
<1> QED BY <1>3 DEF Distinct, u

\* So does a flattened sequence of rows.
LEMMA FlattenDistinct ==
  ASSUME NEW S, NEW seqs \in Seq(Seq(S)), Len(seqs) # 0,
         \A i \in 1..Len(seqs) : Distinct(seqs[i]),
         \A i, j \in 1..Len(seqs) : \A x :
           Contains(seqs[i], x) /\ Contains(seqs[j], x) => i = j
  PROVE  Distinct(FlattenSeq(seqs))
<1> DEFINE L == Len(seqs)
           g == CHOOSE f : IsFlat(seqs, f)
<1>1. FlattenSeq(seqs) = g[L]
  BY Zenon DEF FlattenSeq, IsFlat
<1>2. IsFlat(seqs, g)
  BY FlatExists, Zenon
<1> HIDE DEF g
<1>3. L \in Nat /\ L > 0
  OBVIOUS
<1>4. /\ g[1] = seqs[1]
      /\ \A i \in 2..L : g[i] = g[i - 1] \o seqs[i]
  <2>1. \A i \in 1..L : g[i] = IF i = 1 THEN seqs[i] ELSE g[i - 1] \o seqs[i]
    BY <1>2, Zenon DEF IsFlat
  <2>2. 1 \in 1..L /\ \A i \in 2..L : i \in 1..L /\ i # 1
    BY <1>3
  <2> QED BY <2>1, <2>2
<1>5. \A i \in 1..L : seqs[i] \in Seq(S)
  OBVIOUS
<1> DEFINE Good(n) == /\ g[n] \in Seq(S) /\ Distinct(g[n])
                      /\ \A x : Contains(g[n], x) => \E i \in 1..n : Contains(seqs[i], x)
           T == {n \in Nat : n + 1 =< L => Good(n + 1)}
<1>6. 0 \in T
  <2>1. 1 \in 1..1 /\ 1 \in 1..L /\ 0 + 1 = 1
    BY <1>3
  <2>2. Good(1)
    BY <1>4, <1>5, <2>1
  <2> QED BY <2>1, <2>2
<1>7. ASSUME NEW n \in Nat, n \in T PROVE n + 1 \in T
  <2> SUFFICES ASSUME (n + 1) + 1 =< L PROVE Good((n + 1) + 1)
    OBVIOUS
  <2> DEFINE m == n + 1
  <2>1. m \in Nat /\ m \in 1..L /\ m + 1 \in 2..L /\ (m + 1) - 1 = m /\ m + 1 \in 1..L
        /\ (\A i \in 1..m : i \in 1..(m + 1) /\ i \in 1..L /\ i # m + 1) /\ m + 1 \in 1..(m + 1)
    BY <1>3
  <2>2. Good(m)
    BY <1>7, <2>1
  <2> HIDE DEF m
  <2>3. g[m + 1] = g[m] \o seqs[m + 1]
    BY <1>4, <2>1
  <2>4. seqs[m + 1] \in Seq(S) /\ Distinct(seqs[m + 1])
    BY <1>5, <2>1
  <2>5. \A x : ~(Contains(g[m], x) /\ Contains(seqs[m + 1], x))
    BY <2>1, <2>2
  <2>6. Distinct(g[m] \o seqs[m + 1])
    BY <2>2, <2>4, <2>5, ConcatDistinct
  <2>7. /\ g[m] \o seqs[m + 1] \in Seq(S)
        /\ \A x : Contains(g[m] \o seqs[m + 1], x) <=>
                    Contains(g[m], x) \/ Contains(seqs[m + 1], x)
    BY <2>2, <2>4, ConcatContains
  <2>8. Good(m + 1)
    BY <2>1, <2>2, <2>3, <2>6, <2>7
  <2> QED BY <2>8 DEF m
<1>8. L - 1 \in T
  <2> HIDE DEF T
  <2>1. L - 1 \in Nat
    BY <1>3
  <2> QED BY <1>6, <1>7, <2>1, SetInduction
<1>9. Good(L)
  <2>1. (L - 1) + 1 = L
    BY <1>3
  <2> QED BY <1>8, <2>1
<1> QED BY <1>1, <1>9

\* A declaration has one place in one region.
LEMMA OnePlace ==
  ASSUME NEW r \in Package \cup Decl, NEW s \in Package \cup Decl,
         NEW i \in DOMAIN region[r], NEW j \in DOMAIN region[s], region[r][i] = region[s][j]
  PROVE  r = s /\ i = j
BY OwnerAssumption

\* What a visit of p reaches from position i of its region.
Reached(p, kinds, i, x) ==
  \/ x = region[p][i]
  \/ astKind[region[p][i]] \in kinds /\ Contains(region[region[p][i]], x)

\* A visit reaches the declarations of the package and of its types, each once.
LEMMA VisitFacts ==
  ASSUME NEW p \in Package, NEW kinds \in SUBSET Types
  PROVE  /\ \A x : Contains(Visit(p, kinds), x) <=>
                     \E i \in 1..Len(region[p]) : Reached(p, kinds, i, x)
         /\ Distinct(Visit(p, kinds))
<1>1. PICK s : s = region[p]
  OBVIOUS
<1>2. s \in Seq(Decl)
  BY <1>1, RegionAssumption
<1>3. DOMAIN s = 1..Len(s) /\ Len(s) \in Nat /\ \A i \in 1..Len(s) : s[i] \in Decl
  BY <1>2
<1> DEFINE tail(i) == IF astKind[s[i]] \in kinds THEN region[s[i]] ELSE <<>>
           row(i) == <<s[i]>> \o tail(i)
<1>4. ASSUME NEW i \in 1..Len(s) PROVE tail(i) \in Seq(Decl) /\ <<s[i]>> \in Seq(Decl)
  <2>1. s[i] \in Decl /\ region[s[i]] \in Seq(Decl)
    BY <1>3, RegionAssumption
  <2> QED BY <2>1
<1>5. ASSUME NEW i \in 1..Len(s)
      PROVE  row(i) \in Seq(Decl) /\ \A x : Contains(row(i), x) <=> Reached(p, kinds, i, x)
  <2>1. /\ row(i) \in Seq(Decl)
        /\ \A x : Contains(row(i), x) <=> Contains(<<s[i]>>, x) \/ Contains(tail(i), x)
    <3> HIDE DEF tail
    <3> QED BY <1>4, ConcatContains
  <2>2. \A x : Contains(<<s[i]>>, x) <=> x = s[i]
    BY DEF Contains
  <2>3. \A x : Contains(tail(i), x) <=> astKind[s[i]] \in kinds /\ Contains(region[s[i]], x)
    <3>1. CASE astKind[s[i]] \in kinds
      BY <3>1
    <3>2. CASE astKind[s[i]] \notin kinds
      <4>1. tail(i) = <<>> /\ \A x : ~Contains(<<>>, x)
        BY <3>2 DEF Contains
      <4> QED BY <3>2, <4>1
    <3> QED BY <3>1, <3>2
  <2> HIDE DEF row, tail
  <2> QED BY <1>1, <2>1, <2>2, <2>3 DEF Reached
<1>6. ASSUME NEW i \in 1..Len(s), astKind[s[i]] \in kinds
      PROVE  s[i] \in Decl /\ s[i] # p /\ DOMAIN region[s[i]] = 1..Len(region[s[i]])
  <2>1. s[i] \in Decl /\ astKind[s[i]] \in Types
    BY <1>3, <1>6
  <2>2. astKind[s[i]] # "Package"
    BY <2>1 DEF Types
  <2> QED BY <2>1, <2>2, RegionAssumption, OwnerAssumption
<1>7. ASSUME NEW i \in 1..Len(s), NEW j \in 1..Len(s), NEW x,
             Reached(p, kinds, i, x), Reached(p, kinds, j, x)
      PROVE  i = j
  <2>0. p \in Package \cup Decl
    OBVIOUS
  <2>1. CASE x = s[i] /\ x = s[j]
    <3>1. i \in DOMAIN region[p] /\ j \in DOMAIN region[p] /\ region[p][i] = region[p][j]
      BY <1>1, <1>3, <2>1
    <3> QED BY <2>0, <3>1, OnePlace
  <2>2. ASSUME NEW a \in 1..Len(s), NEW b \in 1..Len(s), x = s[a], astKind[s[b]] \in kinds,
               Contains(region[s[b]], x)
        PROVE  FALSE
    <3>1. PICK k \in DOMAIN region[s[b]] : region[s[b]][k] = x
      BY <1>6, <2>2 DEF Contains
    <3>2. s[b] \in Decl /\ s[b] # p
      BY <1>6, <2>2
    <3>3. \A i2 \in DOMAIN region[p], j2 \in DOMAIN region[s[b]] :
            region[p][i2] = region[s[b]][j2] => p = s[b]
      BY <2>0, <3>2, OwnerAssumption
    <3> QED BY <1>1, <1>3, <2>2, <3>1, <3>2, <3>3
  <2>3. CASE /\ astKind[s[i]] \in kinds /\ Contains(region[s[i]], x)
             /\ astKind[s[j]] \in kinds /\ Contains(region[s[j]], x)
    <3>1. PICK k \in DOMAIN region[s[i]] : region[s[i]][k] = x
      BY <1>6, <2>3 DEF Contains
    <3>2. PICK l \in DOMAIN region[s[j]] : region[s[j]][l] = x
      BY <1>6, <2>3 DEF Contains
    <3>3. s[i] \in Package \cup Decl /\ s[j] \in Package \cup Decl
      BY <1>3
    <3>4. s[i] = s[j]
      BY <3>1, <3>2, <3>3, OwnerAssumption
    <3> QED BY <1>1, <1>3, <2>0, <3>4, OwnerAssumption
  <2> QED BY <1>1, <1>7, <2>1, <2>2, <2>3 DEF Reached
<1>8. ASSUME NEW i \in 1..Len(s) PROVE Distinct(row(i))
  <2>1. Distinct(<<s[i]>>)
    <3>1. Len(<<s[i]>>) = 1 /\ \A a, b \in 1..1 : a = b
      OBVIOUS
    <3> QED BY <3>1 DEF Distinct
  <2>2. Distinct(tail(i))
    <3>1. CASE astKind[s[i]] \in kinds
      <4>1. s[i] \in Package \cup Decl /\ DOMAIN region[s[i]] = 1..Len(region[s[i]])
        BY <1>6, <3>1
      <4>2. Distinct(region[s[i]])
        BY <4>1, OwnerAssumption DEF Distinct
      <4> QED BY <3>1, <4>2
    <3>2. CASE astKind[s[i]] \notin kinds
      <4>1. tail(i) = <<>> /\ Len(<<>>) = 0 /\ \A a \in 1..0 : FALSE
        BY <3>2
      <4>2. Distinct(<<>>)
        BY <4>1 DEF Distinct
      <4> QED BY <4>1, <4>2
    <3> QED BY <3>1, <3>2
  <2>3. ASSUME NEW x, Contains(<<s[i]>>, x), Contains(tail(i), x) PROVE FALSE
    <3>1. x = s[i]
      BY <2>3 DEF Contains
    <3>2. CASE astKind[s[i]] \in kinds
      <4>1. PICK k \in DOMAIN region[s[i]] : region[s[i]][k] = x
        BY <1>6, <2>3, <3>2 DEF Contains
      <4>2. s[i] \in Package \cup Decl /\ p \in Package \cup Decl /\ s[i] # p
        BY <1>6, <3>2
      <4>3. region[p][i] = region[s[i]][k] /\ i \in DOMAIN region[p]
        BY <1>1, <1>3, <3>1, <4>1
      <4> QED BY <4>1, <4>2, <4>3, OwnerAssumption
    <3>3. CASE astKind[s[i]] \notin kinds
      <4>1. tail(i) = <<>> /\ ~Contains(<<>>, x)
        BY <3>3 DEF Contains
      <4> QED BY <2>3, <4>1
    <3> QED BY <3>2, <3>3
  <2> HIDE DEF tail
  <2> QED BY <1>4, <2>1, <2>2, <2>3, ConcatDistinct
<1>9. PICK rows : rows = VisitRows(p, kinds)
  OBVIOUS
<1>10. Visit(p, kinds) = FlattenSeq(rows) /\ rows = [i \in 1..Len(s) |-> row(i)]
  BY <1>1, <1>3, <1>9, Zenon DEF Visit, VisitRows
<1> HIDE DEF row, tail
<1>11. rows \in Seq(Seq(Decl)) /\ Len(rows) = Len(s) /\ \A i \in 1..Len(s) : rows[i] = row(i)
  <2>1. rows \in [1..Len(s) -> Seq(Decl)]
    BY <1>5, <1>10
  <2> QED BY <1>3, <1>10, <2>1
<1>12. CASE Len(s) = 0
  <2>1. rows = <<>> /\ Len(<<>>) = 0
    BY <1>11, <1>12
  <2>2. FlattenSeq(<<>>) = <<>>
    BY <2>1, Zenon DEF FlattenSeq
  <2>3. Distinct(<<>>) /\ \A x : ~Contains(<<>>, x)
    BY <2>1 DEF Distinct, Contains
  <2> QED BY <1>1, <1>10, <1>12, <2>1, <2>2, <2>3
<1>13. CASE Len(s) # 0
  <2>1. \A x : Contains(FlattenSeq(rows), x) <=> \E i \in 1..Len(rows) : Contains(rows[i], x)
    BY <1>11, <1>13, FlattenFacts
  <2>2. Distinct(FlattenSeq(rows))
    <3>1. \A i \in 1..Len(rows) : Distinct(rows[i])
      BY <1>8, <1>11
    <3>2. \A i, j \in 1..Len(rows) : \A x :
            Contains(rows[i], x) /\ Contains(rows[j], x) => i = j
      BY <1>5, <1>7, <1>11
    <3> QED BY <1>11, <1>13, <3>1, <3>2, FlattenDistinct
  <2> QED BY <1>1, <1>5, <1>10, <1>11, <2>1, <2>2
<1> QED BY <1>12, <1>13

\* The declarations that a use clause for p links, and those that clearing unlinks.
ImportedBy(p) == Range(Visit(p, ImportedKinds))
ClearedBy(p) == Range(Visit(p, ClearedKinds))

\* The operators of private types.
PrivateOperator(d) == \E t \in Decl : astKind[t] = "PrivateType" /\ Contains(region[t], d)

\* The range of a visit, as what it reaches.
LEMMA VisitRange ==
  ASSUME NEW p \in Package, NEW kinds \in SUBSET Types, NEW x
  PROVE  x \in Range(Visit(p, kinds)) <=> \E i \in 1..Len(region[p]) : Reached(p, kinds, i, x)
<1>1. PICK v : v = Visit(p, kinds)
  OBVIOUS
<1>2. v \in Seq(Decl)
  BY <1>1, VisitIn
<1>3. x \in Range(v) <=> Contains(v, x)
  BY <1>2 DEF Range, Contains
<1> QED BY <1>1, <1>3, VisitFacts

\* Clearing unlinks what the use clause linked, except operators of private
\* types; and no two packages have a declaration in common.
LEMMA ImportedFacts ==
  /\ \A p \in Package : /\ ClearedBy(p) \subseteq ImportedBy(p) /\ ImportedBy(p) \subseteq Decl
                        /\ \A d \in ImportedBy(p) \ ClearedBy(p) : PrivateOperator(d)
  /\ \A p, q \in Package : \A d \in ImportedBy(p) \cap ImportedBy(q) : p = q
<1>1. /\ ImportedKinds \in SUBSET Types /\ ClearedKinds \in SUBSET Types
      /\ ClearedKinds \subseteq ImportedKinds
      /\ \A k \in ImportedKinds \ ClearedKinds : k = "PrivateType" \/ k = "Array"
  BY DEF ImportedKinds, ClearedKinds, Types
<1>2. ASSUME NEW p \in Package
      PROVE  /\ \A d : d \in ImportedBy(p) <=>
                         \E i \in 1..Len(region[p]) : Reached(p, ImportedKinds, i, d)
             /\ \A d : d \in ClearedBy(p) <=>
                         \E i \in 1..Len(region[p]) : Reached(p, ClearedKinds, i, d)
             /\ region[p] \in Seq(Decl)
             /\ \A i \in 1..Len(region[p]) : region[p][i] \in Decl /\ i \in DOMAIN region[p]
  <2>1. region[p] \in Seq(Decl)
    BY RegionAssumption
  <2>2. \A i \in 1..Len(region[p]) : region[p][i] \in Decl /\ i \in DOMAIN region[p]
    BY <2>1
  <2> QED BY <1>1, <2>1, <2>2, VisitRange DEF ImportedBy, ClearedBy
<1>3. ASSUME NEW p \in Package PROVE ImportedBy(p) \subseteq Decl
  <2>1. Visit(p, ImportedKinds) \in Seq(Decl)
    BY <1>1, VisitIn
  <2> QED BY <2>1 DEF ImportedBy, Range
<1>4. ASSUME NEW p \in Package PROVE ClearedBy(p) \subseteq ImportedBy(p)
  BY <1>1, <1>2 DEF Reached
<1>5. ASSUME NEW p \in Package, NEW d \in ImportedBy(p), d \notin ClearedBy(p)
      PROVE  PrivateOperator(d)
  <2>1. PICK i \in 1..Len(region[p]) : Reached(p, ImportedKinds, i, d)
    BY <1>2
  <2>2. ~Reached(p, ClearedKinds, i, d)
    BY <1>2, <1>5
  <2>3. PICK t : t = region[p][i]
    OBVIOUS
  <2>4. t \in Decl /\ astKind[t] \in ImportedKinds \ ClearedKinds /\ Contains(region[t], d)
    BY <1>2, <2>1, <2>2, <2>3 DEF Reached
  <2>5. astKind[t] # "Array"
    <3> SUFFICES ASSUME astKind[t] = "Array" PROVE FALSE
      OBVIOUS
    <3>1. region[t] = <<>> /\ ~Contains(<<>>, d)
      BY <2>4, OwnerAssumption DEF Contains
    <3> QED BY <2>4, <3>1
  <2> QED BY <1>1, <2>4, <2>5 DEF PrivateOperator
<1>6. ASSUME NEW p \in Package, NEW q \in Package, NEW d \in ImportedBy(p), d \in ImportedBy(q)
      PROVE  p = q
  <2>1. PICK i \in 1..Len(region[p]) : Reached(p, ImportedKinds, i, d)
    BY <1>2
  <2>2. PICK j \in 1..Len(region[q]) : Reached(q, ImportedKinds, j, d)
    BY <1>2, <1>6
  <2>3. ASSUME NEW a \in Package, NEW b \in Package, NEW k \in 1..Len(region[a]),
               NEW l \in 1..Len(region[b]), d = region[a][k],
               astKind[region[b][l]] \in ImportedKinds, Contains(region[region[b][l]], d)
        PROVE  FALSE
    <3>1. PICK t : t = region[b][l]
      OBVIOUS
    <3>2. t \in Decl /\ astKind[t] \in Types
      BY <1>1, <1>2, <2>3, <3>1
    <3>3. region[t] \in Seq(Decl)
      BY <3>2, RegionAssumption
    <3>4. PICK m \in DOMAIN region[t] : region[t][m] = d
      BY <2>3, <3>1, <3>3 DEF Contains
    <3>5. a \in Package \cup Decl /\ t \in Package \cup Decl /\ k \in DOMAIN region[a]
      BY <1>2, <3>2
    <3>6. a = t
      BY <2>3, <3>4, <3>5, OnePlace
    <3>7. astKind[t] = "Package"
      BY <3>2, <3>6, OwnerAssumption
    <3> QED BY <3>2, <3>7 DEF Types
  <2>4. CASE d = region[p][i] /\ d = region[q][j]
    <3>1. p \in Package \cup Decl /\ q \in Package \cup Decl
          /\ i \in DOMAIN region[p] /\ j \in DOMAIN region[q]
      BY <1>2
    <3>2. region[p][i] = region[q][j]
      BY <2>4
    <3> QED BY <3>1, <3>2, OnePlace
  <2>5. CASE /\ astKind[region[p][i]] \in ImportedKinds /\ Contains(region[region[p][i]], d)
             /\ astKind[region[q][j]] \in ImportedKinds /\ Contains(region[region[q][j]], d)
    <3>1. PICK t, u : t = region[p][i] /\ u = region[q][j]
      OBVIOUS
    <3>2. t \in Decl /\ u \in Decl /\ i \in DOMAIN region[p] /\ j \in DOMAIN region[q]
      BY <1>2, <3>1
    <3>3. region[t] \in Seq(Decl) /\ region[u] \in Seq(Decl)
      BY <3>2, RegionAssumption
    <3>4. PICK m \in DOMAIN region[t] : region[t][m] = d
      BY <2>5, <3>1, <3>3 DEF Contains
    <3>5. PICK n \in DOMAIN region[u] : region[u][n] = d
      BY <2>5, <3>1, <3>3 DEF Contains
    <3>6. t \in Package \cup Decl /\ u \in Package \cup Decl
      BY <3>2
    <3>7. t = u
      BY <3>4, <3>5, <3>6, OnePlace
    <3>8. p \in Package \cup Decl /\ q \in Package \cup Decl /\ region[p][i] = region[q][j]
      BY <3>1, <3>7
    <3> QED BY <3>2, <3>8, OnePlace
  <2> QED BY <2>1, <2>2, <2>3, <2>4, <2>5 DEF Reached
<1> QED BY <1>3, <1>4, <1>5, <1>6
-----------------------------------------------------------------------------
(* What the lists gain and lose *)

\* d is in the list of its name, at most once, in no other list.
Has(lists, d) == Contains(lists[idInfo[d]], d)
AtMostOnce(s, d) == \A i, j \in 1..Len(s) : s[i] = d /\ s[j] = d => i = j
Single(lists, d) == AtMostOnce(lists[idInfo[d]], d)
Filed(lists) == \A n \in Name : \A d : Contains(lists[n], d) => idInfo[d] = n

\* RemoveFirst removes an element that occurs once, and no other.
LEMMA RemoveElements ==
  ASSUME NEW s \in Seq(Decl), NEW e
  PROVE  /\ RemoveFirst(s, e) \in Seq(Decl)
         /\ \A x : Contains(RemoveFirst(s, e), x) => Contains(s, x)
         /\ \A x : x # e => (Contains(s, x) => Contains(RemoveFirst(s, e), x))
         /\ \A x : AtMostOnce(s, x) => AtMostOnce(RemoveFirst(s, e), x)
         /\ AtMostOnce(s, e) => ~Contains(RemoveFirst(s, e), e)
<1> DEFINE I == {i \in 1..Len(s) : s[i] = e}
<1>1. CASE I = {}
  <2>2. RemoveFirst(s, e) = s
    BY <1>1 DEF RemoveFirst
  <2>3. ~Contains(s, e)
    BY <1>1 DEF Contains
  <2> QED BY <2>2, <2>3
<1>2. CASE I # {}
  <2>1. I \in SUBSET Nat
    OBVIOUS
  <2>2. PICK p \in I : \A k \in I : p =< k
    BY <1>2, <2>1, MinOfNaturals
  <2>3. p \in 1..Len(s) /\ s[p] = e /\ Len(s) \in Nat
    BY <2>2
  <2>4. \A j \in 1..(p - 1) : s[j] # s[p]
    <3> SUFFICES ASSUME NEW j \in 1..(p - 1), s[j] = s[p] PROVE FALSE
      OBVIOUS
    <3>1. j \in I
      BY <2>3
    <3> QED BY <2>2, <2>3, <3>1
  <2>5. PICK t : t = RemoveFirst(s, e)
    OBVIOUS
  <2>6. Without(s, p, t)
    BY <2>3, <2>4, <2>5, RemoveFacts
  <2> DEFINE src(k) == IF k < p THEN k ELSE k + 1
  <2>7. /\ t \in Seq(Decl) /\ Len(t) = Len(s) - 1
        /\ \A k \in 1..Len(t) : src(k) \in 1..Len(s) /\ src(k) # p /\ t[k] = s[src(k)]
    BY <2>3, <2>6 DEF Without
  <2>8. \A k, l \in 1..Len(t) : src(k) = src(l) => k = l
    BY <2>3
  <2>9. \A j \in 1..Len(s) : j # p => \E k \in 1..Len(t) : src(k) = j
    <3> SUFFICES ASSUME NEW j \in 1..Len(s), j # p PROVE \E k \in 1..Len(t) : src(k) = j
      OBVIOUS
    <3>1. CASE j < p
      BY <2>3, <2>7, <3>1
    <3>2. CASE j > p
      <4>1. j - 1 \in 1..Len(t) /\ src(j - 1) = j
        BY <2>3, <2>7, <3>2
      <4> QED BY <4>1
    <3> QED BY <2>3, <3>1, <3>2
  <2> HIDE DEF src
  <2>10. \A x : Contains(t, x) => Contains(s, x)
    BY <2>7 DEF Contains
  <2>11. \A x : x # e => (Contains(s, x) => Contains(t, x))
    BY <2>3, <2>7, <2>9 DEF Contains
  <2>12. \A x : AtMostOnce(s, x) => AtMostOnce(t, x)
    <3> SUFFICES ASSUME NEW x, AtMostOnce(s, x), NEW i \in 1..Len(t), NEW j \in 1..Len(t),
                        t[i] = x, t[j] = x
                 PROVE  i = j
      BY DEF AtMostOnce
    <3>1. src(i) = src(j)
      BY <2>7 DEF AtMostOnce
    <3> QED BY <2>8, <3>1
  <2>13. AtMostOnce(s, e) => ~Contains(t, e)
    BY <2>3, <2>7 DEF AtMostOnce, Contains
  <2> QED BY <2>5, <2>7, <2>10, <2>11, <2>12, <2>13
<1> QED BY <1>1, <1>2

\* b is a without the declarations D, each of which a may list several times.
Loses(a, b, D) ==
  /\ b \in ImportLists /\ Filed(b)
  /\ \A d \in Decl : /\ Has(b, d) => Has(a, d)
                     /\ Has(a, d) /\ d \notin D => Has(b, d)
                     /\ Single(a, d) => Single(b, d)
                     /\ Single(a, d) /\ d \in D => ~Has(b, d)

\* Unlink, one declaration.
LEMMA LoseOne ==
  ASSUME NEW a \in ImportLists, Filed(a), NEW e \in Decl
  PROVE  Loses(a, Unlink(a, e), {e})
<1>1. PICK b : b = Unlink(a, e)
  OBVIOUS
<1>2. \A n \in Name : a[n] \in Seq(Exported) /\ a[n] \in Seq(Decl)
  BY ExportedDecls, SeqDef DEF ImportLists
<1>3. PICK m \in Name : m = idInfo[e]
  BY DeclAssumption
<1>4. /\ b[m] = RemoveFirst(a[m], e) /\ \A n \in Name : n # m => b[n] = a[n]
      /\ DOMAIN b = Name /\ b = [n \in Name |-> b[n]]
  BY <1>1, <1>3 DEF Unlink, ImportLists
<1>5. /\ \A x : Contains(b[m], x) => Contains(a[m], x)
      /\ \A x : x # e => (Contains(a[m], x) => Contains(b[m], x))
      /\ \A x : AtMostOnce(a[m], x) => AtMostOnce(b[m], x)
      /\ AtMostOnce(a[m], e) => ~Contains(b[m], e)
  BY <1>2, <1>4, RemoveElements
<1>6. b \in ImportLists
  <2>1. b[m] \in Seq(Exported)
    BY <1>2, <1>4, RemoveStays
  <2>2. \A n \in Name : b[n] \in Seq(Exported)
    BY <1>2, <1>4, <2>1
  <2> QED BY <1>4, <2>2 DEF ImportLists
<1>7. Filed(b)
  BY <1>4, <1>5 DEF Filed
<1>8. ASSUME NEW d \in Decl
      PROVE  /\ Has(b, d) => Has(a, d)
             /\ Has(a, d) /\ d \notin {e} => Has(b, d)
             /\ Single(a, d) => Single(b, d)
             /\ Single(a, d) /\ d \in {e} => ~Has(b, d)
  <2>1. idInfo[d] \in Name
    BY DeclAssumption
  <2>2. CASE idInfo[d] = m
    BY <1>5, <2>2 DEF Has, Single
  <2>3. CASE idInfo[d] # m
    BY <1>3, <1>4, <2>1, <2>3 DEF Has, Single
  <2> QED BY <2>2, <2>3
<1> QED BY <1>1, <1>6, <1>7, <1>8 DEF Loses

\* One loss after another.
LEMMA LoseBoth ==
  ASSUME NEW a, NEW b, NEW c, NEW D, NEW E, Loses(a, b, D), Loses(b, c, E)
  PROVE  Loses(a, c, D \cup E)
BY DEF Loses

\* Nothing lost.
LEMMA LoseNone ==
  ASSUME NEW a \in ImportLists, Filed(a)
  PROVE  Loses(a, a, {})
BY DEF Loses

\* The loss of a run, given that of each of its steps.
LEMMA LoseRun ==
  ASSUME NEW tag, NEW base \in ImportLists, Filed(base), NEW s, NEW n \in Nat, NEW r,
         IsRun(tag, base, s, n, r), NEW D, NEW U, \A x : x \in U <=> \E k \in 1..n : x \in D[k],
         \A k \in 1..n : \A x \in ImportLists : Filed(x) => Loses(x, Step(tag, x, s[k]), D[k])
  PROVE  Loses(base, r[n], U)
<1> DEFINE Lost(k) == UNION {D[j] : j \in 1..k}
           T == {k \in Nat : k =< n => Loses(base, r[k], Lost(k))}
<1>1. 0 \in T
  <2>1. Lost(0) = {}
    OBVIOUS
  <2>2. Loses(base, r[0], {})
    BY LoseNone DEF IsRun
  <2> HIDE DEF Lost
  <2> QED BY <2>1, <2>2
<1>2. ASSUME NEW k \in Nat, k \in T PROVE k + 1 \in T
  <2> SUFFICES ASSUME k + 1 =< n PROVE Loses(base, r[k + 1], Lost(k + 1))
    OBVIOUS
  <2>1. k + 1 \in 1..n /\ (k + 1) - 1 = k /\ 1..(k + 1) = (1..k) \cup {k + 1}
    OBVIOUS
  <2>2. Loses(base, r[k], Lost(k))
    BY <1>2, <2>1
  <2>3. r[k + 1] = Step(tag, r[k], s[k + 1])
    BY <2>1 DEF IsRun
  <2>4. r[k] \in ImportLists /\ Filed(r[k])
    BY <2>2 DEF Loses
  <2>5. Loses(r[k], r[k + 1], D[k + 1])
    BY <2>1, <2>3, <2>4
  <2>6. Lost(k + 1) = Lost(k) \cup D[k + 1]
    BY <2>1
  <2> HIDE DEF Lost
  <2> QED BY <2>2, <2>5, <2>6, LoseBoth
<1>3. n \in T
  <2> HIDE DEF T
  <2> QED BY <1>1, <1>2, SetInduction
<1>4. U = Lost(n)
  OBVIOUS
<1> QED BY <1>3, <1>4

\* Entry::clearDeclarativeRegion loses what a package's visit reaches.
LEMMA LoseRegion ==
  ASSUME NEW a \in ImportLists, Filed(a), NEW p \in Package
  PROVE  Loses(a, clearDeclarativeRegion(a, p), ClearedBy(p))
<1>1. PICK v : v = Visit(p, ClearedKinds)
  OBVIOUS
<1>2. v \in Seq(Decl) /\ DOMAIN v = 1..Len(v) /\ Len(v) \in Nat
  <2>1. ClearedKinds \in SUBSET Types
    BY DEF Types, ClearedKinds
  <2>2. v \in Seq(Decl)
    BY <1>1, <2>1, VisitIn
  <2> QED BY <2>2
<1>3. PICK r : IsRun("unlink", a, v, Len(v), r) /\ FoldLeft(Unlink, a, v) = r[Len(v)]
  BY <1>2, FoldUnlink
<1> DEFINE D == [k \in 1..Len(v) |-> {v[k]}]
<1>4. ASSUME NEW k \in 1..Len(v), NEW x \in ImportLists, Filed(x)
      PROVE  Loses(x, Step("unlink", x, v[k]), D[k])
  <2>1. v[k] \in Decl /\ D[k] = {v[k]}
    BY <1>2
  <2>2. Loses(x, Unlink(x, v[k]), {v[k]})
    BY <1>4, <2>1, LoseOne
  <2> QED BY <2>1, <2>2 DEF Step
<1>5. \A x : x \in ClearedBy(p) <=> \E k \in 1..Len(v) : x \in D[k]
  BY <1>1, <1>2 DEF ClearedBy, Range
<1> HIDE DEF D
<1>6. Loses(a, r[Len(v)], ClearedBy(p))
  <2>1. \A k \in 1..Len(v) : \A x \in ImportLists :
          Filed(x) => Loses(x, Step("unlink", x, v[k]), D[k])
    BY <1>4
  <2>2. Len(v) \in Nat /\ IsRun("unlink", a, v, Len(v), r)
    BY <1>2, <1>3
  <2> QED BY <1>5, <2>1, <2>2, LoseRun
<1> QED BY <1>1, <1>3, <1>6 DEF clearDeclarativeRegion

\* What goes with the imports of a list of packages, and of a stack of entries.
ClearedByAll(packages) == UNION {ClearedBy(p) : p \in Range(packages)}

\* Entry::clear loses what its packages' visits reach.
LEMMA LoseEntry ==
  ASSUME NEW a \in ImportLists, Filed(a), NEW e, e.importDecls \in Seq(Package)
  PROVE  Loses(a, UnlinkImports(a, e), ClearedByAll(e.importDecls))
<1>1. PICK v : v = e.importDecls
  OBVIOUS
<1>2. v \in Seq(Package) /\ DOMAIN v = 1..Len(v) /\ Len(v) \in Nat
  BY <1>1
<1>3. PICK r : /\ IsRun("region", a, v, Len(v), r)
               /\ FoldLeft(clearDeclarativeRegion, a, v) = r[Len(v)]
  BY <1>2, FoldRegions
<1> DEFINE D == [k \in 1..Len(v) |-> ClearedBy(v[k])]
<1>4. ASSUME NEW k \in 1..Len(v), NEW x \in ImportLists, Filed(x)
      PROVE  Loses(x, Step("region", x, v[k]), D[k])
  <2>1. v[k] \in Package /\ D[k] = ClearedBy(v[k])
    BY <1>2
  <2>2. Loses(x, clearDeclarativeRegion(x, v[k]), ClearedBy(v[k]))
    BY <1>4, <2>1, LoseRegion
  <2> QED BY <2>1, <2>2 DEF Step
<1>5. \A x : x \in ClearedByAll(v) <=> \E k \in 1..Len(v) : x \in D[k]
  BY <1>2 DEF ClearedByAll, Range
<1> HIDE DEF D
<1>6. Loses(a, r[Len(v)], ClearedByAll(v))
  <2>1. \A k \in 1..Len(v) : \A x \in ImportLists :
          Filed(x) => Loses(x, Step("region", x, v[k]), D[k])
    BY <1>4
  <2>2. Len(v) \in Nat /\ IsRun("region", a, v, Len(v), r)
    BY <1>2, <1>3
  <2> QED BY <1>5, <2>1, <2>2, LoseRun
<1> QED BY <1>1, <1>3, <1>6 DEF UnlinkImports

\* The destructor loses what all entries' packages reach.
LEMMA LoseAll ==
  ASSUME NEW a \in ImportLists, Filed(a), NEW E \in Seq(Entry)
  PROVE  Loses(a, FoldLeft(UnlinkImports, a, E),
               UNION {ClearedByAll(E[i].importDecls) : i \in DOMAIN E})
<1>1. DOMAIN E = 1..Len(E) /\ Len(E) \in Nat
  OBVIOUS
<1>2. PICK r : /\ IsRun("imports", a, E, Len(E), r)
               /\ FoldLeft(UnlinkImports, a, E) = r[Len(E)]
  BY <1>1, FoldImports
<1> DEFINE D == [k \in 1..Len(E) |-> ClearedByAll(E[k].importDecls)]
<1>3. ASSUME NEW k \in 1..Len(E), NEW x \in ImportLists, Filed(x)
      PROVE  Loses(x, Step("imports", x, E[k]), D[k])
  <2>1. E[k] \in Entry /\ D[k] = ClearedByAll(E[k].importDecls)
    BY <1>1
  <2>2. E[k].importDecls \in Seq(Package)
    BY <2>1 DEF Entry
  <2>3. Loses(x, UnlinkImports(x, E[k]), ClearedByAll(E[k].importDecls))
    BY <1>3, <2>2, LoseEntry
  <2> QED BY <2>1, <2>3 DEF Step
<1> DEFINE U == UNION {ClearedByAll(E[i].importDecls) : i \in DOMAIN E}
<1>4. \A x : x \in U <=> \E k \in 1..Len(E) : x \in D[k]
  BY <1>1
<1> HIDE DEF D, U
<1>5. Loses(a, r[Len(E)], U)
  <2>1. \A k \in 1..Len(E) : \A x \in ImportLists :
          Filed(x) => Loses(x, Step("imports", x, E[k]), D[k])
    BY <1>3
  <2>2. Len(E) \in Nat /\ IsRun("imports", a, E, Len(E), r)
    BY <1>1, <1>2
  <2> QED BY <1>4, <2>1, <2>2, LoseRun
<1> QED BY <1>2, <1>5 DEF U

\* Link, one declaration.
LEMMA LinkOne ==
  ASSUME NEW a \in ImportLists, Filed(a), NEW e \in Exported, NEW b, b = Link(a, e)
  PROVE  /\ b \in ImportLists /\ Filed(b)
         /\ \A d \in Decl : Has(b, d) <=> Has(a, d) \/ d = e
         /\ \A d \in Decl : Single(a, d) /\ (d = e => ~Has(a, d)) => Single(b, d)
<1>1. e \in Decl /\ \A n \in Name : a[n] \in Seq(Exported)
  BY ExportedDecls DEF ImportLists
<1>2. PICK m \in Name : m = idInfo[e]
  BY <1>1, DeclAssumption
<1>3. /\ b[m] = <<e>> \o a[m] /\ \A n \in Name : n # m => b[n] = a[n]
      /\ DOMAIN b = Name /\ b = [n \in Name |-> b[n]]
  BY <1>2 DEF Link, ImportLists
<1>4. PICK s : s = a[m]
  OBVIOUS
<1>5. PICK t : t = b[m]
  OBVIOUS
<1>6. /\ s \in Seq(Exported) /\ t \in Seq(Exported) /\ Len(t) = Len(s) + 1 /\ Len(s) \in Nat
      /\ t[1] = e /\ \A i \in 2..Len(t) : i - 1 \in 1..Len(s) /\ t[i] = s[i - 1]
      /\ \A i \in 1..Len(s) : i + 1 \in 2..Len(t) /\ t[i + 1] = s[i]
  <2>1. t = <<e>> \o s
    BY <1>3, <1>4, <1>5
  <2>2. s \in Seq(Exported) /\ <<e>> \in Seq(Exported) /\ Len(<<e>>) = 1
    BY <1>1, <1>4
  <2> QED BY <2>1, <2>2
<1>7. \A x : Contains(t, x) <=> Contains(s, x) \/ x = e
  <2>1. \A i \in 1..Len(t) : i = 1 \/ i \in 2..Len(t)
    BY <1>6
  <2>2. \A i \in 2..Len(t) : i \in 1..Len(t)
    OBVIOUS
  <2>3. 1 \in 1..Len(t)
    BY <1>6
  <2>4. ASSUME NEW x, Contains(t, x) PROVE Contains(s, x) \/ x = e
    <3>1. PICK i \in 1..Len(t) : t[i] = x
      BY <2>4 DEF Contains
    <3>2. i # 1 => i - 1 \in 1..Len(s) /\ s[i - 1] = x
      BY <1>6, <2>1, <3>1
    <3> QED BY <1>6, <3>1, <3>2 DEF Contains
  <2>5. ASSUME NEW x, Contains(s, x) PROVE Contains(t, x)
    <3>1. PICK i \in 1..Len(s) : s[i] = x
      BY <2>5 DEF Contains
    <3>2. i + 1 \in 1..Len(t) /\ t[i + 1] = x
      BY <1>6, <2>2, <3>1
    <3> QED BY <3>2 DEF Contains
  <2>6. Contains(t, e)
    BY <1>6, <2>3 DEF Contains
  <2> QED BY <2>4, <2>5, <2>6
<1>8. ASSUME NEW x, AtMostOnce(s, x), x = e => ~Contains(s, x) PROVE AtMostOnce(t, x)
  <2> SUFFICES ASSUME NEW i \in 1..Len(t), NEW j \in 1..Len(t), t[i] = x, t[j] = x PROVE i = j
    BY DEF AtMostOnce
  <2>1. \A k \in 2..Len(t) : t[k] = x => x # e
    BY <1>6, <1>8 DEF Contains
  <2>2. CASE i = 1 \/ j = 1
    BY <1>6, <2>1, <2>2
  <2>3. CASE i # 1 /\ j # 1
    <3>1. i \in 2..Len(t) /\ j \in 2..Len(t)
      BY <2>3
    <3>2. i - 1 = j - 1
      BY <1>6, <1>8, <3>1 DEF AtMostOnce
    <3> QED BY <3>2
  <2> QED BY <2>2, <2>3
<1>9. b \in ImportLists
  <2>1. \A n \in Name : b[n] \in Seq(Exported)
    BY <1>1, <1>3, <1>5, <1>6
  <2> QED BY <1>3, <2>1 DEF ImportLists
<1>10. Filed(b)
  BY <1>2, <1>3, <1>4, <1>5, <1>7 DEF Filed
<1>11. ASSUME NEW d \in Decl
       PROVE  /\ Has(b, d) <=> Has(a, d) \/ d = e
              /\ Single(a, d) /\ (d = e => ~Has(a, d)) => Single(b, d)
  <2>1. idInfo[d] \in Name
    BY DeclAssumption
  <2>2. CASE idInfo[d] = m
    BY <1>4, <1>5, <1>7, <1>8, <2>2 DEF Has, Single
  <2>3. CASE idInfo[d] # m
    BY <1>2, <1>3, <2>1, <2>3 DEF Has, Single
  <2> QED BY <2>2, <2>3
<1> QED BY <1>9, <1>10, <1>11

\* Entry::importDeclarativeRegion gains what a package's visit reaches.
LEMMA GainRegion ==
  ASSUME NEW a \in ImportLists, Filed(a), NEW p \in Package, NEW b, b = importDeclarativeRegion(a, p)
  PROVE  /\ b \in ImportLists /\ Filed(b)
         /\ \A d \in Decl : Has(b, d) <=> Has(a, d) \/ d \in ImportedBy(p)
         /\ \A d \in Decl : Single(a, d) /\ (d \in ImportedBy(p) => ~Has(a, d)) => Single(b, d)
<1>1. PICK v : v = Visit(p, ImportedKinds)
  OBVIOUS
<1>2. v \in Seq(Exported) /\ DOMAIN v = 1..Len(v) /\ Len(v) \in Nat /\ Distinct(v)
  <2>1. ImportedKinds \in SUBSET Types
    BY DEF Types, ImportedKinds
  <2> QED BY <1>1, <2>1, VisitExported, VisitFacts
<1>3. PICK r : IsRun("link", a, v, Len(v), r) /\ FoldLeft(Link, a, v) = r[Len(v)]
  BY <1>2, FoldLink
<1> DEFINE Among(k, d) == \E j \in 1..k : v[j] = d
           Gained(k) ==
             /\ r[k] \in ImportLists /\ Filed(r[k])
             /\ \A d \in Decl : Has(r[k], d) <=> Has(a, d) \/ Among(k, d)
             /\ \A d \in Decl : Single(a, d) /\ (Among(k, d) => ~Has(a, d)) => Single(r[k], d)
           T == {k \in Nat : k =< Len(v) => Gained(k)}
<1>4. 0 \in T
  <2>1. r[0] = a
    BY <1>3 DEF IsRun
  <2>2. \A d : ~Among(0, d)
    OBVIOUS
  <2> HIDE DEF Among
  <2> QED BY <2>1, <2>2
<1>5. ASSUME NEW k \in Nat, k \in T PROVE k + 1 \in T
  <2> SUFFICES ASSUME k + 1 =< Len(v) PROVE Gained(k + 1)
    OBVIOUS
  <2>1. k + 1 \in 1..Len(v) /\ (k + 1) - 1 = k /\ 1..(k + 1) = (1..k) \cup {k + 1}
        /\ \A j \in 1..k : j \in 1..Len(v) /\ j # k + 1
    BY <1>2
  <2>2. Gained(k)
    BY <1>2, <1>5, <2>1
  <2>3. PICK e : e = v[k + 1]
    OBVIOUS
  <2>4. e \in Exported
    BY <1>2, <2>1, <2>3
  <2>5. r[k + 1] = Link(r[k], e)
    BY <1>3, <2>1, <2>3 DEF IsRun, Step
  <2>6. /\ r[k + 1] \in ImportLists /\ Filed(r[k + 1])
        /\ \A d \in Decl : Has(r[k + 1], d) <=> Has(r[k], d) \/ d = e
        /\ \A d \in Decl : Single(r[k], d) /\ (d = e => ~Has(r[k], d)) => Single(r[k + 1], d)
    BY <2>2, <2>4, <2>5, LinkOne
  <2>7. \A d : Among(k + 1, d) <=> Among(k, d) \/ d = e
    BY <2>1, <2>3
  <2>8. ~Among(k, e)
    BY <1>2, <2>1, <2>3 DEF Distinct
  <2> HIDE DEF Among
  <2>9. ASSUME NEW d \in Decl PROVE Has(r[k + 1], d) <=> Has(a, d) \/ Among(k + 1, d)
    BY <2>2, <2>6, <2>7
  <2>10. ASSUME NEW d \in Decl, Single(a, d), Among(k + 1, d) => ~Has(a, d)
         PROVE  Single(r[k + 1], d)
    <3>1. Single(r[k], d)
      BY <2>2, <2>7, <2>10
    <3>2. d = e => ~Has(r[k], d)
      BY <2>2, <2>7, <2>8, <2>10
    <3> QED BY <2>6, <3>1, <3>2
  <2> QED BY <2>6, <2>9, <2>10
<1>6. Gained(Len(v))
  <2>1. Len(v) \in T
    <3> HIDE DEF T
    <3> QED BY <1>2, <1>4, <1>5, SetInduction
  <2> HIDE DEF Gained
  <2> QED BY <1>2, <2>1
<1>7. \A d : Among(Len(v), d) <=> d \in ImportedBy(p)
  BY <1>1, <1>2 DEF ImportedBy, Range
<1>8. b = r[Len(v)]
  BY <1>1, <1>3 DEF importDeclarativeRegion
<1> HIDE DEF Among
<1> QED BY <1>6, <1>7, <1>8
-----------------------------------------------------------------------------
(* Imports follow entries *)

\* The lists hold what the packages of U bring, and otherwise only operators of
\* private types, which clearing passes over and which may be there repeatedly.
Kept(lists, U) ==
  /\ Filed(lists)
  /\ \A d \in Decl : (\E p \in U : d \in ImportedBy(p)) => Has(lists, d)
  /\ \A d \in Decl : Has(lists, d) => PrivateOperator(d) \/ \E p \in U : d \in ImportedBy(p)
  /\ \A d \in Decl : PrivateOperator(d) \/ Single(lists, d)

\* A further package: nothing of it but private operators is there already.
LEMMA KeptImport ==
  ASSUME NEW lists \in ImportLists, NEW U \in SUBSET Package, Kept(lists, U),
         NEW p \in Package, p \notin U
  PROVE  Kept(importDeclarativeRegion(lists, p), U \cup {p})
<1>1. PICK b : b = importDeclarativeRegion(lists, p)
  OBVIOUS
<1>2. /\ b \in ImportLists /\ Filed(b)
      /\ \A d \in Decl : Has(b, d) <=> Has(lists, d) \/ d \in ImportedBy(p)
      /\ \A d \in Decl : Single(lists, d) /\ (d \in ImportedBy(p) => ~Has(lists, d)) => Single(b, d)
  BY <1>1, GainRegion DEF Kept
<1>3. ASSUME NEW d \in Decl, ~PrivateOperator(d) PROVE Single(b, d)
  <2>1. Single(lists, d)
    BY <1>3 DEF Kept
  <2>2. d \in ImportedBy(p) => ~Has(lists, d)
    BY <1>3, ImportedFacts DEF Kept
  <2> QED BY <1>2, <2>1, <2>2
<1> QED BY <1>1, <1>2, <1>3 DEF Kept

\* The packages of C leave: what the others bring is not touched.
LEMMA KeptClear ==
  ASSUME NEW U \in SUBSET Package, NEW V \in SUBSET Package, NEW C \in SUBSET Package,
         U = V \cup C, V \cap C = {}, NEW lists, Kept(lists, U), NEW b, NEW D,
         D = UNION {ClearedBy(p) : p \in C}, Loses(lists, b, D)
  PROVE  Kept(b, V)
<1>1. \A d : d \in D <=> \E p \in C : d \in ClearedBy(p)
  OBVIOUS
<1>2. Filed(b)
  BY DEF Loses
<1>3. ASSUME NEW d \in Decl, NEW p \in V, d \in ImportedBy(p) PROVE Has(b, d)
  <2>1. d \notin D
    <3> SUFFICES ASSUME NEW q \in C, d \in ClearedBy(q) PROVE FALSE
      BY <1>1
    <3>1. q \in Package /\ p \in Package /\ d \in ImportedBy(q)
      BY ImportedFacts
    <3>2. p = q
      BY <1>3, <3>1, ImportedFacts
    <3> QED BY <3>2
  <2>2. Has(lists, d)
    BY <1>3 DEF Kept
  <2> QED BY <2>1, <2>2 DEF Loses
<1>4. ASSUME NEW d \in Decl, Has(b, d), ~PrivateOperator(d)
      PROVE  \E p \in V : d \in ImportedBy(p)
  <2>1. Has(lists, d) /\ Single(lists, d)
    BY <1>4 DEF Kept, Loses
  <2>2. PICK p \in U : d \in ImportedBy(p)
    BY <1>4, <2>1 DEF Kept
  <2>3. d \notin D
    BY <1>4, <2>1 DEF Loses
  <2>4. p \notin C
    BY <1>1, <1>4, <2>2, <2>3, ImportedFacts
  <2> QED BY <2>2, <2>4
<1>5. ASSUME NEW d \in Decl, ~PrivateOperator(d) PROVE Single(b, d)
  BY <1>5 DEF Kept, Loses
<1> QED BY <1>2, <1>3, <1>4, <1>5 DEF Kept

\* The packages that the entries E import; no two entries import the same one.
Uses(E) == {p \in Package : \E i \in DOMAIN E : Contains(E[i].importDecls, p)}
Apart(E) == \A i, j \in DOMAIN E : \A p :
              Contains(E[i].importDecls, p) /\ Contains(E[j].importDecls, p) => i = j

ImportsKept == Kept(importDecls, Uses(entries)) /\ Apart(entries)

\* Contains and Range say the same of imports.
LEMMA UsesFacts ==
  ASSUME NEW E \in Seq(Entry)
  PROVE  /\ \A i \in DOMAIN E : \A p :
              /\ Contains(E[i].importDecls, p) <=> p \in Range(E[i].importDecls)
              /\ Contains(E[i].importDecls, p) => p \in Package
         /\ Uses(E) = UNION {Range(E[i].importDecls) : i \in DOMAIN E}
<1>1. ASSUME NEW i \in DOMAIN E, NEW p
      PROVE  /\ Contains(E[i].importDecls, p) <=> p \in Range(E[i].importDecls)
             /\ Contains(E[i].importDecls, p) => p \in Package
  <2>1. E[i] \in Entry
    OBVIOUS
  <2>2. PICK s : s = E[i].importDecls
    OBVIOUS
  <2>3. s \in Seq(Package)
    BY <2>1, <2>2 DEF Entry
  <2> QED BY <2>2, <2>3 DEF Contains, Range
<1> QED BY <1>1 DEF Uses

\* The imports of the stack with a new entry, and without its first.
LEMMA UsesPush ==
  ASSUME NEW E \in Seq(Entry), NEW e \in Entry, e.importDecls = <<>>, Apart(E),
         NEW F, F = <<e>> \o E
  PROVE  Uses(F) = Uses(E) /\ Apart(F)
<1>1. /\ Len(E) \in Nat /\ DOMAIN E = 1..Len(E) /\ DOMAIN F = 1..(Len(E) + 1) /\ F[1] = e
      /\ \A i \in 1..Len(E) : F[i + 1] = E[i] /\ i + 1 \in DOMAIN F
      /\ \A i \in DOMAIN F : i = 1 \/ (i - 1 \in 1..Len(E) /\ F[i] = E[i - 1])
  <2>1. Len(E) \in Nat /\ DOMAIN E = 1..Len(E)
    OBVIOUS
  <2>2. F \in Seq(Entry) /\ Len(F) = Len(E) + 1 /\ F[1] = e
    OBVIOUS
  <2>3. \A i \in 1..Len(E) : F[i + 1] = E[i]
    OBVIOUS
  <2>4. DOMAIN F = 1..(Len(E) + 1)
    BY <2>2
  <2>5. \A i \in DOMAIN F : i = 1 \/ (i - 1 \in 1..Len(E) /\ (i - 1) + 1 = i)
    BY <2>1, <2>4
  <2>6. \A i \in 1..Len(E) : i + 1 \in DOMAIN F
    BY <2>1, <2>4
  <2> HIDE DEF Apart
  <2>7. \A i \in DOMAIN F : i = 1 \/ F[i] = E[i - 1]
    BY <2>3, <2>5
  <2> QED BY <2>1, <2>2, <2>3, <2>4, <2>5, <2>6, <2>7
<1>2. \A p : ~Contains(F[1].importDecls, p)
  BY <1>1 DEF Contains
<1>3. Uses(F) = Uses(E)
  BY <1>1, <1>2 DEF Uses
<1>4. ASSUME NEW i \in DOMAIN F, NEW j \in DOMAIN F, NEW p,
             Contains(F[i].importDecls, p), Contains(F[j].importDecls, p)
      PROVE  i = j
  <2>1. i # 1 /\ j # 1
    BY <1>2, <1>4
  <2>2. /\ i - 1 \in DOMAIN E /\ Contains(E[i - 1].importDecls, p)
        /\ j - 1 \in DOMAIN E /\ Contains(E[j - 1].importDecls, p)
    BY <1>1, <1>4, <2>1
  <2>3. i - 1 = j - 1
    BY <2>2 DEF Apart
  <2> QED BY <1>1, <2>3
<1> QED BY <1>3, <1>4 DEF Apart

\* The imports of the stack without its first entry.
LEMMA UsesPop ==
  ASSUME NEW E \in Seq(Entry), E # <<>>, Apart(E), NEW F, F = Tail(E)
  PROVE  /\ Uses(E) = Uses(F) \cup Range(E[1].importDecls)
         /\ Uses(F) \cap Range(E[1].importDecls) = {} /\ Apart(F)
<1>1. /\ Len(E) \in Nat \ {0} /\ DOMAIN E = 1..Len(E) /\ DOMAIN F = 1..(Len(E) - 1)
      /\ \A i \in DOMAIN F : F[i] = E[i + 1] /\ i + 1 \in DOMAIN E /\ i + 1 # 1
      /\ \A i \in DOMAIN E : i = 1 \/ (i - 1 \in DOMAIN F /\ F[i - 1] = E[i])
      /\ 1 \in DOMAIN E
  <2>1. Len(E) \in Nat \ {0} /\ DOMAIN E = 1..Len(E)
    OBVIOUS
  <2>2. F \in Seq(Entry) /\ Len(F) = Len(E) - 1
    OBVIOUS
  <2>3. \A i \in 1..(Len(E) - 1) : F[i] = E[i + 1]
    OBVIOUS
  <2>4. DOMAIN F = 1..(Len(E) - 1)
    BY <2>1, <2>2
  <2>5. \A i \in DOMAIN F : i + 1 \in DOMAIN E /\ i + 1 # 1
    BY <2>1, <2>4
  <2>6. \A i \in DOMAIN E : i = 1 \/ (i - 1 \in DOMAIN F /\ (i - 1) + 1 = i)
    BY <2>1, <2>4
  <2>7. \A i \in DOMAIN E : i = 1 \/ F[i - 1] = E[i]
    BY <2>3, <2>4, <2>6
  <2>8. 1 \in DOMAIN E
    BY <2>1
  <2> QED BY <2>1, <2>3, <2>4, <2>5, <2>6, <2>7, <2>8
<1>2. /\ \A i \in DOMAIN E : \A p :
           /\ Contains(E[i].importDecls, p) <=> p \in Range(E[i].importDecls)
           /\ Contains(E[i].importDecls, p) => p \in Package
  BY UsesFacts
<1>3. ASSUME NEW p
      PROVE  p \in Uses(E) <=> p \in Uses(F) \/ p \in Range(E[1].importDecls)
  BY <1>1, <1>2 DEF Uses
<1>4. ASSUME NEW p \in Uses(F), p \in Range(E[1].importDecls) PROVE FALSE
  <2>1. PICK i \in DOMAIN F : Contains(F[i].importDecls, p)
    BY DEF Uses
  <2> QED BY <1>1, <1>2, <1>4, <2>1 DEF Apart
<1>5. ASSUME NEW i \in DOMAIN F, NEW j \in DOMAIN F, NEW p,
             Contains(F[i].importDecls, p), Contains(F[j].importDecls, p)
      PROVE  i = j
  <2>1. i + 1 = j + 1
    BY <1>1, <1>5 DEF Apart
  <2> QED BY <1>1, <2>1
<1> QED BY <1>3, <1>4, <1>5 DEF Apart

\* The imports of the stack after a use clause.
LEMMA UsesImport ==
  ASSUME NEW E \in Seq(Entry), E # <<>>, Apart(E), NEW p \in Package,
         \A i \in DOMAIN E : ~Contains(E[i].importDecls, p),
         NEW F, F = [E EXCEPT ![1].importDecls = Append(@, p)]
  PROVE  Uses(F) = Uses(E) \cup {p} /\ p \notin Uses(E) /\ Apart(F)
<1>1. Len(E) \in Nat \ {0} /\ DOMAIN E = 1..Len(E) /\ 1 \in DOMAIN E /\ E[1] \in Entry
  OBVIOUS
<1>2. PICK s : s = E[1].importDecls
  OBVIOUS
<1>3. s \in Seq(Package)
  BY <1>1, <1>2 DEF Entry
<1>4. \A q : Contains(Append(s, p), q) <=> Contains(s, q) \/ q = p
  <2>1. PICK t : t = Append(s, p)
    OBVIOUS
  <2>2. /\ Len(t) = Len(s) + 1 /\ Len(s) \in Nat /\ t[Len(s) + 1] = p
        /\ \A i \in 1..Len(s) : t[i] = s[i]
    BY <1>3, <2>1
  <2>3. /\ \A i \in 1..Len(s) : i \in 1..(Len(s) + 1)
        /\ \A i \in 1..(Len(s) + 1) : i \in 1..Len(s) \/ i = Len(s) + 1
        /\ Len(s) + 1 \in 1..(Len(s) + 1)
    BY <2>2
  <2> QED BY <2>1, <2>2, <2>3 DEF Contains
<1>5. /\ DOMAIN F = DOMAIN E /\ F[1].importDecls = Append(s, p)
      /\ \A i \in DOMAIN E : i # 1 => F[i] = E[i]
  BY <1>1, <1>2 DEF Entry
<1>6. ASSUME NEW q, NEW i \in DOMAIN E
      PROVE  Contains(F[i].importDecls, q) <=> Contains(E[i].importDecls, q) \/ (i = 1 /\ q = p)
  <2>1. CASE i = 1
    BY <1>2, <1>4, <1>5, <2>1
  <2>2. CASE i # 1
    BY <1>5, <2>2
  <2> QED BY <2>1, <2>2
<1>7. Uses(F) = Uses(E) \cup {p} /\ p \notin Uses(E)
  BY <1>1, <1>5, <1>6 DEF Uses
<1>8. Apart(F)
  <2> SUFFICES ASSUME NEW i \in DOMAIN E, NEW j \in DOMAIN E, NEW q,
                      Contains(F[i].importDecls, q), Contains(F[j].importDecls, q)
               PROVE  i = j
    BY <1>5 DEF Apart
  <2>1. /\ Contains(E[i].importDecls, q) \/ (i = 1 /\ q = p)
        /\ Contains(E[j].importDecls, q) \/ (j = 1 /\ q = p)
    BY <1>6
  <2>2. q = p => i = 1 /\ j = 1
    BY <2>1
  <2>3. q # p => i = j
    BY <2>1 DEF Apart
  <2> QED BY <2>2, <2>3
<1> QED BY <1>7, <1>8

\* Imports stay apart and kept in every behaviour.
THEOREM ImportsAreKept == Spec => []ImportsKept
<1>1. Init => ImportsKept
  <2> SUFFICES ASSUME Init PROVE ImportsKept
    OBVIOUS
  <2>1. DOMAIN entries = {} /\ Uses(entries) = {} /\ Apart(entries)
    BY DEF Init, Uses, Apart
  <2>2. \A n \in Name : importDecls[n] = <<>>
    BY DEF Init
  <2>3. \A x : ~Contains(<<>>, x)
    BY DEF Contains
  <2>4. \A x : AtMostOnce(<<>>, x)
    BY DEF AtMostOnce
  <2>5. Filed(importDecls)
    BY <2>2, <2>3 DEF Filed
  <2>6. ASSUME NEW d \in Decl PROVE ~Has(importDecls, d) /\ Single(importDecls, d)
    <3>1. importDecls[idInfo[d]] = <<>>
      BY <2>2, DeclAssumption
    <3> QED BY <2>3, <2>4, <3>1 DEF Has, Single
  <2> QED BY <2>1, <2>5, <2>6 DEF ImportsKept, Kept
<1>2. Inv /\ Inv' /\ ImportsKept /\ [Next]_vars => ImportsKept'
  <2> SUFFICES ASSUME Inv, Inv', ImportsKept, [Next]_vars PROVE ImportsKept'
    OBVIOUS
  <2>0. /\ entries \in Seq(Entry) /\ importDecls \in ImportLists /\ entryCache \in Seq({Blank})
        /\ Filed(importDecls) /\ Apart(entries) /\ Kept(importDecls, Uses(entries))
        /\ Uses(entries) \in SUBSET Package
    BY OpenIsEntry DEF Inv, ImportsKept, Kept, Uses
  <2>1. ASSUME NEW kind \in ScopeKinds, NEW cache \in Seq({Blank}),
               entries' = Pushed(kind, entries, cache), importDecls' = importDecls
        PROVE  ImportsKept'
    <3>1. PICK e : e = [kind |-> kind, directDecls |-> {}, importDecls |-> <<>>]
      OBVIOUS
    <3>2. e \in Entry /\ e.importDecls = <<>>
      BY <3>1, NewEntry
    <3>3. entries' = <<e>> \o entries
      BY <2>1, <3>1, PushedFacts
    <3>4. Uses(entries') = Uses(entries) /\ Apart(entries')
      BY <2>0, <3>2, <3>3, UsesPush
    <3> QED BY <2>0, <2>1, <3>4 DEF ImportsKept
  <2>2. CASE Create
    <3>1. "CUNIT_SCOPE" \in ScopeKinds /\ <<>> \in Seq({Blank})
      BY DEF ScopeKinds
    <3>2. entries' = Pushed("CUNIT_SCOPE", entries, <<>>) /\ importDecls' = importDecls
      BY <2>2 DEF Create
    <3> QED BY <2>1, <3>1, <3>2
  <2>3. CASE Destroy
    <3>1. importDecls' = FoldLeft(UnlinkImports, importDecls, entries) /\ entries' = <<>>
      BY <2>3 DEF Destroy
    <3>2. PICK D : D = UNION {ClearedByAll(entries[i].importDecls) : i \in DOMAIN entries}
      OBVIOUS
    <3>3. Loses(importDecls, importDecls', D)
      BY <2>0, <3>1, <3>2, LoseAll
    <3>4. DOMAIN <<>> = {} /\ Uses(<<>>) = {} /\ Apart(<<>>)
      BY DEF Uses, Apart
    <3>5. D = UNION {ClearedBy(p) : p \in Uses(entries)}
      BY <2>0, <3>2, UsesFacts DEF ClearedByAll
    <3>6. Kept(importDecls', {})
      BY <2>0, <3>3, <3>5, KeptClear
    <3> QED BY <3>1, <3>4, <3>6 DEF ImportsKept
  <2>4. CASE pop
    <3>1. /\ entries # <<>> /\ entries' = Tail(entries)
          /\ importDecls' = UnlinkImports(importDecls, entries[1])
      BY <2>0, <2>4 DEF pop
    <3>2. PICK v : v = entries[1].importDecls
      OBVIOUS
    <3>3. v \in Seq(Package)
      <4>1. entries[1] \in Entry
        BY <2>0, <3>1
      <4> QED BY <3>2, <4>1 DEF Entry
    <3>4. /\ Uses(entries) = Uses(entries') \cup Range(v)
          /\ Uses(entries') \cap Range(v) = {} /\ Apart(entries')
      BY <2>0, <3>1, <3>2, UsesPop
    <3>5. Loses(importDecls, importDecls', ClearedByAll(v))
      BY <2>0, <3>1, <3>2, <3>3, LoseEntry
    <3>6. Range(v) \in SUBSET Package /\ Uses(entries') \in SUBSET Package
      BY <3>3 DEF Range, Uses
    <3>7. Kept(importDecls', Uses(entries'))
      BY <2>0, <3>4, <3>5, <3>6, KeptClear DEF ClearedByAll
    <3> QED BY <3>4, <3>7 DEF ImportsKept
  <2>5. ASSUME NEW k \in PushKinds, push(k) PROVE ImportsKept'
    <3>1. k \in ScopeKinds
      BY BoundAssumption
    <3>2. entries' = Pushed(k, entries, entryCache) /\ importDecls' = importDecls
      BY <2>5 DEF push
    <3> QED BY <2>0, <2>1, <3>1, <3>2
  <2>6. ASSUME NEW p \in Package, addImport(p) PROVE ImportsKept'
    <3>1. /\ entries # <<>> /\ entries' = [entries EXCEPT ![1].importDecls = Append(@, p)]
          /\ importDecls' = importDeclarativeRegion(importDecls, p)
          /\ \A i \in DOMAIN entries : ~Contains(entries[i].importDecls, p)
      BY <2>6 DEF addImport, AlreadyImported
    <3>2. Uses(entries') = Uses(entries) \cup {p} /\ p \notin Uses(entries) /\ Apart(entries')
      BY <2>0, <3>1, UsesImport
    <3>3. Kept(importDecls', Uses(entries'))
      BY <2>0, <3>1, <3>2, KeptImport
    <3> QED BY <3>2, <3>3 DEF ImportsKept
  <2>7. ASSUME NEW d \in Decl \ Exported, addDirectDecl(d) PROVE ImportsKept'
    <3>1. importDecls' = importDecls /\ entries' = [entries EXCEPT ![1].directDecls = @ \cup {d}]
      BY <2>7 DEF addDirectDecl
    <3>2. DOMAIN entries' = DOMAIN entries
          /\ \A i \in DOMAIN entries : entries'[i].importDecls = entries[i].importDecls
      BY <2>0, <3>1 DEF Entry
    <3>3. Uses(entries') = Uses(entries) /\ Apart(entries')
      BY <2>0, <3>2 DEF Uses, Apart
    <3> QED BY <2>0, <3>1, <3>3 DEF ImportsKept
  <2>8. CASE UNCHANGED vars
    BY <2>8 DEF vars, ImportsKept
  <2> QED BY <2>2, <2>3, <2>4, <2>5, <2>6, <2>7, <2>8 DEF Next
<1> QED BY <1>1, <1>2, Invariance, PTL DEF Spec

\* What a use clause makes visible can be looked up as long as some entry has the
\* use clause: clearing another entry never unlinks it (Entry::clearDeclarativeRegion).
\* When the last such entry is popped it is gone, except operators of private types.
THEOREM ImportsFollow == Spec => []ImportsFollowEntries
<1>1. Inv /\ ImportsKept => ImportsFollowEntries
  <2> SUFFICES ASSUME Inv, ImportsKept PROVE ImportsFollowEntries
    OBVIOUS
  <2>1. entries \in Seq(Entry) /\ importDecls \in ImportLists
    BY OpenIsEntry DEF Inv
  <2>2. Uses(entries) = UNION {Range(entries[i].importDecls) : i \in DOMAIN entries}
    BY <2>1, UsesFacts
  <2>3. \A d : d \in ImportedNow <=> \E p \in Uses(entries) : d \in ImportedBy(p)
    BY <2>2 DEF ImportedNow, ImportedBy
  <2>4. ASSUME NEW d \in ImportedNow PROVE Contains(importDecls[idInfo[d]], d)
    <3>1. PICK p \in Uses(entries) : d \in ImportedBy(p)
      BY <2>3
    <3>2. d \in Decl
      BY <3>1, ImportedFacts DEF Uses
    <3> QED BY <3>1, <3>2 DEF ImportsKept, Kept, Has
  <2>5. ASSUME NEW n \in Name, NEW d \in Range(importDecls[n]), d \notin ImportedNow
        PROVE  PrivateOperator(d)
    <3>1. importDecls[n] \in Seq(Decl)
      BY <2>1, ExportedDecls, SeqDef DEF ImportLists
    <3>2. d \in Decl /\ Contains(importDecls[n], d)
      BY <3>1 DEF Range, Contains
    <3>3. idInfo[d] = n
      BY <3>2 DEF ImportsKept, Kept, Filed
    <3> QED BY <2>3, <2>5, <3>2, <3>3 DEF ImportsKept, Kept, Has
  <2> QED BY <2>4, <2>5 DEF ImportsFollowEntries, PrivateOperator
<1> QED BY <1>1, Invariance, ImportsAreKept, PTL
=============================================================================
