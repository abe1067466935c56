------------------------- MODULE DeclarationsProofs -------------------------
(***************************************************************************)
(* Proofs about the declaration callbacks of the type checker, for any      *)
(* names, packages and sequence of declarations: frames and declarative     *)
(* regions are entered and left together, forward declarations and          *)
(* definitions pair up, and what a package promises its accepted body has.  *)
(***************************************************************************)
EXTENDS Declarations, OrderLemmas

\* Declarations that can have a definition, and regions that list declarations.
DeclKinds == {"Function", "Procedure"}
PartKinds == {"Package", "PrivatePart", "Body", "Block"}

Formal == [name: Name, type: Nat, mode: Mode]
NodeKind == TypeKinds \cup RoutineKinds \cup PartKinds
              \cup {"none", "Param", "Component", "Object"}
NodeName == Name \cup PackageName \cup {"", "integer"}
NodeType ==
  [kind: NodeKind, name: NodeName, region: Nat, decls: Seq(Nat),
   completion: Nat, forward: Nat, private: Nat, body: Nat, type: Nat,
   subtype: BOOLEAN, limited: BOOLEAN, indefinite: BOOLEAN,
   sig: [params: Seq(Formal), ret: Nat], import: BOOLEAN]
Heap == Seq(NodeType)
FrameKind == {"CUNIT_SCOPE", "PACKAGE_SCOPE", "SUBROUTINE_SCOPE", "RECORD_SCOPE"}
Frame == [kind: FrameKind, decls: SUBSET Nat]
-----------------------------------------------------------------------------
(* The heap of nodes *)

\* A node comes behind its region, and a region lists nodes that belong to it.
\* Nodes up to n may be listed, or complete a type, before they are there.
Well(h, n) ==
  /\ h \in Heap /\ n \in Nat /\ Len(h) =< n
  /\ \A i \in 1..Len(h) : h[i].region < i /\ h[i].completion =< n
  /\ \A i \in 1..Len(h) : \A k \in 1..Len(h[i].decls) :
       /\ h[i].decls[k] \in 1..n
       /\ h[i].decls[k] =< Len(h) => h[h[i].decls[k]].region = i

\* What declaring something does to the nodes that are there: region r may list
\* more of them, and something may be completed.  New nodes are neither packages,
\* package bodies nor formals, and a subroutine among them belongs to r.
Stays(h, g, r) ==
  /\ Len(h) =< Len(g)
  /\ \A i \in 1..Len(h) :
       /\ g[i].kind = h[i].kind /\ g[i].region = h[i].region /\ g[i].sig = h[i].sig
       /\ g[i].private = h[i].private /\ g[i].body = h[i].body
       /\ h[i].completion # 0 => g[i].completion # 0
       /\ i # r => g[i].decls = h[i].decls
       /\ Range(h[i].decls) \subseteq Range(g[i].decls)
  /\ \A i \in (Len(h) + 1)..Len(g) : /\ g[i].kind \notin {"Param", "Package", "Body"}
                                     /\ g[i].kind \in DeclKinds => g[i].region = r

\* And, unless it defines a subroutine, it leaves their definitions alone.
Keeps(h, g, r) ==
  /\ Stays(h, g, r)
  /\ \A i \in 1..Len(h) : h[i].kind \in RoutineKinds =>
       g[i].completion = h[i].completion /\ g[i].forward = h[i].forward
  /\ \A i \in (Len(h) + 1)..Len(g) : g[i].completion = 0 /\ g[i].forward = 0

\* Changes follow one another.
LEMMA KeepsTransitive ==
  ASSUME NEW h \in Heap, NEW g \in Heap, NEW f \in Heap, NEW r, Keeps(h, g, r), Keeps(g, f, r),
         \A i \in (Len(h) + 1)..Len(g) : f[i].completion = g[i].completion /\ f[i].forward = g[i].forward
  PROVE  Keeps(h, f, r)
<1>1. Len(h) \in Nat /\ Len(g) \in Nat /\ Len(f) \in Nat /\ Len(h) =< Len(g) /\ Len(g) =< Len(f)
  BY DEF Heap, Keeps, Stays
<1>2. \A i \in 1..Len(h) : i \in 1..Len(g)
  BY <1>1
<1>3. \A i \in (Len(h) + 1)..Len(f) : i \in (Len(h) + 1)..Len(g) \/ i \in (Len(g) + 1)..Len(f)
  BY <1>1
<1>4. \A i \in (Len(h) + 1)..Len(g) : i \in 1..Len(g)
  BY <1>1
<1>5. ASSUME NEW i \in 1..Len(h)
      PROVE  /\ f[i].kind = h[i].kind /\ f[i].region = h[i].region /\ f[i].sig = h[i].sig
             /\ f[i].private = h[i].private /\ f[i].body = h[i].body
             /\ h[i].completion # 0 => f[i].completion # 0
             /\ h[i].kind \in RoutineKinds =>
                  f[i].completion = h[i].completion /\ f[i].forward = h[i].forward
             /\ i # r => f[i].decls = h[i].decls
             /\ Range(h[i].decls) \subseteq Range(f[i].decls)
  <2>1. /\ g[i].kind = h[i].kind /\ g[i].region = h[i].region /\ g[i].sig = h[i].sig
        /\ g[i].private = h[i].private /\ g[i].body = h[i].body
        /\ h[i].completion # 0 => g[i].completion # 0
        /\ h[i].kind \in RoutineKinds =>
             g[i].completion = h[i].completion /\ g[i].forward = h[i].forward
        /\ i # r => g[i].decls = h[i].decls
        /\ Range(h[i].decls) \subseteq Range(g[i].decls)
    BY DEF Keeps, Stays
  <2>2. /\ f[i].kind = g[i].kind /\ f[i].region = g[i].region /\ f[i].sig = g[i].sig
        /\ f[i].private = g[i].private /\ f[i].body = g[i].body
        /\ g[i].completion # 0 => f[i].completion # 0
        /\ g[i].kind \in RoutineKinds =>
             f[i].completion = g[i].completion /\ f[i].forward = g[i].forward
        /\ i # r => f[i].decls = g[i].decls
        /\ Range(g[i].decls) \subseteq Range(f[i].decls)
    BY <1>2 DEF Keeps, Stays
  <2> QED BY <2>1, <2>2
<1>6. ASSUME NEW i \in (Len(h) + 1)..Len(f)
      PROVE  /\ f[i].kind \notin {"Param", "Package", "Body"}
             /\ f[i].kind \in DeclKinds => f[i].region = r
             /\ f[i].completion = 0 /\ f[i].forward = 0
  BY <1>3, <1>4 DEF Keeps, Stays
<1>7. Stays(h, f, r)
  <2>1. Len(h) =< Len(f)
    BY <1>1
  <2> QED BY <1>5, <1>6, <2>1 DEF Stays
<1> QED BY <1>5, <1>6, <1>7 DEF Keeps

\* A fresh node.
Fresh(x, r) ==
  /\ x \in NodeType /\ x.region = r
  /\ x.kind \notin {"Param", "Package", "Body"} /\ x.completion = 0 /\ x.forward = 0

\* A node is made, in a region that is there.
LEMMA MakeNode ==
  ASSUME NEW h, NEW n, Well(h, n), Len(h) < n, NEW x, NEW q \in 0..Len(h), Fresh(x, q), NEW r,
         x.kind \in DeclKinds => q = r,
         \A i \in 1..Len(h) : \A k \in 1..Len(h[i].decls) :
            h[i].decls[k] = Len(h) + 1 => q = i,
         \A k \in 1..Len(x.decls) : x.decls[k] \in (Len(h) + 2)..n
  PROVE  /\ Well(Append(h, x), n) /\ Keeps(h, Append(h, x), r)
         /\ Len(Append(h, x)) = Len(h) + 1
         /\ Append(h, x)[Len(h) + 1] = x
         /\ \A i \in 1..Len(h) : Append(h, x)[i] = h[i]
<1> DEFINE g == Append(h, x)
<1>1. h \in Heap /\ Len(h) \in Nat /\ n \in Nat /\ x \in NodeType
  BY DEF Well, Heap, Fresh
<1>2. /\ g \in Heap /\ Len(g) = Len(h) + 1 /\ g[Len(h) + 1] = x
      /\ \A i \in 1..Len(h) : g[i] = h[i]
  BY <1>1, AppendProperties DEF Heap
<1> HIDE DEF g
<1>3. \A i \in 1..Len(g) : i \in 1..Len(h) \/ i = Len(h) + 1
  BY <1>1, <1>2
<1>4. Well(g, n)
  <2>1. \A i \in 1..Len(g) : g[i].region < i /\ g[i].completion =< n
    <3>1. x.region < Len(h) + 1 /\ x.completion =< n
      BY <1>1 DEF Fresh
    <3> QED BY <1>2, <1>3, <3>1 DEF Well
  <2>2. ASSUME NEW i \in 1..Len(g), NEW k \in 1..Len(g[i].decls)
        PROVE  g[i].decls[k] \in 1..n /\ (g[i].decls[k] =< Len(g) => g[g[i].decls[k]].region = i)
    <3>1. CASE i = Len(h) + 1
      <4>1. g[i].decls[k] \in (Len(h) + 2)..n
        BY <1>2, <3>1
      <4> QED BY <1>1, <1>2, <4>1
    <3>2. CASE i \in 1..Len(h)
      <4>1. k \in 1..Len(h[i].decls) /\ g[i].decls[k] = h[i].decls[k]
        BY <1>2, <3>2
      <4>2. h[i].decls[k] \in 1..n /\ (h[i].decls[k] =< Len(h) => h[h[i].decls[k]].region = i)
        BY <3>2, <4>1 DEF Well
      <4>3. CASE h[i].decls[k] = Len(h) + 1
        <5>1. x.region = i
          BY <3>2, <4>1, <4>3 DEF Fresh
        <5> QED BY <1>2, <4>1, <4>2, <4>3, <5>1
      <4>4. CASE h[i].decls[k] # Len(h) + 1
        <5>1. h[i].decls[k] =< Len(g) => h[i].decls[k] \in 1..Len(h)
          BY <1>1, <1>2, <4>2, <4>4
        <5> QED BY <1>2, <4>1, <4>2, <5>1
      <4> QED BY <4>3, <4>4
    <3> QED BY <1>3, <3>1, <3>2
  <2>3. Len(g) =< n
    BY <1>1, <1>2
  <2> QED BY <1>1, <1>2, <2>1, <2>2, <2>3 DEF Well
<1>5. Keeps(h, g, r)
  <2>1. \A i \in (Len(h) + 1)..Len(g) : g[i] = x
    BY <1>1, <1>2
  <2>2. Len(h) =< Len(g)
    BY <1>1, <1>2
  <2> QED BY <1>2, <2>1, <2>2 DEF Keeps, Stays, Fresh
<1> QED BY <1>2, <1>4, <1>5 DEF g

\* One node is replaced.
LEMMA ChangeNode ==
  ASSUME NEW h \in Heap, NEW c \in 1..Len(h), NEW x \in NodeType
  PROVE  /\ [h EXCEPT ![c] = x] \in Heap /\ Len([h EXCEPT ![c] = x]) = Len(h)
         /\ [h EXCEPT ![c] = x][c] = x
         /\ \A i \in 1..Len(h) : i # c => [h EXCEPT ![c] = x][i] = h[i]
BY DEF Heap

\* A region lists a further node of its own.
ListedIn(h, n, r, d, g) ==
  /\ Well(g, n) /\ Keeps(h, g, r) /\ Len(g) = Len(h)
  /\ \A i \in 1..Len(h) : g[i].completion = h[i].completion /\ g[i].forward = h[i].forward
  /\ \A i \in 1..Len(h) : i # r => g[i] = h[i]
  /\ g[r].decls = Append(h[r].decls, d)

LEMMA ListNode ==
  ASSUME NEW h, NEW n, Well(h, n), NEW r \in 1..Len(h), NEW d \in 1..Len(h), h[d].region = r
  PROVE  ListedIn(h, n, r, d, AddToRegion(h, r, d))
<1> DEFINE x == [h[r] EXCEPT !.decls = Append(@, d)]
           g == [h EXCEPT ![r] = x]
<1>1. h \in Heap /\ Len(h) \in Nat /\ n \in Nat /\ Len(h) =< n
  BY DEF Well, Heap
<1>2. h[r] \in NodeType /\ h[r].decls \in Seq(Nat) /\ d \in Nat
  <2>1. h[r] \in NodeType /\ d \in Nat
    BY <1>1 DEF Heap
  <2> QED BY <2>1 DEF NodeType
<1>3. /\ Append(h[r].decls, d) \in Seq(Nat) /\ Len(Append(h[r].decls, d)) = Len(h[r].decls) + 1
      /\ Append(h[r].decls, d)[Len(h[r].decls) + 1] = d
      /\ \A k \in 1..Len(h[r].decls) : Append(h[r].decls, d)[k] = h[r].decls[k]
  BY <1>2, AppendProperties
<1>4. /\ x \in NodeType /\ x.kind = h[r].kind /\ x.region = h[r].region /\ x.sig = h[r].sig
      /\ x.private = h[r].private /\ x.body = h[r].body /\ x.completion = h[r].completion
      /\ x.forward = h[r].forward /\ x.decls = Append(h[r].decls, d)
  BY <1>2, <1>3 DEF NodeType
<1>5. AddToRegion(h, r, d) = g
  <2>1. r # 0
    BY <1>1
  <2> QED BY <2>1 DEF AddToRegion
<1> HIDE DEF x
<1>6. g \in Heap /\ Len(g) = Len(h) /\ g[r] = x /\ \A i \in 1..Len(h) : i # r => g[i] = h[i]
  BY <1>1, <1>4, ChangeNode
<1> HIDE DEF g
<1>7. \A i \in 1..Len(h) :
        /\ g[i].kind = h[i].kind /\ g[i].region = h[i].region /\ g[i].sig = h[i].sig
        /\ g[i].private = h[i].private /\ g[i].body = h[i].body
        /\ g[i].completion = h[i].completion /\ g[i].forward = h[i].forward
        /\ i # r => g[i].decls = h[i].decls
  BY <1>4, <1>6
<1>8. Range(h[r].decls) \subseteq Range(g[r].decls)
  <2>1. DOMAIN h[r].decls = 1..Len(h[r].decls) /\ Len(h[r].decls) \in Nat
    BY <1>2
  <2>2. DOMAIN g[r].decls = 1..(Len(h[r].decls) + 1) /\ g[r].decls = Append(h[r].decls, d)
    BY <1>3, <1>4, <1>6
  <2>3. \A k \in 1..Len(h[r].decls) : k \in 1..(Len(h[r].decls) + 1) /\ g[r].decls[k] = h[r].decls[k]
    BY <1>3, <2>1, <2>2
  <2> QED BY <2>1, <2>2, <2>3 DEF Range
<1>9. Keeps(h, g, r)
  <2>1. \A i \in (Len(h) + 1)..Len(g) : FALSE
    BY <1>1, <1>6
  <2>2. Len(h) =< Len(g)
    BY <1>1, <1>6
  <2> QED BY <1>7, <1>8, <2>1, <2>2 DEF Keeps, Stays
<1>10. Well(g, n)
  <2>1. ASSUME NEW i \in 1..Len(g), NEW k \in 1..Len(g[i].decls)
        PROVE  g[i].decls[k] \in 1..n /\ (g[i].decls[k] =< Len(g) => g[g[i].decls[k]].region = i)
    <3>1. i \in 1..Len(h)
      BY <1>6
    <3>2. CASE i # r \/ k # Len(h[r].decls) + 1
      <4>1. k \in 1..Len(h[i].decls) /\ g[i].decls[k] = h[i].decls[k]
        <5>1. CASE i # r
          BY <1>7, <3>1, <5>1
        <5>2. CASE i = r
          <6>1. k \in 1..(Len(h[r].decls) + 1) /\ Len(h[r].decls) \in Nat
            BY <1>2, <1>3, <1>4, <1>6, <5>2
          <6>2. k \in 1..Len(h[r].decls)
            BY <3>2, <5>2, <6>1
          <6> QED BY <1>3, <1>4, <1>6, <5>2, <6>2
        <5> QED BY <5>1, <5>2
      <4>2. h[i].decls[k] \in 1..n /\ (h[i].decls[k] =< Len(h) => h[h[i].decls[k]].region = i)
        BY <3>1, <4>1 DEF Well
      <4>3. h[i].decls[k] =< Len(h) => h[i].decls[k] \in 1..Len(h)
        BY <1>1, <4>2
      <4> QED BY <1>6, <1>7, <4>1, <4>2, <4>3
    <3>3. CASE i = r /\ k = Len(h[r].decls) + 1
      <4>1. g[i].decls[k] = d
        BY <1>3, <1>4, <1>6, <3>3
      <4>2. d \in 1..n
        BY <1>1
      <4> QED BY <1>7, <3>3, <4>1, <4>2
    <3> QED BY <3>2, <3>3
  <2>2. \A i \in 1..Len(g) : g[i].region < i /\ g[i].completion =< n
    BY <1>6, <1>7 DEF Well
  <2> QED BY <1>1, <1>6, <2>1, <2>2 DEF Well
<1> QED BY <1>4, <1>5, <1>6, <1>7, <1>9, <1>10 DEF ListedIn

\* The links of a node are set, and its contents are left alone.
LEMMA Relink ==
  ASSUME NEW h, NEW n, Well(h, n), NEW g \in Heap, Len(g) = Len(h),
         \A i \in 1..Len(h) : /\ g[i].region = h[i].region /\ g[i].decls = h[i].decls
                              /\ g[i].completion =< n
  PROVE  Well(g, n)
<1>1. Len(h) \in Nat
  BY DEF Well, Heap
<1>2. ASSUME NEW i \in 1..Len(g), NEW k \in 1..Len(g[i].decls)
      PROVE  g[i].decls[k] \in 1..n /\ (g[i].decls[k] =< Len(g) => g[g[i].decls[k]].region = i)
  <2>1. h[i].decls[k] \in 1..n /\ (h[i].decls[k] =< Len(h) => h[h[i].decls[k]].region = i)
    BY DEF Well
  <2>2. h[i].decls[k] =< Len(h) => h[i].decls[k] \in 1..Len(h)
    BY <1>1, <2>1
  <2> QED BY <2>1, <2>2
<1> QED BY <1>2 DEF Well

\* IncompleteTypeDecl::setCompletion and PrivateTypeDecl::setCompletion.
Completed(h, c, d) == [h EXCEPT ![c].completion = d]

\* A type is completed.
LEMMA CompleteNode ==
  ASSUME NEW h, NEW n, Well(h, n), NEW c \in 1..Len(h), h[c].kind \notin RoutineKinds,
         NEW d \in 1..n, NEW r
  PROVE  LET g == Completed(h, c, d)
         IN  /\ Well(g, n) /\ Keeps(h, g, r) /\ Len(g) = Len(h)
             /\ \A i \in 1..Len(h) : i # c => g[i] = h[i]
<1> DEFINE x == [h[c] EXCEPT !.completion = d]
           g == [h EXCEPT ![c] = x]
<1>1. h \in Heap /\ Len(h) \in Nat /\ d \in Nat /\ d # 0 /\ d =< n
  BY DEF Well, Heap
<1>2. h[c] \in NodeType
  BY <1>1 DEF Heap
<1>3. /\ x \in NodeType /\ x.kind = h[c].kind /\ x.region = h[c].region /\ x.sig = h[c].sig
      /\ x.private = h[c].private /\ x.body = h[c].body /\ x.completion = d
      /\ x.decls = h[c].decls
  BY <1>1, <1>2 DEF NodeType
<1> HIDE DEF x
<1>4. g \in Heap /\ Len(g) = Len(h) /\ g[c] = x /\ \A i \in 1..Len(h) : i # c => g[i] = h[i]
  BY <1>1, <1>3, ChangeNode
<1>5. Completed(h, c, d) = g
  BY DEF x, Completed
<1> HIDE DEF g
<1>6. Keeps(h, g, r)
  <2>1. \A i \in (Len(h) + 1)..Len(g) : FALSE
    BY <1>1, <1>4
  <2>2. Len(h) =< Len(g)
    BY <1>1, <1>4
  <2>3. ASSUME NEW i \in 1..Len(h)
        PROVE  /\ g[i].kind = h[i].kind /\ g[i].region = h[i].region /\ g[i].sig = h[i].sig
               /\ g[i].private = h[i].private /\ g[i].body = h[i].body
               /\ h[i].completion # 0 => g[i].completion # 0
               /\ h[i].kind \in RoutineKinds =>
                    g[i].completion = h[i].completion /\ g[i].forward = h[i].forward
               /\ g[i].decls = h[i].decls
    BY <1>1, <1>3, <1>4
  <2> QED BY <2>1, <2>2, <2>3 DEF Keeps, Stays
<1>7. Well(g, n)
  <2>1. \A i \in 1..Len(h) : /\ g[i].region = h[i].region /\ g[i].decls = h[i].decls
                             /\ g[i].completion =< n
    BY <1>1, <1>3, <1>4 DEF Well
  <2> QED BY <1>4, <2>1, Relink
<1> QED BY <1>4, <1>5, <1>6, <1>7

-----------------------------------------------------------------------------
(* Completing types *)

\* What findConflictingDirectDecl returns.
LEMMA ConflictFacts ==
  ASSUME NEW h, NEW f, NEW d, FindConflict(h, f, d) # 0
  PROVE  /\ FindConflict(h, f, d) \in f.decls
         /\ DirectDeclsConflict(h, FindConflict(h, f, d), d)
<1> DEFINE clashes == {x \in f.decls : DirectDeclsConflict(h, x, d)}
<1>1. FindConflict(h, f, d) = IF clashes = {} THEN 0 ELSE CHOOSE x \in clashes : TRUE
  BY DEF FindConflict
<1>2. clashes # {} /\ FindConflict(h, f, d) = CHOOSE x \in clashes : TRUE
  BY <1>1
<1>3. FindConflict(h, f, d) \in clashes
  BY <1>2
<1> QED BY <1>3

\* The declaration is listed, or completes one that was there, or is refused.
Introduces(h, n, S, r, d, t) ==
  /\ Well(t.ast, n) /\ Keeps(h, t.ast, r) /\ Len(t.ast) = Len(h)
  /\ t.scope = S \/ t.scope = AddToFrame(S, {d})
  /\ t.ast[r].decls = h[r].decls \/ t.ast[r].decls = Append(h[r].decls, d)
  /\ \A i \in 1..Len(h) : i \notin S[1].decls =>
       t.ast[i].completion = h[i].completion /\ t.ast[i].forward = h[i].forward

\* What introduceTypeDeclaration does.
LEMMA IntroduceFacts ==
  ASSUME NEW h, NEW n, Well(h, n), NEW S \in Seq(Frame), Len(S) > 0, NEW r \in 1..Len(h),
         NEW d \in 1..Len(h), h[d].region = r, \A x \in S[1].decls : x \in 1..Len(h)
  PROVE  Introduces(h, n, S, r, d, introduceTypeDeclaration(h, S, r, d))
<1> DEFINE c == FindConflict(h, Head(S), d)
           g == Completed(h, c, d)
           t == introduceTypeDeclaration(h, S, r, d)
<1>1. h \in Heap /\ Len(h) \in Nat /\ d \in 1..n /\ Head(S) = S[1]
  BY DEF Well, Heap
<1>2. Keeps(h, h, r) /\ Well(h, n)
  <2>1. \A i \in (Len(h) + 1)..Len(h) : FALSE
    BY <1>1
  <2> QED BY <1>1, <2>1 DEF Keeps, Stays
<1>3. \/ t.ast = AddToRegion(h, r, d) /\ t.scope = AddToFrame(S, {d})
      \/ /\ c # 0 /\ h[c].kind \in {"Incomplete", "Private"} /\ t.scope = S
         /\ t.ast = AddToRegion(g, r, d) \/ t.ast = g
      \/ t.ast = h /\ t.scope = S
  BY DEF introduceTypeDeclaration, Completed
<1> HIDE DEF t
<1>4. CASE t.ast = AddToRegion(h, r, d) /\ t.scope = AddToFrame(S, {d})
  BY <1>4, ListNode DEF t, Introduces, ListedIn
<1>5. CASE t.ast = h /\ t.scope = S
  BY <1>2, <1>5 DEF t, Introduces
<1>6. CASE /\ c # 0 /\ h[c].kind \in {"Incomplete", "Private"} /\ t.scope = S
           /\ t.ast = AddToRegion(g, r, d) \/ t.ast = g
  <2>1. c \in S[1].decls /\ c \in 1..Len(h)
    BY <1>1, <1>6, ConflictFacts
  <2> HIDE DEF c
  <2>2. h[c].kind \notin RoutineKinds
    BY <1>6 DEF RoutineKinds
  <2>3. /\ Well(g, n) /\ Keeps(h, g, r) /\ Len(g) = Len(h)
        /\ \A i \in 1..Len(h) : i # c => g[i] = h[i]
        /\ Keeps(h, g, 0)
    <3>1. /\ Well(g, n) /\ Keeps(h, g, r) /\ Len(g) = Len(h)
          /\ \A i \in 1..Len(h) : i # c => g[i] = h[i]
      BY <1>1, <2>1, <2>2, CompleteNode, ZenonT(30)
    <3>2. Keeps(h, g, 0)
      BY <1>1, <2>1, <2>2, CompleteNode, Zenon
    <3> QED BY <3>1, <3>2
  <2> HIDE DEF g
  <2>4. g[r].decls = h[r].decls
    <3>1. r # 0
      BY <1>1
    <3> QED BY <2>3, <3>1 DEF Keeps, Stays
  <2>5. CASE t.ast = g
    BY <1>6, <2>1, <2>3, <2>5, <2>4 DEF t, Introduces
  <2>6. CASE t.ast = AddToRegion(g, r, d)
    <3>1. g[d].region = r
      BY <2>3 DEF Keeps, Stays
    <3> DEFINE f == AddToRegion(g, r, d)
    <3>2. /\ Well(f, n) /\ Keeps(g, f, r) /\ Len(f) = Len(g)
          /\ \A i \in 1..Len(g) : f[i].completion = g[i].completion /\ f[i].forward = g[i].forward
          /\ f[r].decls = Append(g[r].decls, d)
      <4>1. r \in 1..Len(g) /\ d \in 1..Len(g) /\ Well(g, n)
        BY <2>3
      <4>2. ListedIn(g, n, r, d, f)
        BY <3>1, <4>1, ListNode
      <4> QED BY <4>2 DEF ListedIn
    <3> HIDE DEF f
    <3>3. g \in Heap /\ f \in Heap /\ \A i \in (Len(h) + 1)..Len(g) : FALSE
      BY <1>1, <2>3, <3>2 DEF Well
    <3>4. Keeps(h, f, r)
      BY <1>1, <2>3, <3>2, <3>3, KeepsTransitive
    <3>5. \A i \in 1..Len(h) : i \notin S[1].decls =>
            f[i].completion = h[i].completion /\ f[i].forward = h[i].forward
      BY <2>1, <2>3, <3>2
    <3> QED BY <1>6, <2>3, <2>6, <2>4, <3>2, <3>4, <3>5 DEF t, f, Introduces
  <2> QED BY <1>6, <2>5, <2>6
<1> QED BY <1>3, <1>4, <1>5, <1>6
-----------------------------------------------------------------------------
(* The parts of the invariant, as far as they depend on the nodes *)

\* Region a is r, or one or two steps outwards from it.
Reach(h, a, r) ==
  /\ a # 0
  /\ \/ a = r
     \/ r # 0 /\ a = h[r].region
     \/ r # 0 /\ h[r].region # 0 /\ a = h[h[r].region].region

\* Parts and bodies of a package belong to it, and to one package only.
PackagesWhole(h) ==
  /\ \A p \in 1..Len(h) : h[p].kind = "Package" =>
       /\ h[p].region = 0
       /\ h[p].private # 0 => /\ h[p].private \in 1..Len(h)
                              /\ h[h[p].private].kind = "PrivatePart"
                              /\ h[h[p].private].region = p
       /\ h[p].body # 0 => /\ h[p].body \in 1..Len(h) /\ h[h[p].body].kind = "Body"
                           /\ h[h[p].body].region = IF h[p].private # 0 THEN h[p].private ELSE p
  /\ \A b \in 1..Len(h) : h[b].kind = "Body" =>
       /\ h[b].region # 0
       /\ \/ h[h[b].region].kind = "Package" /\ h[h[b].region].body = b
          \/ /\ h[h[b].region].kind = "PrivatePart" /\ h[h[b].region].region # 0
             /\ h[h[h[b].region].region].body = b

\* Subroutines are declared in parts of packages and in blocks.
RoutinesInParts(h) ==
  \A i \in 1..Len(h) : h[i].kind \in DeclKinds =>
    h[i].region # 0 /\ h[h[i].region].kind \in PartKinds

\* The declarations that have a definition.
Forwards(h) == {d \in 1..Len(h) : h[d].kind \in RoutineKinds /\ h[d].completion # 0}

\* A definition has the profile of its forward declaration, and lies in the same
\* region or further in.
Agree(h, d, f) ==
  /\ f \in 1..Len(h) /\ h[f].kind = h[d].kind /\ h[f].sig.ret = h[d].sig.ret
  /\ Len(h[f].sig.params) = Len(h[d].sig.params)
  /\ \A i \in DOMAIN h[d].sig.params : h[d].sig.params[i].type = h[f].sig.params[i].type
  /\ Reach(h, h[d].region, h[f].region)

DefinitionsAgree(h) == \A d \in Forwards(h) : Agree(h, d, h[d].completion)

\* And points back to it.
DefinitionsPointBack(h) ==
  \A d \in Forwards(h) : h[h[d].completion].forward = d /\ h[h[d].completion].completion = 0

\* Definitions are in package bodies, and have a body unless it is about to begin.
DefinitionsHaveBodies(h, q) ==
  \A d \in Forwards(h) : /\ h[h[h[d].completion].region].kind = "Body"
                         /\ h[h[d].completion].body # 0 \/ h[d].completion = q

\* Once a package has been left, its private types are complete; once its body
\* has, so is everything it declares.
PackagesComplete(h, open, q) ==
  \A p \in 1..Len(h) : h[p].kind = "Package" =>
    /\ h[p].body # 0 /\ ~(open /\ q = p) =>
         \A d \in Range(h[p].decls) :
           h[d].kind \in DeclKinds \cup {"Incomplete"} => h[d].completion # 0
    /\ ~(open /\ q = p /\ h[p].body = 0) =>
         \A d \in Range(h[p].decls) : h[d].kind = "Private" => h[d].completion # 0
-----------------------------------------------------------------------------
(* The frames *)

\* Region r is the part of package p being checked.
PartOf(h, p, r) ==
  /\ p \in 1..Len(h) /\ h[p].kind = "Package"
  /\ \/ r = p /\ h[p].private = 0 /\ h[p].body = 0
     \/ r = h[p].private /\ r # 0 /\ h[p].body = 0
     \/ r = h[p].body /\ r # 0

\* The subroutines of a package frame are declared in the part r or around it.
PackageFrame(h, f, r) ==
  /\ f.kind = "PACKAGE_SCOPE"
  /\ \A x \in f.decls : h[x].kind \in DeclKinds => Reach(h, h[x].region, r)

PackageShape(h, S, r, p) ==
  /\ Len(S) = 2 /\ PartOf(h, p, r) /\ PackageFrame(h, S[1], r) /\ S[2].kind = "CUNIT_SCOPE"

FormalsOf(h, d) == {x \in 1..Len(h) : h[x].kind = "Param" /\ h[x].region = d}

\* The frame of subroutine d while its block r, or what follows it, is checked.
SubroutineFrame(h, f, r, d) ==
  /\ f.kind = "SUBROUTINE_SCOPE" /\ d \in 1..Len(h) /\ h[d].kind \in DeclKinds
  /\ r = d \/ (r \in 1..Len(h) /\ h[r].kind = "Block" /\ h[r].region = d)
  /\ {d} \cup FormalsOf(h, d) \subseteq f.decls
  /\ r = d => f.decls = {d} \cup FormalsOf(h, d)
  /\ \A x \in f.decls : /\ h[x].kind = "Param" => h[x].region = d
                        /\ h[x].kind \in DeclKinds => x = d \/ h[x].region = r

SubroutineShape(h, S, r, p) ==
  /\ Len(S) = 3 /\ PackageShape(h, Tail(S), h[p].body, p) /\ h[p].body # 0
  /\ \E d \in 1..Len(h) : SubroutineFrame(h, S[1], r, d) /\ h[d].region = h[p].body

BaseShape(h, S, r, p) == PackageShape(h, S, r, p) \/ SubroutineShape(h, S, r, p)

RecordShape(h, S, r, p) ==
  /\ Len(S) > 1 /\ S[1].kind = "RECORD_SCOPE" /\ r \in 1..Len(h) /\ h[r].kind = "Record"
  /\ S[1].decls \subseteq Range(h[r].decls)
  /\ h[r].region # 0 /\ h[h[r].region].kind \in PartKinds
  /\ BaseShape(h, Tail(S), h[r].region, p)

TopShape(h, S, r) ==
  /\ Len(S) = 1 /\ S[1].kind = "CUNIT_SCOPE"
  /\ r # 0 => r \in 1..Len(h) /\ h[r].kind = "Package"

\* Frames and regions: the unit, in it a part of a package, in it perhaps a
\* subroutine, and in each of the two perhaps a record.
Shape(h, S, r, p) == TopShape(h, S, r) \/ BaseShape(h, S, r, p) \/ RecordShape(h, S, r, p)

FramesHold(h, S) == \A i \in 1..Len(S) : \A x \in S[i].decls : x \in 1..Len(h)
-----------------------------------------------------------------------------
(* Declaring something preserves what depends on the nodes alone *)

\* Regions stay where they are.
LEMMA ReachKept ==
  ASSUME NEW h, NEW n, Well(h, n), NEW g, NEW q, Stays(h, g, q), NEW r \in 0..Len(h), NEW a
  PROVE  Reach(g, a, r) <=> Reach(h, a, r)
<1>1. Len(h) \in Nat
  BY DEF Well, Heap
<1>2. CASE r = 0
  BY <1>2 DEF Reach
<1>3. CASE r # 0
  <2>1. r \in 1..Len(h)
    BY <1>1, <1>3
  <2>2. g[r].region = h[r].region
    BY <2>1 DEF Stays
  <2>3. h[r].region \in Nat /\ h[r].region < r
    <3>1. h[r] \in NodeType
      BY <2>1 DEF Well, Heap
    <3> QED BY <2>1, <3>1 DEF Well, NodeType
  <2>4. h[r].region # 0 => h[r].region \in 1..Len(h)
    BY <1>1, <2>1, <2>3
  <2>5. h[r].region # 0 => g[h[r].region].region = h[h[r].region].region
    BY <2>4 DEF Stays
  <2> QED BY <2>2, <2>5 DEF Reach
<1> QED BY <1>2, <1>3

\* The region of a node.
LEMMA RegionFacts ==
  ASSUME NEW h, NEW n, Well(h, n), NEW i \in 1..Len(h)
  PROVE  /\ h[i].region \in 0..Len(h) /\ h[i].region < i /\ h[i] \in NodeType
         /\ Len(h) \in Nat /\ (h[i].region # 0 => h[i].region \in 1..Len(h))
<1>1. Len(h) \in Nat /\ h[i] \in NodeType
  BY DEF Well, Heap
<1>2. h[i].region \in Nat
  BY <1>1 DEF NodeType
<1>3. h[i].region < i
  BY DEF Well
<1> QED BY <1>1, <1>2, <1>3

LEMMA PackagesWholeKept ==
  ASSUME NEW h, NEW n, Well(h, n), NEW g \in Heap, NEW q, Stays(h, g, q), PackagesWhole(h)
  PROVE  PackagesWhole(g)
<1>1. Len(h) \in Nat /\ Len(g) \in Nat /\ Len(h) =< Len(g)
  BY DEF Well, Heap, Stays
<1>2. ASSUME NEW i \in 1..Len(g), g[i].kind \in {"Package", "Body"}
      PROVE  i \in 1..Len(h) /\ g[i].kind = h[i].kind /\ g[i].region = h[i].region
             /\ g[i].private = h[i].private /\ g[i].body = h[i].body
  <2>1. i \in 1..Len(h) \/ i \in (Len(h) + 1)..Len(g)
    BY <1>1
  <2> QED BY <1>2, <2>1 DEF Stays
<1>3. \A i \in 1..Len(h) : i \in 1..Len(g) /\ g[i].kind = h[i].kind /\ g[i].region = h[i].region
        /\ g[i].private = h[i].private /\ g[i].body = h[i].body
  BY <1>1 DEF Stays
<1>4. ASSUME NEW p \in 1..Len(g), g[p].kind = "Package"
      PROVE  /\ g[p].region = 0
             /\ g[p].private # 0 => /\ g[p].private \in 1..Len(g)
                                    /\ g[g[p].private].kind = "PrivatePart"
                                    /\ g[g[p].private].region = p
             /\ g[p].body # 0 =>
                  /\ g[p].body \in 1..Len(g) /\ g[g[p].body].kind = "Body"
                  /\ g[g[p].body].region = IF g[p].private # 0 THEN g[p].private ELSE p
  <2>1. /\ p \in 1..Len(h) /\ h[p].kind = "Package" /\ g[p].region = h[p].region
        /\ g[p].private = h[p].private /\ g[p].body = h[p].body
    BY <1>2, <1>4
  <2>2. /\ h[p].region = 0
        /\ h[p].private # 0 => /\ h[p].private \in 1..Len(h)
                               /\ h[h[p].private].kind = "PrivatePart"
                               /\ h[h[p].private].region = p
        /\ h[p].body # 0 =>
             /\ h[p].body \in 1..Len(h) /\ h[h[p].body].kind = "Body"
             /\ h[h[p].body].region = IF h[p].private # 0 THEN h[p].private ELSE p
    BY <2>1 DEF PackagesWhole
  <2>3. h[p].private # 0 => /\ h[p].private \in 1..Len(g)
                            /\ g[h[p].private].kind = "PrivatePart"
                            /\ g[h[p].private].region = p
    BY <1>3, <2>2
  <2>4. h[p].body # 0 =>
          /\ h[p].body \in 1..Len(g) /\ g[h[p].body].kind = "Body"
          /\ g[h[p].body].region = IF h[p].private # 0 THEN h[p].private ELSE p
    BY <1>3, <2>2
  <2> QED BY <2>1, <2>2, <2>3, <2>4
<1>5. ASSUME NEW b \in 1..Len(g), g[b].kind = "Body"
      PROVE  /\ g[b].region # 0
             /\ \/ g[g[b].region].kind = "Package" /\ g[g[b].region].body = b
                \/ /\ g[g[b].region].kind = "PrivatePart" /\ g[g[b].region].region # 0
                   /\ g[g[g[b].region].region].body = b
  <2>1. b \in 1..Len(h) /\ h[b].kind = "Body" /\ g[b].region = h[b].region /\ h[b].region # 0
    BY <1>2, <1>5 DEF PackagesWhole
  <2>2. h[b].region \in 1..Len(h)
    BY <2>1, RegionFacts
  <2>3. h[h[b].region].region # 0 => h[h[b].region].region \in 1..Len(h)
    BY <2>2, RegionFacts
  <2>4. \/ h[h[b].region].kind = "Package" /\ h[h[b].region].body = b
        \/ /\ h[h[b].region].kind = "PrivatePart" /\ h[h[b].region].region # 0
           /\ h[h[h[b].region].region].body = b
    BY <2>1 DEF PackagesWhole
  <2> DEFINE e == h[b].region
  <2>5. g[e].kind = h[e].kind /\ g[e].region = h[e].region /\ g[e].body = h[e].body
    BY <1>3, <2>2
  <2>6. CASE h[e].kind = "Package" /\ h[e].body = b
    BY <2>1, <2>5, <2>6
  <2>7. CASE h[e].kind = "PrivatePart" /\ h[e].region # 0 /\ h[h[e].region].body = b
    <3>1. g[h[e].region].body = h[h[e].region].body
      BY <1>3, <2>3, <2>7
    <3> QED BY <2>1, <2>5, <2>7, <3>1
  <2> QED BY <2>4, <2>6, <2>7
<1> QED BY <1>4, <1>5 DEF PackagesWhole

\* Subroutines keep their definitions.
LEMMA RoutinesKept ==
  ASSUME NEW h, NEW n, Well(h, n), NEW g \in Heap, NEW q, Stays(h, g, q), RoutinesInParts(h),
         \A i \in (Len(h) + 1)..Len(g) : g[i].kind \in DeclKinds =>
            q # 0 /\ q \in 1..Len(h) /\ h[q].kind \in PartKinds
  PROVE  RoutinesInParts(g)
<1>1. Len(h) \in Nat /\ Len(g) \in Nat /\ Len(h) =< Len(g)
  BY DEF Well, Heap, Stays
<1>2. q \in 1..Len(h) => g[q].kind = h[q].kind
  BY DEF Stays
<1>3. ASSUME NEW i \in 1..Len(g), g[i].kind \in DeclKinds
      PROVE  g[i].region # 0 /\ g[g[i].region].kind \in PartKinds
  <2>1. i \in 1..Len(h) \/ i \in (Len(h) + 1)..Len(g)
    BY <1>1
  <2>2. CASE i \in 1..Len(h)
    <3>1. g[i].kind = h[i].kind /\ g[i].region = h[i].region
      BY <2>2 DEF Stays
    <3>2. h[i].region # 0 /\ h[h[i].region].kind \in PartKinds
      BY <1>3, <2>2, <3>1 DEF RoutinesInParts
    <3>3. h[i].region \in 1..Len(h)
      BY <2>2, <3>2, RegionFacts
    <3>4. g[h[i].region].kind = h[h[i].region].kind
      BY <3>3 DEF Stays
    <3> QED BY <3>1, <3>2, <3>4
  <2>3. CASE i \in (Len(h) + 1)..Len(g)
    BY <1>2, <1>3, <2>3 DEF Stays
  <2> QED BY <2>1, <2>2, <2>3
<1> QED BY <1>3 DEF RoutinesInParts

LEMMA ForwardsKept ==
  ASSUME NEW h, NEW n, Well(h, n), NEW g \in Heap, NEW q, Keeps(h, g, q)
  PROVE  /\ Forwards(g) = Forwards(h)
         /\ \A d \in Forwards(h) : d \in 1..Len(h) /\ g[d].completion = h[d].completion
<1>1. Len(h) \in Nat /\ Len(g) \in Nat /\ Len(h) =< Len(g)
  BY DEF Well, Heap, Keeps, Stays
<1>2. \A i \in 1..Len(g) : i \in 1..Len(h) \/ i \in (Len(h) + 1)..Len(g)
  BY <1>1
<1>3. \A i \in 1..Len(h) : i \in 1..Len(g)
  BY <1>1
<1>4. \A d \in Forwards(g) : d \in Forwards(h)
  BY <1>2 DEF Forwards, Keeps, Stays
<1>5. \A d \in Forwards(h) : d \in Forwards(g) /\ d \in 1..Len(h) /\ g[d].completion = h[d].completion
  BY <1>3 DEF Forwards, Keeps, Stays
<1> QED BY <1>4, <1>5

LEMMA AgreeKept ==
  ASSUME NEW h, NEW n, Well(h, n), NEW g \in Heap, NEW q, Stays(h, g, q),
         NEW d \in 1..Len(h), NEW f, Agree(h, d, f)
  PROVE  Agree(g, d, f)
<1>1. f \in 1..Len(h) /\ f \in 1..Len(g)
  <2>1. Len(h) \in Nat /\ Len(g) \in Nat /\ Len(h) =< Len(g)
    BY DEF Well, Heap, Stays
  <2> QED BY <2>1 DEF Agree
<1>2. /\ g[f].kind = h[f].kind /\ g[f].sig = h[f].sig /\ g[f].region = h[f].region
      /\ g[d].kind = h[d].kind /\ g[d].sig = h[d].sig /\ g[d].region = h[d].region
  BY <1>1 DEF Stays
<1>3. h[f].region \in 0..Len(h)
  BY <1>1, RegionFacts
<1>4. Reach(g, g[d].region, g[f].region)
  BY <1>2, <1>3, ReachKept DEF Agree
<1> QED BY <1>1, <1>2, <1>4 DEF Agree

LEMMA DefinitionsKept ==
  ASSUME NEW h, NEW n, Well(h, n), NEW g \in Heap, NEW q, Keeps(h, g, q), DefinitionsAgree(h)
  PROVE  /\ DefinitionsAgree(g)
         /\ DefinitionsPointBack(h) => DefinitionsPointBack(g)
         /\ \A x : DefinitionsHaveBodies(h, x) => DefinitionsHaveBodies(g, x)
<1>1. /\ Forwards(g) = Forwards(h)
      /\ \A d \in Forwards(h) : d \in 1..Len(h) /\ g[d].completion = h[d].completion
  BY ForwardsKept
<1>2. ASSUME NEW d \in Forwards(h)
      PROVE  Agree(h, d, h[d].completion) /\ Agree(g, d, h[d].completion)
    BY <1>1, AgreeKept DEF DefinitionsAgree, Keeps
<1>3. DefinitionsAgree(g)
  BY <1>1, <1>2 DEF DefinitionsAgree
<1>4. ASSUME NEW d \in Forwards(h)
      PROVE  LET f == h[d].completion
             IN  /\ g[f].forward = h[f].forward /\ g[f].completion = h[f].completion
                 /\ g[f].body = h[f].body /\ g[g[f].region].kind = h[h[f].region].kind
  <2> DEFINE f == h[d].completion
  <2>1. Agree(h, d, f)
    BY <1>2
  <2>2. f \in 1..Len(h) /\ h[f].kind \in RoutineKinds /\ Reach(h, h[d].region, h[f].region)
    BY <2>1 DEF Agree, Forwards
  <2> HIDE DEF f
  <2>3. h[f].region \in 1..Len(h)
    <3>1. h[f].region \in 0..Len(h) /\ (h[f].region # 0 => h[f].region \in 1..Len(h))
      BY <2>2, RegionFacts
    <3>2. h[f].region # 0
      BY <2>2 DEF Reach
    <3> QED BY <3>1, <3>2
  <2>4. /\ g[f].forward = h[f].forward /\ g[f].completion = h[f].completion
        /\ g[f].body = h[f].body /\ g[f].region = h[f].region
    BY <2>2 DEF Keeps, Stays
  <2>5. g[h[f].region].kind = h[h[f].region].kind
    BY <2>3 DEF Keeps, Stays
  <2> QED BY <2>4, <2>5 DEF f
<1>5. DefinitionsPointBack(h) => DefinitionsPointBack(g)
  BY <1>1, <1>4 DEF DefinitionsPointBack
<1>6. ASSUME NEW x, DefinitionsHaveBodies(h, x) PROVE DefinitionsHaveBodies(g, x)
  BY <1>1, <1>4, <1>6 DEF DefinitionsHaveBodies
<1> QED BY <1>3, <1>5, <1>6

\* What a region lists.
LEMMA ListedFacts ==
  ASSUME NEW h, Well(h, Len(h)), NEW i \in 1..Len(h), NEW d \in Range(h[i].decls)
  PROVE  d \in 1..Len(h) /\ h[d].region = i
<1>1. h[i] \in NodeType /\ Len(h) \in Nat
  BY DEF Well, Heap
<1>2. h[i].decls \in Seq(Nat)
  BY <1>1 DEF NodeType
<1>3. DOMAIN h[i].decls = 1..Len(h[i].decls)
  BY <1>2
<1>4. PICK k \in 1..Len(h[i].decls) : d = h[i].decls[k]
  BY <1>3 DEF Range
<1>5. d \in 1..Len(h)
  BY <1>4 DEF Well
<1>6. d =< Len(h)
  BY <1>1, <1>5
<1> QED BY <1>4, <1>5, <1>6 DEF Well

LEMMA PackagesCompleteKept ==
  ASSUME NEW h, Well(h, Len(h)), NEW g \in Heap, NEW q, Stays(h, g, q), NEW open, NEW p,
         PackagesComplete(h, open, p),
         q \in 1..Len(h) /\ h[q].kind = "Package" => open /\ p = q /\ h[q].body = 0
  PROVE  PackagesComplete(g, open, p)
<1>1. Len(h) \in Nat /\ Len(g) \in Nat /\ Len(h) =< Len(g)
  BY DEF Well, Heap, Stays
<1>2. ASSUME NEW x \in 1..Len(g), g[x].kind = "Package"
      PROVE  /\ g[x].body # 0 /\ ~(open /\ p = x) =>
                  \A d \in Range(g[x].decls) :
                    g[d].kind \in DeclKinds \cup {"Incomplete"} => g[d].completion # 0
             /\ ~(open /\ p = x /\ g[x].body = 0) =>
                  \A d \in Range(g[x].decls) : g[d].kind = "Private" => g[d].completion # 0
  <2>1. x \in 1..Len(h) \/ x \in (Len(h) + 1)..Len(g)
    BY <1>1
  <2>2. x \in 1..Len(h) /\ h[x].kind = "Package" /\ g[x].body = h[x].body
    BY <1>2, <2>1 DEF Stays
  <2>3. CASE x = q
    BY <2>2, <2>3
  <2>4. CASE x # q
    <3>1. g[x].decls = h[x].decls
      BY <2>2, <2>4 DEF Stays
    <3>2. \A d \in Range(h[x].decls) : d \in 1..Len(h)
      BY <2>2, ListedFacts
    <3>3. \A d \in Range(h[x].decls) :
            g[d].kind = h[d].kind /\ (h[d].completion # 0 => g[d].completion # 0)
      BY <3>2 DEF Stays
    <3> QED BY <2>2, <3>1, <3>3 DEF PackagesComplete
  <2> QED BY <2>3, <2>4
<1> QED BY <1>2 DEF PackagesComplete

\* The frames stand while something is declared in them.
LEMMA FormalsKept ==
  ASSUME NEW h, NEW n, Well(h, n), NEW g \in Heap, NEW q, Stays(h, g, q), NEW d
  PROVE  FormalsOf(g, d) = FormalsOf(h, d)
<1>1. Len(h) \in Nat /\ Len(g) \in Nat /\ Len(h) =< Len(g)
  BY DEF Well, Heap, Stays
<1>2. \A i \in 1..Len(g) : i \in 1..Len(h) \/ i \in (Len(h) + 1)..Len(g)
  BY <1>1
<1>3. \A i \in 1..Len(h) : i \in 1..Len(g)
  BY <1>1
<1>4. \A x \in FormalsOf(g, d) : x \in FormalsOf(h, d)
  BY <1>2 DEF FormalsOf, Stays
<1>5. \A x \in FormalsOf(h, d) : x \in FormalsOf(g, d)
  BY <1>3 DEF FormalsOf, Stays
<1> QED BY <1>4, <1>5

LEMMA PartKept ==
  ASSUME NEW h, NEW n, Well(h, n), NEW g \in Heap, NEW q, Stays(h, g, q), NEW p, NEW r,
         PartOf(h, p, r), PackagesWhole(h)
  PROVE  PartOf(g, p, r) /\ r \in 1..Len(h)
<1>1. Len(h) \in Nat /\ Len(g) \in Nat /\ Len(h) =< Len(g)
  BY DEF Well, Heap, Stays
<1>2. p \in 1..Len(h) /\ p \in 1..Len(g) /\ h[p].kind = "Package"
  BY <1>1 DEF PartOf
<1>3. g[p].kind = h[p].kind /\ g[p].private = h[p].private /\ g[p].body = h[p].body
  BY <1>2 DEF Stays
<1>4. PartOf(g, p, r)
  BY <1>2, <1>3 DEF PartOf
<1>5. r \in 1..Len(h)
  BY <1>2 DEF PartOf, PackagesWhole
<1> QED BY <1>4, <1>5

LEMMA PackageShapeKept ==
  ASSUME NEW h, NEW n, Well(h, n), NEW g \in Heap, NEW q, Stays(h, g, q), NEW p, NEW r,
         NEW S \in Seq(Frame), PackagesWhole(h), FramesHold(h, S), PackageShape(h, S, r, p)
  PROVE  PackageShape(g, S, r, p) /\ r \in 1..Len(h)
<1>1. PartOf(g, p, r) /\ r \in 1..Len(h)
  BY PartKept DEF PackageShape
<1>2. r \in 0..Len(h)
  <2>1. Len(h) \in Nat
    BY DEF Well, Heap
  <2> QED BY <1>1, <2>1
<1>3. ASSUME NEW x \in S[1].decls, g[x].kind \in DeclKinds PROVE Reach(g, g[x].region, r)
  <2>1. 1 \in 1..Len(S)
    BY DEF PackageShape
  <2>2. x \in 1..Len(h)
    BY <2>1 DEF FramesHold
  <2>3. g[x].kind = h[x].kind /\ g[x].region = h[x].region
    BY <2>2 DEF Stays
  <2>4. Reach(h, h[x].region, r)
    BY <1>3, <2>3 DEF PackageShape, PackageFrame
  <2> QED BY <1>2, <2>3, <2>4, ReachKept
<1>4. PackageFrame(g, S[1], r)
  BY <1>3 DEF PackageFrame, PackageShape
<1> QED BY <1>1, <1>4 DEF PackageShape

\* What a stack of frames looks like without the innermost.
LEMMA TailFacts ==
  ASSUME NEW S \in Seq(Frame), Len(S) > 0
  PROVE  /\ Tail(S) \in Seq(Frame) /\ Len(Tail(S)) = Len(S) - 1 /\ Head(S) = S[1]
         /\ \A i \in 1..(Len(S) - 1) : Tail(S)[i] = S[i + 1] /\ i + 1 \in 1..Len(S)
         /\ Len(S) \in Nat
<1>1. Len(S) \in Nat /\ S # <<>>
  OBVIOUS
<1>2. Tail(S) \in Seq(Frame) /\ Len(Tail(S)) = Len(S) - 1 /\ Head(S) = S[1]
  BY <1>1
<1>3. ASSUME NEW i \in 1..(Len(S) - 1) PROVE Tail(S)[i] = S[i + 1] /\ i + 1 \in 1..Len(S)
  BY <1>1
<1> QED BY <1>1, <1>2, <1>3

LEMMA TailHolds ==
  ASSUME NEW h, NEW S \in Seq(Frame), Len(S) > 0, FramesHold(h, S)
  PROVE  FramesHold(h, Tail(S))
BY TailFacts DEF FramesHold

LEMMA SubroutineShapeKept ==
  ASSUME NEW h, NEW n, Well(h, n), NEW g \in Heap, NEW q, Stays(h, g, q), NEW p, NEW r,
         NEW S \in Seq(Frame), PackagesWhole(h), FramesHold(h, S), SubroutineShape(h, S, r, p)
  PROVE  SubroutineShape(g, S, r, p) /\ r \in 1..Len(h)
<1>1. Len(h) \in Nat /\ Len(g) \in Nat /\ Len(h) =< Len(g) /\ Len(S) = 3
  BY DEF Well, Heap, Stays, SubroutineShape
<1>2. Tail(S) \in Seq(Frame) /\ FramesHold(h, Tail(S))
  <2>1. Len(S) > 0
    BY <1>1
  <2> QED BY <2>1, TailFacts, TailHolds, Zenon
<1>3. PackageShape(g, Tail(S), h[p].body, p) /\ h[p].body # 0
  BY <1>2, PackageShapeKept DEF SubroutineShape
<1>4. p \in 1..Len(h) /\ g[p].body = h[p].body
  BY DEF SubroutineShape, PackageShape, PartOf, Stays
<1>5. PICK d \in 1..Len(h) : SubroutineFrame(h, S[1], r, d) /\ h[d].region = h[p].body
  BY DEF SubroutineShape
<1>6. d \in 1..Len(h) /\ r \in 1..Len(h)
  BY <1>5 DEF SubroutineFrame
<1>7. /\ g[d].kind = h[d].kind /\ g[d].region = h[d].region
      /\ g[r].kind = h[r].kind /\ g[r].region = h[r].region
  BY <1>6 DEF Stays
<1>8. FormalsOf(g, d) = FormalsOf(h, d)
  BY FormalsKept
<1>9. \A x \in S[1].decls : g[x].kind = h[x].kind /\ g[x].region = h[x].region
  <2>1. 1 \in 1..Len(S)
    BY <1>1
  <2>2. \A x \in S[1].decls : x \in 1..Len(h)
    BY <2>1 DEF FramesHold
  <2> QED BY <2>2 DEF Stays
<1>10. d \in 1..Len(g) /\ r \in 1..Len(g)
  BY <1>1, <1>6
<1>11. SubroutineFrame(g, S[1], r, d)
  BY <1>5, <1>7, <1>8, <1>9, <1>10 DEF SubroutineFrame
<1> QED BY <1>1, <1>3, <1>4, <1>5, <1>6, <1>7, <1>11 DEF SubroutineShape

LEMMA BaseShapeKept ==
  ASSUME NEW h, NEW n, Well(h, n), NEW g \in Heap, NEW q, Stays(h, g, q), NEW p, NEW r,
         NEW S \in Seq(Frame), PackagesWhole(h), FramesHold(h, S), BaseShape(h, S, r, p)
  PROVE  BaseShape(g, S, r, p) /\ r \in 1..Len(h)
BY PackageShapeKept, SubroutineShapeKept DEF BaseShape

LEMMA RecordShapeKept ==
  ASSUME NEW h, NEW n, Well(h, n), NEW g \in Heap, NEW q, Stays(h, g, q), NEW p, NEW r,
         NEW S \in Seq(Frame), PackagesWhole(h), FramesHold(h, S), RecordShape(h, S, r, p)
  PROVE  RecordShape(g, S, r, p)
<1>1. Len(h) \in Nat /\ Len(g) \in Nat /\ Len(h) =< Len(g) /\ Len(S) > 1 /\ r \in 1..Len(h)
  BY DEF Well, Heap, Stays, RecordShape
<1>2. Tail(S) \in Seq(Frame) /\ FramesHold(h, Tail(S))
  <2>1. Len(S) > 0
    BY <1>1
  <2> QED BY <2>1, TailFacts, TailHolds, Zenon
<1>3. BaseShape(g, Tail(S), h[r].region, p) /\ h[r].region \in 1..Len(h)
  BY <1>2, BaseShapeKept DEF RecordShape
<1>4. /\ g[r].kind = h[r].kind /\ g[r].region = h[r].region
      /\ Range(h[r].decls) \subseteq Range(g[r].decls)
  BY <1>1 DEF Stays
<1>5. g[h[r].region].kind = h[h[r].region].kind
  BY <1>3 DEF Stays
<1>6. r \in 1..Len(g)
  BY <1>1
<1> QED BY <1>1, <1>3, <1>4, <1>5, <1>6 DEF RecordShape

LEMMA ShapeKept ==
  ASSUME NEW h, NEW n, Well(h, n), NEW g \in Heap, NEW q, Stays(h, g, q), NEW p, NEW r,
         NEW S \in Seq(Frame), PackagesWhole(h), FramesHold(h, S), Shape(h, S, r, p)
  PROVE  Shape(g, S, r, p) /\ FramesHold(g, S)
<1>1. Len(h) \in Nat /\ Len(g) \in Nat /\ Len(h) =< Len(g)
  BY DEF Well, Heap, Stays
<1>2. FramesHold(g, S)
  BY <1>1 DEF FramesHold
<1>3. CASE TopShape(h, S, r)
  <2>1. r # 0 => r \in 1..Len(g) /\ g[r].kind = h[r].kind
    BY <1>1, <1>3 DEF TopShape, Stays
  <2> QED BY <1>2, <1>3, <2>1 DEF Shape, TopShape
<1>4. CASE BaseShape(h, S, r, p)
  BY <1>2, <1>4, BaseShapeKept DEF Shape
<1>5. CASE RecordShape(h, S, r, p)
  BY <1>2, <1>5, RecordShapeKept DEF Shape
<1> QED BY <1>3, <1>4, <1>5 DEF Shape
-----------------------------------------------------------------------------
(* The inductive invariant *)

\* A stencil is idle, or holds what the parser has said so far.
StencilOK(s) ==
  \/ s = IdleStencil
  \/ s \in [of: {"Enumeration"}, name: Name, valid: BOOLEAN, elems: Seq(Name), ret: Nat]
  \/ s \in [of: DeclKinds, name: Name, valid: BOOLEAN, elems: Seq(Formal), ret: Nat]

\* A stencil is filled where declarations are allowed.
StencilPlace ==
  stencil.of # "idle" =>
    BaseShape(ast, scope, region, package) /\ Kind(region) \in PartKinds /\ pending = 0

\* A definition that is about to begin is the newest node, in the package body.
PendingPlace ==
  pending # 0 =>
    /\ pending = Len(ast) /\ Kind(pending) \in DeclKinds /\ ast[pending].region = region
    /\ PackageShape(ast, scope, region, package) /\ ast[package].body = region /\ region # 0
    /\ stencil.of = "idle"

\* The nodes as such.
NodesInv ==
  /\ Well(ast, Len(ast)) /\ PackagesWhole(ast) /\ DefinitionsAgree(ast)
  /\ RoutinesInParts(ast)

\* Nodes, frames and regions.
ShapeInv ==
  /\ scope \in Seq(Frame) /\ FramesHold(ast, scope) /\ Shape(ast, scope, region, package)
  /\ region \in Nat /\ package \in Nat /\ pending \in Nat /\ errors \in Nat
  /\ StencilOK(stencil) /\ StencilPlace /\ PendingPlace

\* What holds until an assertion fails, and until something is reported.
CleanInv ==
  /\ "reset" \notin failed => DefinitionsPointBack(ast)
  /\ errors = 0 => /\ DefinitionsHaveBodies(ast, pending)
                   /\ PackagesComplete(ast, Len(scope) > 1, package)

\* The inductive invariant.
Inv == NodesInv /\ ShapeInv /\ CleanInv

\* Counting diagnostics.
LEMMA ReportedFacts ==
  ASSUME errors \in Nat, NEW n \in Nat
  PROVE  Reported(n) \in Nat /\ (Reported(n) = 0 => errors = 0 /\ n = 0)
BY DeclarationAssumption DEF Reported

\* Adding declarations to the innermost frame.
LEMMA AddFacts ==
  ASSUME NEW S \in Seq(Frame), Len(S) > 0, NEW D \in SUBSET Nat
  PROVE  /\ AddToFrame(S, D) \in Seq(Frame) /\ Len(AddToFrame(S, D)) = Len(S)
         /\ AddToFrame(S, D)[1].kind = S[1].kind
         /\ AddToFrame(S, D)[1].decls = S[1].decls \cup D
         /\ \A i \in 2..Len(S) : AddToFrame(S, D)[i] = S[i]
         /\ Tail(AddToFrame(S, D)) = Tail(S)
<1> DEFINE f == [S[1] EXCEPT !.decls = @ \cup D]
           T == [S EXCEPT ![1] = f]
<1>1. Len(S) \in Nat /\ 1 \in 1..Len(S) /\ S[1] \in Frame
  OBVIOUS
<1>2. f \in Frame /\ f.kind = S[1].kind /\ f.decls = S[1].decls \cup D
  BY <1>1 DEF Frame
<1>3. AddToFrame(S, D) = T
  BY DEF AddToFrame
<1> HIDE DEF f
<1>4. /\ T \in Seq(Frame) /\ Len(T) = Len(S) /\ T[1] = f
      /\ \A i \in 2..Len(S) : T[i] = S[i]
  BY <1>1, <1>2
<1> HIDE DEF T
<1>5. Tail(T) = Tail(S)
  <2>1. /\ Tail(T) \in Seq(Frame) /\ Len(Tail(T)) = Len(T) - 1
        /\ \A i \in 1..(Len(T) - 1) : Tail(T)[i] = T[i + 1]
    BY <1>4, TailFacts
  <2>2. /\ Tail(S) \in Seq(Frame) /\ Len(Tail(S)) = Len(S) - 1
        /\ \A i \in 1..(Len(S) - 1) : Tail(S)[i] = S[i + 1]
    BY TailFacts
  <2>3. \A i \in 1..(Len(S) - 1) : i + 1 \in 2..Len(S)
    BY <1>1
  <2>4. \A i \in 1..Len(Tail(S)) : Tail(T)[i] = Tail(S)[i]
    BY <1>4, <2>1, <2>2, <2>3
  <2>5. Len(Tail(T)) = Len(Tail(S))
    BY <1>4, <2>1, <2>2
  <2> QED BY <2>1, <2>2, <2>4, <2>5, SeqEqual
<1> QED BY <1>2, <1>3, <1>4, <1>5

\* A declaration made in a part is seen there.
LEMMA BaseShapeAdd ==
  ASSUME NEW h, NEW S \in Seq(Frame), NEW r, NEW p, BaseShape(h, S, r, p), r # 0,
         h[r].kind \in PartKinds, NEW D \in SUBSET Nat,
         \A x \in D : h[x].kind # "Param" /\ (h[x].kind \in DeclKinds => h[x].region = r)
  PROVE  BaseShape(h, AddToFrame(S, D), r, p)
<1> DEFINE T == AddToFrame(S, D)
<1>1. Len(S) > 1 /\ Len(S) > 0 /\ Len(S) \in Nat
  <2>1. Len(S) = 2 \/ Len(S) = 3
    BY Zenon DEF BaseShape, PackageShape, SubroutineShape
  <2> QED BY <2>1
<1>2. /\ T \in Seq(Frame) /\ Len(T) = Len(S) /\ T[1].kind = S[1].kind
      /\ T[1].decls = S[1].decls \cup D /\ (\A i \in 2..Len(S) : T[i] = S[i])
      /\ Tail(T) = Tail(S)
  BY <1>1, AddFacts
<1> HIDE DEF T
<1>3. CASE PackageShape(h, S, r, p)
  <2>1. Reach(h, r, r)
    BY DEF Reach
  <2>2. 2 \in 2..Len(S)
    BY <1>1
  <2> QED BY <1>2, <1>3, <2>1, <2>2 DEF BaseShape, PackageShape, PackageFrame, T
<1>4. CASE SubroutineShape(h, S, r, p)
  <2>1. PICK d \in 1..Len(h) : SubroutineFrame(h, S[1], r, d) /\ h[d].region = h[p].body
    BY <1>4 DEF SubroutineShape
  <2>2. r # d
    BY <2>1 DEF SubroutineFrame, PartKinds, DeclKinds
  <2>3. SubroutineFrame(h, T[1], r, d)
    BY <1>2, <2>1, <2>2 DEF SubroutineFrame
  <2> QED BY <1>2, <1>4, <2>1, <2>3 DEF BaseShape, SubroutineShape, T
<1> QED BY <1>3, <1>4 DEF BaseShape

\* Two or three frames.
LEMMA SmallStack ==
  ASSUME NEW k, k = 2 \/ k = 3
  PROVE  k > 1 /\ k > 0 /\ 1 \in 1..k /\ \A i \in 1..k : i = 1 \/ i \in 2..k
OBVIOUS

\* Where a declaration is allowed.
LEMMA BaseFacts ==
  ASSUME NEW S, NEW r, BaseShape(ast, S, r, package), NodesInv
  PROVE  /\ r \in 1..Len(ast) /\ Len(S) \in {2, 3} /\ S[1].kind \in {"PACKAGE_SCOPE", "SUBROUTINE_SCOPE"}
         /\ Kind(r) = "Package" => package = r /\ ast[r].body = 0
         /\ Kind(r) = "Body" => PackageShape(ast, S, r, package) /\ ast[package].body = r
         /\ Kind(r) = "PrivatePart" => PackageShape(ast, S, r, package)
<1>1. CASE PackageShape(ast, S, r, package)
  <2>1. PartOf(ast, package, r)
    BY <1>1 DEF PackageShape
  <2> QED BY <1>1, <2>1 DEF PackageShape, PackageFrame, PartOf, NodesInv, PackagesWhole, Kind
<1>2. CASE SubroutineShape(ast, S, r, package)
  BY <1>2 DEF SubroutineShape, SubroutineFrame, DeclKinds, Kind
<1> QED BY <1>1, <1>2 DEF BaseShape

\* One of the actions declares something in region r, whose frames are S.
LEMMA PlaceStep ==
  ASSUME Inv, NEW S \in Seq(Frame), FramesHold(ast, S), NEW r, BaseShape(ast, S, r, package),
         Kind(r) \in PartKinds, Len(scope) > 1,
         NEW D \in SUBSET Nat, scope' = AddToFrame(S, D) \/ (scope' = S /\ D = {}),
         Well(ast', Len(ast')), Stays(ast, ast', r), DefinitionsAgree(ast'),
         region' = r, package' = package,
         \A x \in D : /\ x \in 1..Len(ast') /\ ast'[x].kind # "Param"
                      /\ ast'[x].kind \in DeclKinds => ast'[x].region = r,
         StencilOK(stencil'), stencil'.of # "idle" => pending' = 0,
         pending' # 0 => /\ pending' = Len(ast') /\ ast'[Len(ast')].kind \in DeclKinds
                         /\ ast'[Len(ast')].region = r /\ Kind(r) = "Body",
         "reset" \notin failed' => DefinitionsPointBack(ast'),
         errors' \in Nat, errors' = 0 => errors = 0 /\ DefinitionsHaveBodies(ast', pending')
  PROVE  Inv'
<1>1. /\ Well(ast, Len(ast)) /\ PackagesWhole(ast) /\ DefinitionsAgree(ast) /\ NodesInv
  BY DEF Inv, NodesInv
<1>2. ast' \in Heap /\ ast \in Heap
  BY <1>1 DEF Well
<1>3. /\ r \in 1..Len(ast) /\ Len(S) \in {2, 3}
      /\ Kind(r) = "Package" => package = r /\ ast[r].body = 0
  BY <1>1, BaseFacts
<1>4. r # 0 /\ r \in Nat /\ Len(S) > 1 /\ Len(S) > 0
  <2>1. Len(ast) \in Nat
    BY <1>2 DEF Heap
  <2>2. r # 0 /\ r \in Nat
    BY <1>3, <2>1
  <2>3. Len(S) = 2 \/ Len(S) = 3
    BY <1>3, Zenon
  <2>4. Len(S) > 1 /\ Len(S) > 0
    BY <2>3, SmallStack, Zenon
  <2> QED BY <2>2, <2>4
<1>5. BaseShape(ast', S, r, package)
  BY <1>1, <1>2, BaseShapeKept
<1>6. ast'[r].kind = ast[r].kind
  BY <1>3 DEF Stays
<1>7. /\ scope' \in Seq(Frame) /\ Len(scope') = Len(S)
      /\ BaseShape(ast', scope', r, package) /\ FramesHold(ast', scope')
  <2>1. FramesHold(ast', S)
    <3>1. Len(ast) \in Nat /\ Len(ast') \in Nat /\ Len(ast) =< Len(ast')
      BY <1>2 DEF Heap, Stays
    <3> QED BY <3>1 DEF FramesHold
  <2>2. CASE scope' = S
    BY <1>5, <2>1, <2>2
  <2>3. CASE scope' = AddToFrame(S, D)
    <3>1. /\ scope' \in Seq(Frame) /\ Len(scope') = Len(S)
          /\ scope'[1].decls = S[1].decls \cup D
          /\ \A i \in 2..Len(S) : scope'[i] = S[i]
      BY <1>4, <2>3, AddFacts
    <3>2. BaseShape(ast', scope', r, package)
      BY <1>4, <1>5, <1>6, <2>3, BaseShapeAdd DEF Kind
    <3>3. Len(S) = 2 \/ Len(S) = 3
      BY <1>3, Zenon
    <3>4. 1 \in 1..Len(S) /\ \A i \in 1..Len(S) : i = 1 \/ i \in 2..Len(S)
      BY <3>3, SmallStack, Zenon
    <3>5. FramesHold(ast', scope')
      BY <2>1, <3>1, <3>4 DEF FramesHold
    <3> QED BY <3>1, <3>2, <3>5
  <2> QED BY <2>2, <2>3
<1>8. PackagesWhole(ast')
  BY <1>1, <1>2, PackagesWholeKept
<1>9. PackagesComplete(ast, TRUE, package) => PackagesComplete(ast', TRUE, package)
  BY <1>1, <1>2, <1>3, PackagesCompleteKept DEF Kind
<1>10. NodesInv'
  <2>1. RoutinesInParts(ast')
    BY <1>1, <1>2, <1>3, <1>4, RoutinesKept DEF NodesInv, Kind
  <2> QED BY <1>8, <2>1 DEF NodesInv
<1>11. ShapeInv'
  <2>1. Kind(region)' \in PartKinds
    BY <1>6 DEF Kind
  <2>2. package \in Nat
    BY DEF Inv, ShapeInv
  <2>3. StencilPlace'
    BY <1>7, <2>1 DEF StencilPlace
  <2>4. PendingPlace' /\ pending' \in Nat
    <3>1. CASE pending' = 0
      BY <3>1 DEF PendingPlace
    <3>2. CASE pending' # 0
      <4>1. /\ pending' = Len(ast') /\ Kind(pending)' \in DeclKinds
            /\ ast'[pending'].region = region' /\ stencil'.of = "idle"
        BY <3>2 DEF Kind
      <4>2. Kind(r) = "Body" /\ Kind(r)' = "Body"
        BY <1>6, <3>2 DEF Kind
      <4>3. PackageShape(ast', scope', r, package) /\ ast'[package].body = r
        <5>1. ~SubroutineShape(ast', scope', r, package)
          BY <1>6, <4>2 DEF SubroutineShape, SubroutineFrame, DeclKinds, Kind
        <5>2. PackageShape(ast', scope', r, package)
          BY <1>7, <5>1 DEF BaseShape
        <5>3. PartOf(ast', package, r)
          BY <5>2 DEF PackageShape
        <5>4. ast'[r].kind = "Body"
          BY <1>6, <4>2 DEF Kind
        <5> QED BY <1>8, <5>2, <5>3, <5>4 DEF PartOf, PackagesWhole
      <4>4. Len(ast') \in Nat
        BY <1>2 DEF Heap
      <4> QED BY <1>4, <4>1, <4>3, <4>4 DEF PendingPlace
    <3> QED BY <3>1, <3>2
  <2> QED BY <1>4, <1>7, <2>1, <2>2, <2>3, <2>4 DEF ShapeInv, Shape
<1>12. CleanInv'
  <2>1. (Len(scope) > 1) = TRUE /\ (Len(scope') > 1) = TRUE
    BY <1>4, <1>7
  <2>2. errors' = 0 => PackagesComplete(ast', TRUE, package)
    BY <1>9, <2>1 DEF CleanInv, Inv
  <2> QED BY <2>1, <2>2 DEF CleanInv
<1> QED BY <1>10, <1>11, <1>12 DEF Inv

\* The same, when no definition begins.
LEMMA DeclareStep ==
  ASSUME Inv, NEW S \in Seq(Frame), FramesHold(ast, S), NEW r, BaseShape(ast, S, r, package),
         Kind(r) \in PartKinds, Len(scope) > 1,
         NEW D \in SUBSET Nat, scope' = AddToFrame(S, D) \/ (scope' = S /\ D = {}),
         Well(ast', Len(ast')), Keeps(ast, ast', r), region' = r, package' = package,
         \A x \in D : /\ x \in 1..Len(ast') /\ ast'[x].kind # "Param"
                      /\ ast'[x].kind \in DeclKinds => ast'[x].region = r,
         pending = 0, pending' = 0, StencilOK(stencil'),
         errors' \in Nat, errors' = 0 => errors = 0, failed' = failed
  PROVE  Inv'
<1>1. Well(ast, Len(ast)) /\ DefinitionsAgree(ast) /\ ast' \in Heap
  BY DEF Inv, NodesInv, Well
<1>2. /\ DefinitionsAgree(ast')
      /\ DefinitionsPointBack(ast) => DefinitionsPointBack(ast')
      /\ \A x : DefinitionsHaveBodies(ast, x) => DefinitionsHaveBodies(ast', x)
  BY <1>1, DefinitionsKept
<1>3. Stays(ast, ast', r)
  BY DEF Keeps
<1>4. "reset" \notin failed' => DefinitionsPointBack(ast')
  BY <1>2 DEF Inv, CleanInv
<1>5. errors' = 0 => errors = 0 /\ DefinitionsHaveBodies(ast', pending')
  BY <1>2 DEF Inv, CleanInv
<1>6. pending' = 0 /\ (stencil'.of # "idle" => pending' = 0)
  OBVIOUS
<1> QED BY <1>2, <1>3, <1>4, <1>5, <1>6, PlaceStep
-----------------------------------------------------------------------------
(* Type declarations *)

\* Where the grammar admits a declaration.
LEMMA AllowedFacts ==
  ASSUME Inv, TypesAllowed
  PROVE  /\ BaseShape(ast, scope, region, package) /\ Kind(region) \in PartKinds
         /\ Len(scope) > 1 /\ FramesHold(ast, scope) /\ scope \in Seq(Frame)
         /\ region \in 1..Len(ast) /\ ast \in Heap /\ Len(ast) \in Nat
<1>1. /\ scope \in Seq(Frame) /\ FramesHold(ast, scope) /\ Shape(ast, scope, region, package)
      /\ NodesInv /\ Well(ast, Len(ast))
  BY DEF Inv, ShapeInv, NodesInv
<1>2. Len(scope) > 1 /\ Head(scope).kind # "RECORD_SCOPE" /\ Kind(region) \in PartKinds
  BY DEF TypesAllowed, PartKinds
<1>3. Head(scope) = scope[1]
  BY <1>1, <1>2, TailFacts
<1>4. BaseShape(ast, scope, region, package)
  <2>0. Len(scope) # 1
    <3>1. Len(scope) > 1
      BY <1>2, Zenon
    <3>2. \A k : k > 1 => k # 1
      OBVIOUS
    <3> QED BY <3>1, <3>2, Zenon
  <2>1. ~TopShape(ast, scope, region)
    BY <2>0, Zenon DEF TopShape
  <2>2. ~RecordShape(ast, scope, region, package)
    BY <1>2, <1>3, Zenon DEF RecordShape
  <2> QED BY <1>1, <2>1, <2>2 DEF Shape
<1>5. region \in 1..Len(ast)
  BY <1>1, <1>4, BaseFacts
<1>6. ast \in Heap /\ Len(ast) \in Nat
  BY <1>1 DEF Well, Heap
<1> QED BY <1>1, <1>2, <1>4, <1>5, <1>6

\* A new node for the current region is made behind all others.
LEMMA MakeFacts ==
  ASSUME NEW h, Well(h, Len(h)), NEW r \in 0..Len(h), NEW x, Fresh(x, r), x.decls = <<>>, NEW q,
         x.kind \in DeclKinds => r = q
  PROVE  /\ Well(Append(h, x), Len(h) + 1) /\ Keeps(h, Append(h, x), q)
         /\ Len(Append(h, x)) = Len(h) + 1 /\ Append(h, x)[Len(h) + 1] = x
         /\ Len(h) + 1 \in 1..(Len(h) + 1) /\ Append(h, x) \in Heap /\ Len(h) \in Nat
         /\ \A i \in 1..Len(h) : Append(h, x)[i] = h[i]
<1>1. h \in Heap /\ Len(h) \in Nat
  BY DEF Well, Heap
<1>2. Well(h, Len(h) + 1)
  <2>1. /\ \A i \in 1..Len(h) : i \in 1..(Len(h) + 1)
        /\ \A i \in 1..Len(h) : h[i].completion =< Len(h) + 1
    <3>1. \A i \in 1..Len(h) : h[i].completion \in Nat /\ h[i].completion =< Len(h)
      <4>1. \A i \in 1..Len(h) : h[i] \in NodeType
        BY <1>1 DEF Heap
      <4> QED BY <4>1 DEF Well, NodeType
    <3> QED BY <1>1, <3>1
  <2>2. Len(h) =< Len(h) + 1 /\ Len(h) + 1 \in Nat
    BY <1>1
  <2> QED BY <2>1, <2>2 DEF Well
<1>3. \A i \in 1..Len(h) : \A k \in 1..Len(h[i].decls) : h[i].decls[k] = Len(h) + 1 => r = i
  <2>1. \A i \in 1..Len(h) : \A k \in 1..Len(h[i].decls) : h[i].decls[k] \in 1..Len(h)
    BY DEF Well
  <2>2. Len(h) + 1 \notin 1..Len(h)
    BY <1>1
  <2> QED BY <2>1, <2>2
<1>4. \A k \in 1..Len(x.decls) : x.decls[k] \in (Len(h) + 2)..(Len(h) + 1)
  OBVIOUS
<1>5. Len(h) < Len(h) + 1 /\ Len(h) + 1 \in 1..(Len(h) + 1)
  BY <1>1
<1>6. /\ Well(Append(h, x), Len(h) + 1) /\ Keeps(h, Append(h, x), q)
      /\ Len(Append(h, x)) = Len(h) + 1 /\ Append(h, x)[Len(h) + 1] = x
      /\ \A i \in 1..Len(h) : Append(h, x)[i] = h[i]
  BY <1>2, <1>3, <1>4, <1>5, MakeNode
<1>7. Append(h, x) \in Heap
  BY <1>6 DEF Well
<1> QED BY <1>1, <1>5, <1>6, <1>7

\* A type declaration without literals.
LEMMA DeclareTypeInv ==
  ASSUME Inv, TypesAllowed, pending = 0, NEW x, Fresh(x, region), x.decls = <<>>,
         x.kind \notin DeclKinds, DeclareType(x)
  PROVE  Inv'
<1>1. /\ BaseShape(ast, scope, region, package) /\ Kind(region) \in PartKinds
      /\ Len(scope) > 1 /\ Len(scope) > 0 /\ FramesHold(ast, scope) /\ scope \in Seq(Frame)
      /\ region \in 1..Len(ast) /\ region \in 0..Len(ast) /\ ast \in Heap /\ Len(ast) \in Nat
  <2>1. /\ BaseShape(ast, scope, region, package) /\ Kind(region) \in PartKinds
        /\ Len(scope) > 1 /\ FramesHold(ast, scope) /\ scope \in Seq(Frame)
        /\ region \in 1..Len(ast) /\ ast \in Heap /\ Len(ast) \in Nat
    BY AllowedFacts
  <2>2. region \in 0..Len(ast)
    BY <2>1
  <2>3. Len(scope) > 0
    BY <2>1
  <2> QED BY <2>1, <2>2, <2>3
<1>2. Well(ast, Len(ast)) /\ errors \in Nat /\ StencilOK(stencil)
  BY DEF Inv, NodesInv, ShapeInv
<1> DEFINE h == Append(ast, x)
           d == NextNode
           t == introduceTypeDeclaration(h, scope, region, d)
<1>3. /\ ast' = t.ast /\ scope' = t.scope /\ errors' = Reported(IF t.ok THEN 0 ELSE 1)
      /\ UNCHANGED <<region, package, stencil, pending, failed>>
  BY DEF DeclareType
<1>4. d = Len(ast) + 1
  BY DEF NextNode
<1> HIDE DEF d
<1>5. /\ Well(h, d) /\ Keeps(ast, h, region) /\ Len(h) = d /\ h[d] = x /\ d \in 1..d /\ h \in Heap
      /\ \A i \in 1..Len(ast) : h[i] = ast[i]
  BY <1>1, <1>2, <1>4, MakeFacts
<1> HIDE DEF h
<1>6. /\ region \in 1..Len(h) /\ d \in 1..Len(h) /\ h[d].region = region
      /\ \A y \in scope[1].decls : y \in 1..Len(h) /\ y \in 1..Len(ast)
  <2>1. 1 \in 1..Len(scope)
    BY <1>1
  <2>2. \A y \in scope[1].decls : y \in 1..Len(ast)
    BY <1>1, <2>1 DEF FramesHold
  <2>3. \A y \in 1..Len(ast) : y \in 1..Len(h)
    BY <1>1, <1>4, <1>5
  <2> QED BY <1>1, <1>5, <2>2, <2>3 DEF Fresh
<1>7. /\ Well(t.ast, d) /\ Keeps(h, t.ast, region) /\ Len(t.ast) = Len(h)
      /\ t.scope = scope \/ t.scope = AddToFrame(scope, {d})
      /\ \A i \in 1..Len(h) : i \notin scope[1].decls =>
           t.ast[i].completion = h[i].completion /\ t.ast[i].forward = h[i].forward
  <2>1. \A y \in scope[1].decls : y \in 1..Len(h)
    BY <1>6
  <2>2. /\ Well(h, d) /\ scope \in Seq(Frame) /\ Len(scope) > 0 /\ region \in 1..Len(h)
        /\ d \in 1..Len(h) /\ h[d].region = region
    BY <1>1, <1>5, <1>6
  <2>3. Introduces(h, d, scope, region, d, t)
    BY <2>1, <2>2, IntroduceFacts
  <2> QED BY <2>3 DEF Introduces
<1> HIDE DEF t
<1>8. /\ \A i \in (Len(ast) + 1)..Len(h) : i \notin scope[1].decls /\ i \in 1..Len(h)
      /\ t.ast \in Heap
  <2>1. \A i \in (Len(ast) + 1)..Len(h) : i \notin 1..Len(ast) /\ i \in 1..Len(h)
    BY <1>1, <1>4, <1>5
  <2> QED BY <1>6, <1>7, <2>1 DEF Well
<1>9. Keeps(ast, t.ast, region)
  BY <1>1, <1>5, <1>7, <1>8, KeepsTransitive
<1>10. t.ast[d].kind = x.kind /\ d \in Nat
  <2>1. t.ast[d].kind = h[d].kind
    BY <1>6, <1>7 DEF Keeps, Stays
  <2> QED BY <1>1, <1>4, <1>5, <2>1
<1>11. errors' \in Nat /\ (errors' = 0 => errors = 0)
  <2>1. (IF t.ok THEN 0 ELSE 1) \in Nat
    OBVIOUS
  <2> QED BY <1>2, <1>3, <2>1, ReportedFacts
<1>12. Well(ast', Len(ast')) /\ Keeps(ast, ast', region)
  BY <1>3, <1>5, <1>7, <1>9
<1> DEFINE D == IF scope' = scope THEN {} ELSE {d}
<1>13. /\ D \in SUBSET Nat /\ (scope' = AddToFrame(scope, D) \/ (scope' = scope /\ D = {}))
       /\ \A y \in D : /\ y \in 1..Len(ast') /\ ast'[y].kind # "Param"
                       /\ ast'[y].kind \in DeclKinds => ast'[y].region = region
  BY <1>3, <1>5, <1>6, <1>7, <1>10 DEF Fresh
<1> HIDE DEF D
<1> QED BY <1>1, <1>2, <1>3, <1>11, <1>12, <1>13, DeclareStep

\* Only the stencil changes, and perhaps something is reported.
LEMMA StencilStep ==
  ASSUME Inv, UNCHANGED <<ast, scope, region, package, pending, failed>>, StencilOK(stencil'),
         stencil'.of # "idle" =>
           BaseShape(ast, scope, region, package) /\ Kind(region) \in PartKinds /\ pending = 0,
         errors' \in Nat, errors' = 0 => errors = 0
  PROVE  Inv'
<1>1. NodesInv'
  BY DEF Inv, NodesInv
<1>2. CleanInv'
  BY DEF Inv, CleanInv
<1>3. Kind(region)' = Kind(region) /\ Kind(pending)' = Kind(pending)
  BY DEF Kind
<1>4. ShapeInv'
  <2>1. StencilPlace'
    BY <1>3 DEF StencilPlace
  <2>2. PendingPlace'
    BY <1>3 DEF Inv, ShapeInv, PendingPlace
  <2> QED BY <2>1, <2>2 DEF Inv, ShapeInv
<1> QED BY <1>1, <1>2, <1>4 DEF Inv

LEMMA RefuseInv ==
  ASSUME Inv, Refuse
  PROVE  Inv'
<1>1. /\ UNCHANGED <<ast, scope, region, package, pending, failed>> /\ stencil' = stencil
      /\ errors' = Reported(1)
  BY DEF Refuse
<1>2. errors \in Nat /\ StencilOK(stencil) /\ StencilPlace
  BY DEF Inv, ShapeInv
<1>3. errors' \in Nat /\ (errors' = 0 => errors = 0)
  BY <1>1, <1>2, ReportedFacts
<1> QED BY <1>1, <1>2, <1>3, StencilStep DEF StencilPlace

\* A new declaration is begun when nothing else is.
LEMMA MakingFacts ==
  ASSUME Inv, NEW f, Making(f)
  PROVE  pending = 0 /\ stencil = IdleStencil
<1>1. pending = 0 /\ stencil.of = "idle" /\ StencilOK(stencil)
  BY DEF Making, Inv, ShapeInv
<1> QED BY <1>1 DEF StencilOK, DeclKinds

\* The constructors build fresh nodes.
LEMMA BlankNode == Blank \in NodeType
<1>1. <<>> \in Seq(Nat) /\ <<>> \in Seq(Formal)
  OBVIOUS
<1>2. NoSig \in [params: Seq(Formal), ret: Nat]
  BY <1>1 DEF NoSig
<1>3. "" \in NodeName /\ "none" \in NodeKind
  BY DEF NodeName, NodeKind
<1> QED BY <1>1, <1>2, <1>3 DEF Blank, NodeType

LEMMA NodeFresh ==
  ASSUME Inv, NEW k \in NodeKind, k \notin {"Param", "Package", "Body"}, NEW n \in NodeName
  PROVE  /\ Fresh(Node(k, n), region) /\ Node(k, n).decls = <<>> /\ Node(k, n).kind = k
         /\ Node(k, n) \in NodeType
<1>1. region \in Nat /\ Blank \in NodeType
  BY BlankNode DEF Inv, ShapeInv
<1> DEFINE x == Node(k, n)
<1>2. /\ x \in NodeType /\ x.kind = k /\ x.region = region /\ x.decls = Blank.decls
      /\ x.completion = Blank.completion /\ x.forward = Blank.forward
  BY <1>1 DEF Node, NodeType
<1>3. Blank.decls = <<>> /\ Blank.completion = 0 /\ Blank.forward = 0
  BY DEF Blank
<1> QED BY <1>2, <1>3 DEF Fresh

\* Declarations that are not subroutines, formals or packages.
PlainKinds == TypeKinds \cup {"Component", "Object"}

LEMMA PlainFresh ==
  ASSUME Inv, NEW k \in PlainKinds, NEW n \in Name
  PROVE  /\ Fresh(Node(k, n), region) /\ Node(k, n).decls = <<>> /\ Node(k, n).kind = k
         /\ k \notin DeclKinds /\ Node(k, n) \in NodeType
<1>1. n \in NodeName /\ k \in NodeKind
  BY DEF NodeName, NodeKind, PlainKinds
<1>2. k \notin {"Param", "Package", "Body"} /\ k \notin DeclKinds
  BY DEF PlainKinds, TypeKinds, DeclKinds
<1> QED BY <1>1, <1>2, NodeFresh

\* What the source text can name.
LEMMA VisibleFacts ==
  ASSUME Inv, NEW t \in VisibleTypes
  PROVE  /\ t \in 1..Len(ast) /\ t \in Nat /\ ast[t] \in NodeType /\ Kind(t) \in TypeKinds
         /\ RootOf(ast, t) \in Nat /\ ensureCompleteTypeDecl(t) \in 0..Len(ast)
         /\ ensureCompleteTypeDecl(t) \in Nat
<1>1. /\ scope \in Seq(Frame) /\ FramesHold(ast, scope) /\ Well(ast, Len(ast))
  BY DEF Inv, ShapeInv, NodesInv
<1>2. t \in UNION {f.decls : f \in Range(scope)} /\ Kind(t) \in TypeKinds
  BY DEF VisibleTypes
<1>3. PICK i \in DOMAIN scope : t \in scope[i].decls
  BY <1>2 DEF Range
<1>4. i \in 1..Len(scope)
  BY <1>1, <1>3
<1>5. t \in 1..Len(ast)
  BY <1>1, <1>3, <1>4 DEF FramesHold
<1>6. ast[t] \in NodeType /\ Len(ast) \in Nat
  BY <1>1, <1>5 DEF Well, Heap
<1>7. ast[t].type \in Nat /\ ast[t].completion \in Nat /\ ast[t].completion \in 0..Len(ast)
  <2>1. ast[t].type \in Nat /\ ast[t].completion \in Nat
    BY <1>6 DEF NodeType
  <2>2. ast[t].completion =< Len(ast)
    BY <1>1, <1>5 DEF Well
  <2> QED BY <1>6, <2>1, <2>2
<1>8. t \in Nat /\ t \in 0..Len(ast) /\ 0 \in 0..Len(ast)
  BY <1>5, <1>6
<1> QED BY <1>2, <1>5, <1>6, <1>7, <1>8 DEF RootOf, ensureCompleteTypeDecl

LEMMA acceptIncompleteTypeDeclInv ==
  ASSUME Inv, NEW n \in Name, acceptIncompleteTypeDecl(n)
  PROVE  Inv'
<1>1. TypesAllowed /\ pending = 0 /\ DeclareType(IncompleteNode(n))
  BY MakingFacts DEF acceptIncompleteTypeDecl
<1>2. "Incomplete" \in PlainKinds
  BY DEF PlainKinds, TypeKinds
<1>3. Fresh(IncompleteNode(n), region) /\ IncompleteNode(n).decls = <<>>
      /\ IncompleteNode(n).kind \notin DeclKinds
  BY <1>2, PlainFresh DEF IncompleteNode
<1> QED BY <1>1, <1>3, DeclareTypeInv

LEMMA acceptPrivateTypeDeclInv ==
  ASSUME Inv, NEW n \in Name, NEW limited \in BOOLEAN, acceptPrivateTypeDecl(n, limited)
  PROVE  Inv'
<1>1. TypesAllowed /\ pending = 0 /\ (Refuse \/ DeclareType(PrivateNode(n, limited)))
  BY MakingFacts DEF acceptPrivateTypeDecl
<1> DEFINE x == Node("Private", n)
           y == [x EXCEPT !.limited = limited]
<1>2. /\ Fresh(x, region) /\ x.decls = <<>> /\ x.kind = "Private" /\ x \in NodeType
      /\ "Private" \notin DeclKinds
  <2>1. "Private" \in PlainKinds
    BY DEF PlainKinds, TypeKinds
  <2> QED BY <2>1, PlainFresh
<1> HIDE DEF x
<1>3. /\ y \in NodeType /\ y.region = x.region /\ y.decls = x.decls /\ y.kind = x.kind
      /\ y.completion = x.completion /\ y.forward = x.forward
  BY <1>2 DEF NodeType
<1>4. Fresh(y, region) /\ y.decls = <<>> /\ y.kind \notin DeclKinds
  BY <1>2, <1>3 DEF Fresh
<1>5. PrivateNode(n, limited) = y
  BY DEF PrivateNode, x
<1> QED BY <1>1, <1>4, <1>5, DeclareTypeInv, RefuseInv

LEMMA acceptIntegerTypeDeclInv ==
  ASSUME Inv, NEW n \in Name, NEW ok \in BOOLEAN, acceptIntegerTypeDecl(n, ok)
  PROVE  Inv'
<1>1. TypesAllowed /\ pending = 0 /\ (Refuse \/ DeclareType(IntegerNode(n)))
  BY MakingFacts DEF acceptIntegerTypeDecl
<1>2. "Integer" \in PlainKinds
  BY DEF PlainKinds, TypeKinds
<1>3. Fresh(IntegerNode(n), region) /\ IntegerNode(n).decls = <<>>
      /\ IntegerNode(n).kind \notin DeclKinds
  BY <1>2, PlainFresh DEF IntegerNode
<1> QED BY <1>1, <1>3, DeclareTypeInv, RefuseInv

\* A declaration built on a type.
Derived(k, n, t) == [Node(k, n) EXCEPT !.type = t]

LEMMA DerivedFresh ==
  ASSUME Inv, NEW k \in PlainKinds, NEW n \in Name, NEW t \in Nat
  PROVE  /\ Fresh(Derived(k, n, t), region) /\ Derived(k, n, t).decls = <<>>
         /\ Derived(k, n, t).kind = k /\ Derived(k, n, t) \in NodeType /\ k \notin DeclKinds
<1> DEFINE x == Node(k, n)
           y == [x EXCEPT !.type = t]
<1>1. /\ Fresh(x, region) /\ x.decls = <<>> /\ x.kind = k /\ x \in NodeType
      /\ k \notin DeclKinds
  BY PlainFresh
<1> HIDE DEF x
<1>2. /\ y \in NodeType /\ y.region = x.region /\ y.decls = x.decls /\ y.kind = x.kind
      /\ y.completion = x.completion /\ y.forward = x.forward
  BY <1>1 DEF NodeType
<1>3. Derived(k, n, t) = y
  BY DEF Derived, x
<1> QED BY <1>1, <1>2, <1>3 DEF Fresh

LEMMA acceptSubtypeDeclInv ==
  ASSUME Inv, NEW n \in Name, NEW t \in VisibleTypes, NEW ranged \in BOOLEAN,
         acceptSubtypeDecl(n, t, ranged)
  PROVE  Inv'
<1>1. /\ TypesAllowed /\ pending = 0
      /\ Refuse \/ (DeclareType(SubtypeNode(n, t)) /\ Kind(t) \in {"Integer", "Enumeration", "Access"})
  BY MakingFacts DEF acceptSubtypeDecl
<1>2. ASSUME DeclareType(SubtypeNode(n, t)), Kind(t) \in {"Integer", "Enumeration", "Access"}
      PROVE  Inv'
  <2> DEFINE x == Node(Kind(t), n)
             y == [x EXCEPT !.subtype = TRUE, !.type = RootOf(ast, t)]
  <2>1. /\ Fresh(x, region) /\ x.decls = <<>> /\ x.kind = Kind(t) /\ x \in NodeType
        /\ Kind(t) \notin DeclKinds
    <3>1. Kind(t) \in PlainKinds
      BY <1>2 DEF PlainKinds, TypeKinds
    <3> QED BY <3>1, PlainFresh
  <2> HIDE DEF x
  <2>2. RootOf(ast, t) \in Nat
    BY VisibleFacts
  <2>3. /\ y \in NodeType /\ y.region = x.region /\ y.decls = x.decls /\ y.kind = x.kind
        /\ y.completion = x.completion /\ y.forward = x.forward
    BY <2>1, <2>2 DEF NodeType
  <2>4. Fresh(y, region) /\ y.decls = <<>> /\ y.kind \notin DeclKinds
    BY <1>2, <2>1, <2>3 DEF Fresh
  <2>5. SubtypeNode(n, t) = y
    BY DEF SubtypeNode, x
  <2> QED BY <1>1, <1>2, <2>4, <2>5, DeclareTypeInv
<1> QED BY <1>1, <1>2, RefuseInv

LEMMA acceptArrayDeclInv ==
  ASSUME Inv, NEW n \in Name, NEW t \in VisibleTypes, NEW cs, acceptArrayDecl(n, t, cs)
  PROVE  Inv'
<1> DEFINE c == ensureCompleteTypeDecl(t)
<1>1. /\ TypesAllowed /\ pending = 0
      /\ Refuse \/ DeclareType(ArrayNode(n, c, cs = {TRUE}))
  BY MakingFacts DEF acceptArrayDecl
<1>2. c \in Nat
  BY VisibleFacts
<1> HIDE DEF c
<1> DEFINE x == Node("Array", n)
           y == [x EXCEPT !.type = c, !.indefinite = ~(cs = {TRUE})]
<1>3. /\ Fresh(x, region) /\ x.decls = <<>> /\ x.kind = "Array" /\ x \in NodeType
      /\ "Array" \notin DeclKinds
  <2>1. "Array" \in PlainKinds
    BY DEF PlainKinds, TypeKinds
  <2> QED BY <2>1, PlainFresh
<1> HIDE DEF x
<1>4. /\ y \in NodeType /\ y.region = x.region /\ y.decls = x.decls /\ y.kind = x.kind
      /\ y.completion = x.completion /\ y.forward = x.forward
  BY <1>2, <1>3 DEF NodeType
<1>5. Fresh(y, region) /\ y.decls = <<>> /\ y.kind \notin DeclKinds
  BY <1>3, <1>4 DEF Fresh
<1>6. ArrayNode(n, c, cs = {TRUE}) = y
  BY DEF ArrayNode, x
<1> QED BY <1>1, <1>5, <1>6, DeclareTypeInv, RefuseInv

LEMMA acceptAccessTypeDeclInv ==
  ASSUME Inv, NEW n \in Name, NEW t \in VisibleTypes, acceptAccessTypeDecl(n, t)
  PROVE  Inv'
<1>1. TypesAllowed /\ pending = 0 /\ DeclareType(AccessNode(n, t))
  BY MakingFacts DEF acceptAccessTypeDecl
<1>2. t \in Nat
  BY VisibleFacts
<1>3. "Access" \in PlainKinds
  BY DEF PlainKinds, TypeKinds
<1>4. Fresh(AccessNode(n, t), region) /\ AccessNode(n, t).decls = <<>>
      /\ AccessNode(n, t).kind \notin DeclKinds
  BY <1>2, <1>3, DerivedFresh DEF AccessNode, Derived
<1> QED BY <1>1, <1>4, DeclareTypeInv
-----------------------------------------------------------------------------
(* Filling a stencil *)

EnumerationStencil == [of: {"Enumeration"}, name: Name, valid: BOOLEAN, elems: Seq(Name), ret: Nat]
RoutineStencil == [of: DeclKinds, name: Name, valid: BOOLEAN, elems: Seq(Formal), ret: Nat]

\* Which stencil is in use.
LEMMA StencilCases ==
  ASSUME Inv
  PROVE  /\ stencil = IdleStencil \/ stencil \in EnumerationStencil \/ stencil \in RoutineStencil
         /\ stencil.of = "Enumeration" => stencil \in EnumerationStencil
         /\ stencil.of \in DeclKinds => stencil \in RoutineStencil
         /\ stencil.of # "idle" =>
              BaseShape(ast, scope, region, package) /\ Kind(region) \in PartKinds /\ pending = 0
         /\ errors \in Nat
<1>1. stencil = IdleStencil \/ stencil \in EnumerationStencil \/ stencil \in RoutineStencil
  BY DEF Inv, ShapeInv, StencilOK, EnumerationStencil, RoutineStencil
<1>2. /\ IdleStencil.of = "idle"
      /\ \A s \in EnumerationStencil : s.of = "Enumeration"
      /\ \A s \in RoutineStencil : s.of \in DeclKinds
  BY DEF IdleStencil, EnumerationStencil, RoutineStencil
<1>3. "idle" \notin DeclKinds /\ "Enumeration" \notin DeclKinds
  BY DEF DeclKinds
<1>4. StencilPlace /\ errors \in Nat
  BY DEF Inv, ShapeInv
<1> QED BY <1>1, <1>2, <1>3, <1>4 DEF StencilPlace

LEMMA beginEnumerationInv ==
  ASSUME Inv, NEW n \in Name, beginEnumeration(n)
  PROVE  Inv'
<1>1. /\ TypesAllowed /\ pending = 0 /\ stencil = IdleStencil
      /\ stencil' = [stencil EXCEPT !.of = "Enumeration", !.name = n]
      /\ UNCHANGED <<ast, scope, region, package, pending, errors, failed>>
  BY MakingFacts DEF beginEnumeration
<1>2. /\ <<>> \in Seq(Name)
      /\ stencil' = [of |-> "Enumeration", name |-> n, valid |-> TRUE, elems |-> <<>>, ret |-> 0]
  <2>1. <<>> \in Seq(Name)
    OBVIOUS
  <2>2. stencil' = [of |-> "Enumeration", name |-> n, valid |-> TRUE, elems |-> <<>>, ret |-> 0]
    BY <1>1, Zenon DEF IdleStencil
  <2> QED BY <2>1, <2>2
<1>3. StencilOK(stencil')
  BY <1>2 DEF StencilOK
<1>4. BaseShape(ast, scope, region, package) /\ Kind(region) \in PartKinds
  BY <1>1, AllowedFacts
<1>5. errors' \in Nat /\ (errors' = 0 => errors = 0)
  BY <1>1, StencilCases
<1> QED BY <1>1, <1>3, <1>4, <1>5, StencilStep

LEMMA acceptEnumerationLiteralInv ==
  ASSUME Inv, NEW n \in Name, acceptEnumerationLiteral(n)
  PROVE  Inv'
<1>1. /\ stencil \in EnumerationStencil /\ errors \in Nat
      /\ BaseShape(ast, scope, region, package) /\ Kind(region) \in PartKinds /\ pending = 0
  BY StencilCases DEF acceptEnumerationLiteral
<1> DEFINE double == n \in Range(stencil.elems)
<1>2. /\ UNCHANGED <<ast, scope, region, package, pending, failed>>
      /\ \/ stencil' = [stencil EXCEPT !.valid = @ /\ ~double] /\ errors' = Reported(1)
         \/ stencil' = [stencil EXCEPT !.elems = Append(@, n)] /\ errors' = errors
  BY DEF acceptEnumerationLiteral
<1> HIDE DEF double
<1>3. stencil' \in EnumerationStencil
  <2>1. (stencil.valid /\ ~double) \in BOOLEAN
    OBVIOUS
  <2>2. stencil.elems \in Seq(Name)
    BY <1>1 DEF EnumerationStencil
  <2>3. Append(stencil.elems, n) \in Seq(Name)
    BY <2>2
  <2> QED BY <1>1, <1>2, <2>1, <2>3 DEF EnumerationStencil
<1>4. StencilOK(stencil')
  BY <1>3 DEF StencilOK, EnumerationStencil
<1>5. errors' \in Nat /\ (errors' = 0 => errors = 0)
  BY <1>1, <1>2, ReportedFacts
<1> QED BY <1>1, <1>2, <1>4, <1>5, StencilStep

LEMMA beginSubroutineDeclarationInv ==
  ASSUME Inv, NEW n \in Name, NEW k \in DeclKinds, beginSubroutineDeclaration(k, n)
  PROVE  Inv'
<1>1. /\ TypesAllowed /\ pending = 0 /\ stencil = IdleStencil
      /\ stencil' = [stencil EXCEPT !.of = k, !.name = n]
      /\ UNCHANGED <<ast, scope, region, package, pending, errors, failed>>
  BY MakingFacts DEF beginSubroutineDeclaration
<1>2. /\ <<>> \in Seq(Formal)
      /\ stencil' = [of |-> k, name |-> n, valid |-> TRUE, elems |-> <<>>, ret |-> 0]
  <2>1. <<>> \in Seq(Formal)
    OBVIOUS
  <2>2. stencil' = [of |-> k, name |-> n, valid |-> TRUE, elems |-> <<>>, ret |-> 0]
    BY <1>1, Zenon DEF IdleStencil
  <2> QED BY <2>1, <2>2
<1>3. StencilOK(stencil')
  BY <1>2 DEF StencilOK
<1>4. BaseShape(ast, scope, region, package) /\ Kind(region) \in PartKinds
  BY <1>1, AllowedFacts
<1>5. errors' \in Nat /\ (errors' = 0 => errors = 0)
  BY <1>1, StencilCases
<1> QED BY <1>1, <1>3, <1>4, <1>5, StencilStep

\* A further piece of a subroutine declaration.
LEMMA RoutineStencilStep ==
  ASSUME Inv, stencil.of \in DeclKinds, stencil' \in RoutineStencil,
         UNCHANGED <<ast, scope, region, package, pending, failed>>,
         errors' = errors \/ errors' = Reported(1)
  PROVE  Inv'
<1>1. /\ stencil.of # "idle" /\ errors \in Nat
      /\ BaseShape(ast, scope, region, package) /\ Kind(region) \in PartKinds /\ pending = 0
  BY StencilCases DEF DeclKinds
<1>2. StencilOK(stencil')
  BY DEF StencilOK, RoutineStencil
<1>3. errors' \in Nat /\ (errors' = 0 => errors = 0)
  BY <1>1, ReportedFacts
<1> QED BY <1>1, <1>2, <1>3, StencilStep

LEMMA acceptSubroutineParameterInv ==
  ASSUME Inv, NEW n \in Name, NEW t \in VisibleTypes, NEW m \in Mode,
         acceptSubroutineParameter(n, t, m)
  PROVE  Inv'
<1> DEFINE c == ensureCompleteTypeDecl(t)
           p == [name |-> n, type |-> c, mode |-> m]
<1>1. /\ stencil.of \in DeclKinds /\ UNCHANGED <<ast, scope, region, package, pending, failed>>
      /\ \/ stencil' = [stencil EXCEPT !.valid = FALSE] /\ errors' = Reported(1)
         \/ stencil' = [stencil EXCEPT !.elems = Append(@, p)] /\ errors' = errors
  BY DEF acceptSubroutineParameter, DeclKinds
<1>2. c \in Nat
  BY VisibleFacts
<1> HIDE DEF c
<1>3. p \in Formal
  BY <1>2 DEF Formal
<1> HIDE DEF p
<1>4. stencil \in RoutineStencil
  BY <1>1, StencilCases
<1>5. stencil' \in RoutineStencil
  <2>1. stencil.elems \in Seq(Formal)
    BY <1>4 DEF RoutineStencil
  <2>2. Append(stencil.elems, p) \in Seq(Formal)
    BY <1>3, <2>1
  <2> QED BY <1>1, <1>4, <2>2 DEF RoutineStencil
<1> QED BY <1>1, <1>5, RoutineStencilStep

LEMMA acceptFunctionReturnTypeInv ==
  ASSUME Inv, NEW t \in VisibleTypes \cup {0}, acceptFunctionReturnType(t)
  PROVE  Inv'
<1> DEFINE c == IF t = 0 THEN 0 ELSE ensureCompleteTypeDecl(t)
<1>1. /\ stencil.of \in DeclKinds /\ UNCHANGED <<ast, scope, region, package, pending, failed>>
      /\ \/ stencil' = [stencil EXCEPT !.valid = FALSE] /\ errors' = Reported(1)
         \/ stencil' = [stencil EXCEPT !.ret = c] /\ errors' = errors
  BY DEF acceptFunctionReturnType, DeclKinds
<1>2. c \in Nat
  <2>1. CASE t = 0
    BY <2>1
  <2>2. CASE t # 0
    <3>1. t \in VisibleTypes
      BY <2>2
    <3> QED BY <2>2, <3>1, VisibleFacts
  <2> QED BY <2>1, <2>2
<1> HIDE DEF c
<1>3. stencil \in RoutineStencil
  BY <1>1, StencilCases
<1>4. stencil' \in RoutineStencil
  BY <1>1, <1>2, <1>3 DEF RoutineStencil
<1> QED BY <1>1, <1>4, RoutineStencilStep
-----------------------------------------------------------------------------
(* Objects and records *)

\* Heap g is h with node x in region r, which lists it.
MadeIn(h, r, x, g) ==
  /\ Well(g, Len(g)) /\ Keeps(h, g, r) /\ Len(g) = Len(h) + 1 /\ g \in Heap
  /\ g[Len(h) + 1] = x /\ Len(h) + 1 \in 1..Len(g) /\ Len(h) + 1 \in Range(g[r].decls)

\* A declaration is made and listed.
LEMMA MakeListed ==
  ASSUME NEW h, Well(h, Len(h)), NEW r \in 1..Len(h), NEW x, Fresh(x, r), x.decls = <<>>
  PROVE  MadeIn(h, r, x, AddToRegion(Append(h, x), r, Len(h) + 1))
<1> DEFINE g == Append(h, x)
           d == Len(h) + 1
           f == AddToRegion(g, r, d)
<1>1. Len(h) \in Nat /\ h \in Heap
  BY DEF Well, Heap
<1>2. r \in 0..Len(h)
  BY <1>1
<1>3. /\ Well(g, d) /\ Keeps(h, g, r) /\ Len(g) = d /\ g[d] = x /\ d \in 1..d /\ g \in Heap
      /\ \A i \in 1..Len(h) : g[i] = h[i]
  BY <1>2, MakeFacts
<1> HIDE DEF g
<1>4. r \in 1..Len(g) /\ d \in 1..Len(g) /\ r # d
  BY <1>1, <1>3
<1> HIDE DEF d
<1>5. g[d].region = r
  BY <1>3 DEF Fresh
<1>6. /\ Well(f, d) /\ Keeps(g, f, r) /\ Len(f) = Len(g)
      /\ \A i \in 1..Len(g) : f[i].completion = g[i].completion /\ f[i].forward = g[i].forward
      /\ \A i \in 1..Len(g) : i # r => f[i] = g[i]
      /\ f[r].decls = Append(g[r].decls, d)
  <2>1. Well(g, d)
    BY <1>3
  <2>2. ListedIn(g, d, r, d, f)
    BY <1>4, <1>5, <2>1, ListNode
  <2> QED BY <2>2 DEF ListedIn
<1> HIDE DEF f
<1>7. f \in Heap /\ \A i \in (Len(h) + 1)..Len(g) : i \in 1..Len(g)
  BY <1>1, <1>3, <1>6 DEF Well, d
<1>8. Keeps(h, f, r)
  BY <1>1, <1>3, <1>6, <1>7, KeepsTransitive
<1>9. f[d] = x
  BY <1>3, <1>4, <1>6
<1>10. d \in Range(f[r].decls)
  <2>1. g[r] \in NodeType /\ d \in Nat
    BY <1>1, <1>3, <1>4 DEF Heap, d
  <2>2. g[r].decls \in Seq(Nat)
    BY <2>1 DEF NodeType
  <2>3. /\ Len(g[r].decls) + 1 \in DOMAIN Append(g[r].decls, d)
        /\ Append(g[r].decls, d)[Len(g[r].decls) + 1] = d
    BY <2>1, <2>2
  <2> QED BY <1>6, <2>3 DEF Range
<1> QED BY <1>3, <1>4, <1>6, <1>7, <1>8, <1>9, <1>10 DEF MadeIn, f, g, d

\* Inside a package.
LEMMA InnerFacts ==
  ASSUME Inv, region # 0, Kind(region) \in {"PrivatePart", "Body", "Block"}
  PROVE  /\ BaseShape(ast, scope, region, package) /\ Kind(region) \in PartKinds
         /\ Len(scope) > 1 /\ Len(scope) > 0 /\ FramesHold(ast, scope) /\ scope \in Seq(Frame)
         /\ region \in 1..Len(ast) /\ Well(ast, Len(ast)) /\ Len(ast) \in Nat
         /\ StencilOK(stencil) /\ errors \in Nat /\ NodesInv
<1>1. /\ scope \in Seq(Frame) /\ FramesHold(ast, scope) /\ Shape(ast, scope, region, package)
      /\ NodesInv /\ Well(ast, Len(ast)) /\ StencilOK(stencil) /\ errors \in Nat
  BY DEF Inv, ShapeInv, NodesInv
<1>2. Kind(region) \in PartKinds
  BY DEF PartKinds
<1>3. BaseShape(ast, scope, region, package)
  <2>1. ~TopShape(ast, scope, region)
    BY DEF TopShape, Kind
  <2>2. ~RecordShape(ast, scope, region, package)
    BY DEF RecordShape, Kind
  <2> QED BY <1>1, <2>1, <2>2 DEF Shape
<1>4. region \in 1..Len(ast) /\ Len(scope) \in {2, 3}
  BY <1>1, <1>3, BaseFacts
<1>5. Len(scope) > 1 /\ Len(scope) > 0
  <2>1. Len(scope) = 2 \/ Len(scope) = 3
    BY <1>4, Zenon
  <2> QED BY <2>1
<1>6. Len(ast) \in Nat
  BY <1>1 DEF Well, Heap
<1> QED BY <1>1, <1>2, <1>3, <1>4, <1>5, <1>6

LEMMA DeclareObjectInv ==
  ASSUME Inv, InBlock, pending = 0, NEW n \in Name, NEW t \in Nat, DeclareObject(n, t)
  PROVE  Inv'
<1> DEFINE x == ObjectNode(n, t)
           d == Len(ast) + 1
<1>1. \/ Refuse
      \/ /\ ast' = AddToRegion(Append(ast, x), region, d) /\ scope' = AddToFrame(scope, {d})
         /\ UNCHANGED <<region, package, stencil, pending, errors, failed>>
  BY DEF DeclareObject, NextNode
<1>2. /\ BaseShape(ast, scope, region, package) /\ Kind(region) \in PartKinds
      /\ Len(scope) > 1 /\ FramesHold(ast, scope) /\ scope \in Seq(Frame)
      /\ region \in 1..Len(ast) /\ Well(ast, Len(ast)) /\ Len(ast) \in Nat
      /\ StencilOK(stencil) /\ errors \in Nat
  BY InnerFacts DEF InBlock
<1>3. Fresh(x, region) /\ x.decls = <<>> /\ x.kind = "Object"
  <2>1. "Object" \in PlainKinds
    BY DEF PlainKinds
  <2> QED BY <2>1, DerivedFresh DEF ObjectNode, Derived
<1> HIDE DEF x
<1>4. ASSUME ast' = AddToRegion(Append(ast, x), region, d), scope' = AddToFrame(scope, {d}),
             UNCHANGED <<region, package, stencil, pending, errors, failed>>
      PROVE  Inv'
  <2>1. MadeIn(ast, region, x, ast')
    BY <1>2, <1>3, <1>4, MakeListed
  <2>2. {d} \in SUBSET Nat
    BY <1>2
  <2>3. d \in 1..Len(ast') /\ ast'[d].kind # "Param" /\ ast'[d].kind \notin DeclKinds
    BY <1>3, <2>1 DEF MadeIn, DeclKinds
  <2>4. Well(ast', Len(ast')) /\ Keeps(ast, ast', region)
    BY <2>1 DEF MadeIn
  <2> HIDE DEF d
  <2> QED BY <1>2, <1>4, <2>2, <2>3, <2>4, DeclareStep
<1> QED BY <1>1, <1>4, RefuseInv

LEMMA acceptObjectDeclarationInv ==
  ASSUME Inv, NEW n \in Name, NEW t \in VisibleTypes, NEW init, acceptObjectDeclaration(n, t, init)
  PROVE  Inv'
<1> DEFINE c == ensureCompleteTypeDecl(t)
<1>1. /\ InBlock /\ pending = 0
      /\ Refuse \/ (c # 0 /\ DeclareObject(n, resolveType(c)))
  BY MakingFacts DEF acceptObjectDeclaration
<1>2. c \in 0..Len(ast)
  BY VisibleFacts
<1> HIDE DEF c
<1>3. ASSUME c # 0 PROVE resolveType(c) \in Nat
  <2>1. Len(ast) \in Nat /\ ast \in Heap
    BY DEF Inv, NodesInv, Well, Heap
  <2>2. c \in 1..Len(ast) /\ c \in Nat
    BY <1>2, <1>3, <2>1
  <2>3. ast[c] \in NodeType
    BY <2>1, <2>2 DEF Heap
  <2>4. ast[c].completion \in Nat
    BY <2>3 DEF NodeType
  <2> QED BY <2>2, <2>4 DEF resolveType
<1> QED BY <1>1, <1>3, RefuseInv, DeclareObjectInv

LEMMA acceptRenamedObjectDeclarationInv ==
  ASSUME Inv, NEW n \in Name, NEW t \in VisibleTypes, NEW ok, acceptRenamedObjectDeclaration(n, t, ok)
  PROVE  Inv'
<1> DEFINE c == ensureCompleteTypeDecl(t)
<1>1. InBlock /\ pending = 0 /\ (Refuse \/ DeclareObject(n, c))
  BY MakingFacts DEF acceptRenamedObjectDeclaration
<1>2. c \in Nat
  BY VisibleFacts
<1> QED BY <1>1, <1>2, RefuseInv, DeclareObjectInv

\* A frame is pushed.
LEMMA PushFacts ==
  ASSUME NEW S \in Seq(Frame), NEW f \in Frame
  PROVE  /\ <<f>> \o S \in Seq(Frame) /\ Len(<<f>> \o S) = Len(S) + 1 /\ (<<f>> \o S)[1] = f
         /\ \A i \in 1..Len(S) : (<<f>> \o S)[i + 1] = S[i]
         /\ Tail(<<f>> \o S) = S /\ Len(S) \in Nat
<1> DEFINE T == <<f>> \o S
<1>1. Len(S) \in Nat /\ <<f>> \in Seq(Frame) /\ Len(<<f>>) = 1 /\ <<f>>[1] = f
  OBVIOUS
<1>2. /\ T \in Seq(Frame) /\ Len(T) = 1 + Len(S)
      /\ \A i \in 1..(1 + Len(S)) : T[i] = IF i <= 1 THEN <<f>>[i] ELSE S[i - 1]
  BY <1>1, ConcatProperties
<1> HIDE DEF T
<1>3. Len(T) = Len(S) + 1 /\ T[1] = f
  BY <1>1, <1>2
<1>4. ASSUME NEW i \in 1..Len(S) PROVE T[i + 1] = S[i]
  <2>1. i + 1 \in 1..(1 + Len(S)) /\ ~(i + 1 <= 1) /\ (i + 1) - 1 = i
    BY <1>1
  <2> QED BY <1>2, <2>1
<1>5. Tail(T) = S
  <2>1. /\ Tail(T) \in Seq(Frame) /\ Len(Tail(T)) = Len(T) - 1
        /\ \A i \in 1..(Len(T) - 1) : Tail(T)[i] = T[i + 1]
    <3>1. Len(T) > 0
      BY <1>1, <1>3
    <3> QED BY <1>2, <3>1, TailFacts
  <2>2. Len(Tail(T)) = Len(S)
    BY <1>1, <1>3, <2>1
  <2>3. \A i \in 1..Len(S) : Tail(T)[i] = S[i]
    BY <1>1, <1>3, <1>4, <2>1
  <2> QED BY <2>1, <2>2, <2>3, SeqEqual
<1> QED BY <1>1, <1>2, <1>3, <1>4, <1>5 DEF T

\* A pushed frame holds nodes if its declarations are nodes.
LEMMA PushHolds ==
  ASSUME NEW h, NEW S \in Seq(Frame), NEW f \in Frame, FramesHold(h, S),
         \A x \in f.decls : x \in 1..Len(h)
  PROVE  FramesHold(h, <<f>> \o S)
<1> DEFINE T == <<f>> \o S
<1>1. /\ Len(T) = Len(S) + 1 /\ T[1] = f /\ (\A i \in 1..Len(S) : T[i + 1] = S[i])
      /\ Len(S) \in Nat
  BY PushFacts
<1> HIDE DEF T
<1>2. ASSUME NEW i \in 1..Len(T) PROVE i = 1 \/ (i - 1 \in 1..Len(S) /\ T[i] = S[i - 1])
  <2>1. CASE i # 1
    <3>1. i - 1 \in 1..Len(S) /\ (i - 1) + 1 = i
      BY <1>1, <2>1
    <3> QED BY <1>1, <3>1
  <2> QED BY <2>1
<1>3. FramesHold(h, T)
  BY <1>1, <1>2 DEF FramesHold
<1> QED BY <1>3 DEF T

\* More nodes do not disturb the frames.
LEMMA HoldsMore ==
  ASSUME NEW h \in Heap, NEW g \in Heap, Len(h) =< Len(g), NEW S, FramesHold(h, S)
  PROVE  FramesHold(g, S)
<1>1. Len(h) \in Nat /\ Len(g) \in Nat
  BY DEF Heap
<1>2. \A i \in 1..Len(h) : i \in 1..Len(g)
  BY <1>1
<1> QED BY <1>2 DEF FramesHold

\* What a declaration inside a package leaves as it is.
LEMMA NodesStep ==
  ASSUME Inv, Well(ast', Len(ast')), NEW q, Keeps(ast, ast', q),
         q \in 1..Len(ast) /\ Kind(q) = "Package" => package = q /\ ast[q].body = 0,
         Len(scope) > 1, Len(scope') > 1, package' = package, failed' = failed,
         pending' = pending, errors' = 0 => errors = 0,
         \A i \in (Len(ast) + 1)..Len(ast') : ast'[i].kind \notin DeclKinds
  PROVE  NodesInv' /\ CleanInv'
<1>1. /\ Well(ast, Len(ast)) /\ PackagesWhole(ast) /\ DefinitionsAgree(ast) /\ ast' \in Heap
  BY DEF Inv, NodesInv, Well
<1>2. /\ PackagesWhole(ast') /\ DefinitionsAgree(ast')
      /\ DefinitionsPointBack(ast) => DefinitionsPointBack(ast')
      /\ \A x : DefinitionsHaveBodies(ast, x) => DefinitionsHaveBodies(ast', x)
  BY <1>1, PackagesWholeKept, DefinitionsKept DEF Keeps
<1>3. PackagesComplete(ast, TRUE, package) => PackagesComplete(ast', TRUE, package)
  BY <1>1, PackagesCompleteKept DEF Kind, Keeps
<1>4. (Len(scope) > 1) = TRUE /\ (Len(scope') > 1) = TRUE
  OBVIOUS
<1>5. RoutinesInParts(ast')
  BY <1>1, RoutinesKept DEF Inv, NodesInv, Keeps
<1> QED BY <1>2, <1>3, <1>4, <1>5 DEF NodesInv, CleanInv, Inv

LEMMA beginRecordInv ==
  ASSUME Inv, NEW n \in Name, beginRecord(n)
  PROVE  Inv'
<1> DEFINE x == RecordNode(n)
           d == Len(ast) + 1
           f == FrameOf("RECORD_SCOPE", {})
<1>1. /\ TypesAllowed /\ pending = 0 /\ stencil = IdleStencil
      /\ ast' = Append(ast, x) /\ scope' = <<f>> \o scope /\ region' = d
      /\ UNCHANGED <<package, stencil, pending, errors, failed>>
  BY MakingFacts DEF beginRecord, NextNode
<1>2. /\ BaseShape(ast, scope, region, package) /\ Kind(region) \in PartKinds
      /\ Len(scope) > 1 /\ FramesHold(ast, scope) /\ scope \in Seq(Frame)
      /\ region \in 1..Len(ast) /\ ast \in Heap /\ Len(ast) \in Nat
  BY <1>1, AllowedFacts
<1>3. Fresh(x, region) /\ x.decls = <<>> /\ x.kind = "Record"
  <2>1. "Record" \in PlainKinds
    BY DEF PlainKinds, TypeKinds
  <2> QED BY <2>1, PlainFresh DEF RecordNode
<1>4. f \in Frame /\ f.kind = "RECORD_SCOPE" /\ f.decls = {}
  BY DEF Frame, FrameKind, FrameOf
<1> HIDE DEF x, f
<1>5. /\ Well(ast', d) /\ Keeps(ast, ast', 0) /\ Len(ast') = d /\ ast'[d] = x /\ d \in 1..d
      /\ ast' \in Heap /\ \A i \in 1..Len(ast) : ast'[i] = ast[i]
  <2>0. x.kind \notin DeclKinds
    BY <1>3 DEF DeclKinds
  <2>1. region \in 0..Len(ast) /\ Well(ast, Len(ast))
    BY <1>2 DEF Inv, NodesInv
  <2> DEFINE h == Append(ast, x)
  <2>2. /\ Well(h, d) /\ Keeps(ast, h, 0) /\ Len(h) = d /\ h[d] = x /\ d \in 1..d
        /\ h \in Heap /\ \A i \in 1..Len(ast) : h[i] = ast[i]
    BY <1>3, <2>0, <2>1, MakeFacts
  <2> HIDE DEF h, d
  <2> QED BY <1>1, <2>2 DEF h
<1>6. /\ scope' \in Seq(Frame) /\ Len(scope') = Len(scope) + 1 /\ scope'[1] = f
      /\ Tail(scope') = scope /\ Len(scope') > 1 /\ Len(scope) \in Nat
  <2>1. /\ scope' \in Seq(Frame) /\ Len(scope') = Len(scope) + 1 /\ scope'[1] = f
        /\ Tail(scope') = scope /\ Len(scope) \in Nat
    BY <1>1, <1>2, <1>4, PushFacts
  <2> QED BY <1>2, <2>1
<1>7. d \in Nat /\ d # 0
  BY <1>2
<1> HIDE DEF d
<1>8. NodesInv' /\ CleanInv'
  <2>1. Well(ast', Len(ast')) /\ Keeps(ast, ast', 0) /\ 0 \notin 1..Len(ast)
    BY <1>2, <1>5
  <2>2. \A i \in (Len(ast) + 1)..Len(ast') : ast'[i].kind \notin DeclKinds
    <3>1. \A i \in (Len(ast) + 1)..Len(ast') : i = d
      BY <1>2, <1>5 DEF d
    <3> QED BY <1>3, <1>5, <3>1 DEF DeclKinds
  <2> QED BY <1>1, <1>2, <1>6, <2>1, <2>2, NodesStep
<1>9. RecordShape(ast', scope', region', package')
  <2>1. ast'[d].region = region /\ region # 0 /\ ast'[region].kind \in PartKinds
    BY <1>2, <1>3, <1>5 DEF Fresh, Kind
  <2>2. BaseShape(ast', scope, region, package)
    <3>1. Well(ast, Len(ast)) /\ PackagesWhole(ast)
      BY DEF Inv, NodesInv
    <3>2. Stays(ast, ast', 0)
      BY <1>5 DEF Keeps
    <3> QED BY <1>2, <1>5, <3>1, <3>2, BaseShapeKept
  <2> QED BY <1>1, <1>3, <1>4, <1>5, <1>6, <2>1, <2>2 DEF RecordShape
<1>10. FramesHold(ast', scope')
  <2>1. Len(ast) =< Len(ast')
    BY <1>5 DEF Keeps, Stays
  <2>2. FramesHold(ast', scope)
    BY <1>2, <1>5, <2>1, HoldsMore
  <2> QED BY <1>1, <1>2, <1>4, <2>2, PushHolds
<1>11. ShapeInv'
  <2>1. StencilPlace' /\ PendingPlace'
    BY <1>1 DEF StencilPlace, PendingPlace, IdleStencil
  <2>2. package \in Nat /\ errors \in Nat /\ StencilOK(stencil)
    BY DEF Inv, ShapeInv
  <2> QED BY <1>1, <1>6, <1>7, <1>9, <1>10, <2>1, <2>2 DEF ShapeInv, Shape
<1> QED BY <1>8, <1>11 DEF Inv

\* While a record is being declared.
LEMMA InRecordFacts ==
  ASSUME Inv, Head(scope).kind = "RECORD_SCOPE"
  PROVE  /\ RecordShape(ast, scope, region, package) /\ stencil.of = "idle" /\ pending = 0
         /\ scope \in Seq(Frame) /\ Len(scope) > 1 /\ Len(scope) > 0 /\ FramesHold(ast, scope)
         /\ Well(ast, Len(ast)) /\ Len(ast) \in Nat /\ ast \in Heap /\ errors \in Nat
         /\ StencilOK(stencil) /\ NodesInv
<1>1. /\ scope \in Seq(Frame) /\ FramesHold(ast, scope) /\ Shape(ast, scope, region, package)
      /\ NodesInv /\ Well(ast, Len(ast)) /\ StencilPlace /\ PendingPlace
      /\ errors \in Nat /\ StencilOK(stencil)
  BY DEF Inv, ShapeInv, NodesInv
<1>2. Len(ast) \in Nat /\ ast \in Heap
  BY <1>1 DEF Well, Heap
<1>3. Len(scope) > 0
  <2>1. Len(scope) = 1 \/ Len(scope) = 2 \/ Len(scope) = 3 \/ Len(scope) > 1
    BY <1>1, Zenon DEF Shape, TopShape, BaseShape, PackageShape, SubroutineShape, RecordShape
  <2> QED BY <2>1
<1>4. scope[1].kind = "RECORD_SCOPE"
  BY <1>1, <1>3, TailFacts
<1>5. ~BaseShape(ast, scope, region, package)
  BY <1>4 DEF BaseShape, PackageShape, PackageFrame, SubroutineShape, SubroutineFrame
<1>6. ~TopShape(ast, scope, region)
  BY <1>4 DEF TopShape
<1>7. RecordShape(ast, scope, region, package)
  BY <1>1, <1>5, <1>6 DEF Shape
<1>8. Len(scope) > 1
  BY <1>7, Zenon DEF RecordShape
<1>9. stencil.of = "idle" /\ pending = 0
  BY <1>1, <1>5 DEF StencilPlace, PendingPlace, BaseShape
<1> QED BY <1>1, <1>2, <1>3, <1>7, <1>8, <1>9

LEMMA acceptRecordComponentInv ==
  ASSUME Inv, NEW n \in Name, NEW t \in VisibleTypes, acceptRecordComponent(n, t)
  PROVE  Inv'
<1> DEFINE c == ensureCompleteTypeDecl(t)
           x == ComponentNode(n, c)
           d == Len(ast) + 1
<1>1. /\ Head(scope).kind = "RECORD_SCOPE"
      /\ UNCHANGED <<region, package, stencil, pending, failed>>
      /\ \/ errors' = Reported(1) /\ UNCHANGED <<ast, scope>>
         \/ /\ ast' = AddToRegion(Append(ast, x), region, d)
            /\ scope' = AddToFrame(scope, {d}) \/ scope' = scope
            /\ errors' = errors \/ errors' = Reported(1)
  BY DEF acceptRecordComponent, NextNode
<1>2. /\ RecordShape(ast, scope, region, package) /\ stencil.of = "idle" /\ pending = 0
      /\ scope \in Seq(Frame) /\ Len(scope) > 1 /\ Len(scope) > 0 /\ FramesHold(ast, scope)
      /\ Well(ast, Len(ast)) /\ Len(ast) \in Nat /\ ast \in Heap /\ errors \in Nat
      /\ StencilOK(stencil) /\ NodesInv
  BY <1>1, InRecordFacts
<1>3. errors' \in Nat /\ (errors' = 0 => errors = 0)
  BY <1>1, <1>2, ReportedFacts
<1>4. ASSUME UNCHANGED <<ast, scope>> PROVE Inv'
  BY <1>1, <1>2, <1>3, <1>4, StencilStep
<1>5. c \in Nat
  BY VisibleFacts
<1> HIDE DEF c
<1>6. Fresh(x, region) /\ x.decls = <<>> /\ x.kind = "Component"
  <2>1. "Component" \in PlainKinds
    BY DEF PlainKinds
  <2> QED BY <1>5, <2>1, DerivedFresh DEF ComponentNode, Derived
<1> HIDE DEF x
<1>7. ASSUME ast' = AddToRegion(Append(ast, x), region, d),
             scope' = AddToFrame(scope, {d}) \/ scope' = scope
      PROVE  Inv'
  <2>1. region \in 1..Len(ast) /\ ast[region].kind = "Record"
    BY <1>2 DEF RecordShape
  <2>2. MadeIn(ast, region, x, ast')
    BY <1>2, <1>6, <1>7, <2>1, MakeListed
  <2>3. /\ Well(ast', Len(ast')) /\ Keeps(ast, ast', region) /\ ast' \in Heap
        /\ d \in 1..Len(ast') /\ d \in Range(ast'[region].decls) /\ d \in Nat
    BY <1>2, <2>2 DEF MadeIn
  <2> HIDE DEF d
  <2>4. /\ scope' \in Seq(Frame) /\ Len(scope') = Len(scope) /\ Tail(scope') = Tail(scope)
        /\ scope'[1].kind = scope[1].kind /\ scope'[1].decls \subseteq scope[1].decls \cup {d}
        /\ \A i \in 2..Len(scope) : scope'[i] = scope[i]
    <3>1. {d} \in SUBSET Nat
      BY <2>3
    <3>2. CASE scope' = AddToFrame(scope, {d})
      BY <1>2, <3>1, <3>2, AddFacts
    <3>3. CASE scope' = scope
      BY <1>2, <3>3
    <3> QED BY <1>7, <3>2, <3>3
  <2>5. RecordShape(ast', scope, region, package)
    <3>1. Stays(ast, ast', region)
      BY <2>3 DEF Keeps
    <3> QED BY <1>2, <2>3, <3>1, RecordShapeKept DEF NodesInv
  <2>6. RecordShape(ast', scope', region', package')
    BY <1>1, <2>3, <2>4, <2>5 DEF RecordShape
  <2>7. FramesHold(ast', scope')
    <3>1. Len(ast) =< Len(ast')
      BY <2>3 DEF Keeps, Stays
    <3>2. FramesHold(ast', scope)
      BY <1>2, <2>3, <3>1, HoldsMore
    <3>3. \A i \in 1..Len(scope) : i = 1 \/ i \in 2..Len(scope)
      BY <1>2
    <3>4. 1 \in 1..Len(scope)
      BY <1>2
    <3> QED BY <2>3, <2>4, <3>2, <3>3, <3>4 DEF FramesHold
  <2>8. NodesInv' /\ CleanInv'
    <3>1. ~(region \in 1..Len(ast) /\ Kind(region) = "Package")
      BY <2>1 DEF Kind
    <3>2. Len(scope') > 1
      BY <1>2, <2>4, Zenon
    <3>3. \A i \in (Len(ast) + 1)..Len(ast') : ast'[i].kind \notin DeclKinds
      <4>1. Len(ast') = Len(ast) + 1 /\ ast'[Len(ast) + 1] = x
        BY <2>2 DEF MadeIn
      <4>2. \A i \in (Len(ast) + 1)..Len(ast') : i = Len(ast) + 1
        BY <1>2, <4>1
      <4> QED BY <1>6, <4>1, <4>2 DEF DeclKinds
    <3> QED BY <1>1, <1>2, <1>3, <2>3, <3>1, <3>2, <3>3, NodesStep
  <2>9. ShapeInv'
    <3>1. StencilPlace' /\ PendingPlace'
      BY <1>1, <1>2 DEF StencilPlace, PendingPlace
    <3>2. package \in Nat /\ region \in Nat /\ pending \in Nat
      BY DEF Inv, ShapeInv
    <3> QED BY <1>1, <1>2, <1>3, <2>4, <2>6, <2>7, <3>1, <3>2 DEF ShapeInv, Shape
  <2> QED BY <2>8, <2>9 DEF Inv
<1> QED BY <1>1, <1>4, <1>7

LEMMA endRecordInv ==
  ASSUME Inv, endRecord
  PROVE  Inv'
<1> DEFINE S == Tail(scope)
           r == ast[region].region
           t == introduceTypeDeclaration(ast, S, r, region)
<1>1. /\ Head(scope).kind = "RECORD_SCOPE" /\ region' = r
      /\ ast' = t.ast /\ scope' = t.scope /\ errors' = Reported(IF t.ok THEN 0 ELSE 1)
      /\ UNCHANGED <<package, stencil, pending, failed>>
  BY DEF endRecord
<1>2. /\ RecordShape(ast, scope, region, package) /\ stencil.of = "idle" /\ pending = 0
      /\ scope \in Seq(Frame) /\ Len(scope) > 1 /\ Len(scope) > 0 /\ FramesHold(ast, scope)
      /\ Well(ast, Len(ast)) /\ Len(ast) \in Nat /\ ast \in Heap /\ errors \in Nat
      /\ StencilOK(stencil) /\ NodesInv
  BY <1>1, InRecordFacts
<1>3. /\ S \in Seq(Frame) /\ FramesHold(ast, S) /\ BaseShape(ast, S, r, package)
      /\ Kind(r) \in PartKinds /\ region \in 1..Len(ast) /\ ast[region].kind = "Record"
  BY <1>2, TailFacts, TailHolds DEF RecordShape, Kind
<1>4. r \in 1..Len(ast) /\ Len(S) \in {2, 3}
  BY <1>2, <1>3, BaseFacts
<1> HIDE DEF S
<1>5. Len(S) > 0 /\ \A y \in S[1].decls : y \in 1..Len(ast)
  <2>1. Len(S) = 2 \/ Len(S) = 3
    BY <1>4, Zenon
  <2>2. Len(S) > 0 /\ 1 \in 1..Len(S)
    BY <2>1
  <2> QED BY <1>3, <2>2 DEF FramesHold
<1>6. /\ Well(t.ast, Len(ast)) /\ Keeps(ast, t.ast, r) /\ Len(t.ast) = Len(ast)
      /\ t.scope = S \/ t.scope = AddToFrame(S, {region})
  <2>1. Introduces(ast, Len(ast), S, r, region, t)
    BY <1>2, <1>3, <1>4, <1>5, IntroduceFacts
  <2> QED BY <2>1 DEF Introduces
<1>7. errors' \in Nat /\ (errors' = 0 => errors = 0)
  <2>1. (IF t.ok THEN 0 ELSE 1) \in Nat
    OBVIOUS
  <2> QED BY <1>1, <1>2, <2>1, ReportedFacts
<1> HIDE DEF t, r
<1> DEFINE D == IF scope' = S THEN {} ELSE {region}
<1>8. ast'[region].kind = "Record"
  BY <1>1, <1>3, <1>6 DEF Keeps, Stays
<1>9. /\ D \in SUBSET Nat /\ (scope' = AddToFrame(S, D) \/ (scope' = S /\ D = {}))
      /\ \A y \in D : /\ y \in 1..Len(ast') /\ ast'[y].kind # "Param"
                      /\ ast'[y].kind \in DeclKinds => ast'[y].region = r
  BY <1>1, <1>2, <1>3, <1>6, <1>8 DEF DeclKinds
<1> HIDE DEF D
<1>10. Well(ast', Len(ast')) /\ Keeps(ast, ast', r)
  BY <1>1, <1>6
<1> QED BY <1>1, <1>2, <1>3, <1>7, <1>9, <1>10, DeclareStep
-----------------------------------------------------------------------------
(* Enumerations *)

\* Nodes without contents are added to a heap that may list them already.
LEMMA WellConcat ==
  ASSUME NEW g, NEW n, Well(g, n), NEW s \in Heap, n = Len(g) + Len(s),
         \A j \in 1..Len(s) : s[j].decls = <<>> /\ s[j].region \in 1..Len(g) /\ s[j].completion = 0,
         \A i \in 1..Len(g) : \A k \in 1..Len(g[i].decls) :
            g[i].decls[k] =< Len(g) \/ \A j \in 1..Len(s) : s[j].region = i
  PROVE  /\ Well(g \o s, n) /\ Len(g \o s) = n /\ g \o s \in Heap
         /\ \A i \in 1..Len(g) : (g \o s)[i] = g[i]
         /\ \A j \in 1..Len(s) : (g \o s)[Len(g) + j] = s[j]
         /\ \A i \in (Len(g) + 1)..n : i - Len(g) \in 1..Len(s) /\ (g \o s)[i] = s[i - Len(g)]
<1> DEFINE h == g \o s
<1>1. g \in Heap /\ Len(g) \in Nat /\ Len(s) \in Nat /\ n \in Nat
  BY DEF Well, Heap
<1>2. /\ h \in Heap /\ Len(h) = n
      /\ \A i \in 1..n : h[i] = IF i <= Len(g) THEN g[i] ELSE s[i - Len(g)]
  BY <1>1, ConcatProperties DEF Heap
<1> HIDE DEF h
<1>3. \A i \in 1..Len(g) : i \in 1..n /\ i <= Len(g) /\ h[i] = g[i]
  BY <1>1, <1>2
<1>4. ASSUME NEW i \in (Len(g) + 1)..n PROVE i - Len(g) \in 1..Len(s) /\ h[i] = s[i - Len(g)]
  <2>1. i \in 1..n /\ ~(i <= Len(g)) /\ i - Len(g) \in 1..Len(s)
    BY <1>1
  <2> QED BY <1>2, <2>1
<1>5. ASSUME NEW j \in 1..Len(s) PROVE h[Len(g) + j] = s[j]
  <2>1. Len(g) + j \in (Len(g) + 1)..n /\ (Len(g) + j) - Len(g) = j
    BY <1>1
  <2> QED BY <1>4, <2>1
<1>6. \A i \in 1..n : i \in 1..Len(g) \/ i \in (Len(g) + 1)..n
  BY <1>1
<1>7. ASSUME NEW i \in 1..n PROVE h[i].region < i /\ h[i].completion =< n
  <2>1. CASE i \in 1..Len(g)
    BY <1>3, <2>1 DEF Well
  <2>2. CASE i \in (Len(g) + 1)..n
    <3>1. h[i].region \in 1..Len(g) /\ h[i].completion = 0
      BY <1>4, <2>2
    <3> QED BY <1>1, <2>2, <3>1
  <2> QED BY <1>6, <2>1, <2>2
<1>8. ASSUME NEW i \in 1..n, NEW k \in 1..Len(h[i].decls)
      PROVE  h[i].decls[k] \in 1..n /\ (h[i].decls[k] =< n => h[h[i].decls[k]].region = i)
  <2>1. CASE i \in 1..Len(g)
    <3>1. h[i] = g[i] /\ k \in 1..Len(g[i].decls)
      BY <1>3, <2>1
    <3> DEFINE m == g[i].decls[k]
    <3>2. /\ m \in 1..n /\ (m =< Len(g) => g[m].region = i)
          /\ m =< Len(g) \/ \A j \in 1..Len(s) : s[j].region = i
      BY <2>1, <3>1 DEF Well
    <3> HIDE DEF m
    <3>3. CASE m =< Len(g)
      <4>1. m \in 1..Len(g)
        BY <1>1, <3>2, <3>3
      <4> QED BY <1>3, <3>1, <3>2, <3>3, <4>1 DEF m
    <3>4. CASE ~(m =< Len(g))
      <4>1. m \in (Len(g) + 1)..n
        BY <1>1, <3>2, <3>4
      <4>2. h[m].region = i
        BY <1>4, <3>2, <3>4, <4>1
      <4> QED BY <3>1, <3>2, <4>2 DEF m
    <3> QED BY <3>3, <3>4
  <2>2. CASE i \in (Len(g) + 1)..n
    <3>1. h[i].decls = <<>>
      BY <1>4, <2>2
    <3> QED BY <3>1
  <2> QED BY <1>6, <2>1, <2>2
<1>9. Well(h, n)
  BY <1>1, <1>2, <1>7, <1>8 DEF Well
<1> QED BY <1>2, <1>3, <1>4, <1>5, <1>9 DEF h

\* Declarations added one after the other are added together.
LEMMA AddTwice ==
  ASSUME NEW S \in Seq(Frame), Len(S) > 0, NEW D \in SUBSET Nat, NEW E \in SUBSET Nat
  PROVE  AddToFrame(AddToFrame(S, D), E) = AddToFrame(S, D \cup E)
<1> DEFINE T == AddToFrame(S, D)
           U == AddToFrame(T, E)
           V == AddToFrame(S, D \cup E)
<1>1. /\ T \in Seq(Frame) /\ Len(T) = Len(S) /\ T[1].kind = S[1].kind
      /\ T[1].decls = S[1].decls \cup D /\ (\A i \in 2..Len(S) : T[i] = S[i])
  BY AddFacts
<1> HIDE DEF T
<1>2. /\ U \in Seq(Frame) /\ Len(U) = Len(T) /\ U[1].kind = T[1].kind
      /\ U[1].decls = T[1].decls \cup E /\ (\A i \in 2..Len(T) : U[i] = T[i])
  BY <1>1, AddFacts
<1> HIDE DEF U
<1>3. /\ V \in Seq(Frame) /\ Len(V) = Len(S) /\ V[1].kind = S[1].kind
      /\ V[1].decls = S[1].decls \cup (D \cup E) /\ (\A i \in 2..Len(S) : V[i] = S[i])
  <2>1. D \cup E \in SUBSET Nat
    OBVIOUS
  <2> QED BY <2>1, AddFacts
<1> HIDE DEF V
<1>4. Len(S) \in Nat /\ 1 \in 1..Len(S) /\ \A i \in 1..Len(S) : i = 1 \/ i \in 2..Len(S)
  OBVIOUS
<1>5. U[1] = V[1]
  <2>1. U[1] \in Frame /\ V[1] \in Frame
    BY <1>1, <1>2, <1>3, <1>4
  <2>2. U[1].kind = V[1].kind /\ U[1].decls = V[1].decls
    BY <1>1, <1>2, <1>3
  <2> QED BY <2>1, <2>2 DEF Frame
<1>6. \A i \in 1..Len(U) : U[i] = V[i]
  BY <1>1, <1>2, <1>3, <1>4, <1>5
<1>7. U = V
  BY <1>1, <1>2, <1>3, <1>6, SeqEqual
<1> QED BY <1>7 DEF U, V, T

\* Counting nodes.
LEMMA CountNodes ==
  ASSUME NEW n \in Nat, NEW T \in SUBSET (1..n)
  PROVE  IsFiniteSet(T) /\ Cardinality(T) \in Nat /\ (Cardinality(T) = 0 => T = {})
<1>1. IsFiniteSet(1..n)
  <2>1. 1 \in Int /\ n \in Int
    OBVIOUS
  <2> QED BY <2>1, FS_Interval
<1>2. IsFiniteSet(T)
  BY <1>1, FS_Subset
<1> QED BY <1>2, FS_CardinalityType, FS_EmptySet

\* The nodes of an enumeration.
LEMMA EnumerationFacts ==
  ASSUME Inv, stencil \in EnumerationStencil
  PROVE  /\ Fresh(EnumerationNodes.decl, region) /\ EnumerationNodes.decl.kind = "Enumeration"
         /\ EnumerationNodes.literals \in Heap
         /\ Len(EnumerationNodes.literals) = Len(stencil.elems)
         /\ Len(EnumerationNodes.decl.decls) = Len(stencil.elems)
         /\ \A i \in 1..Len(stencil.elems) :
              /\ EnumerationNodes.decl.decls[i] = (Len(ast) + 1) + i
              /\ Fresh(EnumerationNodes.literals[i], Len(ast) + 1)
              /\ EnumerationNodes.literals[i].decls = <<>>
              /\ EnumerationNodes.literals[i].kind = "EnumLiteral"
<1> DEFINE e == Len(ast) + 1
           k == Len(stencil.elems)
           ls == [i \in 1..k |-> LiteralNode(stencil.elems[i], e)]
           ds == [i \in 1..k |-> e + i]
           x == Node("Enumeration", stencil.name)
           y == EnumerationNode(stencil.name, ds)
<1>1. Len(ast) \in Nat /\ e \in Nat
  BY DEF Inv, NodesInv, Well, Heap
<1>2. stencil.elems \in Seq(Name) /\ stencil.name \in Name /\ k \in Nat
  <2>1. stencil.elems \in Seq(Name) /\ stencil.name \in Name
    BY DEF EnumerationStencil
  <2> QED BY <2>1
<1>3. EnumerationNodes.literals = ls /\ EnumerationNodes.decl = y
  BY DEF EnumerationNodes, NextNode
<1>4. /\ Fresh(x, region) /\ x.decls = <<>> /\ x.kind = "Enumeration" /\ x \in NodeType
  <2>1. "Enumeration" \in PlainKinds
    BY DEF PlainKinds, TypeKinds
  <2> QED BY <1>2, <2>1, PlainFresh
<1>5. y = [x EXCEPT !.decls = ds]
  BY DEF EnumerationNode
<1>6. \A i \in 1..k : stencil.elems[i] \in Name
  BY <1>2
<1>7. ASSUME NEW n \in Name
      PROVE  /\ Fresh(LiteralNode(n, e), e) /\ LiteralNode(n, e).decls = <<>>
             /\ LiteralNode(n, e).kind = "EnumLiteral" /\ LiteralNode(n, e) \in NodeType
  <2> DEFINE sg == [params |-> <<>>, ret |-> e]
             l == [Blank EXCEPT !.kind = "EnumLiteral", !.name = n, !.region = e, !.sig = sg]
  <2>1. sg \in [params: Seq(Formal), ret: Nat]
    <3>1. <<>> \in Seq(Formal)
      OBVIOUS
    <3> QED BY <1>1, <3>1
  <2> HIDE DEF sg
  <2>2. Blank \in NodeType /\ Blank.decls = <<>> /\ Blank.completion = 0 /\ Blank.forward = 0
    <3>1. Blank.decls = <<>> /\ Blank.completion = 0 /\ Blank.forward = 0
      BY DEF Blank
    <3> QED BY <3>1, BlankNode
  <2>3. n \in NodeName /\ "EnumLiteral" \in NodeKind
    BY DEF NodeName, NodeKind, RoutineKinds
  <2>4. /\ l \in NodeType /\ l.kind = "EnumLiteral" /\ l.region = e /\ l.decls = Blank.decls
        /\ l.completion = Blank.completion /\ l.forward = Blank.forward
    BY <1>1, <2>1, <2>2, <2>3 DEF NodeType
  <2>5. LiteralNode(n, e) = l
    BY DEF LiteralNode, sg
  <2> HIDE DEF l
  <2> QED BY <2>2, <2>4, <2>5 DEF Fresh
<1> HIDE DEF e
<1>8. ls \in Heap /\ Len(ls) = k
  <2>1. \A i \in 1..k : LiteralNode(stencil.elems[i], e) \in NodeType
    BY <1>6, <1>7
  <2> HIDE DEF k
  <2> QED BY <1>2, <2>1 DEF Heap
<1>9. ds \in Seq(Nat) /\ Len(ds) = k
  <2>1. \A i \in 1..k : e + i \in Nat
    BY <1>1, <1>2
  <2> HIDE DEF k
  <2> QED BY <1>2, <2>1
<1>10. \A i \in 1..k : ds[i] = e + i /\ ls[i] = LiteralNode(stencil.elems[i], e)
  OBVIOUS
<1> HIDE DEF ls, ds, x, y
<1>11. /\ y \in NodeType /\ y.kind = x.kind /\ y.region = x.region /\ y.decls = ds
       /\ y.completion = x.completion /\ y.forward = x.forward
  BY <1>4, <1>5, <1>9 DEF NodeType
<1>12. Fresh(y, region) /\ y.kind = "Enumeration"
  BY <1>4, <1>11 DEF Fresh
<1>13. \A i \in 1..k : /\ y.decls[i] = e + i /\ Fresh(ls[i], e) /\ ls[i].decls = <<>>
                        /\ ls[i].kind = "EnumLiteral"
  BY <1>6, <1>7, <1>10, <1>11
<1> QED BY <1>3, <1>8, <1>9, <1>11, <1>12, <1>13 DEF e

\* The literals a declaration introduces are listed in it.
LEMMA ImplicitFacts ==
  ASSUME NEW h, Well(h, Len(h)), NEW S, NEW d \in 1..Len(h)
  PROVE  /\ \E L \in SUBSET (1..Len(h)) :
              /\ introduceImplicitDecls(h, S, d) = AddToFrame(S, L)
              /\ \A x \in L : h[x].kind = "EnumLiteral"
         /\ Cardinality(ImplicitConflicts(h, S, d)) \in Nat
<1> DEFINE L == {l \in Range(h[d].decls) : h[l].kind = "EnumLiteral" /\ FindConflict(h, Head(S), l) = 0}
           C == ImplicitConflicts(h, S, d)
<1>1. \A x \in Range(h[d].decls) : x \in 1..Len(h)
  BY ListedFacts
<1>2. L \in SUBSET (1..Len(h)) /\ \A x \in L : h[x].kind = "EnumLiteral"
  BY <1>1
<1>3. introduceImplicitDecls(h, S, d) = AddToFrame(S, L)
  BY DEF introduceImplicitDecls
<1>4. C \in SUBSET (1..Len(h))
  BY <1>1 DEF ImplicitConflicts
<1>5. Len(h) \in Nat
  BY DEF Well, Heap
<1> HIDE DEF L, C
<1>6. Cardinality(C) \in Nat
  BY <1>4, <1>5, CountNodes
<1> QED BY <1>2, <1>3, <1>6 DEF C

LEMMA endEnumerationInv ==
  ASSUME Inv, endEnumeration
  PROVE  Inv'
<1> DEFINE y == EnumerationNodes.decl
           ls == EnumerationNodes.literals
           e == Len(ast) + 1
           k == Len(stencil.elems)
           n == e + k
           h == Append(ast, y)
           t == introduceTypeDeclaration(h, scope, region, e)
           g == t.ast
           heap == g \o ls
<1>1. /\ stencil.of = "Enumeration" /\ stencil' = IdleStencil
      /\ UNCHANGED <<region, package, pending, failed>>
      /\ \/ UNCHANGED <<ast, scope, errors>>
         \/ /\ stencil.elems # <<>> /\ ast' = heap
            /\ scope' = IF t.ok THEN introduceImplicitDecls(heap, t.scope, e) ELSE t.scope
            /\ errors' = Reported(IF ~t.ok THEN 1
                                  ELSE Cardinality(ImplicitConflicts(heap, t.scope, e)))
  BY DEF endEnumeration, NextNode
<1>2. /\ stencil \in EnumerationStencil /\ errors \in Nat
      /\ BaseShape(ast, scope, region, package) /\ Kind(region) \in PartKinds /\ pending = 0
  BY <1>1, StencilCases
<1>3. StencilOK(stencil') /\ stencil'.of = "idle"
  BY <1>1 DEF StencilOK, IdleStencil
<1>4. ASSUME UNCHANGED <<ast, scope, errors>> PROVE Inv'
  <2>1. errors' \in Nat /\ (errors' = 0 => errors = 0)
    BY <1>2, <1>4
  <2> QED BY <1>1, <1>3, <1>4, <2>1, StencilStep
<1>5. ASSUME stencil.elems # <<>>, ast' = heap,
             scope' = IF t.ok THEN introduceImplicitDecls(heap, t.scope, e) ELSE t.scope,
             errors' = Reported(IF ~t.ok THEN 1
                                ELSE Cardinality(ImplicitConflicts(heap, t.scope, e)))
      PROVE  Inv'
  <2>1. /\ Well(ast, Len(ast)) /\ Len(ast) \in Nat /\ NodesInv /\ scope \in Seq(Frame)
        /\ FramesHold(ast, scope) /\ ast \in Heap
    BY DEF Inv, NodesInv, ShapeInv, Well, Heap
  <2>2. region \in 1..Len(ast) /\ region \in 0..Len(ast) /\ Len(scope) > 1 /\ Len(scope) > 0
    <3>1. region \in 1..Len(ast) /\ Len(scope) \in {2, 3}
      BY <1>2, <2>1, BaseFacts
    <3>2. Len(scope) = 2 \/ Len(scope) = 3
      BY <3>1, Zenon
    <3>3. Len(scope) > 1 /\ Len(scope) > 0
      BY <3>2
    <3> QED BY <2>1, <3>1, <3>3
  <2>3. /\ Fresh(y, region) /\ y.kind = "Enumeration" /\ ls \in Heap /\ Len(ls) = k
        /\ Len(y.decls) = k
        /\ \A i \in 1..k : /\ y.decls[i] = e + i /\ Fresh(ls[i], e) /\ ls[i].decls = <<>>
                           /\ ls[i].kind = "EnumLiteral"
    BY <1>2, EnumerationFacts
  <2>4. k \in Nat /\ k > 0 /\ e \in Nat /\ e > 0 /\ e \notin 1..Len(ast) /\ n \in Nat /\ Len(ast) < n
        /\ n = e + k /\ Len(ast) =< n
    <3>1. stencil.elems \in Seq(Name)
      BY <1>2 DEF EnumerationStencil
    <3>2. k \in Nat /\ k > 0
      BY <1>5, <3>1
    <3> HIDE DEF k
    <3> QED BY <2>1, <3>2
  <2> HIDE DEF y, ls, k
  <2>5. /\ Well(h, n) /\ Keeps(ast, h, region) /\ Len(h) = e /\ h[e] = y
        /\ \A i \in 1..Len(ast) : h[i] = ast[i]
    <3>1. Well(ast, n)
      <4>1. \A i \in 1..Len(ast) : i \in 1..n
        BY <2>1, <2>4
      <4>2. \A i \in 1..Len(ast) : ast[i].completion \in Nat /\ ast[i].completion =< Len(ast)
        <5>1. \A i \in 1..Len(ast) : ast[i] \in NodeType
          BY <2>1 DEF Heap
        <5> QED BY <2>1, <5>1 DEF Well, NodeType
      <4>3. \A i \in 1..Len(ast) : ast[i].completion =< n
        BY <2>1, <2>4, <4>2
      <4> QED BY <2>1, <2>4, <4>1, <4>3 DEF Well
    <3>2. \A i \in 1..Len(ast) : \A j \in 1..Len(ast[i].decls) :
            ast[i].decls[j] = Len(ast) + 1 => region = i
      BY <2>1, <2>4 DEF Well
    <3>3. \A i \in 1..Len(y.decls) : y.decls[i] \in (Len(ast) + 2)..n
      BY <2>1, <2>3, <2>4
    <3> HIDE DEF n
    <3>4. Len(ast) < n /\ region \in 0..Len(ast) /\ Fresh(y, region)
      BY <2>2, <2>3, <2>4
    <3> HIDE DEF h
    <3>5. /\ Well(Append(ast, y), n) /\ Keeps(ast, Append(ast, y), region)
          /\ Len(Append(ast, y)) = Len(ast) + 1
          /\ Append(ast, y)[Len(ast) + 1] = y
          /\ \A i \in 1..Len(ast) : Append(ast, y)[i] = ast[i]
      BY <3>1, <3>2, <3>3, <3>4, MakeNode
    <3> QED BY <3>5 DEF h
  <2>6. /\ region \in 1..Len(h) /\ e \in 1..Len(h) /\ h[e].region = region /\ region # e
        /\ h \in Heap
        /\ \A x \in scope[1].decls : x \in 1..Len(h) /\ x \in 1..Len(ast)
        /\ \A i \in (Len(ast) + 1)..Len(h) : i = e
    <3>1. \A i \in 1..Len(ast) : i \in 1..Len(h)
      BY <2>1, <2>5
    <3>2. 1 \in 1..Len(scope)
      BY <2>1, <2>2
    <3>3. \A x \in scope[1].decls : x \in 1..Len(ast)
      BY <2>1, <3>2 DEF FramesHold
    <3>4. e \in 1..Len(h) /\ region # e /\ \A i \in (Len(ast) + 1)..Len(h) : i = e
      BY <2>1, <2>2, <2>4, <2>5
    <3>5. h[e].region = region /\ h \in Heap
      BY <2>3, <2>5 DEF Fresh, Well
    <3> QED BY <2>2, <3>1, <3>3, <3>4, <3>5
  <2> HIDE DEF h, n
  <2>7. Introduces(h, n, scope, region, e, t)
    <3> HIDE DEF e
    <3>1. \A x \in scope[1].decls : x \in 1..Len(h)
      BY <2>6
    <3> QED BY <2>1, <2>2, <2>5, <2>6, <3>1, IntroduceFacts
  <2>8. /\ Well(g, n) /\ Keeps(h, g, region) /\ Len(g) = e /\ g \in Heap
        /\ t.scope = scope \/ t.scope = AddToFrame(scope, {e})
        /\ g[region].decls = h[region].decls \/ g[region].decls = Append(h[region].decls, e)
        /\ \A i \in 1..Len(h) : i \notin scope[1].decls =>
             g[i].completion = h[i].completion /\ g[i].forward = h[i].forward
    BY <2>5, <2>7 DEF Introduces, Well
  <2> HIDE DEF t, e
  <2>9. ASSUME NEW i \in 1..Len(g), NEW j \in 1..Len(g[i].decls)
        PROVE  g[i].decls[j] =< Len(g) \/ \A m \in 1..Len(ls) : ls[m].region = i
    <3>1. CASE i = e
      BY <2>3, <3>1 DEF Fresh
    <3>2. CASE i # e
      <4>1. i \in 1..Len(ast)
        BY <2>1, <2>4, <2>5, <2>8, <3>2 DEF e
      <4>2. h[i].decls = ast[i].decls
        BY <2>5, <4>1
      <4>3. \A m \in 1..Len(ast[i].decls) : ast[i].decls[m] =< e /\ ast[i].decls[m] \in Nat
        BY <2>1, <4>1 DEF Well, e
      <4>4. CASE g[i].decls = h[i].decls
        BY <2>8, <4>2, <4>3, <4>4
      <4>5. CASE i = region /\ g[i].decls = Append(h[i].decls, e)
        <5>1. ast[i] \in NodeType
          BY <2>1, <4>1 DEF Heap
        <5>2. ast[i].decls \in Seq(Nat)
          BY <5>1 DEF NodeType
        <5>3. /\ Len(g[i].decls) = Len(ast[i].decls) + 1 /\ g[i].decls[Len(ast[i].decls) + 1] = e
              /\ \A m \in 1..Len(ast[i].decls) : g[i].decls[m] = ast[i].decls[m]
              /\ Len(ast[i].decls) \in Nat
          <6>1. g[i].decls = Append(ast[i].decls, e) /\ e \in Nat
            BY <2>4, <4>2, <4>5
          <6> QED BY <5>2, <6>1, AppendProperties
        <5>4. j \in 1..Len(ast[i].decls) \/ g[i].decls[j] = e
          BY <5>3
        <5>5. CASE j \in 1..Len(ast[i].decls)
          <6>1. g[i].decls[j] = ast[i].decls[j]
            BY <5>5, <5>3
          <6> QED BY <2>8, <4>3, <5>5, <6>1
        <5>6. CASE g[i].decls[j] = e
          BY <2>4, <2>8, <5>6
        <5> QED BY <5>4, <5>5, <5>6
      <4>6. i # region => g[i].decls = h[i].decls
        BY <2>5, <2>8 DEF Keeps, Stays
      <4> QED BY <2>8, <4>4, <4>5, <4>6
    <3> QED BY <3>1, <3>2
  <2>10. /\ Well(heap, n) /\ Len(heap) = n /\ heap \in Heap
         /\ \A i \in 1..Len(g) : heap[i] = g[i]
         /\ \A i \in (Len(g) + 1)..n : i - Len(g) \in 1..Len(ls) /\ heap[i] = ls[i - Len(g)]
    <3>1. n = Len(g) + Len(ls)
      BY <2>3, <2>8 DEF n
    <3>2. e \in 1..Len(g)
      BY <2>5, <2>6, <2>8
    <3>3. \A j \in 1..Len(ls) : ls[j].decls = <<>> /\ ls[j].region \in 1..Len(g) /\ ls[j].completion = 0
      BY <2>3, <3>2 DEF Fresh
    <3>4. Well(g, n) /\ ls \in Heap
      BY <2>3, <2>8
    <3> HIDE DEF g
    <3> QED BY <2>9, <3>1, <3>3, <3>4, WellConcat
  <2> HIDE DEF heap, g
  <2>11. Keeps(ast, g, region)
    <3>1. \A i \in (Len(ast) + 1)..Len(h) : i \notin scope[1].decls /\ i \in 1..Len(h)
      BY <2>4, <2>6
    <3>2. \A i \in (Len(ast) + 1)..Len(h) : g[i].completion = h[i].completion /\ g[i].forward = h[i].forward
      BY <2>8, <3>1
    <3> QED BY <2>1, <2>5, <2>6, <2>8, <3>2, KeepsTransitive
  <2>12. Keeps(g, heap, region)
    <3>1. Len(g) =< Len(heap)
      BY <2>4, <2>8, <2>10
    <3>2. \A i \in (Len(g) + 1)..Len(heap) : Fresh(heap[i], e)
      BY <2>3, <2>10
    <3>3. \A i \in (Len(g) + 1)..Len(heap) : heap[i].kind \notin DeclKinds
      BY <2>3, <2>10 DEF DeclKinds
    <3> QED BY <2>10, <3>1, <3>2, <3>3 DEF Keeps, Stays, Fresh
  <2>13. Keeps(ast, heap, region)
    <3>1. \A i \in (Len(ast) + 1)..Len(g) : i \in 1..Len(g)
      BY <2>1, <2>4, <2>8
    <3>2. \A i \in (Len(ast) + 1)..Len(g) : heap[i].completion = g[i].completion /\ heap[i].forward = g[i].forward
      BY <2>10, <3>1
    <3> QED BY <2>1, <2>8, <2>10, <2>11, <2>12, <3>2, KeepsTransitive
  <2>14. /\ Well(heap, Len(heap)) /\ e \in 1..Len(heap) /\ heap[e].kind = "Enumeration"
    <3>1. e \in 1..Len(g) /\ e \in 1..n
      BY <2>4, <2>8
    <3>2. g[e].kind = h[e].kind
      BY <2>6, <2>8 DEF Keeps, Stays
    <3> QED BY <2>3, <2>5, <2>10, <3>1, <3>2
  <2>15. PICK L \in SUBSET (1..Len(heap)) :
              /\ introduceImplicitDecls(heap, t.scope, e) = AddToFrame(t.scope, L)
              /\ \A x \in L : heap[x].kind = "EnumLiteral"
    BY <2>14, ImplicitFacts
  <2>16. errors' \in Nat /\ (errors' = 0 => errors = 0)
    <3>1. Cardinality(ImplicitConflicts(heap, t.scope, e)) \in Nat
      BY <2>14, ImplicitFacts
    <3>2. (IF ~t.ok THEN 1 ELSE Cardinality(ImplicitConflicts(heap, t.scope, e))) \in Nat
      BY <3>1
    <3> QED BY <1>2, <1>5, <3>2, ReportedFacts
  <2>17. \E D \in SUBSET ({e} \cup L) : scope' = AddToFrame(scope, D) \/ (scope' = scope /\ D = {})
    <3>1. {e} \in SUBSET Nat /\ L \in SUBSET Nat
      BY <2>4, <2>10
    <3>2. CASE scope' = t.scope
      BY <2>8, <3>2
    <3>3. CASE scope' = AddToFrame(t.scope, L)
      <4>1. CASE t.scope = scope
        BY <3>3, <4>1
      <4>2. CASE t.scope = AddToFrame(scope, {e})
        <5>1. scope' = AddToFrame(scope, {e} \cup L)
          BY <2>1, <2>2, <3>1, <3>3, <4>2, AddTwice
        <5> QED BY <5>1
      <4> QED BY <2>8, <4>1, <4>2
    <3> QED BY <1>5, <2>15, <3>2, <3>3
  <2>18. PICK D \in SUBSET ({e} \cup L) : scope' = AddToFrame(scope, D) \/ (scope' = scope /\ D = {})
    BY <2>17
  <2>19. /\ D \in SUBSET Nat
         /\ \A x \in D : /\ x \in 1..Len(ast') /\ ast'[x].kind # "Param"
                         /\ ast'[x].kind \in DeclKinds => ast'[x].region = region
    <3>1. \A x \in D : x \in 1..Len(heap) /\ heap[x].kind \in {"Enumeration", "EnumLiteral"}
      BY <2>14, <2>15
    <3>2. \A x \in 1..Len(heap) : x \in Nat
      BY <2>4, <2>10
    <3> QED BY <1>5, <3>1, <3>2 DEF DeclKinds
  <2>20. Well(ast', Len(ast')) /\ Keeps(ast, ast', region)
    BY <1>5, <2>13, <2>14
  <2>21. /\ region' = region /\ package' = package /\ pending = 0 /\ pending' = 0
         /\ failed' = failed /\ StencilOK(stencil') /\ scope \in Seq(Frame) /\ Len(scope) > 1
         /\ FramesHold(ast, scope)
    BY <1>1, <1>2, <1>3, <2>1, <2>2
  <2>22. BaseShape(ast, scope, region, package) /\ Kind(region) \in PartKinds
    BY <1>2
  <2> QED BY <2>16, <2>18, <2>19, <2>20, <2>21, <2>22, DeclareStep
<1> QED BY <1>1, <1>4, <1>5
-----------------------------------------------------------------------------
(* Subroutine declarations *)

\* Declaration c and its definition d are linked.
Linked(h, n, c, d, g) ==
  /\ Well(g, n) /\ Len(g) = Len(h) /\ (\A r : Stays(h, g, r))
  /\ \A i \in 1..Len(h) : i # c /\ i # d => g[i] = h[i]
  /\ g[c].completion = d /\ g[c].forward = 0 /\ g[d].forward = c
  /\ g[d].completion = h[d].completion

LEMMA LinkNodes ==
  ASSUME NEW h, NEW n, Well(h, n), NEW c \in 1..Len(h), NEW d \in 1..Len(h), c # d
  PROVE  Linked(h, n, c, d, setDefiningDeclaration(h, c, d))
<1> DEFINE x == [h[c] EXCEPT !.completion = d, !.forward = 0]
           f == [h EXCEPT ![c] = x]
           y == [h[d] EXCEPT !.forward = c]
           g == [f EXCEPT ![d] = y]
<1>1. h \in Heap /\ Len(h) \in Nat /\ c \in Nat /\ d \in Nat /\ d # 0 /\ n \in Nat /\ d =< n
  BY DEF Well, Heap
<1>2. h[c] \in NodeType /\ h[d] \in NodeType
  BY <1>1 DEF Heap
<1>3. /\ x \in NodeType /\ x.kind = h[c].kind /\ x.region = h[c].region /\ x.sig = h[c].sig
      /\ x.private = h[c].private /\ x.body = h[c].body /\ x.completion = d
      /\ x.forward = 0 /\ x.decls = h[c].decls
  BY <1>1, <1>2 DEF NodeType
<1>4. /\ y \in NodeType /\ y.kind = h[d].kind /\ y.region = h[d].region /\ y.sig = h[d].sig
      /\ y.private = h[d].private /\ y.body = h[d].body /\ y.completion = h[d].completion
      /\ y.forward = c /\ y.decls = h[d].decls
  BY <1>1, <1>2 DEF NodeType
<1>5. setDefiningDeclaration(h, c, d) = g
  <2>1. [h EXCEPT ![c].completion = d, ![c].forward = 0] = f
    BY <1>1, <1>2 DEF Heap
  <2>2. f[d] = h[d]
    BY <1>1 DEF Heap
  <2>3. setDefiningDeclaration(h, c, d) = [f EXCEPT ![d].forward = c]
    BY <2>1 DEF setDefiningDeclaration
  <2> HIDE DEF f
  <2>4. [f EXCEPT ![d].forward = c] = g
    BY <2>2
  <2> QED BY <2>3, <2>4
<1> HIDE DEF x, y
<1>6. f \in Heap /\ Len(f) = Len(h) /\ f[c] = x /\ \A i \in 1..Len(h) : i # c => f[i] = h[i]
  BY <1>1, <1>3, ChangeNode
<1> HIDE DEF f
<1>7. g \in Heap /\ Len(g) = Len(f) /\ g[d] = y /\ \A i \in 1..Len(f) : i # d => g[i] = f[i]
  BY <1>4, <1>6, ChangeNode
<1> HIDE DEF g
<1>8. /\ Len(g) = Len(h) /\ g[c] = x /\ g[d] = y
      /\ \A i \in 1..Len(h) : i # c /\ i # d => g[i] = h[i]
  BY <1>6, <1>7
<1>9. ASSUME NEW i \in 1..Len(h)
      PROVE  /\ g[i].kind = h[i].kind /\ g[i].region = h[i].region /\ g[i].sig = h[i].sig
             /\ g[i].private = h[i].private /\ g[i].body = h[i].body
             /\ h[i].completion # 0 => g[i].completion # 0
             /\ g[i].decls = h[i].decls
  BY <1>1, <1>3, <1>4, <1>8
<1>10. ASSUME NEW r PROVE Stays(h, g, r)
  <2>1. Len(h) =< Len(g) /\ \A i \in (Len(h) + 1)..Len(g) : FALSE
    BY <1>1, <1>8
  <2> QED BY <1>9, <2>1 DEF Stays
<1>11. Well(g, n)
  <2>1. ASSUME NEW i \in 1..Len(h) PROVE g[i].completion =< n
    <3>1. h[i].completion =< n /\ h[d].completion =< n
      BY DEF Well
    <3> QED BY <1>1, <1>3, <1>4, <1>8, <3>1
  <2> QED BY <1>7, <1>8, <1>9, <2>1, Relink
<1> QED BY <1>3, <1>4, <1>5, <1>8, <1>10, <1>11 DEF Linked

\* Linking keeps the other definitions.
LEMMA DefinitionsLinked ==
  ASSUME NEW h, NEW n, Well(h, n), NEW c \in 1..Len(h), NEW d \in 1..Len(h), c # d, NEW g,
         Linked(h, n, c, d, g), DefinitionsAgree(h), Agree(h, c, d),
         h[c].completion = 0, h[d].completion = 0, h[d].forward = 0
  PROVE  /\ DefinitionsAgree(g)
         /\ DefinitionsPointBack(h) /\ h[c].forward = 0 => DefinitionsPointBack(g)
         /\ DefinitionsHaveBodies(h, 0) /\ h[h[d].region].kind = "Body" =>
              DefinitionsHaveBodies(g, d)
<1>1. /\ g \in Heap /\ Len(g) = Len(h) /\ Stays(h, g, 0) /\ Len(h) \in Nat
      /\ \A i \in 1..Len(h) : i # c /\ i # d => g[i] = h[i]
      /\ g[c].completion = d /\ g[d].forward = c /\ g[d].completion = 0
  BY DEF Linked, Well, Heap
<1>2. \A x \in Forwards(h) : x \in 1..Len(h) /\ x # c /\ x # d /\ g[x] = h[x] /\ x # 0
  BY <1>1 DEF Forwards
<1>3. \A x \in Forwards(g) : x \in Forwards(h) \/ x = c
  BY <1>1 DEF Forwards
<1>4. ASSUME NEW x \in Forwards(h)
      PROVE  Agree(h, x, h[x].completion) /\ Agree(g, x, g[x].completion)
  BY <1>1, <1>2, AgreeKept DEF DefinitionsAgree
<1>5. Agree(g, c, g[c].completion)
  BY <1>1, AgreeKept
<1>6. DefinitionsAgree(g)
  BY <1>3, <1>4, <1>5 DEF DefinitionsAgree
<1>7. ASSUME DefinitionsPointBack(h), h[c].forward = 0 PROVE DefinitionsPointBack(g)
  <2>1. ASSUME NEW x \in Forwards(h)
        PROVE  g[g[x].completion].forward = x /\ g[g[x].completion].completion = 0
    <3> DEFINE k == h[x].completion
    <3>1. h[k].forward = x /\ h[k].completion = 0 /\ k \in 1..Len(h) /\ g[x].completion = k
      BY <1>2, <1>4, <1>7 DEF DefinitionsPointBack, Agree
    <3>2. k # c /\ k # d
      BY <1>2, <1>7, <3>1
    <3> HIDE DEF k
    <3> QED BY <1>1, <3>1, <3>2
  <2> QED BY <1>1, <1>3, <2>1 DEF DefinitionsPointBack
<1>8. ASSUME DefinitionsHaveBodies(h, 0), h[h[d].region].kind = "Body"
      PROVE  DefinitionsHaveBodies(g, d)
  <2>1. ASSUME NEW k \in 1..Len(h), h[k].region # 0
        PROVE  g[k].body = h[k].body /\ g[g[k].region].kind = h[h[k].region].kind
    <3>1. h[k].region \in 1..Len(h)
      BY <2>1, RegionFacts
    <3> QED BY <1>1, <3>1 DEF Stays
  <2>2. ASSUME NEW x \in Forwards(h)
        PROVE  g[g[g[x].completion].region].kind = "Body" /\ g[g[x].completion].body # 0
    <3> DEFINE k == h[x].completion
    <3>1. k \in 1..Len(h) /\ g[x].completion = k /\ h[k].region # 0
      BY <1>2, <1>4 DEF Agree, Reach
    <3>2. k # 0
      BY <1>1, <3>1
    <3>3. h[h[k].region].kind = "Body" /\ h[k].body # 0
      BY <1>8, <3>2 DEF DefinitionsHaveBodies
    <3> HIDE DEF k
    <3> QED BY <2>1, <3>1, <3>3
  <2>3. h[d].region # 0
    BY DEF Agree, Reach
  <2>4. g[g[g[c].completion].region].kind = "Body"
    BY <1>1, <1>8, <2>1, <2>3
  <2> QED BY <1>1, <1>3, <2>2, <2>4 DEF DefinitionsHaveBodies
<1> QED BY <1>6, <1>7, <1>8

\* Subroutines of the innermost frame are declared in the current region or
\* around it.
LEMMA DeclaredAround ==
  ASSUME NEW h, NEW S, NEW r, NEW p, BaseShape(h, S, r, p), r # 0, h[r].kind \in PartKinds,
         NEW c \in S[1].decls, h[c].kind \in DeclKinds, 0 \notin 1..Len(h)
  PROVE  Reach(h, h[c].region, r)
<1>1. CASE PackageShape(h, S, r, p)
  BY <1>1 DEF PackageShape, PackageFrame
<1>2. CASE SubroutineShape(h, S, r, p)
  <2>1. PICK d \in 1..Len(h) : SubroutineFrame(h, S[1], r, d) /\ h[d].region = h[p].body
    BY <1>2 DEF SubroutineShape
  <2>2. h[p].body # 0
    BY <1>2 DEF SubroutineShape
  <2>3. r # d
    BY <2>1 DEF SubroutineFrame, PartKinds, DeclKinds
  <2>4. h[r].region = d /\ d # 0
    BY <2>1, <2>3 DEF SubroutineFrame
  <2>5. c = d \/ h[c].region = r
    BY <2>1 DEF SubroutineFrame
  <2> QED BY <2>1, <2>2, <2>4, <2>5 DEF Reach
<1> QED BY <1>1, <1>2 DEF BaseShape

\* The node of a subroutine declaration.
LEMMA RoutineFresh ==
  ASSUME Inv, stencil \in RoutineStencil, NEW x,
         x = RoutineNode(stencil.of, stencil.name, stencil.elems, stencil.ret)
  PROVE  Fresh(x, region) /\ x.decls = <<>> /\ x.kind \in DeclKinds
<1> DEFINE y == Node(stencil.of, stencil.name)
           sg == [params |-> stencil.elems, ret |-> stencil.ret]
<1>1. /\ stencil.of \in DeclKinds /\ stencil.name \in Name /\ stencil.elems \in Seq(Formal)
      /\ stencil.ret \in Nat
  BY DEF RoutineStencil
<1>2. /\ stencil.of \in NodeKind /\ stencil.of \notin {"Param", "Package", "Body"}
      /\ stencil.name \in NodeName
  BY <1>1 DEF NodeKind, NodeName, DeclKinds, RoutineKinds
<1>3. Fresh(y, region) /\ y.decls = <<>> /\ y.kind = stencil.of /\ y \in NodeType
  BY <1>2, NodeFresh
<1>4. sg \in [params: Seq(Formal), ret: Nat]
  BY <1>1
<1>5. x = [y EXCEPT !.sig = sg]
  BY DEF RoutineNode
<1> HIDE DEF y, sg
<1>6. /\ x \in NodeType /\ x.kind = y.kind /\ x.region = y.region /\ x.decls = y.decls
      /\ x.completion = y.completion /\ x.forward = y.forward
  BY <1>3, <1>4, <1>5 DEF NodeType
<1> QED BY <1>1, <1>3, <1>6 DEF Fresh

\* What RoutineDeclared leaves: the declaration is new, or defines an earlier
\* one, or is refused.
RoutineOutcome(h, d, follows, t) ==
  LET c == FindConflict(h, Head(scope), d)
      g == setDefiningDeclaration(h, c, d)
  IN  \/ /\ t.ast = AddToRegion(h, region, d) /\ t.ok = TRUE /\ t.reset = FALSE
         /\ t.scope = AddToFrame(scope, {d})
      \/ /\ c # 0 /\ follows /\ compatibleSubroutineDecls(h, c, d) /\ h[c].completion = 0
         /\ t.ast = g \/ t.ast = AddToRegion(g, region, d)
         /\ t.ok = TRUE /\ t.scope = scope /\ t.reset = (h[c].forward # 0)
      \/ t.ast = h /\ t.ok = FALSE /\ t.scope = scope /\ t.reset = FALSE

LEMMA RoutineCases ==
  ASSUME NEW h, NEW d, NEW follows
  PROVE  RoutineOutcome(h, d, follows, RoutineDeclared(h, d, follows))
<1> DEFINE c == FindConflict(h, Head(scope), d)
           t == RoutineDeclared(h, d, follows)
<1>1. CASE c = 0
  BY <1>1 DEF RoutineDeclared, RoutineOutcome
<1>2. CASE c # 0 /\ ~(/\ h[c].kind \in RoutineKinds /\ follows
                      /\ compatibleSubroutineDecls(h, c, d) /\ ~hasDefiningDeclaration(h, c))
  BY <1>2 DEF RoutineDeclared, RoutineOutcome
<1>3. CASE c # 0 /\ (/\ h[c].kind \in RoutineKinds /\ follows
                     /\ compatibleSubroutineDecls(h, c, d) /\ ~hasDefiningDeclaration(h, c))
  <2>1. h[c].completion = 0
    BY <1>3 DEF hasDefiningDeclaration
  <2> QED BY <1>3, <2>1 DEF RoutineDeclared, RoutineOutcome
<1> QED BY <1>1, <1>2, <1>3

\* A definition without a body is one that is not there.
LEMMA PendingIrrelevant ==
  ASSUME NEW h, DefinitionsHaveBodies(h, 0), NEW q
  PROVE  DefinitionsHaveBodies(h, q)
BY DEF DefinitionsHaveBodies, Forwards

\* Changes of the shape follow one another.
LEMMA StaysTransitive ==
  ASSUME NEW h \in Heap, NEW g \in Heap, NEW f \in Heap, NEW r, Stays(h, g, r), Stays(g, f, r)
  PROVE  Stays(h, f, r)
<1>1. Len(h) \in Nat /\ Len(g) \in Nat /\ Len(f) \in Nat /\ Len(h) =< Len(g) /\ Len(g) =< Len(f)
  BY DEF Heap, Stays
<1>2. \A i \in 1..Len(h) : i \in 1..Len(g)
  BY <1>1
<1>3. \A i \in (Len(h) + 1)..Len(f) : i \in (Len(h) + 1)..Len(g) \/ i \in (Len(g) + 1)..Len(f)
  BY <1>1
<1>4. \A i \in (Len(h) + 1)..Len(g) : i \in 1..Len(g)
  BY <1>1
<1>5. ASSUME NEW i \in 1..Len(h)
      PROVE  /\ f[i].kind = h[i].kind /\ f[i].region = h[i].region /\ f[i].sig = h[i].sig
             /\ f[i].private = h[i].private /\ f[i].body = h[i].body
             /\ h[i].completion # 0 => f[i].completion # 0
             /\ i # r => f[i].decls = h[i].decls
             /\ Range(h[i].decls) \subseteq Range(f[i].decls)
  <2>1. /\ g[i].kind = h[i].kind /\ g[i].region = h[i].region /\ g[i].sig = h[i].sig
        /\ g[i].private = h[i].private /\ g[i].body = h[i].body
        /\ h[i].completion # 0 => g[i].completion # 0
        /\ i # r => g[i].decls = h[i].decls
        /\ Range(h[i].decls) \subseteq Range(g[i].decls)
    BY DEF Stays
  <2>2. /\ f[i].kind = g[i].kind /\ f[i].region = g[i].region /\ f[i].sig = g[i].sig
        /\ f[i].private = g[i].private /\ f[i].body = g[i].body
        /\ g[i].completion # 0 => f[i].completion # 0
        /\ i # r => f[i].decls = g[i].decls
        /\ Range(g[i].decls) \subseteq Range(f[i].decls)
    BY <1>2 DEF Stays
  <2> QED BY <2>1, <2>2
<1>6. ASSUME NEW i \in (Len(h) + 1)..Len(f)
      PROVE  /\ f[i].kind \notin {"Param", "Package", "Body"}
             /\ f[i].kind \in DeclKinds => f[i].region = r
  BY <1>3, <1>4 DEF Stays
<1>7. Len(h) =< Len(f)
  BY <1>1
<1> QED BY <1>5, <1>6, <1>7 DEF Stays

\* A definition is linked, and listed unless it is where its declaration is.
DefinedIn(h, r, c, d, f) ==
  /\ Well(f, Len(f)) /\ Len(f) = Len(h) /\ Stays(h, f, r) /\ DefinitionsAgree(f)
  /\ DefinitionsPointBack(h) /\ h[c].forward = 0 => DefinitionsPointBack(f)
  /\ DefinitionsHaveBodies(h, 0) /\ h[r].kind = "Body" => DefinitionsHaveBodies(f, d)

LEMMA DefineRoutine ==
  ASSUME NEW h, Well(h, Len(h)), NEW r \in 1..Len(h), NEW c \in 1..Len(h), NEW d \in 1..Len(h),
         c # d, h[d].region = r, DefinitionsAgree(h), Agree(h, c, d),
         h[c].completion = 0, h[d].completion = 0, h[d].forward = 0,
         NEW f, \/ f = setDefiningDeclaration(h, c, d)
                \/ f = AddToRegion(setDefiningDeclaration(h, c, d), r, d)
  PROVE  DefinedIn(h, r, c, d, f)
<1> DEFINE g == setDefiningDeclaration(h, c, d)
<1>1. Linked(h, Len(h), c, d, g)
  BY LinkNodes
<1>2. /\ DefinitionsAgree(g)
      /\ DefinitionsPointBack(h) /\ h[c].forward = 0 => DefinitionsPointBack(g)
      /\ DefinitionsHaveBodies(h, 0) /\ h[r].kind = "Body" => DefinitionsHaveBodies(g, d)
  BY <1>1, DefinitionsLinked
<1> HIDE DEF g
<1>3. Well(g, Len(h)) /\ Len(g) = Len(h) /\ Stays(h, g, r) /\ g \in Heap /\ h \in Heap
  BY <1>1 DEF Linked, Well
<1>4. CASE f = g
  BY <1>2, <1>3, <1>4 DEF DefinedIn
<1>5. CASE f = AddToRegion(g, r, d)
  <2>1. g[d].region = r /\ r \in 1..Len(g) /\ d \in 1..Len(g)
    BY <1>3 DEF Stays
  <2>2. ListedIn(g, Len(h), r, d, f)
    BY <1>3, <1>5, <2>1, ListNode
  <2>3. Well(f, Len(h)) /\ Len(f) = Len(h) /\ Keeps(g, f, r) /\ Stays(g, f, r) /\ f \in Heap
    BY <1>3, <2>2 DEF ListedIn, Keeps, Well
  <2>4. Stays(h, f, r)
    BY <1>3, <2>3, StaysTransitive
  <2>5. /\ DefinitionsAgree(f)
        /\ DefinitionsPointBack(g) => DefinitionsPointBack(f)
        /\ DefinitionsHaveBodies(g, d) => DefinitionsHaveBodies(f, d)
    BY <1>2, <1>3, <2>3, DefinitionsKept
  <2> QED BY <1>2, <2>3, <2>4, <2>5 DEF DefinedIn
<1> QED BY <1>4, <1>5 DEF g

LEMMA IdleFacts == StencilOK(IdleStencil) /\ IdleStencil.of = "idle"
<1>1. StencilOK(IdleStencil)
  BY Zenon DEF StencilOK
<1>2. IdleStencil.of = "idle"
  BY DEF IdleStencil
<1> QED BY <1>1, <1>2

\* One of the outcomes of a declaration becomes the new state.
LEMMA RoutineStep ==
  ASSUME Inv, stencil \in RoutineStencil, NEW follows \in BOOLEAN, NEW x,
         x = RoutineNode(stencil.of, stencil.name, stencil.elems, stencil.ret),
         NEW t, RoutineOutcome(Append(ast, x), Len(ast) + 1, follows, t),
         NEW astray, astray = (follows /\ Kind(region) # "Body"),
         ast' = t.ast, scope' = t.scope,
         pending' = IF t.ok /\ follows /\ ~astray THEN Len(ast) + 1 ELSE 0,
         errors' = Reported(IF t.ok /\ ~astray THEN 0 ELSE 1),
         failed' = IF t.reset THEN failed \cup {"reset"} ELSE failed,
         stencil' = IdleStencil, UNCHANGED <<region, package>>
  PROVE  Inv'
<1> DEFINE h == Append(ast, x)
           d == Len(ast) + 1
<1>1. /\ BaseShape(ast, scope, region, package) /\ Kind(region) \in PartKinds /\ pending = 0
      /\ errors \in Nat
  <2>1. stencil.of # "idle"
    BY DEF RoutineStencil, DeclKinds
  <2> QED BY <2>1, StencilCases
<1>2. /\ scope \in Seq(Frame) /\ FramesHold(ast, scope) /\ NodesInv /\ Well(ast, Len(ast))
      /\ DefinitionsAgree(ast) /\ ast \in Heap /\ Len(ast) \in Nat
  BY DEF Inv, ShapeInv, NodesInv, Well, Heap
<1>3. region \in 1..Len(ast) /\ Len(scope) \in {2, 3}
  BY <1>1, <1>2, BaseFacts
<1>4. Len(scope) > 1 /\ Len(scope) > 0
  <2>1. Len(scope) = 2 \/ Len(scope) = 3
    BY <1>3, Zenon
  <2> QED BY <2>1, SmallStack, Zenon
<1>5. Fresh(x, region) /\ x.decls = <<>> /\ x.kind \in DeclKinds
  BY RoutineFresh
<1>6. region \in 0..Len(ast) /\ region # 0
  BY <1>2, <1>3
<1>7. /\ Well(h, d) /\ Keeps(ast, h, region) /\ Len(h) = d /\ h[d] = x /\ d \in 1..d /\ h \in Heap
      /\ \A i \in 1..Len(ast) : h[i] = ast[i]
  BY <1>2, <1>5, <1>6, MakeFacts
<1> HIDE DEF h
<1>8. Stays(ast, h, region) /\ Well(h, Len(h)) /\ h[d].region = region /\ h[d].kind \in DeclKinds
  BY <1>5, <1>7 DEF Keeps, Fresh
<1>9. /\ DefinitionsAgree(h)
      /\ DefinitionsPointBack(ast) => DefinitionsPointBack(h)
      /\ \A q : DefinitionsHaveBodies(ast, q) => DefinitionsHaveBodies(h, q)
  BY <1>2, <1>7, DefinitionsKept
<1>10. /\ errors' \in Nat /\ (errors' = 0 => errors = 0 /\ t.ok /\ ~astray)
  <2>1. (IF t.ok /\ ~astray THEN 0 ELSE 1) \in Nat
    OBVIOUS
  <2> QED BY <1>1, <2>1, ReportedFacts
<1>11. StencilOK(stencil') /\ stencil'.of = "idle"
  BY IdleFacts
<1>12. /\ "reset" \notin failed' => "reset" \notin failed /\ ~t.reset
       /\ "reset" \notin failed => DefinitionsPointBack(ast)
       /\ errors = 0 => DefinitionsHaveBodies(ast, 0)
  BY <1>1 DEF Inv, CleanInv
<1>13. pending' # 0 => pending' = d /\ Kind(region) = "Body"
  OBVIOUS
<1>14. CASE /\ t.ast = AddToRegion(h, region, d) /\ t.ok = TRUE /\ t.reset = FALSE
            /\ t.scope = AddToFrame(scope, {d})
  <2>1. MadeIn(ast, region, x, ast')
    BY <1>2, <1>3, <1>5, <1>14, MakeListed DEF h
  <2>2. /\ Well(ast', Len(ast')) /\ Keeps(ast, ast', region) /\ Len(ast') = d /\ ast' \in Heap
        /\ ast'[d] = x /\ d \in 1..Len(ast') /\ Stays(ast, ast', region)
    BY <2>1 DEF MadeIn, Keeps
  <2>3. /\ DefinitionsAgree(ast')
        /\ DefinitionsPointBack(ast) => DefinitionsPointBack(ast')
        /\ DefinitionsHaveBodies(ast, 0) => DefinitionsHaveBodies(ast', 0)
    BY <1>2, <2>2, DefinitionsKept
  <2>4. errors' = 0 => errors = 0 /\ DefinitionsHaveBodies(ast', pending')
    BY <1>10, <1>12, <2>3, PendingIrrelevant
  <2>5. "reset" \notin failed' => DefinitionsPointBack(ast')
    BY <1>12, <2>3
  <2>6. pending' # 0 => /\ pending' = Len(ast') /\ ast'[Len(ast')].kind \in DeclKinds
                        /\ ast'[Len(ast')].region = region /\ Kind(region) = "Body"
    BY <1>5, <1>13, <2>2 DEF Fresh
  <2>7. \A y \in {d} : /\ y \in 1..Len(ast') /\ ast'[y].kind # "Param"
                       /\ ast'[y].kind \in DeclKinds => ast'[y].region = region
    BY <1>5, <2>2 DEF Fresh
  <2>8. scope' = AddToFrame(scope, {d}) /\ {d} \in SUBSET Nat
    BY <1>2, <1>14
  <2> HIDE DEF d
  <2> QED BY <1>1, <1>2, <1>4, <1>10, <1>11, <2>2, <2>3, <2>4, <2>5, <2>6, <2>7, <2>8, PlaceStep
<1>15. CASE t.ast = h /\ t.ok = FALSE /\ t.scope = scope /\ t.reset = FALSE
  <2>1. scope' = scope /\ ast' = h /\ pending' = 0
    BY <1>15
  <2>2. Well(ast', Len(ast')) /\ Stays(ast, ast', region) /\ DefinitionsAgree(ast')
    BY <1>8, <1>9, <2>1
  <2>3. errors' = 0 => errors = 0 /\ DefinitionsHaveBodies(ast', pending')
    BY <1>10, <1>15
  <2>4. "reset" \notin failed' => DefinitionsPointBack(ast')
    BY <1>9, <1>12, <2>1
  <2>5. \A y \in {} : /\ y \in 1..Len(ast') /\ ast'[y].kind # "Param"
                      /\ ast'[y].kind \in DeclKinds => ast'[y].region = region
    OBVIOUS
  <2>6. {} \in SUBSET Nat /\ (scope' = AddToFrame(scope, {}) \/ (scope' = scope /\ {} = {}))
    BY <2>1
  <2> QED BY <1>1, <1>2, <1>4, <1>10, <1>11, <2>1, <2>2, <2>3, <2>4, <2>5, <2>6, PlaceStep
<1> DEFINE c == FindConflict(h, Head(scope), d)
           g == setDefiningDeclaration(h, c, d)
<1>16. CASE /\ c # 0 /\ follows /\ compatibleSubroutineDecls(h, c, d) /\ h[c].completion = 0
            /\ t.ast = g \/ t.ast = AddToRegion(g, region, d)
            /\ t.ok = TRUE /\ t.scope = scope /\ t.reset = (h[c].forward # 0)
  <2>1. c \in Head(scope).decls
    BY <1>16, ConflictFacts
  <2>2. c \in scope[1].decls /\ c \in 1..Len(ast)
    <3>1. Head(scope) = scope[1] /\ 1 \in 1..Len(scope)
      BY <1>2, <1>4, TailFacts
    <3> QED BY <1>2, <2>1, <3>1 DEF FramesHold
  <2> HIDE DEF c
  <2>3. c # d /\ c \in 1..Len(h) /\ h[c] = ast[c] /\ d \in 1..Len(h) /\ region \in 1..Len(h)
    BY <1>2, <1>3, <1>7, <2>2
  <2>4. /\ h[c].kind = h[d].kind /\ h[d].sig.ret = h[c].sig.ret
        /\ Len(h[d].sig.params) = Len(h[c].sig.params)
        /\ \A i \in DOMAIN h[c].sig.params : h[c].sig.params[i].type = h[d].sig.params[i].type
    BY <1>16 DEF compatibleSubroutineDecls
  <2>5. Reach(ast, ast[c].region, region)
    <3>1. ast[c].kind \in DeclKinds /\ ast[region].kind \in PartKinds /\ 0 \notin 1..Len(ast)
      BY <1>1, <1>2, <1>8, <2>3, <2>4 DEF Kind
    <3> QED BY <1>1, <1>6, <2>2, <3>1, DeclaredAround
  <2>6. Agree(h, c, d)
    <3>1. Reach(h, h[c].region, h[d].region)
      BY <1>2, <1>6, <1>8, <2>3, <2>5, ReachKept
    <3> QED BY <2>3, <2>4, <3>1 DEF Agree
  <2>7. h[d].completion = 0 /\ h[d].forward = 0
    BY <1>5, <1>7 DEF Fresh
  <2>8. DefinedIn(h, region, c, d, ast')
    <3>1. ast' = g \/ ast' = AddToRegion(g, region, d)
      BY <1>16
    <3>2. h[c].completion = 0
      BY <1>16
    <3> HIDE DEF d
    <3> QED BY <1>8, <1>9, <2>3, <2>6, <2>7, <3>1, <3>2, DefineRoutine
  <2>9. /\ Well(ast', Len(ast')) /\ Len(ast') = d /\ Stays(h, ast', region) /\ DefinitionsAgree(ast')
        /\ ast' \in Heap
        /\ DefinitionsPointBack(h) /\ h[c].forward = 0 => DefinitionsPointBack(ast')
        /\ DefinitionsHaveBodies(h, 0) /\ h[region].kind = "Body" => DefinitionsHaveBodies(ast', d)
    BY <1>7, <2>8 DEF DefinedIn, Well
  <2>10. Stays(ast, ast', region)
    BY <1>2, <1>7, <1>8, <2>9, StaysTransitive
  <2>11. ast'[d].kind \in DeclKinds /\ ast'[d].region = region
    BY <1>7, <1>8, <2>3, <2>9 DEF Stays
  <2>12. errors' = 0 => errors = 0 /\ DefinitionsHaveBodies(ast', pending')
    <3>1. SUFFICES ASSUME errors' = 0 PROVE errors = 0 /\ DefinitionsHaveBodies(ast', pending')
      OBVIOUS
    <3>2. errors = 0 /\ ~astray /\ DefinitionsHaveBodies(h, 0)
      BY <1>9, <1>10, <1>12, <3>1
    <3>3. Kind(region) = "Body" /\ pending' = d
      BY <1>16, <3>2
    <3>4. h[region].kind = "Body"
      BY <1>3, <1>7, <3>3 DEF Kind
    <3> QED BY <2>9, <3>2, <3>3, <3>4
  <2>13. "reset" \notin failed' => DefinitionsPointBack(ast')
    BY <1>9, <1>12, <1>16, <2>9
  <2>14. pending' # 0 => /\ pending' = Len(ast') /\ ast'[Len(ast')].kind \in DeclKinds
                         /\ ast'[Len(ast')].region = region /\ Kind(region) = "Body"
    BY <1>13, <2>9, <2>11
  <2>15. \A y \in {} : /\ y \in 1..Len(ast') /\ ast'[y].kind # "Param"
                       /\ ast'[y].kind \in DeclKinds => ast'[y].region = region
    OBVIOUS
  <2>16. {} \in SUBSET Nat /\ (scope' = AddToFrame(scope, {}) \/ (scope' = scope /\ {} = {}))
    BY <1>16
  <2> HIDE DEF d
  <2> QED BY <1>1, <1>2, <1>4, <1>10, <1>11, <2>9, <2>10, <2>12, <2>13, <2>14, <2>15, <2>16, PlaceStep
<1>17. RoutineOutcome(h, d, follows, t)
  BY DEF h
<1> QED BY <1>14, <1>15, <1>16, <1>17 DEF RoutineOutcome

LEMMA endSubroutineDeclarationInv ==
  ASSUME Inv, NEW follows \in BOOLEAN, endSubroutineDeclaration(follows)
  PROVE  Inv'
<1> DEFINE x == RoutineNode(stencil.of, stencil.name, stencil.elems, stencil.ret)
           t == RoutineDeclared(Append(ast, x), Len(ast) + 1, follows)
           astray == follows /\ Kind(region) # "Body"
<1>1. stencil' = IdleStencil /\ stencil.of \in DeclKinds /\ UNCHANGED <<region, package>>
  BY DEF endSubroutineDeclaration, DeclKinds
<1>2. /\ stencil \in RoutineStencil /\ errors \in Nat
  BY <1>1, StencilCases
<1>3. StencilOK(stencil') /\ stencil'.of = "idle"
  BY <1>1, IdleFacts
<1>4. CASE ~stencil.valid \/ ArityMismatch
  <2>1. UNCHANGED <<ast, scope, pending, failed>> /\ (errors' = errors \/ errors' = Reported(1))
    BY <1>4 DEF endSubroutineDeclaration
  <2>2. errors' \in Nat /\ (errors' = 0 => errors = 0)
    <3>1. Reported(1) \in Nat /\ (Reported(1) = 0 => errors = 0)
      BY <1>2, ReportedFacts
    <3> QED BY <1>2, <2>1, <3>1
  <2> QED BY <1>1, <1>3, <2>1, <2>2, StencilStep
<1>5. CASE stencil.valid /\ ~ArityMismatch
  <2>1. /\ ast' = t.ast /\ scope' = t.scope
        /\ pending' = IF t.ok /\ follows /\ ~astray THEN Len(ast) + 1 ELSE 0
        /\ errors' = Reported(IF t.ok /\ ~astray THEN 0 ELSE 1)
        /\ failed' = IF t.reset THEN failed \cup {"reset"} ELSE failed
    BY <1>5 DEF endSubroutineDeclaration, NextNode
  <2>2. RoutineOutcome(Append(ast, x), Len(ast) + 1, follows, t)
    BY RoutineCases
  <2> HIDE DEF t, astray
  <2>3. astray = (follows /\ Kind(region) # "Body")
    BY DEF astray
  <2> HIDE DEF x
  <2>4. x = RoutineNode(stencil.of, stencil.name, stencil.elems, stencil.ret)
    BY DEF x
  <2> QED BY <1>1, <1>2, <2>1, <2>2, <2>3, <2>4, RoutineStep
<1> QED BY <1>4, <1>5

\* A pragma marks a node, if anything.
Marked(h, d) == [h EXCEPT ![d].import = TRUE]

LEMMA MarkNode ==
  ASSUME NEW h, NEW n, Well(h, n), NEW d, NEW r
  PROVE  /\ Well(Marked(h, d), n) /\ Keeps(h, Marked(h, d), r)
         /\ Len(Marked(h, d)) = Len(h)
<1> DEFINE g == Marked(h, d)
<1>0. g = [h EXCEPT ![d].import = TRUE]
  BY DEF Marked
<1> HIDE DEF g
<1>1. h \in Heap /\ Len(h) \in Nat /\ DOMAIN h = 1..Len(h)
  BY DEF Well, Heap
<1>2. CASE d \in 1..Len(h)
  <2> DEFINE x == [h[d] EXCEPT !.import = TRUE]
             f == [h EXCEPT ![d] = x]
  <2>1. h[d] \in NodeType
    BY <1>1, <1>2 DEF Heap
  <2>2. /\ x \in NodeType /\ x.kind = h[d].kind /\ x.region = h[d].region /\ x.sig = h[d].sig
        /\ x.private = h[d].private /\ x.body = h[d].body /\ x.completion = h[d].completion
        /\ x.forward = h[d].forward /\ x.decls = h[d].decls
    BY <2>1 DEF NodeType
  <2>3. g = f
    BY <1>0
  <2> HIDE DEF x
  <2>4. f \in Heap /\ Len(f) = Len(h) /\ f[d] = x /\ \A i \in 1..Len(h) : i # d => f[i] = h[i]
    BY <1>1, <1>2, <2>2, ChangeNode
  <2> HIDE DEF f
  <2>5. \A i \in 1..Len(h) :
          /\ g[i].kind = h[i].kind /\ g[i].region = h[i].region /\ g[i].sig = h[i].sig
          /\ g[i].private = h[i].private /\ g[i].body = h[i].body
          /\ g[i].completion = h[i].completion /\ g[i].forward = h[i].forward
          /\ g[i].decls = h[i].decls
    BY <2>2, <2>3, <2>4
  <2>6. Well(g, n)
    <3>1. \A i \in 1..Len(h) : g[i].completion =< n
      BY <2>5 DEF Well
    <3> QED BY <2>3, <2>4, <2>5, <3>1, Relink
  <2>7. Keeps(h, g, r)
    <3>1. \A i \in (Len(h) + 1)..Len(g) : FALSE
      BY <1>1, <2>3, <2>4
    <3>2. Len(h) =< Len(g)
      BY <1>1, <2>3, <2>4
    <3> QED BY <2>5, <3>1, <3>2 DEF Keeps, Stays
  <2> QED BY <2>3, <2>4, <2>6, <2>7 DEF g
<1>3. CASE d \notin 1..Len(h)
  <2>1. g = h
    <3>1. h \in [1..Len(h) -> NodeType]
      BY <1>1 DEF Heap
    <3>2. [h EXCEPT ![d].import = TRUE] = h
      BY ONLY <1>3, <3>1, Zenon
    <3> QED BY <1>0, <3>2
  <2>2. Keeps(h, h, r)
    <3>1. \A i \in (Len(h) + 1)..Len(h) : FALSE
      BY ONLY <1>1
    <3> QED BY ONLY <1>1, <3>1 DEF Keeps, Stays
  <2> QED BY <2>1, <2>2 DEF g
<1> QED BY <1>2, <1>3 DEF g

LEMMA acceptPragmaImportInv ==
  ASSUME Inv, NEW n, NEW ok, acceptPragmaImport(n, ok)
  PROVE  Inv'
<1>1. /\ region # 0 /\ Kind(region) \in {"Body", "Block"} /\ Making("import")
      /\ \/ Refuse
         \/ /\ \E d : ast' = [ast EXCEPT ![d].import = TRUE]
            /\ UNCHANGED <<scope, region, package, stencil, pending, errors, failed>>
  BY Zenon DEF acceptPragmaImport
<1>2. pending = 0
  BY <1>1, MakingFacts
<1>3. /\ BaseShape(ast, scope, region, package) /\ Kind(region) \in PartKinds
      /\ Len(scope) > 1 /\ FramesHold(ast, scope) /\ scope \in Seq(Frame)
      /\ Well(ast, Len(ast)) /\ StencilOK(stencil) /\ errors \in Nat
  BY <1>1, InnerFacts
<1>4. CASE Refuse
  BY <1>4, RefuseInv
<1>5. CASE /\ \E d : ast' = [ast EXCEPT ![d].import = TRUE]
           /\ UNCHANGED <<scope, region, package, stencil, pending, errors, failed>>
  <2>1. Well(ast', Len(ast')) /\ Keeps(ast, ast', region)
    <3>1. PICK d : ast' = Marked(ast, d)
      BY <1>5 DEF Marked
    <3>2. Well(ast', Len(ast)) /\ Keeps(ast, ast', region) /\ Len(ast') = Len(ast)
      BY <1>3, <3>1, MarkNode
    <3> QED BY <3>2
  <2>2. {} \in SUBSET Nat /\ (scope' = AddToFrame(scope, {}) \/ (scope' = scope /\ {} = {}))
    BY <1>5
  <2>3. \A y \in {} : /\ y \in 1..Len(ast') /\ ast'[y].kind # "Param"
                      /\ ast'[y].kind \in DeclKinds => ast'[y].region = region
    OBVIOUS
  <2>4. /\ region' = region /\ package' = package /\ pending' = 0 /\ StencilOK(stencil')
        /\ errors' \in Nat /\ (errors' = 0 => errors = 0) /\ failed' = failed
    BY <1>2, <1>3, <1>5
  <2> QED BY <1>2, <1>3, <2>1, <2>2, <2>3, <2>4, DeclareStep
<1> QED BY <1>1, <1>4, <1>5
-----------------------------------------------------------------------------
(* Definitions and parts of packages: nodes are added, and where they belong *)
(* is noted in nodes that are there *)

Grows(h, g) ==
  /\ Len(h) =< Len(g)
  /\ \A i \in 1..Len(h) :
       /\ g[i].kind = h[i].kind /\ g[i].region = h[i].region /\ g[i].sig = h[i].sig
       /\ g[i].completion = h[i].completion /\ g[i].forward = h[i].forward
       /\ g[i].decls = h[i].decls /\ (h[i].body # 0 => g[i].body # 0)
  /\ \A i \in (Len(h) + 1)..Len(g) : g[i].completion = 0

LEMMA ReachGrows ==
  ASSUME NEW h, NEW n, Well(h, n), NEW g, Grows(h, g), NEW r \in 0..Len(h), NEW a
  PROVE  Reach(g, a, r) <=> Reach(h, a, r)
<1>1. Len(h) \in Nat
  BY DEF Well, Heap
<1>2. CASE r = 0
  BY <1>2 DEF Reach
<1>3. CASE r # 0
  <2>1. r \in 1..Len(h)
    BY <1>1, <1>3
  <2>2. g[r].region = h[r].region
    BY <2>1 DEF Grows
  <2>3. h[r].region # 0 => h[r].region \in 1..Len(h)
    BY <2>1, RegionFacts
  <2>4. h[r].region # 0 => g[h[r].region].region = h[h[r].region].region
    BY <2>3 DEF Grows
  <2> QED BY <2>2, <2>4 DEF Reach
<1> QED BY <1>2, <1>3

\* Definitions stay.
LEMMA RoutinesGrow ==
  ASSUME NEW h, NEW n, Well(h, n), NEW g \in Heap, Grows(h, g), RoutinesInParts(h),
         \A i \in (Len(h) + 1)..Len(g) : g[i].kind \notin DeclKinds
  PROVE  RoutinesInParts(g)
<1>1. Len(h) \in Nat /\ Len(g) \in Nat /\ Len(h) =< Len(g)
  BY DEF Well, Heap, Grows
<1>2. ASSUME NEW i \in 1..Len(g), g[i].kind \in DeclKinds
      PROVE  g[i].region # 0 /\ g[g[i].region].kind \in PartKinds
  <2>1. i \in 1..Len(h) \/ i \in (Len(h) + 1)..Len(g)
    BY <1>1
  <2>2. i \in 1..Len(h)
    BY <1>2, <2>1
  <2>3. g[i].kind = h[i].kind /\ g[i].region = h[i].region
    BY <2>2 DEF Grows
  <2>4. h[i].region # 0 /\ h[h[i].region].kind \in PartKinds
    BY <1>2, <2>2, <2>3 DEF RoutinesInParts
  <2>5. h[i].region \in 1..Len(h)
    BY <2>2, <2>4, RegionFacts
  <2>6. g[h[i].region].kind = h[h[i].region].kind
    BY <2>5 DEF Grows
  <2> QED BY <2>3, <2>4, <2>6
<1> QED BY <1>2 DEF RoutinesInParts

LEMMA DefinitionsGrow ==
  ASSUME NEW h, NEW n, Well(h, n), NEW g \in Heap, Grows(h, g), DefinitionsAgree(h)
  PROVE  /\ DefinitionsAgree(g)
         /\ DefinitionsPointBack(h) => DefinitionsPointBack(g)
         /\ \A x : DefinitionsHaveBodies(h, x) => DefinitionsHaveBodies(g, x)
         /\ \A x : DefinitionsHaveBodies(h, x) /\ g[x].body # 0 => DefinitionsHaveBodies(g, 0)
<1>1. Len(h) \in Nat /\ Len(g) \in Nat /\ Len(h) =< Len(g)
  BY DEF Well, Heap, Grows
<1>2. \A d \in Forwards(g) : d \in Forwards(h)
  <2>1. \A i \in 1..Len(g) : i \in 1..Len(h) \/ i \in (Len(h) + 1)..Len(g)
    BY <1>1
  <2> QED BY <2>1 DEF Forwards, Grows
<1>3. ASSUME NEW d \in Forwards(h)
      PROVE  /\ Agree(g, d, h[d].completion) /\ g[d].completion = h[d].completion
             /\ g[h[d].completion].forward = h[h[d].completion].forward
             /\ g[h[d].completion].completion = h[h[d].completion].completion
             /\ h[h[d].completion].body # 0 => g[h[d].completion].body # 0
             /\ g[g[h[d].completion].region].kind = h[h[h[d].completion].region].kind
  <2> DEFINE f == h[d].completion
  <2>1. Agree(h, d, f) /\ d \in 1..Len(h)
    BY DEF DefinitionsAgree, Forwards
  <2> HIDE DEF f
  <2>2. f \in 1..Len(h) /\ Reach(h, h[d].region, h[f].region)
    BY <2>1 DEF Agree
  <2>3. /\ g[f].kind = h[f].kind /\ g[f].region = h[f].region /\ g[f].sig = h[f].sig
        /\ g[f].completion = h[f].completion /\ g[f].forward = h[f].forward
        /\ h[f].body # 0 => g[f].body # 0
    BY <2>2 DEF Grows
  <2>4. /\ g[d].kind = h[d].kind /\ g[d].region = h[d].region /\ g[d].sig = h[d].sig
        /\ g[d].completion = h[d].completion
    BY <2>1 DEF Grows
  <2>5. h[f].region \in 0..Len(h) /\ (h[f].region # 0 => h[f].region \in 1..Len(h))
    BY <2>2, RegionFacts
  <2>6. Reach(g, g[d].region, g[f].region)
    BY <2>2, <2>3, <2>4, <2>5, ReachGrows
  <2>7. f \in 1..Len(g)
    BY <1>1, <2>2
  <2>8. Agree(g, d, f)
    BY <2>1, <2>3, <2>4, <2>6, <2>7 DEF Agree
  <2>9. h[f].region \in 1..Len(h)
    BY <2>2, <2>5 DEF Reach
  <2>10. g[h[f].region].kind = h[h[f].region].kind
    BY <2>9 DEF Grows
  <2> QED BY <2>3, <2>4, <2>8, <2>10 DEF f
<1>4. DefinitionsAgree(g)
  BY <1>2, <1>3 DEF DefinitionsAgree
<1>5. DefinitionsPointBack(h) => DefinitionsPointBack(g)
  BY <1>2, <1>3 DEF DefinitionsPointBack
<1>6. ASSUME NEW x, DefinitionsHaveBodies(h, x)
      PROVE  DefinitionsHaveBodies(g, x) /\ (g[x].body # 0 => DefinitionsHaveBodies(g, 0))
  <2>1. ASSUME NEW d \in Forwards(g)
        PROVE  /\ g[g[g[d].completion].region].kind = "Body"
               /\ g[g[d].completion].body # 0 \/ g[d].completion = x
    <3>1. /\ h[h[h[d].completion].region].kind = "Body"
          /\ h[h[d].completion].body # 0 \/ h[d].completion = x
      BY <1>2, <1>6 DEF DefinitionsHaveBodies
    <3> QED BY <1>2, <1>3, <3>1
  <2> QED BY <2>1 DEF DefinitionsHaveBodies
<1> QED BY <1>4, <1>5, <1>6

\* Packages stay complete.
LEMMA PackagesCompleteGrow ==
  ASSUME NEW h, Well(h, Len(h)), NEW g \in Heap, Grows(h, g), NEW o1, NEW q1, NEW o2, NEW q2,
         PackagesComplete(h, o1, q1),
         \A p \in 1..Len(g) : g[p].kind = "Package" =>
           \/ p \notin 1..Len(h) /\ g[p].decls = <<>>
           \/ /\ p \in 1..Len(h)
              /\ g[p].body # 0 /\ ~(o2 /\ q2 = p) => h[p].body # 0 /\ ~(o1 /\ q1 = p)
              /\ ~(o2 /\ q2 = p /\ g[p].body = 0) => ~(o1 /\ q1 = p /\ h[p].body = 0)
  PROVE  PackagesComplete(g, o2, q2)
<1>1. ASSUME NEW p \in 1..Len(g), g[p].kind = "Package"
      PROVE  /\ g[p].body # 0 /\ ~(o2 /\ q2 = p) =>
                  \A d \in Range(g[p].decls) :
                    g[d].kind \in DeclKinds \cup {"Incomplete"} => g[d].completion # 0
             /\ ~(o2 /\ q2 = p /\ g[p].body = 0) =>
                  \A d \in Range(g[p].decls) : g[d].kind = "Private" => g[d].completion # 0
  <2>1. CASE g[p].decls = <<>>
    <3>1. Range(g[p].decls) = {}
      BY <2>1 DEF Range
    <3> QED BY <3>1
  <2>2. CASE /\ p \in 1..Len(h)
             /\ g[p].body # 0 /\ ~(o2 /\ q2 = p) => h[p].body # 0 /\ ~(o1 /\ q1 = p)
             /\ ~(o2 /\ q2 = p /\ g[p].body = 0) => ~(o1 /\ q1 = p /\ h[p].body = 0)
    <3>1. h[p].kind = "Package" /\ g[p].decls = h[p].decls
      BY <1>1, <2>2 DEF Grows
    <3>2. \A d \in Range(h[p].decls) : d \in 1..Len(h)
      BY <2>2, ListedFacts
    <3>3. \A d \in Range(h[p].decls) : g[d].kind = h[d].kind /\ g[d].completion = h[d].completion
      BY <3>2 DEF Grows
    <3>4. /\ h[p].body # 0 /\ ~(o1 /\ q1 = p) =>
               \A d \in Range(h[p].decls) :
                 h[d].kind \in DeclKinds \cup {"Incomplete"} => h[d].completion # 0
          /\ ~(o1 /\ q1 = p /\ h[p].body = 0) =>
               \A d \in Range(h[p].decls) : h[d].kind = "Private" => h[d].completion # 0
      BY <2>2, <3>1 DEF PackagesComplete
    <3> QED BY <2>2, <3>1, <3>3, <3>4
  <2> QED BY <1>1, <2>1, <2>2
<1> QED BY <1>1 DEF PackagesComplete

\* The frame of a package stays.
LEMMA PackageShapeGrows ==
  ASSUME NEW h, NEW n, Well(h, n), NEW g \in Heap, Grows(h, g), NEW p, NEW r \in 1..Len(h),
         NEW S \in Seq(Frame), FramesHold(h, S), PackageShape(h, S, r, p), PartOf(g, p, r)
  PROVE  PackageShape(g, S, r, p)
<1>1. r \in 0..Len(h)
  <2>1. Len(h) \in Nat
    BY DEF Well, Heap
  <2> QED BY <2>1
<1>2. ASSUME NEW x \in S[1].decls, g[x].kind \in DeclKinds PROVE Reach(g, g[x].region, r)
  <2>1. 1 \in 1..Len(S)
    BY DEF PackageShape
  <2>2. x \in 1..Len(h)
    BY <2>1 DEF FramesHold
  <2>3. g[x].kind = h[x].kind /\ g[x].region = h[x].region
    BY <2>2 DEF Grows
  <2>4. Reach(h, h[x].region, r)
    BY <1>2, <2>3 DEF PackageShape, PackageFrame
  <2> QED BY <1>1, <2>3, <2>4, ReachGrows
<1>3. PackageFrame(g, S[1], r)
  BY <1>2 DEF PackageFrame, PackageShape
<1> QED BY <1>3 DEF PackageShape

LEMMA GrowsTransitive ==
  ASSUME NEW h \in Heap, NEW g \in Heap, NEW f \in Heap, Grows(h, g), Grows(g, f)
  PROVE  Grows(h, f)
<1>1. Len(h) \in Nat /\ Len(g) \in Nat /\ Len(f) \in Nat /\ Len(h) =< Len(g) /\ Len(g) =< Len(f)
  BY DEF Heap, Grows
<1>2. \A i \in 1..Len(h) : i \in 1..Len(g)
  BY <1>1
<1>3. \A i \in (Len(h) + 1)..Len(f) : i \in (Len(h) + 1)..Len(g) \/ i \in (Len(g) + 1)..Len(f)
  BY <1>1
<1>4. \A i \in (Len(h) + 1)..Len(g) : i \in 1..Len(g)
  BY <1>1
<1>5. ASSUME NEW i \in 1..Len(h)
      PROVE  /\ f[i].kind = h[i].kind /\ f[i].region = h[i].region /\ f[i].sig = h[i].sig
             /\ f[i].completion = h[i].completion /\ f[i].forward = h[i].forward
             /\ f[i].decls = h[i].decls /\ (h[i].body # 0 => f[i].body # 0)
  <2>1. /\ g[i].kind = h[i].kind /\ g[i].region = h[i].region /\ g[i].sig = h[i].sig
        /\ g[i].completion = h[i].completion /\ g[i].forward = h[i].forward
        /\ g[i].decls = h[i].decls /\ (h[i].body # 0 => g[i].body # 0)
    BY DEF Grows
  <2>2. /\ f[i].kind = g[i].kind /\ f[i].region = g[i].region /\ f[i].sig = g[i].sig
        /\ f[i].completion = g[i].completion /\ f[i].forward = g[i].forward
        /\ f[i].decls = g[i].decls /\ (g[i].body # 0 => f[i].body # 0)
    BY <1>2 DEF Grows
  <2> QED BY <2>1, <2>2
<1>6. ASSUME NEW i \in (Len(h) + 1)..Len(f) PROVE f[i].completion = 0
  BY <1>3, <1>4 DEF Grows
<1>7. Len(h) =< Len(f)
  BY <1>1
<1> QED BY <1>5, <1>6, <1>7 DEF Grows

\* Any node may be added in a region that is there, or outside all regions.
Added(h, x, g) ==
  /\ Well(g, Len(g)) /\ Grows(h, g) /\ Len(g) = Len(h) + 1 /\ g[Len(h) + 1] = x
  /\ \A i \in 1..Len(h) : g[i] = h[i]

LEMMA AddNode ==
  ASSUME NEW h, Well(h, Len(h)), NEW x \in NodeType, x.region \in 0..Len(h), x.decls = <<>>,
         x.completion = 0
  PROVE  Added(h, x, Append(h, x))
<1> DEFINE g == Append(h, x)
<1>1. h \in Heap /\ Len(h) \in Nat
  BY DEF Well, Heap
<1>2. /\ g \in Heap /\ Len(g) = Len(h) + 1 /\ g[Len(h) + 1] = x
      /\ \A i \in 1..Len(h) : g[i] = h[i]
  BY <1>1, AppendProperties DEF Heap
<1> HIDE DEF g
<1>3. \A i \in 1..Len(g) : i \in 1..Len(h) \/ i = Len(h) + 1
  BY <1>1, <1>2
<1>4. \A i \in 1..Len(g) : g[i].region < i /\ g[i].completion =< Len(g)
  <2>1. x.region < Len(h) + 1 /\ x.completion =< Len(g)
    BY <1>1, <1>2
  <2>2. ASSUME NEW i \in 1..Len(h) PROVE h[i].region < i /\ h[i].completion =< Len(g)
    <3>1. h[i].region < i /\ h[i].completion =< Len(h) /\ h[i] \in NodeType
      BY <1>1 DEF Well, Heap
    <3>2. h[i].completion \in Nat
      BY <3>1 DEF NodeType
    <3> QED BY <1>1, <1>2, <3>1, <3>2
  <2> QED BY <1>2, <1>3, <2>1, <2>2
<1>5. ASSUME NEW i \in 1..Len(g), NEW k \in 1..Len(g[i].decls)
      PROVE  g[i].decls[k] \in 1..Len(g) /\ (g[i].decls[k] =< Len(g) => g[g[i].decls[k]].region = i)
  <2>1. i \in 1..Len(h)
    <3>1. i # Len(h) + 1
      <4>1. Len(x.decls) = 0
        OBVIOUS
      <4> QED BY <1>2, <4>1
    <3> QED BY <1>3, <3>1
  <2>2. k \in 1..Len(h[i].decls) /\ g[i] = h[i]
    BY <1>2, <2>1
  <2>3. h[i].decls[k] \in 1..Len(h) /\ (h[i].decls[k] =< Len(h) => h[h[i].decls[k]].region = i)
    BY <2>1, <2>2 DEF Well
  <2>4. h[h[i].decls[k]].region = i /\ g[h[i].decls[k]] = h[h[i].decls[k]]
        /\ h[i].decls[k] \in 1..Len(g)
    BY <1>1, <1>2, <2>3
  <2> QED BY <2>2, <2>4
<1>6. Well(g, Len(g))
  <2>1. Len(g) \in Nat /\ Len(g) =< Len(g)
    BY <1>1, <1>2
  <2> QED BY <1>2, <1>4, <1>5, <2>1 DEF Well
<1>7. Grows(h, g)
  <2>1. \A i \in (Len(h) + 1)..Len(g) : g[i] = x
    BY <1>1, <1>2
  <2>2. Len(h) =< Len(g)
    BY <1>1, <1>2
  <2> QED BY <1>2, <2>1, <2>2 DEF Grows
<1> QED BY <1>2, <1>6, <1>7 DEF Added, g

\* A body or a private part is noted in the node it belongs to.
Noted(h, c, x, g) ==
  /\ Well(g, Len(g)) /\ Grows(h, g) /\ Len(g) = Len(h) /\ g[c] = x
  /\ \A i \in 1..Len(h) : i # c => g[i] = h[i]

LEMMA NoteNode ==
  ASSUME NEW h, Well(h, Len(h)), NEW c \in 1..Len(h), NEW x \in NodeType,
         /\ x.kind = h[c].kind /\ x.region = h[c].region /\ x.sig = h[c].sig
         /\ x.completion = h[c].completion /\ x.forward = h[c].forward
         /\ x.decls = h[c].decls /\ (h[c].body # 0 => x.body # 0)
  PROVE  Noted(h, c, x, [h EXCEPT ![c] = x])
<1> DEFINE g == [h EXCEPT ![c] = x]
<1>1. h \in Heap /\ Len(h) \in Nat
  BY DEF Well, Heap
<1>2. g \in Heap /\ Len(g) = Len(h) /\ g[c] = x /\ \A i \in 1..Len(h) : i # c => g[i] = h[i]
  BY <1>1, ChangeNode
<1> HIDE DEF g
<1>3. \A i \in 1..Len(h) :
        /\ g[i].kind = h[i].kind /\ g[i].region = h[i].region /\ g[i].sig = h[i].sig
        /\ g[i].completion = h[i].completion /\ g[i].forward = h[i].forward
        /\ g[i].decls = h[i].decls /\ (h[i].body # 0 => g[i].body # 0)
  BY <1>2
<1>4. Well(g, Len(g))
  <2>1. \A i \in 1..Len(h) : g[i].completion =< Len(h)
    BY <1>3 DEF Well
  <2> QED BY <1>2, <1>3, <2>1, Relink
<1>5. Grows(h, g)
  <2>1. \A i \in (Len(h) + 1)..Len(g) : FALSE
    BY <1>1, <1>2
  <2>2. Len(h) =< Len(g)
    BY <1>1, <1>2
  <2> QED BY <1>3, <2>1, <2>2 DEF Grows
<1> QED BY <1>2, <1>4, <1>5 DEF Noted, g

\* Nodes without contents are added.
LEMMA AddNodes ==
  ASSUME NEW h, Well(h, Len(h)), NEW s \in Heap,
         \A j \in 1..Len(s) : s[j].decls = <<>> /\ s[j].region \in 1..Len(h) /\ s[j].completion = 0
  PROVE  /\ Well(h \o s, Len(h \o s)) /\ Grows(h, h \o s) /\ Len(h \o s) = Len(h) + Len(s)
         /\ \A i \in 1..Len(h) : (h \o s)[i] = h[i]
         /\ \A i \in (Len(h) + 1)..(Len(h) + Len(s)) :
              i - Len(h) \in 1..Len(s) /\ (h \o s)[i] = s[i - Len(h)]
<1> DEFINE n == Len(h) + Len(s)
           g == h \o s
<1>1. h \in Heap /\ Len(h) \in Nat /\ Len(s) \in Nat
  BY DEF Well, Heap
<1>2. n \in Nat /\ Len(h) =< n
  BY <1>1
<1>3. \A i \in 1..Len(h) : \A k \in 1..Len(h[i].decls) :
        h[i].decls[k] \in 1..Len(h) /\ h[i].decls[k] =< Len(h)
  BY <1>1 DEF Well
<1>4. Well(h, n)
  <2>1. \A i \in 1..Len(h) : h[i].region < i /\ h[i].completion =< n
    <3>1. ASSUME NEW i \in 1..Len(h) PROVE h[i].region < i /\ h[i].completion =< n
      <4>1. h[i].region < i /\ h[i].completion =< Len(h) /\ h[i] \in NodeType
        BY <1>1 DEF Well, Heap
      <4>2. h[i].completion \in Nat
        BY <4>1 DEF NodeType
      <4> QED BY <1>1, <1>2, <4>1, <4>2
    <3> QED BY <3>1
  <2>2. \A i \in 1..Len(h) : \A k \in 1..Len(h[i].decls) :
          h[i].decls[k] \in 1..n /\ h[h[i].decls[k]].region = i
    <3>1. \A x \in 1..Len(h) : x \in 1..n
      BY <1>1, <1>2
    <3> QED BY <1>3, <3>1 DEF Well
  <2> QED BY <1>1, <1>2, <2>1, <2>2 DEF Well
<1>5. /\ Well(g, n) /\ Len(g) = n /\ g \in Heap
      /\ \A i \in 1..Len(h) : g[i] = h[i]
      /\ \A i \in (Len(h) + 1)..n : i - Len(h) \in 1..Len(s) /\ g[i] = s[i - Len(h)]
  BY <1>3, <1>4, WellConcat
<1> HIDE DEF g
<1>6. Grows(h, g)
  <2>1. \A i \in (Len(h) + 1)..Len(g) : g[i].completion = 0
    BY <1>5
  <2>2. Len(h) =< Len(g)
    BY <1>2, <1>5
  <2> QED BY <1>5, <2>1, <2>2 DEF Grows
<1> QED BY <1>5, <1>6 DEF g

-----------------------------------------------------------------------------
(* Subroutine definitions *)

\* The body of subroutine d is noted, its formals and its block are added.
Entered(h, d, s, x) == Append([h EXCEPT ![d].body = (Len(h) + 1) + Len(s)] \o s, x)

\* The nodes of a definition: the formals, and behind them the block.
BodyNodes(h, d, s, x, g) ==
  /\ Well(g, Len(g)) /\ Grows(h, g) /\ g \in Heap /\ Len(g) = (Len(h) + 1) + Len(s)
  /\ g[Len(g)] = x /\ (\A i \in 1..Len(h) : i # d => g[i] = h[i])
  /\ g[d].body # 0 /\ g[d].private = h[d].private /\ Len(s) \in Nat
  /\ \A i \in (Len(h) + 1)..(Len(g) - 1) : i - Len(h) \in 1..Len(s) /\ g[i] = s[i - Len(h)]

LEMMA EnterNodes ==
  ASSUME NEW h, Well(h, Len(h)), NEW d \in 1..Len(h), NEW s \in Heap,
         \A j \in 1..Len(s) : s[j].decls = <<>> /\ s[j].region = d /\ s[j].completion = 0,
         NEW x \in NodeType, x.region = d, x.decls = <<>>, x.completion = 0
  PROVE  BodyNodes(h, d, s, x, Entered(h, d, s, x))
<1> DEFINE b == (Len(h) + 1) + Len(s)
           y == [h[d] EXCEPT !.body = b]
           f == [h EXCEPT ![d] = y]
           g == f \o s
           e == Append(g, x)
<1>1. h \in Heap /\ Len(h) \in Nat /\ Len(s) \in Nat /\ h[d] \in NodeType
  BY DEF Well, Heap
<1>2. b \in Nat /\ b # 0 /\ Len(h) + Len(s) = b - 1
  BY <1>1
<1>3. e = Entered(h, d, s, x)
  BY DEF Entered
<1> HIDE DEF b
<1>4. /\ y \in NodeType /\ y.kind = h[d].kind /\ y.region = h[d].region /\ y.sig = h[d].sig
      /\ y.completion = h[d].completion /\ y.forward = h[d].forward
      /\ y.decls = h[d].decls /\ y.body = b /\ y.private = h[d].private
  BY <1>1, <1>2 DEF NodeType
<1> HIDE DEF y
<1>5. Noted(h, d, y, f)
  BY <1>2, <1>4, NoteNode
<1> HIDE DEF f
<1>6. /\ Well(f, Len(f)) /\ Grows(h, f) /\ Len(f) = Len(h) /\ f[d] = y
      /\ \A i \in 1..Len(h) : i # d => f[i] = h[i]
  BY <1>5 DEF Noted
<1>7. /\ Well(g, Len(g)) /\ Grows(f, g) /\ Len(g) = Len(f) + Len(s)
      /\ \A i \in 1..Len(f) : g[i] = f[i]
      /\ \A i \in (Len(f) + 1)..(Len(f) + Len(s)) :
           i - Len(f) \in 1..Len(s) /\ g[i] = s[i - Len(f)]
  <2>1. \A j \in 1..Len(s) : s[j].decls = <<>> /\ s[j].region \in 1..Len(f) /\ s[j].completion = 0
    BY <1>6
  <2> QED BY <1>6, <2>1, AddNodes
<1> HIDE DEF g
<1>8. Added(g, x, e)
  <2>1. x.region \in 0..Len(g)
    BY <1>1, <1>6, <1>7
  <2> QED BY <1>7, <2>1, AddNode
<1> HIDE DEF e
<1>9. /\ Well(e, Len(e)) /\ Grows(g, e) /\ Len(e) = Len(g) + 1 /\ e[Len(g) + 1] = x
      /\ \A i \in 1..Len(g) : e[i] = g[i]
  BY <1>8 DEF Added
<1>10. f \in Heap /\ g \in Heap /\ e \in Heap
  BY <1>6, <1>7, <1>9 DEF Well
<1>11. Grows(h, e)
  <2>1. Grows(h, g)
    BY <1>1, <1>6, <1>7, <1>10, GrowsTransitive
  <2> QED BY <1>1, <1>9, <1>10, <2>1, GrowsTransitive
<1>12. Len(e) = b /\ Len(g) + 1 = b
  BY <1>1, <1>2, <1>6, <1>7, <1>9
<1>13. \A i \in 1..Len(h) : i \in 1..Len(f) /\ i \in 1..Len(g)
  BY <1>1, <1>6, <1>7
<1>14. /\ \A i \in 1..Len(h) : i # d => e[i] = h[i]
       /\ e[d] = y
  BY <1>6, <1>7, <1>9, <1>13
<1>15. ASSUME NEW i \in (Len(h) + 1)..(Len(e) - 1)
       PROVE  i - Len(h) \in 1..Len(s) /\ e[i] = s[i - Len(h)]
  <2>1. i \in (Len(f) + 1)..(Len(f) + Len(s)) /\ i \in 1..Len(g)
    BY <1>1, <1>2, <1>6, <1>7, <1>12
  <2> QED BY <1>6, <1>7, <1>9, <2>1
<1>16. e[Len(e)] = x /\ e[d].body # 0 /\ e[d].private = h[d].private
  BY <1>2, <1>4, <1>9, <1>12, <1>14
<1> QED BY <1>1, <1>3, <1>9, <1>10, <1>11, <1>12, <1>14, <1>15, <1>16 DEF BodyNodes, b

\* Packages stay as they are when a subroutine, made last, gets its body.
LEMMA PackagesWholeEntered ==
  ASSUME NEW h, Well(h, Len(h)), PackagesWhole(h), NEW g \in Heap, Grows(h, g),
         NEW d, d = Len(h), d \in 1..Len(h), h[d].kind \in DeclKinds, g[d].private = h[d].private,
         \A i \in 1..Len(h) : i # d => g[i] = h[i],
         \A i \in (Len(h) + 1)..Len(g) : g[i].kind \notin {"Package", "Body"}
  PROVE  PackagesWhole(g)
<1>1. Len(h) \in Nat /\ Len(g) \in Nat /\ Len(h) =< Len(g)
  BY DEF Well, Heap, Grows
<1>2. ASSUME NEW i \in 1..Len(g), g[i].kind \in {"Package", "Body"}
      PROVE  i \in 1..Len(h) /\ i # d /\ g[i] = h[i]
  <2>1. i \in 1..Len(h) \/ i \in (Len(h) + 1)..Len(g)
    BY <1>1
  <2>2. i \in 1..Len(h)
    BY <1>2, <2>1
  <2>3. i # d
    BY <1>2, <2>2 DEF Grows, DeclKinds
  <2> QED BY <2>2, <2>3
<1>3. \A i \in 1..Len(h) : i \in 1..Len(g) /\ g[i].kind = h[i].kind /\ g[i].region = h[i].region
  BY <1>1 DEF Grows
<1>4. ASSUME NEW p \in 1..Len(g), g[p].kind = "Package"
      PROVE  /\ g[p].region = 0
             /\ g[p].private # 0 => /\ g[p].private \in 1..Len(g)
                                    /\ g[g[p].private].kind = "PrivatePart"
                                    /\ g[g[p].private].region = p
             /\ g[p].body # 0 =>
                  /\ g[p].body \in 1..Len(g) /\ g[g[p].body].kind = "Body"
                  /\ g[g[p].body].region = IF g[p].private # 0 THEN g[p].private ELSE p
  BY <1>2, <1>3, <1>4 DEF PackagesWhole
<1>5. ASSUME NEW b \in 1..Len(g), g[b].kind = "Body"
      PROVE  /\ g[b].region # 0
             /\ \/ g[g[b].region].kind = "Package" /\ g[g[b].region].body = b
                \/ /\ g[g[b].region].kind = "PrivatePart" /\ g[g[b].region].region # 0
                   /\ g[g[g[b].region].region].body = b
  <2>1. b \in 1..Len(h) /\ h[b].kind = "Body" /\ g[b].region = h[b].region /\ h[b].region # 0
    BY <1>2, <1>5 DEF PackagesWhole
  <2>2. h[b].region \in 1..Len(h) /\ h[b].region < b
    BY <2>1, RegionFacts
  <2>3. h[b].region # d /\ g[h[b].region] = h[h[b].region]
    BY <1>1, <2>1, <2>2
  <2>4. CASE h[h[b].region].kind = "Package" /\ h[h[b].region].body = b
    BY <2>1, <2>3, <2>4
  <2>5. CASE /\ h[h[b].region].kind = "PrivatePart" /\ h[h[b].region].region # 0
             /\ h[h[h[b].region].region].body = b
    <3>1. h[h[b].region].region \in 1..Len(h) /\ h[h[b].region].region < h[b].region
      BY <2>2, <2>5, RegionFacts
    <3>2. h[h[b].region].region # d
      BY <1>1, <2>1, <2>2, <3>1
    <3>3. g[h[h[b].region].region] = h[h[h[b].region].region]
      BY <3>1, <3>2
    <3> QED BY <2>1, <2>3, <2>5, <3>3
  <2> QED BY <2>1, <2>4, <2>5 DEF PackagesWhole
<1> QED BY <1>4, <1>5 DEF PackagesWhole

\* The nodes of formals and blocks.
LEMMA BlankFields == /\ Blank.decls = <<>> /\ Blank.completion = 0 /\ Blank.forward = 0
                     /\ Blank.body = 0 /\ Blank.private = 0 /\ Blank.region = 0
BY DEF Blank

LEMMA ParamFacts ==
  ASSUME NEW p \in Formal, NEW d \in Nat
  PROVE  /\ ParamNode(p, d) \in NodeType /\ ParamNode(p, d).decls = <<>>
         /\ ParamNode(p, d).region = d /\ ParamNode(p, d).completion = 0
         /\ ParamNode(p, d).kind = "Param"
<1>0. p.name \in Name /\ p.type \in Nat
  BY DEF Formal
<1>1. p.name \in NodeName /\ p.type \in Nat /\ "Param" \in NodeKind
  <2>1. p.name \in NodeName
    BY <1>0, Zenon DEF NodeName
  <2>2. "Param" \in NodeKind
    BY DEF NodeKind
  <2> QED BY <1>0, <2>1, <2>2
<1>2. Blank \in NodeType /\ Blank.decls = <<>> /\ Blank.completion = 0
  BY BlankNode, BlankFields
<1> DEFINE x == ParamNode(p, d)
<1>3. x = [Blank EXCEPT !.kind = "Param", !.region = d, !.name = p.name, !.type = p.type]
  BY DEF ParamNode
<1> HIDE DEF x
<1>4. /\ x \in NodeType /\ x.decls = Blank.decls /\ x.region = d /\ x.completion = Blank.completion
      /\ x.kind = "Param"
  BY <1>1, <1>2, <1>3 DEF NodeType
<1> QED BY <1>2, <1>4 DEF x

LEMMA BlockFacts ==
  ASSUME Inv, NEW d \in 1..Len(ast)
  PROVE  /\ BlockNode(d) \in NodeType /\ BlockNode(d).decls = <<>>
         /\ BlockNode(d).region = d /\ BlockNode(d).completion = 0 /\ BlockNode(d).kind = "Block"
<1>1. ast[d] \in NodeType /\ d \in Nat /\ "Block" \in NodeKind
  <2>1. ast \in Heap
    BY DEF Inv, NodesInv, Well
  <2> QED BY <2>1 DEF Heap, NodeKind, PartKinds
<1>2. ast[d].name \in NodeName
  BY <1>1 DEF NodeType
<1>3. Blank \in NodeType /\ Blank.decls = <<>> /\ Blank.completion = 0
  BY BlankNode, BlankFields
<1> DEFINE x == BlockNode(d)
<1>4. x = [Blank EXCEPT !.kind = "Block", !.name = ast[d].name, !.region = d]
  BY DEF BlockNode
<1> HIDE DEF x
<1>5. /\ x \in NodeType /\ x.decls = Blank.decls /\ x.region = d /\ x.completion = Blank.completion
      /\ x.kind = "Block"
  BY <1>1, <1>2, <1>3, <1>4 DEF NodeType
<1> QED BY <1>3, <1>5 DEF x

\* The formals of the definition that is about to begin.
PendingFormals ==
  [i \in DOMAIN ast[pending].sig.params |-> ParamNode(ast[pending].sig.params[i], pending)]

LEMMA FormalNodes ==
  ASSUME Inv, pending # 0
  PROVE  /\ PendingFormals \in Heap
         /\ \A j \in 1..Len(PendingFormals) :
              /\ PendingFormals[j].decls = <<>> /\ PendingFormals[j].region = pending
              /\ PendingFormals[j].completion = 0 /\ PendingFormals[j].kind = "Param"
         /\ pending = Len(ast) /\ pending \in 1..Len(ast) /\ pending \in Nat
<1>1. pending = Len(ast) /\ pending \in Nat /\ ast \in Heap
  BY DEF Inv, ShapeInv, PendingPlace, NodesInv, Well
<1>2. pending \in 1..Len(ast)
  BY <1>1
<1>3. ast[pending] \in NodeType
  BY <1>1, <1>2 DEF Heap
<1> DEFINE ps == ast[pending].sig.params
<1>4. ps \in Seq(Formal)
  BY <1>3 DEF NodeType
<1> HIDE DEF ps
<1>5. DOMAIN ps = 1..Len(ps) /\ Len(ps) \in Nat /\ \A i \in 1..Len(ps) : ps[i] \in Formal
  BY <1>4
<1>6. PendingFormals = [i \in 1..Len(ps) |-> ParamNode(ps[i], pending)]
  BY <1>5 DEF PendingFormals, ps
<1>7. \A i \in 1..Len(ps) : ParamNode(ps[i], pending) \in NodeType
  BY <1>1, <1>5, ParamFacts
<1>8. PendingFormals \in Heap /\ Len(PendingFormals) = Len(ps)
  BY <1>5, <1>6, <1>7 DEF Heap
<1>9. \A j \in 1..Len(ps) : PendingFormals[j] = ParamNode(ps[j], pending)
  BY <1>6
<1> QED BY <1>1, <1>2, <1>5, <1>8, <1>9, ParamFacts

LEMMA beginSubroutineDefinitionInv ==
  ASSUME Inv, beginSubroutineDefinition
  PROVE  Inv'
<1> DEFINE d == pending
           s == PendingFormals
           x == BlockNode(d)
           b == (Len(ast) + 1) + Len(s)
           ids == (Len(ast) + 1)..(b - 1)
           f == RoutineFrame(d, ids)
<1>1. /\ pending # 0 /\ pending' = 0
      /\ ast' = Entered(ast, d, s, x) /\ scope' = <<f>> \o scope /\ region' = b
      /\ failed \subseteq failed'
      /\ UNCHANGED <<package, stencil, errors>>
  BY DEF beginSubroutineDefinition, NextNode, PendingFormals, Entered
<1>2. /\ s \in Heap
      /\ \A j \in 1..Len(s) : /\ s[j].decls = <<>> /\ s[j].region = d
                              /\ s[j].completion = 0 /\ s[j].kind = "Param"
      /\ d = Len(ast) /\ d \in 1..Len(ast) /\ d \in Nat
  BY <1>1, FormalNodes
<1>3. x \in NodeType /\ x.decls = <<>> /\ x.region = d /\ x.completion = 0 /\ x.kind = "Block"
  BY <1>2, BlockFacts
<1>4. /\ Well(ast, Len(ast)) /\ PackagesWhole(ast) /\ DefinitionsAgree(ast) /\ ast \in Heap
      /\ scope \in Seq(Frame) /\ FramesHold(ast, scope) /\ package \in Nat /\ errors \in Nat
      /\ StencilOK(stencil)
  BY DEF Inv, NodesInv, Well, ShapeInv
<1>5. /\ Kind(d) \in DeclKinds /\ ast[d].region = region /\ stencil.of = "idle"
      /\ PackageShape(ast, scope, region, package) /\ ast[package].body = region /\ region # 0
  BY <1>1 DEF Inv, ShapeInv, PendingPlace
<1>6. BodyNodes(ast, d, s, x, ast')
  BY <1>1, <1>2, <1>3, <1>4, EnterNodes
<1> HIDE DEF s, x
<1>7. /\ Well(ast', Len(ast')) /\ Grows(ast, ast') /\ ast' \in Heap /\ Len(ast') = b
      /\ ast'[b] = x /\ (\A i \in 1..Len(ast) : i # d => ast'[i] = ast[i])
      /\ ast'[d].body # 0 /\ ast'[d].private = ast[d].private /\ Len(s) \in Nat
      /\ \A i \in ids : i - Len(ast) \in 1..Len(s) /\ ast'[i] = s[i - Len(ast)]
  BY <1>6 DEF BodyNodes
<1>8. b \in Nat /\ Len(ast) \in Nat /\ b > Len(ast) /\ b # 0 /\ b \in 1..Len(ast')
  BY <1>2, <1>7
<1>9. \A i \in 1..Len(ast') : i \in 1..Len(ast) \/ i \in ids \/ i = b
  <2>1. Len(ast') = b /\ b \in Nat /\ Len(ast) \in Nat
    BY <1>7, <1>8
  <2> HIDE DEF b
  <2> QED BY <2>1
<1>10. \A i \in ids : i \in 1..Len(ast') /\ i \in Nat
  <2>1. Len(ast') = b /\ b \in Nat /\ Len(ast) \in Nat
    BY <1>7, <1>8
  <2> HIDE DEF b
  <2> QED BY <2>1
<1>11. \A i \in ids : ast'[i].kind = "Param" /\ ast'[i].region = d
  BY <1>2, <1>7
<1> HIDE DEF b, ids
<1>12. ast'[b].kind = "Block" /\ ast'[b].region = d
  BY <1>3, <1>7
<1>13. /\ ast'[d].kind = ast[d].kind /\ ast'[d].region = region /\ d \in 1..Len(ast') /\ d # b
       /\ ast'[d].kind \in DeclKinds
  <2>1. ast'[d].kind = ast[d].kind /\ ast'[d].region = region
    BY <1>2, <1>5, <1>7 DEF Grows
  <2>2. d \in 1..Len(ast') /\ d # b
    BY <1>2, <1>7, <1>8
  <2> QED BY <1>5, <2>1, <2>2 DEF Kind
<1>14. PackagesWhole(ast')
  <2>1. \A i \in (Len(ast) + 1)..Len(ast') : i \in 1..Len(ast') /\ i \notin 1..Len(ast)
    BY <1>8
  <2>2. \A i \in (Len(ast) + 1)..Len(ast') : ast'[i].kind \notin {"Package", "Body"}
    BY <1>9, <1>11, <1>12, <2>1
  <2>3. ast[d].kind \in DeclKinds
    BY <1>5 DEF Kind
  <2> HIDE DEF d
  <2> QED BY <1>2, <1>4, <1>7, <2>2, <2>3, PackagesWholeEntered
<1>15. /\ DefinitionsAgree(ast')
       /\ DefinitionsPointBack(ast) => DefinitionsPointBack(ast')
       /\ DefinitionsHaveBodies(ast, d) => DefinitionsHaveBodies(ast', 0)
  BY <1>4, <1>7, DefinitionsGrow
<1>16. NodesInv'
  <2>1. \A i \in (Len(ast) + 1)..Len(ast') : i \in 1..Len(ast') /\ i \notin 1..Len(ast)
    BY <1>8
  <2>2. \A i \in (Len(ast) + 1)..Len(ast') : ast'[i].kind \notin DeclKinds
    BY <1>9, <1>11, <1>12, <2>1 DEF DeclKinds
  <2>3. RoutinesInParts(ast')
    BY <1>4, <1>7, <2>2, RoutinesGrow DEF Inv, NodesInv
  <2> QED BY <1>7, <1>14, <1>15, <2>3 DEF NodesInv
<1>17. /\ package \in 1..Len(ast) /\ ast[package].kind = "Package" /\ package # d
       /\ ast'[package] = ast[package] /\ package \in 1..Len(ast')
  <2>1. package \in 1..Len(ast) /\ ast[package].kind = "Package"
    BY <1>5 DEF PackageShape, PartOf
  <2>2. package # d
    BY <1>5, <2>1 DEF Kind, DeclKinds
  <2>3. package \in 1..Len(ast')
    BY <1>7, <1>8, <2>1
  <2> QED BY <1>7, <2>1, <2>2, <2>3
<1>18. region \in 1..Len(ast)
  BY <1>4, <1>5, <1>17 DEF PackagesWhole
<1>19. PackageShape(ast', scope, region, package)
  <2>1. PartOf(ast', package, region)
    BY <1>5, <1>17 DEF PartOf
  <2> QED BY <1>4, <1>5, <1>7, <1>18, <2>1, PackageShapeGrows
<1>20. f \in Frame /\ f.kind = "SUBROUTINE_SCOPE" /\ f.decls = {d} \cup ids
  <2>1. {d} \cup ids \in SUBSET Nat
    BY <1>2, <1>10
  <2>2. f = [kind |-> "SUBROUTINE_SCOPE", decls |-> {d} \cup ids]
    BY DEF RoutineFrame, FrameOf
  <2> QED BY <2>1, <2>2 DEF Frame, FrameKind
<1> HIDE DEF f
<1>21. /\ scope' \in Seq(Frame) /\ Len(scope') = Len(scope) + 1 /\ scope'[1] = f
       /\ Tail(scope') = scope
  BY <1>1, <1>4, <1>20, PushFacts
<1>22. FramesHold(ast', scope')
  <2>1. FramesHold(ast', scope)
    <3>1. Len(ast) =< Len(ast')
      BY <1>7 DEF Grows
    <3> QED BY <1>4, <1>7, <3>1, HoldsMore
  <2>2. \A y \in f.decls : y \in 1..Len(ast')
    BY <1>10, <1>13, <1>20
  <2> QED BY <1>1, <1>4, <1>20, <2>1, <2>2, PushHolds
<1>23. \A y \in FormalsOf(ast', d) : y \in ids
  <2>1. ASSUME NEW y \in 1..Len(ast'), ast'[y].kind = "Param", ast'[y].region = d PROVE y \in ids
    <3>1. CASE y \in 1..Len(ast)
      <4>1. y # d
        BY <1>13, <2>1 DEF DeclKinds
      <4>2. ast[y].region = d
        BY <1>7, <2>1, <3>1, <4>1
      <4>3. ast[y].region < y
        BY <1>4, <3>1, RegionFacts
      <4>4. y =< d
        BY <1>2, <3>1
      <4> QED BY <1>2, <3>1, <4>2, <4>3, <4>4
    <3>2. CASE y = b
      BY <1>12, <2>1, <3>2
    <3> QED BY <1>9, <3>1, <3>2
  <2> QED BY <2>1 DEF FormalsOf
<1>24. SubroutineFrame(ast', f, b, d)
  <2>1. {d} \cup FormalsOf(ast', d) \subseteq f.decls
    BY <1>20, <1>23
  <2>2. \A y \in f.decls : /\ ast'[y].kind = "Param" => ast'[y].region = d
                           /\ ast'[y].kind \in DeclKinds => y = d \/ ast'[y].region = b
    <3>1. \A y \in f.decls : y = d \/ y \in ids
      BY <1>20
    <3> QED BY <1>11, <1>13, <3>1 DEF DeclKinds
  <2> HIDE DEF d
  <2> QED BY <1>8, <1>12, <1>13, <1>20, <2>1, <2>2 DEF SubroutineFrame
<1>25. Len(scope) = 2 /\ Len(scope') = 3
  <2>1. Len(scope) = 2
    BY <1>5 DEF PackageShape
  <2> QED BY <1>21, <2>1
<1>26. SubroutineShape(ast', scope', b, package)
  <2>1. SubroutineFrame(ast', scope'[1], b, d) /\ ast'[d].region = ast'[package].body
    BY <1>5, <1>13, <1>17, <1>21, <1>24
  <2>2. PackageShape(ast', Tail(scope'), ast'[package].body, package) /\ ast'[package].body # 0
    BY <1>5, <1>17, <1>19, <1>21
  <2> HIDE DEF d
  <2> QED BY <1>13, <1>25, <2>1, <2>2 DEF SubroutineShape
<1>27. ShapeInv'
  <2>1. Shape(ast', scope', b, package)
    BY <1>26 DEF Shape, BaseShape
  <2>2. StencilPlace' /\ PendingPlace'
    BY <1>1, <1>5 DEF StencilPlace, PendingPlace
  <2> QED BY <1>1, <1>4, <1>8, <1>21, <1>22, <2>1, <2>2 DEF ShapeInv
<1>28. CleanInv'
  <2>1. "reset" \notin failed' => DefinitionsPointBack(ast')
    BY <1>1, <1>15 DEF Inv, CleanInv
  <2>2. (Len(scope) > 1) = TRUE /\ (Len(scope') > 1) = TRUE
    BY <1>25
  <2>3. errors' = 0 => DefinitionsHaveBodies(ast', 0) /\ PackagesComplete(ast, TRUE, package)
    BY <1>1, <1>15, <2>2 DEF Inv, CleanInv
  <2>4. PackagesComplete(ast, TRUE, package) => PackagesComplete(ast', TRUE, package)
    <3>1. \A p \in 1..Len(ast') : ast'[p].kind = "Package" => p \in 1..Len(ast) /\ ast'[p].body = ast[p].body
      BY <1>7, <1>9, <1>11, <1>12, <1>13 DEF DeclKinds
    <3> QED BY <1>4, <1>7, <3>1, PackagesCompleteGrow
  <2> QED BY <1>1, <2>1, <2>2, <2>3, <2>4 DEF CleanInv
<1> QED BY <1>16, <1>27, <1>28 DEF Inv

\* While a subroutine is being defined.
LEMMA InSubroutineFacts ==
  ASSUME Inv, region # 0, Kind(region) = "Block" \/ IsRoutine(region)
  PROVE  /\ SubroutineShape(ast, scope, region, package) /\ pending = 0
         /\ IsRoutine(region) => stencil.of = "idle"
<1>1. NodesInv /\ Shape(ast, scope, region, package) /\ PackagesWhole(ast)
  BY DEF Inv, ShapeInv, NodesInv
<1>2. Kind(region) \notin {"Package", "PrivatePart", "Body", "Record"}
  BY DEF IsRoutine, RoutineKinds
<1>3. ~PackageShape(ast, scope, region, package)
  BY <1>1, <1>2 DEF PackageShape, PartOf, PackagesWhole, Kind
<1>4. SubroutineShape(ast, scope, region, package)
  <2>1. ~TopShape(ast, scope, region)
    BY <1>2 DEF TopShape, Kind
  <2>2. ~RecordShape(ast, scope, region, package)
    BY <1>2 DEF RecordShape, Kind
  <2> QED BY <1>1, <1>3, <2>1, <2>2 DEF Shape, BaseShape
<1>5. pending = 0
  BY <1>3 DEF Inv, ShapeInv, PendingPlace
<1>6. IsRoutine(region) => stencil.of = "idle"
  <2>1. IsRoutine(region) => Kind(region) \notin PartKinds
    BY DEF IsRoutine, RoutineKinds, PartKinds
  <2> QED BY <2>1 DEF Inv, ShapeInv, StencilPlace
<1> QED BY <1>4, <1>5, <1>6

\* Only the frames and the region change, and the package is not left.
LEMMA FramesStep ==
  ASSUME Inv, UNCHANGED <<ast, package, stencil, pending, errors, failed>>, pending = 0,
         stencil.of = "idle", scope' \in Seq(Frame), FramesHold(ast, scope'),
         BaseShape(ast, scope', region', package), region' \in Nat,
         Len(scope) > 1, Len(scope') > 1
  PROVE  Inv'
<1>1. NodesInv'
  BY DEF Inv, NodesInv
<1>2. ShapeInv'
  BY DEF Inv, ShapeInv, Shape, StencilPlace, PendingPlace
<1>3. CleanInv'
  <2>1. (Len(scope) > 1) = (Len(scope') > 1)
    OBVIOUS
  <2> QED BY <2>1 DEF Inv, CleanInv
<1> QED BY <1>1, <1>2, <1>3 DEF Inv

LEMMA endSubroutineBodyInv ==
  ASSUME Inv, endSubroutineBody
  PROVE  Inv'
<1> DEFINE q == ast[region].region
           ps == {x \in Head(scope).decls : Kind(x) = "Param"}
           f == RoutineFrame(q, ps)
<1>1. /\ region # 0 /\ Kind(region) = "Block" /\ stencil.of = "idle" /\ region' = q
      /\ scope' = <<f>> \o Tail(scope)
      /\ UNCHANGED <<ast, package, stencil, pending, errors, failed>>
  BY DEF endSubroutineBody, InBlock
<1>2. SubroutineShape(ast, scope, region, package) /\ pending = 0
  BY <1>1, InSubroutineFacts
<1>3. /\ scope \in Seq(Frame) /\ FramesHold(ast, scope) /\ Well(ast, Len(ast)) /\ Len(ast) \in Nat
  BY DEF Inv, ShapeInv, NodesInv, Well, Heap
<1>4. PICK d \in 1..Len(ast) : SubroutineFrame(ast, scope[1], region, d) /\ ast[d].region = ast[package].body
  BY <1>2 DEF SubroutineShape
<1>5. q = d /\ d \in Nat
  <2>1. region # d
    BY <1>1, <1>4 DEF SubroutineFrame, Kind, DeclKinds
  <2> QED BY <1>3, <1>4, <2>1 DEF SubroutineFrame
<1>6. Len(scope) = 3 /\ Len(scope) > 0
  BY <1>2 DEF SubroutineShape
<1>7. /\ Tail(scope) \in Seq(Frame) /\ Len(Tail(scope)) = 2 /\ Head(scope) = scope[1]
      /\ FramesHold(ast, Tail(scope))
  <2>1. Tail(scope) \in Seq(Frame) /\ Len(Tail(scope)) = Len(scope) - 1 /\ Head(scope) = scope[1]
    BY <1>3, <1>6, TailFacts
  <2>2. FramesHold(ast, Tail(scope))
    BY <1>3, <1>6, TailHolds
  <2>3. Len(scope) - 1 = 2
    BY <1>6
  <2> QED BY <2>1, <2>2, <2>3
<1>8. \A x \in scope[1].decls : x \in 1..Len(ast) /\ x \in Nat
  <2>1. 1 \in 1..Len(scope)
    BY <1>6
  <2> QED BY <1>3, <2>1 DEF FramesHold
<1>9. ps = FormalsOf(ast, d)
  <2>1. \A x \in ps : x \in FormalsOf(ast, d)
    BY <1>4, <1>7, <1>8 DEF SubroutineFrame, FormalsOf, Kind
  <2>2. \A x \in FormalsOf(ast, d) : x \in ps
    BY <1>4, <1>7 DEF SubroutineFrame, FormalsOf, Kind
  <2> QED BY <2>1, <2>2
<1>10. {d} \cup ps \in SUBSET Nat /\ \A x \in {d} \cup ps : x \in 1..Len(ast)
  BY <1>5, <1>7, <1>8
<1> HIDE DEF ps
<1>11. f \in Frame /\ f.kind = "SUBROUTINE_SCOPE" /\ f.decls = {d} \cup ps
  <2>1. f = [kind |-> "SUBROUTINE_SCOPE", decls |-> {d} \cup ps]
    BY <1>5 DEF RoutineFrame, FrameOf
  <2> QED BY <1>10, <2>1 DEF Frame, FrameKind
<1> HIDE DEF f, q
<1>12. /\ scope' \in Seq(Frame) /\ Len(scope') = Len(Tail(scope)) + 1 /\ scope'[1] = f
       /\ Tail(scope') = Tail(scope)
  BY <1>1, <1>7, <1>11, PushFacts
<1>13. Len(scope') = 3 /\ Len(scope') > 1 /\ Len(scope) > 1
  <2>1. Len(scope') = 2 + 1
    BY <1>7, <1>12, Zenon
  <2> QED BY <1>6, <2>1
<1>14. FramesHold(ast, scope')
  BY <1>1, <1>7, <1>10, <1>11, PushHolds
<1>15. SubroutineFrame(ast, f, d, d)
  <2>1. ast[d].kind \in DeclKinds
    BY <1>4 DEF SubroutineFrame
  <2>2. \A x \in f.decls : /\ ast[x].kind = "Param" => ast[x].region = d
                           /\ ast[x].kind \in DeclKinds => x = d \/ ast[x].region = d
    BY <1>9, <1>11, <2>1 DEF FormalsOf, DeclKinds
  <2> QED BY <1>9, <1>11, <2>1, <2>2 DEF SubroutineFrame
<1>16. SubroutineShape(ast, scope', d, package)
  <2>1. PackageShape(ast, Tail(scope'), ast[package].body, package) /\ ast[package].body # 0
    BY <1>2, <1>12 DEF SubroutineShape
  <2> QED BY <1>4, <1>12, <1>13, <1>15, <2>1 DEF SubroutineShape
<1>17. BaseShape(ast, scope', region', package) /\ region' \in Nat
  BY <1>1, <1>5, <1>16 DEF BaseShape
<1> QED BY <1>1, <1>2, <1>12, <1>13, <1>14, <1>17, FramesStep

LEMMA endSubroutineDefinitionInv ==
  ASSUME Inv, endSubroutineDefinition
  PROVE  Inv'
<1>1. /\ region # 0 /\ IsRoutine(region) /\ region' = ast[region].region
      /\ scope' = Tail(scope)
      /\ UNCHANGED <<ast, package, stencil, pending, errors, failed>>
  BY DEF endSubroutineDefinition
<1>2. SubroutineShape(ast, scope, region, package) /\ pending = 0 /\ stencil.of = "idle"
  BY <1>1, InSubroutineFacts
<1>3. scope \in Seq(Frame) /\ FramesHold(ast, scope) /\ Well(ast, Len(ast)) /\ NodesInv
  BY DEF Inv, ShapeInv, NodesInv
<1>4. PICK d \in 1..Len(ast) : SubroutineFrame(ast, scope[1], region, d) /\ ast[d].region = ast[package].body
  BY <1>2 DEF SubroutineShape
<1>5. region = d
  BY <1>1, <1>4 DEF SubroutineFrame, IsRoutine, Kind, RoutineKinds
<1>6. Len(scope) = 3 /\ Len(scope) > 0 /\ Len(scope) > 1 /\ Len(scope) - 1 = 2
  BY <1>2 DEF SubroutineShape
<1>7. scope' \in Seq(Frame) /\ FramesHold(ast, scope') /\ Len(scope') = 2 /\ Len(scope') > 1
  <2>1. scope' \in Seq(Frame) /\ Len(scope') = 2
    BY <1>1, <1>3, <1>6, TailFacts
  <2>2. FramesHold(ast, scope')
    BY <1>1, <1>3, <1>6, TailHolds
  <2> QED BY <2>1, <2>2
<1>8. BaseShape(ast, scope', region', package)
  BY <1>1, <1>2, <1>4, <1>5 DEF SubroutineShape, BaseShape
<1>9. region' \in Nat
  <2>1. region' \in 1..Len(ast)
    BY <1>3, <1>8, BaseFacts
  <2> QED BY <2>1
<1> QED BY <1>1, <1>2, <1>6, <1>7, <1>8, <1>9, FramesStep

-----------------------------------------------------------------------------
(* Packages *)

\* Outside all packages nothing is under way.
LEMMA TopFacts ==
  ASSUME Inv, Len(scope) = 1
  PROVE  /\ TopShape(ast, scope, region) /\ pending = 0 /\ stencil.of = "idle"
         /\ scope \in Seq(Frame) /\ FramesHold(ast, scope) /\ Well(ast, Len(ast)) /\ ast \in Heap
         /\ Len(ast) \in Nat /\ region \in Nat /\ package \in Nat /\ errors \in Nat
         /\ PackagesWhole(ast) /\ DefinitionsAgree(ast) /\ StencilOK(stencil)
<1>1. /\ scope \in Seq(Frame) /\ FramesHold(ast, scope) /\ Well(ast, Len(ast)) /\ ast \in Heap
      /\ Len(ast) \in Nat /\ region \in Nat /\ package \in Nat /\ errors \in Nat
      /\ PackagesWhole(ast) /\ DefinitionsAgree(ast) /\ StencilOK(stencil)
      /\ Shape(ast, scope, region, package) /\ StencilPlace /\ PendingPlace
  BY DEF Inv, ShapeInv, NodesInv, Well, Heap
<1>2. ~BaseShape(ast, scope, region, package)
  BY DEF BaseShape, PackageShape, SubroutineShape
<1>3. ~RecordShape(ast, scope, region, package)
  <2>1. ~(Len(scope) > 1)
    OBVIOUS
  <2> QED BY <2>1, Zenon DEF RecordShape
<1>4. TopShape(ast, scope, region)
  BY <1>1, <1>2, <1>3 DEF Shape
<1>5. pending = 0 /\ stencil.of = "idle"
  BY <1>1, <1>2 DEF StencilPlace, PendingPlace, BaseShape
<1> QED BY <1>1, <1>4, <1>5

\* In the specification or the body of a package, and in nothing else.
LEMMA InPackageFacts ==
  ASSUME Inv, region # 0, Kind(region) \in {"Package", "PrivatePart", "Body"}, Len(scope) = 2
  PROVE  /\ PackageShape(ast, scope, region, package) /\ package \in 1..Len(ast)
         /\ ast[package].kind = "Package" /\ ast[package].region = 0
         /\ region \in 1..Len(ast)
         /\ scope \in Seq(Frame) /\ FramesHold(ast, scope) /\ Well(ast, Len(ast)) /\ ast \in Heap
         /\ Len(ast) \in Nat /\ package \in Nat /\ errors \in Nat
         /\ PackagesWhole(ast) /\ DefinitionsAgree(ast) /\ StencilOK(stencil)
<1>1. /\ scope \in Seq(Frame) /\ FramesHold(ast, scope) /\ Well(ast, Len(ast)) /\ ast \in Heap
      /\ Len(ast) \in Nat /\ region \in Nat /\ package \in Nat /\ errors \in Nat
      /\ PackagesWhole(ast) /\ DefinitionsAgree(ast) /\ StencilOK(stencil) /\ NodesInv
      /\ Shape(ast, scope, region, package)
  BY DEF Inv, ShapeInv, NodesInv, Well, Heap
<1>2. ~TopShape(ast, scope, region) /\ ~SubroutineShape(ast, scope, region, package)
  BY DEF TopShape, SubroutineShape
<1>3. ~RecordShape(ast, scope, region, package)
  BY DEF RecordShape, Kind
<1>4. PackageShape(ast, scope, region, package)
  BY <1>1, <1>2, <1>3 DEF Shape, BaseShape
<1>5. package \in 1..Len(ast) /\ ast[package].kind = "Package" /\ ast[package].region = 0
  BY <1>1, <1>4 DEF PackageShape, PartOf, PackagesWhole
<1>6. region \in 1..Len(ast)
  BY <1>1, <1>4, BaseFacts DEF BaseShape
<1> QED BY <1>1, <1>4, <1>5, <1>6

\* A unit is between packages.
LEMMA TopStep ==
  ASSUME Inv, UNCHANGED <<ast, stencil, pending, failed>>, pending = 0, stencil.of = "idle",
         scope' \in Seq(Frame), FramesHold(ast, scope'), TopShape(ast, scope', region'),
         region' \in Nat, package' \in Nat, errors' \in Nat,
         errors' = 0 => errors = 0 /\ PackagesComplete(ast, FALSE, package')
  PROVE  Inv'
<1>1. NodesInv'
  BY DEF Inv, NodesInv
<1>2. ShapeInv'
  BY DEF Inv, ShapeInv, Shape, StencilPlace, PendingPlace
<1>3. CleanInv'
  <2>1. (Len(scope') > 1) = FALSE
    BY DEF TopShape
  <2> QED BY <2>1 DEF Inv, CleanInv
<1> QED BY <1>1, <1>2, <1>3 DEF Inv

\* A package that has been left stays complete, whichever is current.
LEMMA CompleteOutside ==
  ASSUME NEW h, NEW q1, NEW q2, PackagesComplete(h, FALSE, q1)
  PROVE  PackagesComplete(h, FALSE, q2)
BY DEF PackagesComplete

LEMMA acceptWithClauseInv ==
  ASSUME Inv, NEW n, acceptWithClause(n)
  PROVE  Inv'
<1>1. /\ Len(scope) = 1
      /\ UNCHANGED <<ast, region, package, stencil, pending, failed>>
      /\ \E d \in 1..Len(ast) : \/ errors' = Reported(1) /\ UNCHANGED scope
                                \/ scope' = AddToFrame(scope, {d}) /\ UNCHANGED errors
  BY DEF acceptWithClause, AtTop
<1>2. /\ TopShape(ast, scope, region) /\ pending = 0 /\ stencil.of = "idle"
      /\ scope \in Seq(Frame) /\ FramesHold(ast, scope) /\ Len(ast) \in Nat
      /\ region \in Nat /\ package \in Nat /\ errors \in Nat
  BY <1>1, TopFacts
<1>3. errors' \in Nat /\ (errors' = 0 => errors = 0)
  <2>1. Reported(1) \in Nat /\ (Reported(1) = 0 => errors = 0)
    BY <1>2, ReportedFacts
  <2> QED BY <1>1, <1>2, <2>1
<1>4. errors' = 0 => errors = 0 /\ PackagesComplete(ast, FALSE, package')
  <2>1. (Len(scope) > 1) = FALSE
    BY <1>1
  <2> QED BY <1>1, <1>3, <2>1 DEF Inv, CleanInv
<1>5. /\ scope' \in Seq(Frame) /\ FramesHold(ast, scope') /\ TopShape(ast, scope', region')
  <2>1. CASE UNCHANGED scope
    BY <1>1, <1>2, <2>1
  <2>2. ASSUME NEW d \in 1..Len(ast), scope' = AddToFrame(scope, {d})
        PROVE  scope' \in Seq(Frame) /\ FramesHold(ast, scope') /\ TopShape(ast, scope', region')
    <3>1. {d} \in SUBSET Nat /\ Len(scope) > 0
      BY <1>1, <1>2
    <3>2. /\ scope' \in Seq(Frame) /\ Len(scope') = Len(scope) /\ scope'[1].kind = scope[1].kind
          /\ scope'[1].decls = scope[1].decls \cup {d}
      BY <1>2, <2>2, <3>1, AddFacts
    <3>3. \A i \in 1..Len(scope') : i = 1
      BY <1>1, <3>2
    <3>4. 1 \in 1..Len(scope)
      BY <1>1
    <3>5. FramesHold(ast, scope')
      BY <1>2, <3>2, <3>3, <3>4 DEF FramesHold
    <3> QED BY <1>1, <1>2, <3>2, <3>5 DEF TopShape
  <2> QED BY <1>1, <2>1, <2>2
<1> QED BY <1>1, <1>2, <1>3, <1>4, <1>5, TopStep

\* The frames of a package that is left.
LEMMA LeaveFacts ==
  ASSUME Inv, PackageShape(ast, scope, region, package)
  PROVE  /\ Tail(scope) \in Seq(Frame) /\ FramesHold(ast, Tail(scope)) /\ Len(Tail(scope)) = 1
         /\ Tail(scope)[1].kind = "CUNIT_SCOPE"
<1>1. scope \in Seq(Frame) /\ FramesHold(ast, scope)
  BY DEF Inv, ShapeInv
<1>2. Len(scope) = 2 /\ scope[2].kind = "CUNIT_SCOPE" /\ Len(scope) > 0
  BY DEF PackageShape
<1>3. /\ Tail(scope) \in Seq(Frame) /\ Len(Tail(scope)) = Len(scope) - 1
      /\ \A i \in 1..(Len(scope) - 1) : Tail(scope)[i] = scope[i + 1]
  BY <1>1, <1>2, TailFacts
<1>4. Len(scope) - 1 = 1 /\ 1 \in 1..(Len(scope) - 1) /\ 1 + 1 = 2
  BY <1>2
<1>5. FramesHold(ast, Tail(scope))
  BY <1>1, <1>2, TailHolds
<1>6. Tail(scope)[1] = scope[2]
  BY <1>3, <1>4
<1> QED BY <1>2, <1>3, <1>4, <1>5, <1>6

LEMMA endPackageSpecInv ==
  ASSUME Inv, endPackageSpec
  PROVE  Inv'
<1>1. /\ region # 0 /\ Kind(region) \in {"Package", "PrivatePart"}
      /\ Len(scope) = 2 /\ stencil.of = "idle"
      /\ \/ /\ ensurePrivateConstraints(package)
            /\ scope' = AddToFrame(Tail(scope), {package}) /\ UNCHANGED errors
         \/ scope' = Tail(scope) /\ errors' = Reported(1)
      /\ region' = ast[package].region /\ package' = 0
      /\ UNCHANGED <<ast, stencil, pending, failed>>
  BY DEF endPackageSpec, InSpec
<1>2. /\ PackageShape(ast, scope, region, package) /\ package \in 1..Len(ast)
      /\ ast[package].kind = "Package" /\ ast[package].region = 0
      /\ PackagesWhole(ast) /\ errors \in Nat /\ Well(ast, Len(ast)) /\ Len(ast) \in Nat
  BY <1>1, InPackageFacts
<1>3. ast[package].body = 0 /\ pending = 0
  <2>1. ast[package].body = 0
    BY <1>1, <1>2 DEF PackageShape, PartOf, PackagesWhole, Kind
  <2> QED BY <1>1, <2>1 DEF Inv, ShapeInv, PendingPlace
<1>4. /\ Tail(scope) \in Seq(Frame) /\ FramesHold(ast, Tail(scope)) /\ Len(Tail(scope)) = 1
      /\ Tail(scope)[1].kind = "CUNIT_SCOPE"
  BY <1>2, LeaveFacts
<1>5. /\ scope' \in Seq(Frame) /\ FramesHold(ast, scope') /\ TopShape(ast, scope', region')
  <2> DEFINE T == Tail(scope)
  <2> HIDE DEF T
  <2>0. /\ T \in Seq(Frame) /\ FramesHold(ast, T) /\ Len(T) = 1 /\ T[1].kind = "CUNIT_SCOPE"
    BY <1>4 DEF T
  <2>1. CASE scope' = T
    BY <1>1, <1>2, <2>0, <2>1 DEF TopShape
  <2>2. CASE scope' = AddToFrame(T, {package})
    <3>1. {package} \in SUBSET Nat /\ Len(T) > 0
      BY <1>2, <2>0
    <3>2. /\ scope' \in Seq(Frame) /\ Len(scope') = Len(T) /\ scope'[1].kind = T[1].kind
          /\ scope'[1].decls = T[1].decls \cup {package}
      BY <2>0, <2>2, <3>1, AddFacts
    <3>3. \A i \in 1..Len(scope') : i = 1
      BY <2>0, <3>2
    <3>4. 1 \in 1..Len(T)
      BY <2>0
    <3>5. FramesHold(ast, scope')
      BY <1>2, <2>0, <3>2, <3>3, <3>4 DEF FramesHold
    <3> QED BY <1>1, <1>2, <2>0, <3>2, <3>5 DEF TopShape
  <2> QED BY <1>1, <2>1, <2>2 DEF T
<1>6. Reported(1) \in Nat /\ Reported(1) # 0
  BY <1>2, ReportedFacts
<1>7. errors' \in Nat
  BY <1>1, <1>2, <1>6
<1>8. errors' = 0 => errors = 0 /\ PackagesComplete(ast, FALSE, package')
  <2> SUFFICES ASSUME errors' = 0 PROVE errors = 0 /\ PackagesComplete(ast, FALSE, package')
    OBVIOUS
  <2>1. errors = 0 /\ ensurePrivateConstraints(package)
    BY <1>1, <1>6
  <2>2. (Len(scope) > 1) = TRUE
    BY <1>1
  <2>3. PackagesComplete(ast, TRUE, package)
    BY <2>1, <2>2 DEF Inv, CleanInv
  <2>4. \A d \in Range(ast[package].decls) : ast[d].kind = "Private" => ast[d].completion # 0
    BY <2>1 DEF ensurePrivateConstraints, Kind
  <2> QED BY <1>3, <2>1, <2>3, <2>4 DEF PackagesComplete
<1>9. region' \in Nat /\ package' \in Nat
  BY <1>1, <1>2
<1> QED BY <1>1, <1>3, <1>5, <1>7, <1>8, <1>9, TopStep

LEMMA endPackageBodyInv ==
  ASSUME Inv, endPackageBody
  PROVE  Inv'
<1>1. /\ region # 0 /\ Kind(region) = "Body" /\ Len(scope) = 2 /\ stencil.of = "idle" /\ pending = 0
      /\ errors' = Reported(Cardinality(missingExports(package)))
      /\ region' = ast[ast[region].region].region /\ package' = region' /\ scope' = Tail(scope)
      /\ UNCHANGED <<ast, stencil, pending, failed>>
  BY DEF endPackageBody, InBody
<1>2. /\ PackageShape(ast, scope, region, package) /\ package \in 1..Len(ast)
      /\ ast[package].kind = "Package" /\ ast[package].region = 0
      /\ PackagesWhole(ast) /\ errors \in Nat /\ Well(ast, Len(ast)) /\ Len(ast) \in Nat
  BY <1>1, InPackageFacts
<1>3. ast[package].body = region
  BY <1>1, <1>2 DEF PackageShape, PartOf, PackagesWhole, Kind
<1>4. region' \in {0, package}
  BY <1>1, <1>2, <1>3 DEF PackagesWhole
<1>5. /\ scope' \in Seq(Frame) /\ FramesHold(ast, scope') /\ TopShape(ast, scope', region')
  BY <1>1, <1>2, <1>4, LeaveFacts DEF TopShape
<1>6. /\ Cardinality(missingExports(package)) \in Nat
      /\ Cardinality(missingExports(package)) = 0 => missingExports(package) = {}
  <2>1. \A d \in Range(ast[package].decls) : d \in 1..Len(ast)
    BY <1>2, ListedFacts
  <2>2. missingExports(package) \in SUBSET (1..Len(ast))
    BY <2>1 DEF missingExports
  <2> QED BY <1>2, <2>2, CountNodes
<1>7. errors' \in Nat /\ (errors' = 0 => errors = 0 /\ missingExports(package) = {})
  BY <1>1, <1>2, <1>6, ReportedFacts
<1>8. errors' = 0 => errors = 0 /\ PackagesComplete(ast, FALSE, package')
  <2> SUFFICES ASSUME errors' = 0 PROVE errors = 0 /\ PackagesComplete(ast, FALSE, package')
    OBVIOUS
  <2>1. errors = 0 /\ missingExports(package) = {}
    BY <1>7
  <2>2. (Len(scope) > 1) = TRUE
    BY <1>1
  <2>3. PackagesComplete(ast, TRUE, package)
    BY <2>1, <2>2 DEF Inv, CleanInv
  <2>4. \A d \in Range(ast[package].decls) :
          ast[d].kind \in DeclKinds \cup {"Incomplete"} => ast[d].completion # 0
    BY <2>1 DEF missingExports, IsRoutine, Kind, DeclKinds, RoutineKinds
  <2> QED BY <1>1, <1>3, <2>1, <2>3, <2>4 DEF PackagesComplete
<1>9. region' \in Nat /\ package' \in Nat
  BY <1>1, <1>2, <1>4
<1> QED BY <1>1, <1>5, <1>7, <1>8, <1>9, TopStep

\* What PackagesWhole says of one package and of one body.
WholePackage(h, p) ==
  /\ h[p].region = 0
  /\ h[p].private # 0 => /\ h[p].private \in 1..Len(h)
                         /\ h[h[p].private].kind = "PrivatePart"
                         /\ h[h[p].private].region = p
  /\ h[p].body # 0 => /\ h[p].body \in 1..Len(h) /\ h[h[p].body].kind = "Body"
                      /\ h[h[p].body].region = IF h[p].private # 0 THEN h[p].private ELSE p

WholeBody(h, b) ==
  /\ h[b].region # 0
  /\ \/ h[h[b].region].kind = "Package" /\ h[h[b].region].body = b
     \/ /\ h[h[b].region].kind = "PrivatePart" /\ h[h[b].region].region # 0
        /\ h[h[h[b].region].region].body = b

\* Packages keep their parts while one gets a further part.
LEMMA PackagesWholeGrow ==
  ASSUME NEW h, Well(h, Len(h)), PackagesWhole(h), NEW g \in Heap, Grows(h, g),
         \A i \in 1..Len(h) : h[i].body # 0 => g[i].body = h[i].body,
         \A p \in 1..Len(g) : g[p].kind = "Package" =>
           \/ WholePackage(g, p)
           \/ p \in 1..Len(h) /\ g[p].private = h[p].private /\ g[p].body = h[p].body,
         \A b \in (Len(h) + 1)..Len(g) : g[b].kind = "Body" => WholeBody(g, b)
  PROVE  PackagesWhole(g)
<1>1. Len(h) \in Nat /\ Len(g) \in Nat /\ Len(h) =< Len(g)
  BY DEF Well, Heap, Grows
<1>2. \A i \in 1..Len(h) : i \in 1..Len(g) /\ g[i].kind = h[i].kind /\ g[i].region = h[i].region
  BY <1>1 DEF Grows
<1>3. ASSUME NEW p \in 1..Len(g), g[p].kind = "Package" PROVE WholePackage(g, p)
  <2>1. CASE p \in 1..Len(h) /\ g[p].private = h[p].private /\ g[p].body = h[p].body
    <3>1. h[p].kind = "Package"
      BY <1>2, <1>3, <2>1
    <3>2. WholePackage(h, p)
      BY <2>1, <3>1 DEF PackagesWhole, WholePackage
    <3> QED BY <1>2, <2>1, <3>2 DEF WholePackage
  <2> QED BY <1>3, <2>1
<1>4. ASSUME NEW b \in 1..Len(g), g[b].kind = "Body" PROVE WholeBody(g, b)
  <2>1. b \in 1..Len(h) \/ b \in (Len(h) + 1)..Len(g)
    BY <1>1
  <2>2. CASE b \in 1..Len(h)
    <3>1. h[b].kind = "Body"
      BY <1>2, <1>4, <2>2
    <3>2. WholeBody(h, b)
      BY <2>2, <3>1 DEF PackagesWhole, WholeBody
    <3>3. h[b].region \in 1..Len(h) /\ b # 0
      BY <2>2, <3>2, RegionFacts DEF WholeBody
    <3>4. h[h[b].region].region # 0 => h[h[b].region].region \in 1..Len(h)
      BY <3>3, RegionFacts
    <3> DEFINE e == h[b].region
    <3>5. g[b].region = e /\ g[e].kind = h[e].kind /\ g[e].region = h[e].region
      BY <1>2, <2>2, <3>3
    <3>6. CASE h[e].kind = "Package" /\ h[e].body = b
      <4>1. g[e].body = b
        BY <3>3, <3>6
      <4> QED BY <3>2, <3>5, <3>6, <4>1 DEF WholeBody
    <3>7. CASE h[e].kind = "PrivatePart" /\ h[e].region # 0 /\ h[h[e].region].body = b
      <4>1. g[h[e].region].body = b
        BY <3>3, <3>4, <3>7
      <4> QED BY <3>2, <3>5, <3>7, <4>1 DEF WholeBody
    <3> QED BY <3>2, <3>6, <3>7 DEF WholeBody
  <2> QED BY <1>4, <2>1, <2>2
<1> QED BY <1>3, <1>4 DEF PackagesWhole, WholePackage, WholeBody

\* A package or a part of it is entered.
LEMMA EnterPackage ==
  ASSUME Inv, Well(ast', Len(ast')), Grows(ast, ast'), PackagesWhole(ast'),
         scope' \in Seq(Frame), FramesHold(ast', scope'),
         region' \in Nat, package' \in Nat, PackageShape(ast', scope', region', package'),
         pending = 0, pending' = 0, stencil.of = "idle", UNCHANGED stencil,
         "reset" \notin failed' => "reset" \notin failed,
         errors' \in Nat, errors' = 0 => errors = 0 /\ PackagesComplete(ast', TRUE, package'),
         \A i \in (Len(ast) + 1)..Len(ast') : ast'[i].kind \notin DeclKinds
  PROVE  Inv'
<1>1. Well(ast, Len(ast)) /\ DefinitionsAgree(ast) /\ ast' \in Heap
  BY DEF Inv, NodesInv, Well
<1>2. /\ DefinitionsAgree(ast')
      /\ DefinitionsPointBack(ast) => DefinitionsPointBack(ast')
      /\ \A x : DefinitionsHaveBodies(ast, x) => DefinitionsHaveBodies(ast', x)
  BY <1>1, DefinitionsGrow
<1>3. NodesInv'
  <2>1. RoutinesInParts(ast')
    BY <1>1, RoutinesGrow DEF Inv, NodesInv
  <2> QED BY <1>2, <2>1 DEF NodesInv
<1>4. ShapeInv'
  BY DEF Inv, ShapeInv, Shape, BaseShape, StencilPlace, PendingPlace
<1>5. CleanInv'
  <2>1. (Len(scope') > 1) = TRUE
    BY DEF PackageShape
  <2>2. errors' = 0 => DefinitionsHaveBodies(ast', 0)
    BY <1>2 DEF Inv, CleanInv
  <2>3. "reset" \notin failed' => DefinitionsPointBack(ast')
    BY <1>2 DEF Inv, CleanInv
  <2> QED BY <2>1, <2>2, <2>3 DEF CleanInv
<1> QED BY <1>3, <1>4, <1>5 DEF Inv

\* The nodes of packages and their bodies.
LEMMA PackageNodeFacts ==
  ASSUME NEW n \in PackageName, NEW x, x = PackageNode(n)
  PROVE  /\ x \in NodeType /\ x.decls = <<>> /\ x.completion = 0 /\ x.region = 0
         /\ x.private = 0 /\ x.body = 0 /\ x.kind = "Package"
<1>1. n \in NodeName /\ "Package" \in NodeKind
  <2>1. n \in NodeName
    BY Zenon DEF NodeName
  <2>2. "Package" \in NodeKind
    BY DEF NodeKind, PartKinds
  <2> QED BY <2>1, <2>2
<1>2. Blank \in NodeType
  BY BlankNode
<1>3. x = [Blank EXCEPT !.kind = "Package", !.name = n]
  BY DEF PackageNode
<1>4. /\ x \in NodeType /\ x.decls = Blank.decls /\ x.completion = Blank.completion
      /\ x.region = Blank.region /\ x.private = Blank.private /\ x.body = Blank.body
      /\ x.kind = "Package"
  BY <1>1, <1>2, <1>3 DEF NodeType
<1> QED BY <1>4, BlankFields

LEMMA beginPackageSpecInv ==
  ASSUME Inv, NEW n \in PackageName, beginPackageSpec(n)
  PROVE  Inv'
<1> DEFINE x == PackageNode(n)
           p == Len(ast) + 1
           f == FrameOf("PACKAGE_SCOPE", {p})
<1>1. /\ Len(scope) = 1 /\ ast' = Append(ast, x) /\ scope' = <<f>> \o scope
      /\ package' = p /\ region' = p
      /\ UNCHANGED <<stencil, pending, errors, failed>>
  BY DEF beginPackageSpec, AtTop, NextNode
<1>2. /\ TopShape(ast, scope, region) /\ pending = 0 /\ stencil.of = "idle"
      /\ scope \in Seq(Frame) /\ FramesHold(ast, scope) /\ Well(ast, Len(ast)) /\ ast \in Heap
      /\ Len(ast) \in Nat /\ errors \in Nat /\ PackagesWhole(ast)
  BY <1>1, TopFacts
<1>3. /\ x \in NodeType /\ x.decls = <<>> /\ x.completion = 0 /\ x.region = 0
      /\ x.private = 0 /\ x.body = 0 /\ x.kind = "Package"
  BY PackageNodeFacts
<1> HIDE DEF x
<1>4. Added(ast, x, ast')
  <2>1. x.region \in 0..Len(ast)
    BY <1>2, <1>3
  <2> QED BY <1>1, <1>2, <1>3, <2>1, AddNode
<1>5. /\ Well(ast', Len(ast')) /\ Grows(ast, ast') /\ Len(ast') = p /\ ast'[p] = x
      /\ (\A i \in 1..Len(ast) : ast'[i] = ast[i]) /\ ast' \in Heap
  BY <1>4 DEF Added, Well
<1>6. p \in Nat /\ p \in 1..Len(ast') /\ p \notin 1..Len(ast)
      /\ (\A i \in 1..Len(ast') : i \in 1..Len(ast) \/ i = p)
      /\ (\A i \in (Len(ast) + 1)..Len(ast') : i = p)
  BY <1>2, <1>5
<1>7. PackagesWhole(ast')
  <2>1. WholePackage(ast', p)
    BY <1>3, <1>5 DEF WholePackage
  <2>2. \A i \in 1..Len(ast) : ast[i].body # 0 => ast'[i].body = ast[i].body
    BY <1>5
  <2>3. \A i \in 1..Len(ast') : ast'[i].kind = "Package" =>
           \/ WholePackage(ast', i)
           \/ i \in 1..Len(ast) /\ ast'[i].private = ast[i].private /\ ast'[i].body = ast[i].body
    BY <1>5, <1>6, <2>1
  <2>4. \A b \in (Len(ast) + 1)..Len(ast') : ast'[b].kind = "Body" => WholeBody(ast', b)
    BY <1>3, <1>5, <1>6
  <2> QED BY <1>2, <1>5, <2>2, <2>3, <2>4, PackagesWholeGrow
<1>8. f \in Frame /\ f.kind = "PACKAGE_SCOPE" /\ f.decls = {p}
  BY <1>6 DEF FrameOf, Frame, FrameKind
<1> HIDE DEF f
<1>9. /\ scope' \in Seq(Frame) /\ Len(scope') = Len(scope) + 1 /\ scope'[1] = f
      /\ \A i \in 1..Len(scope) : scope'[i + 1] = scope[i]
  BY <1>1, <1>2, <1>8, PushFacts
<1>10. Len(scope') = 2 /\ scope'[2] = scope[1]
  <2>1. 1 \in 1..Len(scope) /\ 1 + 1 = 2 /\ Len(scope) + 1 = 2
    BY <1>1
  <2> QED BY <1>9, <2>1
<1>11. FramesHold(ast', scope')
  <2>1. FramesHold(ast', scope)
    <3>1. Len(ast) =< Len(ast')
      BY <1>5 DEF Grows
    <3> QED BY <1>2, <1>5, <3>1, HoldsMore
  <2>2. \A y \in f.decls : y \in 1..Len(ast')
    BY <1>6, <1>8
  <2> QED BY <1>1, <1>2, <1>8, <2>1, <2>2, PushHolds
<1>12. PackageShape(ast', scope', p, p)
  <2>1. PartOf(ast', p, p)
    BY <1>3, <1>5, <1>6 DEF PartOf
  <2>2. PackageFrame(ast', scope'[1], p)
    BY <1>3, <1>5, <1>8, <1>9 DEF PackageFrame, DeclKinds
  <2> HIDE DEF p
  <2> QED BY <1>2, <1>10, <2>1, <2>2 DEF PackageShape, TopShape
<1>13. errors = 0 => PackagesComplete(ast', TRUE, p)
  <2>1. (Len(scope) > 1) = FALSE
    BY <1>1
  <2>2. errors = 0 => PackagesComplete(ast, FALSE, package)
    BY <2>1 DEF Inv, CleanInv
  <2>3. \A i \in 1..Len(ast') : ast'[i].kind = "Package" =>
           \/ i \notin 1..Len(ast) /\ ast'[i].decls = <<>>
           \/ i \in 1..Len(ast) /\ ast'[i].body = ast[i].body /\ i # p
    BY <1>3, <1>5, <1>6
  <2> HIDE DEF p
  <2>4. \A i \in 1..Len(ast') : ast'[i].kind = "Package" =>
           \/ i \notin 1..Len(ast) /\ ast'[i].decls = <<>>
           \/ /\ i \in 1..Len(ast)
              /\ ast'[i].body # 0 /\ ~(TRUE /\ p = i) => ast[i].body # 0 /\ ~(FALSE /\ package = i)
              /\ ~(TRUE /\ p = i /\ ast'[i].body = 0) => ~(FALSE /\ package = i /\ ast[i].body = 0)
    BY <2>3
  <2> QED BY <1>2, <1>5, <2>2, <2>4, PackagesCompleteGrow
<1>14. \A i \in (Len(ast) + 1)..Len(ast') : ast'[i].kind \notin DeclKinds
  BY <1>3, <1>5, <1>6 DEF DeclKinds
<1> HIDE DEF p
<1> QED BY <1>1, <1>2, <1>5, <1>6, <1>7, <1>9, <1>11, <1>12, <1>13, <1>14, EnterPackage

\* A part is added to package p: y is the package with the part noted, x the part.
PartAdded(h, p, y, x, g) ==
  /\ Well(g, Len(g)) /\ Grows(h, g) /\ g \in Heap /\ Len(g) = Len(h) + 1 /\ g[Len(h) + 1] = x
  /\ g[p] = y /\ \A i \in 1..Len(h) : i # p => g[i] = h[i]

LEMMA AddPart ==
  ASSUME NEW h, Well(h, Len(h)), NEW p \in 1..Len(h), NEW y \in NodeType,
         /\ y.kind = h[p].kind /\ y.region = h[p].region /\ y.sig = h[p].sig
         /\ y.completion = h[p].completion /\ y.forward = h[p].forward
         /\ y.decls = h[p].decls /\ (h[p].body # 0 => y.body # 0),
         NEW x \in NodeType, x.region \in 0..Len(h), x.decls = <<>>, x.completion = 0
  PROVE  PartAdded(h, p, y, x, Append([h EXCEPT ![p] = y], x))
<1> DEFINE f == [h EXCEPT ![p] = y]
           g == Append(f, x)
<1>1. h \in Heap /\ Len(h) \in Nat
  BY DEF Well, Heap
<1>2. Noted(h, p, y, f)
  BY NoteNode
<1> HIDE DEF f
<1>3. /\ Well(f, Len(f)) /\ Grows(h, f) /\ Len(f) = Len(h) /\ f[p] = y
      /\ (\A i \in 1..Len(h) : i # p => f[i] = h[i])
  BY <1>2 DEF Noted
<1>4. Added(f, x, g)
  BY <1>3, AddNode
<1> HIDE DEF g
<1>5. /\ Well(g, Len(g)) /\ Grows(f, g) /\ Len(g) = Len(f) + 1 /\ g[Len(f) + 1] = x
      /\ (\A i \in 1..Len(f) : g[i] = f[i])
  BY <1>4 DEF Added
<1>6. f \in Heap /\ g \in Heap
  BY <1>3, <1>5 DEF Well
<1>7. Grows(h, g)
  BY <1>1, <1>3, <1>5, <1>6, GrowsTransitive
<1>8. PartAdded(h, p, y, x, g)
  BY <1>3, <1>5, <1>6, <1>7 DEF PartAdded
<1> QED BY <1>8 DEF f, g

LEMMA beginPackagePrivatePartInv ==
  ASSUME Inv, beginPackagePrivatePart
  PROVE  Inv'
<1> DEFINE x == PrivatePartNode
           p == package
           r == Len(ast) + 1
           y == [ast[p] EXCEPT !.private = r]
<1>1. /\ region # 0 /\ Kind(region) = "Package" /\ Len(scope) = 2 /\ stencil.of = "idle"
      /\ ast' = Append([ast EXCEPT ![p] = y], x) /\ region' = r
      /\ UNCHANGED <<scope, package, stencil, pending, errors, failed>>
  BY DEF beginPackagePrivatePart, InSpec, NextNode
<1>2. /\ PackageShape(ast, scope, region, package) /\ package \in 1..Len(ast)
      /\ ast[package].kind = "Package" /\ ast[package].region = 0
      /\ scope \in Seq(Frame) /\ FramesHold(ast, scope) /\ Well(ast, Len(ast)) /\ ast \in Heap
      /\ Len(ast) \in Nat /\ package \in Nat /\ errors \in Nat /\ PackagesWhole(ast)
  BY <1>1, InPackageFacts
<1>3. region = p /\ ast[p].private = 0 /\ ast[p].body = 0
  BY <1>1, <1>2 DEF PackageShape, PartOf, PackagesWhole, Kind
<1>4. pending = 0
  BY <1>1, <1>3 DEF Inv, ShapeInv, PendingPlace
<1>5. ast[p] \in NodeType /\ r \in Nat
  BY <1>2 DEF Heap
<1>6. /\ y \in NodeType /\ y.kind = ast[p].kind /\ y.region = ast[p].region /\ y.sig = ast[p].sig
      /\ y.completion = ast[p].completion /\ y.forward = ast[p].forward
      /\ y.decls = ast[p].decls /\ y.private = r /\ y.body = ast[p].body
  BY <1>5 DEF NodeType
<1>7. /\ x \in NodeType /\ x.region = p /\ x.decls = <<>> /\ x.completion = 0
      /\ x.kind = "PrivatePart"
  <2>1. "PrivatePart" \in NodeKind /\ "PrivatePart" \notin {"Param", "Package", "Body"}
    BY DEF NodeKind, PartKinds
  <2>2. "" \in NodeName
    BY DEF NodeName
  <2>3. /\ Fresh(Node("PrivatePart", ""), region) /\ Node("PrivatePart", "").decls = <<>>
        /\ Node("PrivatePart", "").kind = "PrivatePart" /\ Node("PrivatePart", "") \in NodeType
    BY <2>1, <2>2, NodeFresh, Zenon
  <2>4. x = Node("PrivatePart", "")
    BY DEF PrivatePartNode
  <2> HIDE DEF x
  <2>5. Fresh(x, region) /\ x.decls = <<>> /\ x.kind = "PrivatePart"
    BY <2>3, <2>4, Zenon
  <2> QED BY <1>3, <2>5 DEF Fresh
<1> HIDE DEF x, y
<1>8. PartAdded(ast, p, y, x, ast')
  <2>1. x.region \in 0..Len(ast)
    BY <1>2, <1>7
  <2> QED BY <1>1, <1>2, <1>6, <1>7, <2>1, AddPart
<1>9. /\ Well(ast', Len(ast')) /\ Grows(ast, ast') /\ ast' \in Heap /\ Len(ast') = r /\ ast'[r] = x
      /\ ast'[p] = y /\ (\A i \in 1..Len(ast) : i # p => ast'[i] = ast[i])
  BY <1>8 DEF PartAdded
<1>10. r \in 1..Len(ast') /\ r # 0 /\ p \in 1..Len(ast') /\ r \notin 1..Len(ast)
       /\ (\A i \in 1..Len(ast') : i \in 1..Len(ast) \/ i = r)
       /\ (\A i \in (Len(ast) + 1)..Len(ast') : i = r)
  BY <1>2, <1>9
<1> HIDE DEF r
<1>11. PackagesWhole(ast')
  <2>1. WholePackage(ast', p)
    BY <1>2, <1>3, <1>6, <1>7, <1>9, <1>10 DEF WholePackage
  <2>2. \A i \in 1..Len(ast) : ast[i].body # 0 => ast'[i].body = ast[i].body
    BY <1>3, <1>9
  <2>3. \A i \in 1..Len(ast') : ast'[i].kind = "Package" =>
           \/ WholePackage(ast', i)
           \/ i \in 1..Len(ast) /\ ast'[i].private = ast[i].private /\ ast'[i].body = ast[i].body
    BY <1>7, <1>9, <1>10, <2>1
  <2>4. \A b \in (Len(ast) + 1)..Len(ast') : ast'[b].kind = "Body" => WholeBody(ast', b)
    BY <1>7, <1>9, <1>10
  <2> QED BY <1>2, <1>9, <2>2, <2>3, <2>4, PackagesWholeGrow
<1>12. FramesHold(ast', scope')
  <2>1. Len(ast) =< Len(ast')
    BY <1>9 DEF Grows
  <2>2. FramesHold(ast', scope)
    BY <1>2, <1>9, <2>1, HoldsMore
  <2> QED BY <1>1, <2>2
<1>13. PackageShape(ast', scope', r, p)
  <2>1. PartOf(ast', p, r)
    BY <1>2, <1>3, <1>6, <1>9, <1>10 DEF PartOf
  <2>2. ASSUME NEW z \in scope[1].decls, ast'[z].kind \in DeclKinds PROVE Reach(ast', ast'[z].region, r)
    <3>1. 1 \in 1..Len(scope)
      BY <1>1
    <3>2. z \in 1..Len(ast)
      BY <1>2, <3>1 DEF FramesHold
    <3>3. ast'[z].kind = ast[z].kind /\ ast'[z].region = ast[z].region
      BY <1>9, <3>2 DEF Grows
    <3>4. Reach(ast, ast[z].region, p)
      BY <1>2, <1>3, <2>2, <3>3 DEF PackageShape, PackageFrame
    <3>5. ast[z].region = p
      BY <1>2, <3>4 DEF Reach
    <3> QED BY <1>2, <1>7, <1>9, <1>10, <3>3, <3>4, <3>5 DEF Reach
  <2>3. PackageFrame(ast', scope[1], r)
    BY <1>2, <2>2 DEF PackageFrame, PackageShape
  <2> HIDE DEF p
  <2> QED BY <1>1, <1>2, <2>1, <2>3 DEF PackageShape
<1>14. errors = 0 => PackagesComplete(ast', TRUE, p)
  <2>1. (Len(scope) > 1) = TRUE
    BY <1>1
  <2>2. errors = 0 => PackagesComplete(ast, TRUE, p)
    BY <2>1 DEF Inv, CleanInv
  <2>3. \A i \in 1..Len(ast') : ast'[i].kind = "Package" =>
           i \in 1..Len(ast) /\ ast'[i].body = ast[i].body
    BY <1>6, <1>7, <1>9, <1>10
  <2> QED BY <1>2, <1>9, <2>2, <2>3, PackagesCompleteGrow
<1>15. \A i \in (Len(ast) + 1)..Len(ast') : ast'[i].kind \notin DeclKinds
  BY <1>7, <1>9, <1>10 DEF DeclKinds
<1> QED BY <1>1, <1>2, <1>4, <1>5, <1>9, <1>11, <1>12, <1>13, <1>14, <1>15, EnterPackage

\* The frames that introduceDeclRegion goes through.
IsFrameTable(ds, f) ==
  f = [i \in 0..Len(ds) |->
         IF i = 0 THEN FrameOf("PACKAGE_SCOPE", {}) ELSE introduceDecl(f[i - 1], ds[i])]

\* There are such frames, by induction on the number of declarations.
LEMMA FrameTableExists ==
  ASSUME NEW S, NEW ds \in Seq(S)
  PROVE  \E f : IsFrameTable(ds, f)
<1> DEFINE L == Len(ds)
           E == FrameOf("PACKAGE_SCOPE", {})
           Upto(n, f) == \A i \in 0..n :
                           f[i] = IF i = 0 THEN E ELSE introduceDecl(f[i - 1], ds[i])
           T == {n \in Nat : \E f : f = [i \in 0..n |-> f[i]] /\ Upto(n, f)}
<1>1. L \in Nat
  OBVIOUS
<1> HIDE DEF E
<1>2. 0 \in T
  <2> DEFINE f == [i \in 0..0 |-> E]
  <2>1. f = [i \in 0..0 |-> f[i]]
    BY Zenon
  <2>2. 0..0 = {0}
    OBVIOUS
  <2>3. f[0] = E
    BY <2>2
  <2> HIDE DEF f
  <2>4. Upto(0, f)
    BY <2>2, <2>3
  <2> HIDE DEF Upto
  <2> QED BY <2>1, <2>4
<1>3. ASSUME NEW n \in Nat, n \in T PROVE n + 1 \in T
  <2>1. PICK f : f = [i \in 0..n |-> f[i]] /\ Upto(n, f)
    BY <1>3
  <2> DEFINE v == introduceDecl(f[n], ds[n + 1])
             g == [i \in 0..(n + 1) |-> IF i = n + 1 THEN v ELSE f[i]]
  <2>2. g = [i \in 0..(n + 1) |-> g[i]]
    BY Zenon
  <2>3. /\ \A i \in 0..n : i \in 0..(n + 1) /\ i # n + 1 /\ (i # 0 => i - 1 \in 0..n)
        /\ \A i \in 0..(n + 1) : i = n + 1 \/ i \in 0..n
        /\ n + 1 \in 0..(n + 1) /\ n \in 0..n /\ (n + 1) - 1 = n /\ n + 1 # 0
    OBVIOUS
  <2>4. (\A i \in 0..n : g[i] = f[i]) /\ g[n + 1] = v
    BY <2>3
  <2> HIDE DEF g
  <2>5. ASSUME NEW i \in 0..(n + 1)
        PROVE  g[i] = IF i = 0 THEN E ELSE introduceDecl(g[i - 1], ds[i])
    <3>1. CASE i \in 0..n
      <4>1. CASE i = 0
        BY <2>1, <2>4, <3>1, <4>1
      <4>2. CASE i # 0
        <5>1. g[i] = f[i] /\ g[i - 1] = f[i - 1]
          BY <2>3, <2>4, <3>1, <4>2
        <5> QED BY <2>1, <3>1, <4>2, <5>1
      <4> QED BY <4>1, <4>2
    <3>2. CASE i = n + 1
      <4>1. g[i] = introduceDecl(f[n], ds[i]) /\ g[i - 1] = f[n] /\ i # 0
        BY <2>3, <2>4, <3>2
      <4> QED BY <4>1
    <3> QED BY <2>3, <3>1, <3>2
  <2>6. Upto(n + 1, g)
    BY <2>5
  <2> HIDE DEF Upto
  <2> QED BY <2>2, <2>6
<1>4. L \in T
  <2> HIDE DEF T
  <2> QED BY <1>1, <1>2, <1>3, SetInduction
<1>5. PICK f : f = [i \in 0..L |-> f[i]] /\ Upto(L, f)
  BY <1>4
<1>6. f = [i \in 0..L |-> IF i = 0 THEN E ELSE introduceDecl(f[i - 1], ds[i])]
  BY <1>5, Zenon
<1> QED BY <1>6 DEF IsFrameTable, E

\* What introduceDeclRegion takes in is among what it is given.
LEMMA FrameIntroduced ==
  ASSUME NEW S, NEW ds \in Seq(S)
  PROVE  \E D \in SUBSET S : introduceDeclRegion(ds) = FrameOf("PACKAGE_SCOPE", D)
<1> DEFINE L == Len(ds)
           g == CHOOSE f : IsFrameTable(ds, f)
<1>1. introduceDeclRegion(ds) = g[L]
  BY Zenon DEF introduceDeclRegion, IsFrameTable
<1>2. IsFrameTable(ds, g)
  BY FrameTableExists, Zenon
<1> HIDE DEF g
<1>3. L \in Nat
  OBVIOUS
<1>4. /\ g[0] = FrameOf("PACKAGE_SCOPE", {})
      /\ \A i \in 1..L : g[i] = introduceDecl(g[i - 1], ds[i])
  <2>1. \A i \in 0..L : g[i] = IF i = 0 THEN FrameOf("PACKAGE_SCOPE", {})
                               ELSE introduceDecl(g[i - 1], ds[i])
    BY <1>2, Zenon DEF IsFrameTable
  <2>2. 0 \in 0..L /\ \A i \in 1..L : i \in 0..L /\ i # 0
    BY <1>3
  <2> QED BY <2>1, <2>2, Zenon
<1> DEFINE Good(n) == \E D \in SUBSET S : g[n] = FrameOf("PACKAGE_SCOPE", D)
           T == {n \in Nat : n =< L => Good(n)}
<1>5. 0 \in T
  <2>1. Good(0)
    BY <1>4, Zenon
  <2> HIDE DEF Good
  <2> QED BY <2>1
<1>6. ASSUME NEW n \in Nat, n \in T PROVE n + 1 \in T
  <2> SUFFICES ASSUME n + 1 =< L PROVE Good(n + 1)
    OBVIOUS
  <2>1. n =< L /\ n + 1 \in 1..L /\ (n + 1) - 1 = n
    BY <1>3
  <2>2. PICK D \in SUBSET S : g[n] = FrameOf("PACKAGE_SCOPE", D)
    BY <1>6, <2>1
  <2>3. g[n + 1] = introduceDecl(g[n], ds[n + 1]) /\ ds[n + 1] \in S
    BY <1>4, <2>1
  <2>4. CASE g[n + 1] = g[n]
    BY <2>2, <2>4, Zenon
  <2>5. CASE g[n + 1] = [g[n] EXCEPT !.decls = @ \cup {ds[n + 1]}]
    <3> DEFINE e == ds[n + 1]
    <3>0. /\ g[n].decls = D /\ g[n] = [kind |-> "PACKAGE_SCOPE", decls |-> D]
          /\ g[n + 1] = [g[n] EXCEPT !.decls = g[n].decls \cup {e}]
      BY <2>2, <2>5 DEF FrameOf
    <3> HIDE DEF e
    <3>1. g[n + 1] = FrameOf("PACKAGE_SCOPE", D \cup {e})
      <4>1. \A E : [[kind |-> "PACKAGE_SCOPE", decls |-> D] EXCEPT !.decls = E]
                     = [kind |-> "PACKAGE_SCOPE", decls |-> E]
        OBVIOUS
      <4> QED BY <3>0, <4>1, Zenon DEF FrameOf
    <3> USE DEF e
    <3>2. D \cup {ds[n + 1]} \in SUBSET S
      BY <2>2, <2>3
    <3> QED BY <3>1, <3>2, Zenon
  <2> QED BY <2>3, <2>4, <2>5 DEF introduceDecl
<1>7. L \in T
  <2> HIDE DEF T
  <2> QED BY <1>3, <1>5, <1>6, SetInduction
<1>8. Good(L)
  BY <1>3, <1>7
<1> QED BY <1>1, <1>8

\* What a region lists is a sequence of nodes of that region.
LEMMA ListedSeq ==
  ASSUME NEW h, Well(h, Len(h)), NEW i \in 1..Len(h), NEW S,
         \A d \in 1..Len(h) : h[d].region = i => d \in S
  PROVE  h[i].decls \in Seq(S)
<1>1. h[i] \in NodeType /\ Len(h) \in Nat
  BY DEF Well, Heap
<1>2. h[i].decls \in Seq(Nat)
  BY <1>1 DEF NodeType
<1>3. \A k \in 1..Len(h[i].decls) : h[i].decls[k] \in S
  <2>1. \A d \in Range(h[i].decls) : d \in S
    BY ListedFacts
  <2>2. DOMAIN h[i].decls = 1..Len(h[i].decls)
    BY <1>2
  <2> QED BY <2>1, <2>2 DEF Range
<1> QED BY <1>2, <1>3

\* The nodes a package body may take in: its subroutines are those of the package.
OwnNodes(p) ==
  {x \in 1..Len(ast) : ast[x].kind \in DeclKinds =>
     ast[x].region = p \/ (ast[p].private # 0 /\ ast[x].region = ast[p].private)}

LEMMA IntroducedFacts ==
  ASSUME Inv, NEW p \in 1..Len(ast), ast[p].kind = "Package"
  PROVE  WithLiterals(Introduced(p)) \in Seq(OwnNodes(p))
<1> DEFINE O == OwnNodes(p)
           ds == Introduced(p)
           row(i) == <<ds[i]>> \o IF Kind(ds[i]) = "Enumeration" THEN ast[ds[i]].decls ELSE <<>>
           rows == [i \in DOMAIN ds |-> row(i)]
<1>1. Well(ast, Len(ast)) /\ PackagesWhole(ast) /\ RoutinesInParts(ast)
  BY DEF Inv, NodesInv
<1>2. ast[p].decls \in Seq(O)
  <2>1. \A d \in 1..Len(ast) : ast[d].region = p => d \in O
    BY DEF OwnNodes
  <2> HIDE DEF O
  <2> QED BY <1>1, <2>1, ListedSeq
<1>3. ast[p].private # 0 => ast[ast[p].private].decls \in Seq(O)
  <2> SUFFICES ASSUME ast[p].private # 0 PROVE ast[ast[p].private].decls \in Seq(O)
    OBVIOUS
  <2>1. ast[p].private \in 1..Len(ast)
    BY <1>1 DEF PackagesWhole
  <2>2. \A d \in 1..Len(ast) : ast[d].region = ast[p].private => d \in O
    BY DEF OwnNodes
  <2> HIDE DEF O
  <2> QED BY <1>1, <2>1, <2>2, ListedSeq
<1>4. \A e \in 1..Len(ast) : ast[e].kind = "Enumeration" => ast[e].decls \in Seq(O)
  <2> SUFFICES ASSUME NEW e \in 1..Len(ast), ast[e].kind = "Enumeration"
               PROVE  ast[e].decls \in Seq(O)
    OBVIOUS
  <2>1. \A d \in 1..Len(ast) : ast[d].region = e => d \in O
    BY <1>1 DEF OwnNodes, RoutinesInParts, PartKinds
  <2> HIDE DEF O
  <2> QED BY <1>1, <2>1, ListedSeq
<1>5. \A x \in O : x \in 1..Len(ast)
  BY DEF OwnNodes
<1> HIDE DEF O
<1>6. ds \in Seq(O)
  <2>1. <<>> \in Seq(O)
    OBVIOUS
  <2> QED BY <1>2, <1>3, <2>1, ConcatProperties DEF Introduced
<1> HIDE DEF ds
<1>7. \A i \in DOMAIN ds : row(i) \in Seq(O)
  <2> SUFFICES ASSUME NEW i \in DOMAIN ds PROVE row(i) \in Seq(O)
    OBVIOUS
  <2>1. ds[i] \in O /\ ds[i] \in 1..Len(ast)
    BY <1>5, <1>6
  <2> DEFINE ls == IF Kind(ds[i]) = "Enumeration" THEN ast[ds[i]].decls ELSE <<>>
  <2>2. ls \in Seq(O)
    BY <1>4, <2>1 DEF Kind
  <2>3. <<ds[i]>> \in Seq(O)
    BY <2>1
  <2> HIDE DEF ls
  <2>4. <<ds[i]>> \o ls \in Seq(O)
    BY <2>2, <2>3, ConcatProperties
  <2> QED BY <2>4 DEF ls
<1>8. WithLiterals(ds) = FlattenSeq(rows)
  BY DEF WithLiterals
<1> HIDE DEF row
<1>9. rows \in Seq(Seq(O))
  <2>1. DOMAIN ds = 1..Len(ds) /\ Len(ds) \in Nat
    BY <1>6
  <2> QED BY <1>7, <2>1
<1> HIDE DEF rows
<1>10. CASE Len(rows) = 0
  <2>1. rows = <<>>
    BY <1>9, <1>10, EmptySeq
  <2>2. FlattenSeq(rows) = rows
    BY <1>10 DEF FlattenSeq
  <2>3. <<>> \in Seq(O)
    OBVIOUS
  <2>4. WithLiterals(ds) \in Seq(O)
    BY <1>8, <2>1, <2>2, <2>3, Zenon
  <2> QED BY <2>4 DEF ds, O
<1>11. CASE Len(rows) # 0
  BY <1>8, <1>9, <1>11, FlattenFacts DEF ds, O
<1> QED BY <1>10, <1>11

\* A package frame made for the body.
LEMMA BodyFrame ==
  ASSUME Inv, NEW p \in 1..Len(ast), ast[p].kind = "Package"
  PROVE  LET f == introduceDeclRegion(WithLiterals(Introduced(p)))
         IN  f \in Frame /\ f.kind = "PACKAGE_SCOPE" /\ f.decls \subseteq OwnNodes(p)
<1> DEFINE ds == WithLiterals(Introduced(p))
<1>1. ds \in Seq(OwnNodes(p))
  BY IntroducedFacts
<1> HIDE DEF ds
<1>2. PICK D \in SUBSET OwnNodes(p) : introduceDeclRegion(ds) = FrameOf("PACKAGE_SCOPE", D)
  BY <1>1, FrameIntroduced
<1>3. D \in SUBSET Nat
  <2>1. Len(ast) \in Nat
    BY DEF Inv, NodesInv, Well, Heap
  <2>2. OwnNodes(p) \subseteq Nat
    BY <2>1 DEF OwnNodes
  <2> QED BY <1>2, <2>2
<1>4. /\ FrameOf("PACKAGE_SCOPE", D) \in Frame /\ FrameOf("PACKAGE_SCOPE", D).kind = "PACKAGE_SCOPE"
      /\ FrameOf("PACKAGE_SCOPE", D).decls = D
  BY <1>3 DEF FrameOf, Frame, FrameKind
<1> QED BY <1>2, <1>4 DEF ds

\* Between packages, a name denotes what the frame of the unit has.
LEMMA DenotesAtTop ==
  ASSUME NEW S, scope \in Seq(S), Len(scope) = 1, NEW n, NEW d \in Denotes(n)
  PROVE  d \in scope[1].decls
<1> DEFINE here(i) == {x \in scope[i].decls : ast[x].name = n}
           opaque == {i \in DOMAIN scope : \E x \in here(i) : ~IsRoutine(x)}
           bound == {i \in DOMAIN scope : here(i) # {}}
           first == CHOOSE i \in bound : \A j \in bound : i =< j
<1>1. DOMAIN scope = {1}
  <2>1. DOMAIN scope = 1..1
    OBVIOUS
  <2>2. 1..1 = {1}
    OBVIOUS
  <2> QED BY <2>1, <2>2, Zenon
<1>2. bound # {}
  BY Zenon DEF Denotes
<1>3. bound = {1}
  <2> HIDE DEF here
  <2> QED BY <1>1, <1>2
<1>4. d \in IF first \in opaque THEN here(first)
            ELSE UNION {here(i) : i \in {k \in bound : \A j \in opaque : k < j}}
  BY <1>2, Zenon DEF Denotes
<1>5. first = 1
  <2>1. \E i \in bound : \A j \in bound : i =< j
    BY <1>3
  <2>2. first \in bound
    BY <2>1, Zenon
  <2> HIDE DEF first, bound
  <2> QED BY <1>3, <2>2
<1> HIDE DEF first
<1>6. \E i \in {1} : d \in here(i)
  <2> HIDE DEF here, opaque, bound
  <2> QED BY <1>3, <1>4, <1>5
<1> QED BY <1>6

\* The node of a body.
LEMMA BodyNodeFacts ==
  ASSUME NEW p \in Nat, ast[p].private \in Nat, NEW x, x = BodyNode(p)
  PROVE  /\ x \in NodeType /\ x.decls = <<>> /\ x.completion = 0 /\ x.kind = "Body"
         /\ x.region = IF ast[p].private # 0 THEN ast[p].private ELSE p
<1> DEFINE r == IF ast[p].private # 0 THEN ast[p].private ELSE p
<1>1. r \in Nat
  OBVIOUS
<1>2. "Body" \in NodeKind
  BY DEF NodeKind, PartKinds
<1>3. x = [Blank EXCEPT !.kind = "Body", !.region = r]
  BY DEF BodyNode
<1> HIDE DEF r
<1>4. /\ x \in NodeType /\ x.kind = "Body" /\ x.region = r
      /\ x.decls = Blank.decls /\ x.completion = Blank.completion
  BY <1>1, <1>2, <1>3, BlankNode DEF NodeType
<1> QED BY <1>4, BlankFields DEF r

\* What a package body begins with.
BodyBegun(p) ==
  /\ ast[p].kind = "Package" /\ ast[p].body = 0
  /\ ast' = Append([ast EXCEPT ![p] = [ast[p] EXCEPT !.body = Len(ast) + 1]], BodyNode(p))
  /\ scope' = <<introduceDeclRegion(WithLiterals(Introduced(p)))>> \o scope
  /\ package' = p /\ region' = Len(ast) + 1
  /\ \E T \in SUBSET Range(WithLiterals(Introduced(p))) : errors' = Reported(Cardinality(T))
  /\ failed \subseteq failed'

LEMMA BodyCases ==
  ASSUME NEW n, beginPackageBody(n)
  PROVE  /\ Len(scope) = 1 /\ UNCHANGED <<stencil, pending>>
         /\ \/ errors' = Reported(1) /\ UNCHANGED <<ast, scope, region, package, failed>>
            \/ \E p \in Denotes(n) : BodyBegun(p)
<1> DEFINE p == CHOOSE x \in Denotes(n) : TRUE
           ds == WithLiterals(Introduced(p))
           T == {d \in Range(ds) : d \notin introduceDeclRegion(ds).decls /\ Kind(d) = "EnumLiteral"}
<1>1. Len(scope) = 1 /\ UNCHANGED <<stencil, pending>>
  BY Zenon DEF beginPackageBody, AtTop
<1>2. \/ errors' = Reported(1) /\ UNCHANGED <<ast, scope, region, package, failed>>
      \/ /\ Denotes(n) # {} /\ Kind(p) = "Package" /\ ast[p].body = 0
         /\ ast' = Append([ast EXCEPT ![p].body = NextNode], BodyNode(p))
         /\ scope' = <<introduceDeclRegion(ds)>> \o scope
         /\ package' = p /\ region' = NextNode
         /\ errors' = Reported(Cardinality(T))
         /\ failed' = failed \/ failed' = failed \cup {"introduce"}
  BY Zenon DEF beginPackageBody
<1>3. ASSUME /\ Denotes(n) # {} /\ Kind(p) = "Package" /\ ast[p].body = 0
             /\ ast' = Append([ast EXCEPT ![p].body = NextNode], BodyNode(p))
             /\ scope' = <<introduceDeclRegion(ds)>> \o scope
             /\ package' = p /\ region' = NextNode
             /\ errors' = Reported(Cardinality(T))
             /\ failed' = failed \/ failed' = failed \cup {"introduce"}
      PROVE  \E q \in Denotes(n) : BodyBegun(q)
  <2>1. p \in Denotes(n)
    BY <1>3, Zenon
  <2>2. T \in SUBSET Range(ds)
    OBVIOUS
  <2>3. [ast EXCEPT ![p].body = NextNode] = [ast EXCEPT ![p] = [ast[p] EXCEPT !.body = Len(ast) + 1]]
    BY DEF NextNode
  <2>4. failed \subseteq failed'
    BY <1>3, Zenon
  <2> HIDE DEF p, T
  <2>5. BodyBegun(p)
    BY <1>3, <2>2, <2>3, <2>4, Zenon DEF BodyBegun, Kind, NextNode
  <2> QED BY <2>1, <2>5
<1> QED BY <1>1, <1>2, <1>3

LEMMA BodyBegunInv ==
  ASSUME Inv, Len(scope) = 1, UNCHANGED <<stencil, pending>>, NEW p \in 1..Len(ast), BodyBegun(p)
  PROVE  Inv'
<1> DEFINE x == BodyNode(p)
           b == Len(ast) + 1
           y == [ast[p] EXCEPT !.body = b]
           ds == WithLiterals(Introduced(p))
           f == introduceDeclRegion(ds)
<1>1. /\ ast[p].kind = "Package" /\ ast[p].body = 0
      /\ ast' = Append([ast EXCEPT ![p] = y], x) /\ scope' = <<f>> \o scope
      /\ package' = p /\ region' = b /\ failed \subseteq failed'
      /\ \E T \in SUBSET Range(ds) : errors' = Reported(Cardinality(T))
  BY DEF BodyBegun
<1>2. /\ TopShape(ast, scope, region) /\ pending = 0 /\ stencil.of = "idle"
      /\ scope \in Seq(Frame) /\ FramesHold(ast, scope) /\ Well(ast, Len(ast)) /\ ast \in Heap
      /\ Len(ast) \in Nat /\ errors \in Nat /\ PackagesWhole(ast)
  BY TopFacts
<1>3. ast[p] \in NodeType /\ b \in Nat /\ p \in Nat
  BY <1>2 DEF Heap
<1>4. /\ y \in NodeType /\ y.kind = ast[p].kind /\ y.region = ast[p].region /\ y.sig = ast[p].sig
      /\ y.completion = ast[p].completion /\ y.forward = ast[p].forward
      /\ y.decls = ast[p].decls /\ y.private = ast[p].private /\ y.body = b
  BY <1>3 DEF NodeType
<1>5. /\ x \in NodeType /\ x.decls = <<>> /\ x.completion = 0 /\ x.kind = "Body"
      /\ x.region = IF ast[p].private # 0 THEN ast[p].private ELSE p
  <2>1. ast[p].private \in Nat
    BY <1>3 DEF NodeType
  <2> QED BY <1>3, <2>1, BodyNodeFacts
<1>6. /\ f \in Frame /\ f.kind = "PACKAGE_SCOPE" /\ f.decls \subseteq OwnNodes(p)
      /\ ds \in Seq(OwnNodes(p))
  BY <1>1, BodyFrame, IntroducedFacts
<1>7. /\ ast[p].region = 0
      /\ ast[p].private # 0 => /\ ast[p].private \in 1..Len(ast)
                               /\ ast[ast[p].private].kind = "PrivatePart"
                               /\ ast[ast[p].private].region = p
  BY <1>1, <1>2 DEF PackagesWhole
<1> HIDE DEF x, y, f, ds
<1>8. PartAdded(ast, p, y, x, ast')
  <2>1. x.region \in 0..Len(ast)
    BY <1>2, <1>3, <1>5, <1>7
  <2> QED BY <1>1, <1>2, <1>4, <1>5, <2>1, AddPart
<1>9. /\ Well(ast', Len(ast')) /\ Grows(ast, ast') /\ ast' \in Heap /\ Len(ast') = b /\ ast'[b] = x
      /\ ast'[p] = y /\ (\A i \in 1..Len(ast) : i # p => ast'[i] = ast[i])
  BY <1>8 DEF PartAdded
<1>10. b \in 1..Len(ast') /\ b # 0 /\ p \in 1..Len(ast') /\ b \notin 1..Len(ast)
       /\ (\A i \in 1..Len(ast') : i \in 1..Len(ast) \/ i = b)
       /\ (\A i \in 1..Len(ast) : i \in 1..Len(ast'))
       /\ (\A i \in (Len(ast) + 1)..Len(ast') : i = b)
  BY <1>2, <1>9
<1> HIDE DEF b
<1>11. ast[p].private # 0 => ast'[ast[p].private] = ast[ast[p].private] /\ ast[p].private # p
  <2>1. ast[p].private # 0 => ast[p].private # p
    BY <1>1, <1>7
  <2> QED BY <1>7, <1>9, <2>1
<1>12. PackagesWhole(ast')
  <2>1. WholePackage(ast', p)
    <3>1. ast'[p].private = ast[p].private /\ ast'[p].body = b /\ ast'[p].region = 0
      BY <1>4, <1>7, <1>9
    <3>2. ast'[p].private # 0 => /\ ast'[p].private \in 1..Len(ast')
                                 /\ ast'[ast'[p].private].kind = "PrivatePart"
                                 /\ ast'[ast'[p].private].region = p
      BY <1>7, <1>10, <1>11, <3>1
    <3>3. /\ ast'[b].kind = "Body"
          /\ ast'[b].region = IF ast'[p].private # 0 THEN ast'[p].private ELSE p
      BY <1>5, <1>9, <3>1
    <3> QED BY <1>10, <3>1, <3>2, <3>3 DEF WholePackage
  <2>2. WholeBody(ast', b)
    <3>1. CASE ast[p].private = 0
      <4>1. ast'[b].region = p /\ ast'[p].kind = "Package" /\ ast'[p].body = b
        BY <1>1, <1>4, <1>5, <1>9, <3>1
      <4>2. p # 0
        BY <1>2
      <4> QED BY <4>1, <4>2 DEF WholeBody
    <3>2. CASE ast[p].private # 0
      <4>1. /\ ast'[b].region = ast[p].private /\ ast'[ast[p].private].kind = "PrivatePart"
            /\ ast'[ast[p].private].region = p /\ ast'[p].body = b
        BY <1>4, <1>5, <1>7, <1>9, <1>11, <3>2
      <4>2. p # 0
        BY <1>2
      <4> QED BY <3>2, <4>1, <4>2 DEF WholeBody
    <3> QED BY <3>1, <3>2
  <2>3. \A i \in 1..Len(ast) : ast[i].body # 0 => ast'[i].body = ast[i].body
    BY <1>1, <1>9
  <2>4. \A i \in 1..Len(ast') : ast'[i].kind = "Package" =>
           \/ WholePackage(ast', i)
           \/ i \in 1..Len(ast) /\ ast'[i].private = ast[i].private /\ ast'[i].body = ast[i].body
    BY <1>5, <1>9, <1>10, <2>1
  <2>5. \A c \in (Len(ast) + 1)..Len(ast') : ast'[c].kind = "Body" => WholeBody(ast', c)
    BY <1>10, <2>2
  <2> QED BY <1>2, <1>9, <2>3, <2>4, <2>5, PackagesWholeGrow
<1>13. /\ scope' \in Seq(Frame) /\ Len(scope') = 2 /\ scope'[1] = f /\ scope'[2] = scope[1]
  <2>1. /\ scope' \in Seq(Frame) /\ Len(scope') = Len(scope) + 1 /\ scope'[1] = f
        /\ \A i \in 1..Len(scope) : scope'[i + 1] = scope[i]
    BY <1>1, <1>2, <1>6, PushFacts
  <2>2. 1 \in 1..Len(scope) /\ 1 + 1 = 2 /\ Len(scope) + 1 = 2
    OBVIOUS
  <2> QED BY <2>1, <2>2
<1>14. FramesHold(ast', scope')
  <2>1. FramesHold(ast', scope)
    <3>1. Len(ast) =< Len(ast')
      BY <1>9 DEF Grows
    <3> QED BY <1>2, <1>9, <3>1, HoldsMore
  <2>2. \A z \in f.decls : z \in 1..Len(ast')
    BY <1>6, <1>10 DEF OwnNodes
  <2> QED BY <1>1, <1>2, <1>6, <2>1, <2>2, PushHolds
<1>15. PackageShape(ast', scope', b, p)
  <2>1. PartOf(ast', p, b)
    BY <1>1, <1>4, <1>9, <1>10 DEF PartOf
  <2>2. ASSUME NEW z \in f.decls, ast'[z].kind \in DeclKinds PROVE Reach(ast', ast'[z].region, b)
    <3>1. z \in 1..Len(ast) /\ z \in OwnNodes(p)
      BY <1>6 DEF OwnNodes
    <3>2. ast'[z].kind = ast[z].kind /\ ast'[z].region = ast[z].region
      BY <1>9, <3>1 DEF Grows
    <3>3. ast[z].region = p \/ (ast[p].private # 0 /\ ast[z].region = ast[p].private)
      BY <2>2, <3>1, <3>2 DEF OwnNodes
    <3>4. ast'[b].region = IF ast[p].private # 0 THEN ast[p].private ELSE p
      BY <1>5, <1>9
    <3>5. b \in Nat /\ p # 0
      BY <1>2, <1>3
    <3>6. ast'[z].region # 0
      BY <3>2, <3>3, <3>5
    <3>7. \/ ast'[z].region = ast'[b].region
          \/ ast'[b].region # 0 /\ ast'[z].region = ast'[ast'[b].region].region
      BY <1>7, <1>11, <3>2, <3>3, <3>4, <3>5
    <3> QED BY <1>10, <3>6, <3>7 DEF Reach
  <2>3. PackageFrame(ast', scope'[1], b)
    BY <1>6, <1>13, <2>2 DEF PackageFrame
  <2> QED BY <1>2, <1>13, <2>1, <2>3 DEF PackageShape, TopShape
<1>16. errors' \in Nat /\ (errors' = 0 => errors = 0)
  <2>1. PICK T \in SUBSET Range(ds) : errors' = Reported(Cardinality(T))
    BY <1>1
  <2>2. Range(ds) \subseteq OwnNodes(p)
    <3>1. DOMAIN ds = 1..Len(ds) /\ \A i \in 1..Len(ds) : ds[i] \in OwnNodes(p)
      BY <1>6
    <3> QED BY <3>1 DEF Range
  <2>3. T \in SUBSET (1..Len(ast))
    BY <2>1, <2>2 DEF OwnNodes
  <2>4. Cardinality(T) \in Nat
    BY <1>2, <2>3, CountNodes
  <2> QED BY <1>2, <2>1, <2>4, ReportedFacts
<1>17. errors = 0 => PackagesComplete(ast', TRUE, p)
  <2>1. (Len(scope) > 1) = FALSE
    OBVIOUS
  <2>2. errors = 0 => PackagesComplete(ast, FALSE, package)
    BY <2>1 DEF Inv, CleanInv
  <2>3. \A i \in 1..Len(ast') : ast'[i].kind = "Package" =>
           i \in 1..Len(ast) /\ (i # p => ast'[i].body = ast[i].body)
    BY <1>5, <1>9, <1>10
  <2>4. \A i \in 1..Len(ast') : ast'[i].kind = "Package" =>
           \/ i \notin 1..Len(ast) /\ ast'[i].decls = <<>>
           \/ /\ i \in 1..Len(ast)
              /\ ast'[i].body # 0 /\ ~(TRUE /\ p = i) => ast[i].body # 0 /\ ~(FALSE /\ package = i)
              /\ ~(TRUE /\ p = i /\ ast'[i].body = 0) => ~(FALSE /\ package = i /\ ast[i].body = 0)
    BY <2>3
  <2> QED BY <1>2, <1>9, <2>2, <2>4, PackagesCompleteGrow
<1>18. \A i \in (Len(ast) + 1)..Len(ast') : ast'[i].kind \notin DeclKinds
  BY <1>5, <1>9, <1>10 DEF DeclKinds
<1>19. /\ region' \in Nat /\ package' \in Nat /\ pending' = 0
       /\ PackageShape(ast', scope', region', package')
       /\ "reset" \notin failed' => "reset" \notin failed
       /\ errors' = 0 => errors = 0 /\ PackagesComplete(ast', TRUE, package')
  BY <1>1, <1>2, <1>3, <1>15, <1>16, <1>17
<1> QED BY <1>2, <1>9, <1>12, <1>13, <1>14, <1>16, <1>18, <1>19, EnterPackage

LEMMA beginPackageBodyInv ==
  ASSUME Inv, NEW n, beginPackageBody(n)
  PROVE  Inv'
<1>1. /\ Len(scope) = 1 /\ UNCHANGED <<stencil, pending>>
      /\ \/ errors' = Reported(1) /\ UNCHANGED <<ast, scope, region, package, failed>>
         \/ \E p \in Denotes(n) : BodyBegun(p)
  BY BodyCases
<1>2. /\ scope \in Seq(Frame) /\ FramesHold(ast, scope) /\ errors \in Nat /\ stencil.of = "idle"
      /\ StencilOK(stencil)
  BY <1>1, TopFacts
<1>3. ASSUME errors' = Reported(1), UNCHANGED <<ast, scope, region, package, failed>> PROVE Inv'
  <2>1. errors' \in Nat /\ (errors' = 0 => errors = 0)
    BY <1>2, <1>3, ReportedFacts
  <2> QED BY <1>1, <1>2, <1>3, <2>1, StencilStep
<1>4. ASSUME NEW p \in Denotes(n), BodyBegun(p) PROVE Inv'
  <2>1. p \in scope[1].decls
    BY <1>1, <1>2, DenotesAtTop
  <2>2. p \in 1..Len(ast)
    <3>1. 1 \in 1..Len(scope)
      BY <1>1
    <3> QED BY <1>2, <2>1, <3>1 DEF FramesHold
  <2> QED BY <1>1, <1>4, <2>2, BodyBegunInv
<1> QED BY <1>1, <1>3, <1>4

-----------------------------------------------------------------------------
(* The initial state *)

\* The predefined type and the packages of other units.
LEMMA InitialNodes ==
  ASSUME Init
  PROVE  /\ ast \in Heap /\ Len(ast) \in Nat /\ 1 \in 1..Len(ast)
         /\ \A i \in 1..Len(ast) :
              /\ ast[i].kind \in {"Integer", "Package"} /\ ast[i].region = 0
              /\ ast[i].decls = <<>> /\ ast[i].completion = 0
              /\ ast[i].private = 0 /\ ast[i].body = 0
<1> DEFINE k == Cardinality(Dependency)
           s == SetToSeq(Dependency)
           x == [Blank EXCEPT !.kind = "Integer", !.name = "integer"]
           ps == [i \in 1..k |-> PackageNode(s[i])]
<1>1. k \in Nat /\ \A i \in 1..k : s[i] \in PackageName
  <2>1. IsFiniteSet(Dependency) /\ Dependency \subseteq PackageName
    BY DeclarationAssumption
  <2>2. s \in Seq(Dependency) /\ Len(s) \in Nat /\ Len(s) = k
    BY <2>1, SetToSeqFacts
  <2> HIDE DEF s
  <2> QED BY <2>1, <2>2
<1>2. ast = <<x>> \o ps
  BY DEF Init
<1> HIDE DEF k, s
<1>3. /\ x \in NodeType /\ x.kind = "Integer" /\ x.region = 0 /\ x.decls = <<>>
      /\ x.completion = 0 /\ x.private = 0 /\ x.body = 0
  <2>1. "Integer" \in NodeKind
    BY DEF NodeKind, TypeKinds
  <2>2. "integer" \in NodeName
    BY Zenon DEF NodeName
  <2>3. /\ x \in NodeType /\ x.kind = "Integer" /\ x.region = Blank.region
        /\ x.decls = Blank.decls /\ x.completion = Blank.completion
        /\ x.private = Blank.private /\ x.body = Blank.body
    BY <2>1, <2>2, BlankNode DEF NodeType
  <2> HIDE DEF x
  <2> QED BY <2>3, BlankFields
<1> HIDE DEF x
<1>4. \A i \in 1..k :
        /\ ps[i] \in NodeType /\ ps[i].decls = <<>> /\ ps[i].completion = 0 /\ ps[i].region = 0
        /\ ps[i].private = 0 /\ ps[i].body = 0 /\ ps[i].kind = "Package"
  <2>1. \A i \in 1..k : ps[i] = PackageNode(s[i])
    OBVIOUS
  <2> HIDE DEF ps
  <2> QED BY <1>1, <2>1, PackageNodeFacts
<1>5. ps \in Heap /\ Len(ps) = k
  <2>1. ps \in [1..k -> NodeType]
    <3>1. \A i \in 1..k : PackageNode(s[i]) \in NodeType
      BY <1>1, PackageNodeFacts
    <3> QED BY <3>1, Zenon
  <2> HIDE DEF ps
  <2> QED BY <1>1, <2>1 DEF Heap
<1> HIDE DEF ps
<1>6. <<x>> \in Heap /\ Len(<<x>>) = 1 /\ <<x>>[1] = x
  BY <1>3 DEF Heap
<1>7. /\ ast \in Heap /\ Len(ast) = 1 + k
      /\ \A i \in 1..(1 + k) : ast[i] = IF i <= 1 THEN <<x>>[i] ELSE ps[i - 1]
  <2>1. /\ <<x>> \o ps \in Seq(NodeType) /\ Len(<<x>> \o ps) = Len(<<x>>) + Len(ps)
        /\ \A i \in 1..(Len(<<x>>) + Len(ps)) :
             (<<x>> \o ps)[i] = IF i <= Len(<<x>>) THEN <<x>>[i] ELSE ps[i - Len(<<x>>)]
    BY <1>5, <1>6, ConcatProperties DEF Heap
  <2> QED BY <1>2, <1>5, <1>6, <2>1 DEF Heap
<1>8. \A i \in 1..(1 + k) : (i = 1 /\ ast[i] = x) \/ (i - 1 \in 1..k /\ ast[i] = ps[i - 1])
  <2> SUFFICES ASSUME NEW i \in 1..(1 + k), i # 1 PROVE i - 1 \in 1..k /\ ast[i] = ps[i - 1]
    BY <1>1, <1>6, <1>7
  <2>1. ~(i <= 1) /\ i - 1 \in 1..k
    BY <1>1
  <2> QED BY <1>7, <2>1
<1>9. Len(ast) \in Nat /\ 1 \in 1..Len(ast)
  BY <1>1, <1>7
<1> QED BY <1>3, <1>4, <1>7, <1>8, <1>9

LEMMA InitInv ==
  ASSUME Init
  PROVE  Inv
<1>1. /\ ast \in Heap /\ Len(ast) \in Nat /\ 1 \in 1..Len(ast)
      /\ \A i \in 1..Len(ast) :
           /\ ast[i].kind \in {"Integer", "Package"} /\ ast[i].region = 0
           /\ ast[i].decls = <<>> /\ ast[i].completion = 0
           /\ ast[i].private = 0 /\ ast[i].body = 0
  BY InitialNodes
<1>2. Forwards(ast) = {}
  BY <1>1 DEF Forwards
<1>3. NodesInv
  <2>1. Well(ast, Len(ast))
    <3>1. \A i \in 1..Len(ast) : ast[i].region < i /\ ast[i].completion =< Len(ast)
      BY <1>1
    <3>2. \A i \in 1..Len(ast) : Len(ast[i].decls) = 0
      BY <1>1
    <3>3. \A i \in 1..Len(ast) : \A j \in 1..Len(ast[i].decls) : FALSE
      BY <3>2
    <3>4. Len(ast) =< Len(ast)
      BY <1>1
    <3> QED BY <1>1, <3>1, <3>3, <3>4 DEF Well
  <2>2. PackagesWhole(ast)
    <3>1. \A i \in 1..Len(ast) : ast[i].kind # "Body"
      BY <1>1
    <3> QED BY <1>1, <3>1 DEF PackagesWhole
  <2>3. DefinitionsAgree(ast)
    BY <1>2 DEF DefinitionsAgree
  <2>4. RoutinesInParts(ast)
    BY <1>1 DEF RoutinesInParts, DeclKinds
  <2> QED BY <2>1, <2>2, <2>3, <2>4 DEF NodesInv
<1>4. /\ scope \in Seq(Frame) /\ Len(scope) = 1 /\ scope[1].kind = "CUNIT_SCOPE"
      /\ scope[1].decls = {1}
  <2> DEFINE f == FrameOf("CUNIT_SCOPE", {Integer})
  <2>1. f \in Frame /\ f.kind = "CUNIT_SCOPE" /\ f.decls = {1}
    BY DEF FrameOf, Frame, FrameKind, Integer
  <2>2. scope = <<f>>
    BY DEF Init
  <2> HIDE DEF f
  <2> QED BY <2>1, <2>2
<1>5. /\ region = 0 /\ package = 0 /\ stencil = IdleStencil /\ pending = 0 /\ errors = 0
      /\ failed = {}
  BY DEF Init
<1>6. ShapeInv
  <2>1. FramesHold(ast, scope)
    <3>1. \A i \in 1..Len(scope) : i = 1
      BY <1>4
    <3> QED BY <1>1, <1>4, <3>1 DEF FramesHold
  <2>2. Shape(ast, scope, region, package)
    BY <1>4, <1>5 DEF Shape, TopShape
  <2>3. StencilOK(stencil) /\ StencilPlace /\ PendingPlace
    BY <1>5, IdleFacts DEF StencilPlace, PendingPlace
  <2> QED BY <1>4, <1>5, <2>1, <2>2, <2>3 DEF ShapeInv
<1>7. CleanInv
  <2>1. \A i \in 1..Len(ast) : Range(ast[i].decls) = {}
    BY <1>1 DEF Range
  <2>2. PackagesComplete(ast, Len(scope) > 1, package)
    BY <2>1 DEF PackagesComplete
  <2>3. DefinitionsPointBack(ast) /\ DefinitionsHaveBodies(ast, pending)
    BY <1>2 DEF DefinitionsPointBack, DefinitionsHaveBodies
  <2> QED BY <2>2, <2>3 DEF CleanInv
<1> QED BY <1>3, <1>6, <1>7 DEF Inv

-----------------------------------------------------------------------------
(* Every step keeps the invariant *)

LEMMA TypeDeclarationsInv ==
  ASSUME Inv, TypeDeclarations
  PROVE  Inv'
<1>1. PICK n \in Name :
        \/ acceptIncompleteTypeDecl(n)
        \/ \E limited \in BOOLEAN : acceptPrivateTypeDecl(n, limited)
        \/ \E ok \in BOOLEAN : acceptIntegerTypeDecl(n, ok)
        \/ \E t \in VisibleTypes :
             \/ \E ranged \in BOOLEAN : acceptSubtypeDecl(n, t, ranged)
             \/ \E c \in (SUBSET BOOLEAN) \ {{}} : acceptArrayDecl(n, t, c)
             \/ acceptAccessTypeDecl(n, t)
             \/ acceptRecordComponent(n, t)
        \/ beginEnumeration(n) \/ acceptEnumerationLiteral(n)
        \/ beginRecord(n)
  BY DEF TypeDeclarations
<1>2. ASSUME NEW t \in VisibleTypes,
             \/ \E ranged \in BOOLEAN : acceptSubtypeDecl(n, t, ranged)
             \/ \E c \in (SUBSET BOOLEAN) \ {{}} : acceptArrayDecl(n, t, c)
             \/ acceptAccessTypeDecl(n, t)
             \/ acceptRecordComponent(n, t)
      PROVE  Inv'
  <2>1. CASE \E ranged \in BOOLEAN : acceptSubtypeDecl(n, t, ranged)
    BY <2>1, acceptSubtypeDeclInv
  <2>2. CASE \E c \in (SUBSET BOOLEAN) \ {{}} : acceptArrayDecl(n, t, c)
    BY <2>2, acceptArrayDeclInv
  <2>3. CASE acceptAccessTypeDecl(n, t)
    BY <2>3, acceptAccessTypeDeclInv
  <2>4. CASE acceptRecordComponent(n, t)
    BY <2>4, acceptRecordComponentInv
  <2> QED BY <1>2, <2>1, <2>2, <2>3, <2>4
<1>3. CASE acceptIncompleteTypeDecl(n)
  BY <1>3, acceptIncompleteTypeDeclInv
<1>4. CASE \E limited \in BOOLEAN : acceptPrivateTypeDecl(n, limited)
  BY <1>4, acceptPrivateTypeDeclInv
<1>5. CASE \E ok \in BOOLEAN : acceptIntegerTypeDecl(n, ok)
  BY <1>5, acceptIntegerTypeDeclInv
<1>6. CASE beginEnumeration(n)
  BY <1>6, beginEnumerationInv
<1>7. CASE acceptEnumerationLiteral(n)
  BY <1>7, acceptEnumerationLiteralInv
<1>8. CASE beginRecord(n)
  BY <1>8, beginRecordInv
<1> QED BY <1>1, <1>2, <1>3, <1>4, <1>5, <1>6, <1>7, <1>8

LEMMA OtherDeclarationsInv ==
  ASSUME Inv, OtherDeclarations
  PROVE  Inv'
<1>1. PICK n \in Name :
        \/ \E kind \in {"Function", "Procedure"} : beginSubroutineDeclaration(kind, n)
        \/ \E ok \in BOOLEAN : acceptPragmaImport(n, ok)
        \/ \E t \in VisibleTypes :
             \/ \E init \in {"none", "good", "wrong"} : acceptObjectDeclaration(n, t, init)
             \/ \E ok \in BOOLEAN : acceptRenamedObjectDeclaration(n, t, ok)
             \/ \E mode \in Mode : acceptSubroutineParameter(n, t, mode)
  BY DEF OtherDeclarations
<1>2. ASSUME NEW t \in VisibleTypes,
             \/ \E init \in {"none", "good", "wrong"} : acceptObjectDeclaration(n, t, init)
             \/ \E ok \in BOOLEAN : acceptRenamedObjectDeclaration(n, t, ok)
             \/ \E mode \in Mode : acceptSubroutineParameter(n, t, mode)
      PROVE  Inv'
  <2>1. CASE \E init \in {"none", "good", "wrong"} : acceptObjectDeclaration(n, t, init)
    BY <2>1, acceptObjectDeclarationInv
  <2>2. CASE \E ok \in BOOLEAN : acceptRenamedObjectDeclaration(n, t, ok)
    BY <2>2, acceptRenamedObjectDeclarationInv
  <2>3. CASE \E mode \in Mode : acceptSubroutineParameter(n, t, mode)
    BY <2>3, acceptSubroutineParameterInv
  <2> QED BY <1>2, <2>1, <2>2, <2>3
<1>3. CASE \E kind \in {"Function", "Procedure"} : beginSubroutineDeclaration(kind, n)
  BY <1>3, beginSubroutineDeclarationInv DEF DeclKinds
<1>4. CASE \E ok \in BOOLEAN : acceptPragmaImport(n, ok)
  BY <1>4, acceptPragmaImportInv
<1> QED BY <1>1, <1>2, <1>3, <1>4

LEMMA PackagesInv ==
  ASSUME Inv, Packages
  PROVE  Inv'
<1>1. CASE \E n \in PackageName : acceptWithClause(n)
  BY <1>1, acceptWithClauseInv
<1>2. CASE \E n \in PackageName : beginPackageSpec(n)
  BY <1>2, beginPackageSpecInv
<1>3. CASE \E n \in PackageName : beginPackageBody(n)
  BY <1>3, beginPackageBodyInv
<1>4. CASE beginPackagePrivatePart
  BY <1>4, beginPackagePrivatePartInv
<1>5. CASE endPackageSpec
  BY <1>5, endPackageSpecInv
<1>6. CASE endPackageBody
  BY <1>6, endPackageBodyInv
<1> QED BY <1>1, <1>2, <1>3, <1>4, <1>5, <1>6 DEF Packages

LEMMA NextInv ==
  ASSUME Inv, [Next]_vars
  PROVE  Inv'
<1>1. CASE TypeDeclarations
  BY <1>1, TypeDeclarationsInv
<1>2. CASE OtherDeclarations
  BY <1>2, OtherDeclarationsInv
<1>3. CASE Packages
  BY <1>3, PackagesInv
<1>4. CASE endEnumeration
  BY <1>4, endEnumerationInv
<1>5. CASE endRecord
  BY <1>5, endRecordInv
<1>6. CASE \E t \in VisibleTypes \cup {0} : acceptFunctionReturnType(t)
  BY <1>6, acceptFunctionReturnTypeInv
<1>7. CASE \E follows \in BOOLEAN : endSubroutineDeclaration(follows)
  BY <1>7, endSubroutineDeclarationInv
<1>8. CASE beginSubroutineDefinition
  BY <1>8, beginSubroutineDefinitionInv
<1>9. CASE endSubroutineBody
  BY <1>9, endSubroutineBodyInv
<1>10. CASE endSubroutineDefinition
  BY <1>10, endSubroutineDefinitionInv
<1>11. CASE UNCHANGED vars
  <2>1. UNCHANGED <<ast, scope, region, package, pending, failed, stencil, errors>>
    BY <1>11 DEF vars
  <2>2. StencilOK(stencil) /\ StencilPlace /\ errors \in Nat
    BY DEF Inv, ShapeInv
  <2> QED BY <2>1, <2>2, StencilStep DEF StencilPlace
<1> QED BY <1>1, <1>2, <1>3, <1>4, <1>5, <1>6, <1>7, <1>8, <1>9, <1>10, <1>11 DEF Next

-----------------------------------------------------------------------------
(* Enclosing regions *)

\* The function that Enclosing chooses.
IsOutward(h, r, f) ==
  f = [x \in 0..r |-> IF x = 0 THEN {} ELSE {x} \cup f[h[x].region]]

\* There is one, for regions lie before what they contain.
LEMMA OutwardExists ==
  ASSUME NEW h, NEW r \in Nat, \A x \in 1..r : h[x].region \in 0..(x - 1)
  PROVE  \E f : IsOutward(h, r, f)
<1> DEFINE Upto(n, f) == \A x \in 0..n : f[x] = IF x = 0 THEN {} ELSE {x} \cup f[h[x].region]
           Has(n) == \E f : f = [x \in 0..n |-> f[x]] /\ Upto(n, f)
           T == {n \in Nat : n =< r => Has(n)}
<1>1. 0 \in T
  <2> DEFINE f == [x \in 0..0 |-> {}]
  <2>1. f = [x \in 0..0 |-> f[x]]
    BY Zenon
  <2>2. 0..0 = {0}
    OBVIOUS
  <2>3. f[0] = {}
    BY <2>2
  <2> HIDE DEF f
  <2>4. Upto(0, f)
    BY <2>2, <2>3
  <2> HIDE DEF Upto
  <2>5. Has(0)
    BY <2>1, <2>4
  <2> HIDE DEF Has
  <2> QED BY <2>5
<1>2. ASSUME NEW n \in Nat, n \in T PROVE n + 1 \in T
  <2> HIDE DEF Has
  <2> SUFFICES ASSUME n + 1 =< r PROVE Has(n + 1)
    OBVIOUS
  <2>0. Has(n)
    BY <1>2
  <2>1. PICK f : f = [x \in 0..n |-> f[x]] /\ Upto(n, f)
    BY <2>0 DEF Has
  <2> DEFINE v == {n + 1} \cup f[h[n + 1].region]
             g == [x \in 0..(n + 1) |-> IF x = n + 1 THEN v ELSE f[x]]
  <2>2. g = [x \in 0..(n + 1) |-> g[x]]
    BY Zenon
  <2>3. /\ \A x \in 0..n : x \in 0..(n + 1) /\ x # n + 1
        /\ \A x \in 0..(n + 1) : x = n + 1 \/ x \in 0..n
        /\ n + 1 \in 0..(n + 1) /\ n + 1 # 0
    OBVIOUS
  <2>4. (\A x \in 0..n : g[x] = f[x]) /\ g[n + 1] = v
    BY <2>3
  <2>5. \A x \in 0..(n + 1) : x # 0 => h[x].region \in 0..n
    <3> SUFFICES ASSUME NEW x \in 0..(n + 1), x # 0 PROVE h[x].region \in 0..n
      OBVIOUS
    <3>1. x \in 1..r /\ x - 1 =< n /\ x - 1 \in Nat
      OBVIOUS
    <3>2. h[x].region \in 0..(x - 1)
      BY <3>1
    <3> QED BY <3>1, <3>2
  <2> HIDE DEF g
  <2>6. ASSUME NEW x \in 0..(n + 1)
        PROVE  g[x] = IF x = 0 THEN {} ELSE {x} \cup g[h[x].region]
    <3>1. x # 0 => g[h[x].region] = f[h[x].region]
      BY <2>4, <2>5
    <3>2. CASE x \in 0..n
      BY <2>1, <2>4, <3>1, <3>2
    <3>3. CASE x = n + 1
      BY <2>3, <2>4, <3>1, <3>3
    <3> QED BY <2>3, <3>2, <3>3
  <2>7. Upto(n + 1, g)
    BY <2>6
  <2> HIDE DEF Upto
  <2> QED BY <2>2, <2>7 DEF Has
<1>3. r \in T
  <2> HIDE DEF T
  <2> QED BY <1>1, <1>2, SetInduction
<1>4. PICK f : f = [x \in 0..r |-> f[x]] /\ Upto(r, f)
  <2>1. Has(r)
    <3> HIDE DEF Has
    <3> QED BY <1>3
  <2> QED BY <2>1
<1>5. f = [x \in 0..r |-> IF x = 0 THEN {} ELSE {x} \cup f[h[x].region]]
  BY <1>4, Zenon
<1> QED BY <1>5 DEF IsOutward

\* A region within two steps outwards encloses.
LEMMA ReachEncloses ==
  ASSUME NEW h, Well(h, Len(h)), NEW r \in 0..Len(h), NEW a, Reach(h, a, r), a # 0
  PROVE  a \in Enclosing(h, r)
<1> DEFINE g == CHOOSE f : IsOutward(h, r, f)
<1>1. Len(h) \in Nat /\ r \in Nat
  BY DEF Well, Heap
<1>2. \A x \in 1..r : h[x].region \in 0..(x - 1)
  <2> SUFFICES ASSUME NEW x \in 1..r PROVE h[x].region \in 0..(x - 1)
    OBVIOUS
  <2>1. x \in 1..Len(h) /\ x \in Nat
    BY <1>1
  <2>2. h[x].region \in 0..Len(h) /\ h[x].region < x
    BY <2>1, RegionFacts
  <2> QED BY <1>1, <2>1, <2>2
<1>3. Enclosing(h, r) = g[r]
  BY Zenon DEF Enclosing, IsOutward
<1>4. IsOutward(h, r, g)
  BY <1>1, <1>2, OutwardExists, Zenon
<1> HIDE DEF g
<1>5. \A x \in 0..r : g[x] = IF x = 0 THEN {} ELSE {x} \cup g[h[x].region]
  BY <1>4, Zenon DEF IsOutward
<1>6. \A x \in 0..r : x # 0 => x \in g[x] /\ h[x].region \in 0..r /\ g[h[x].region] \subseteq g[x]
  <2> SUFFICES ASSUME NEW x \in 0..r, x # 0
               PROVE  x \in g[x] /\ h[x].region \in 0..r /\ g[h[x].region] \subseteq g[x]
    OBVIOUS
  <2>1. h[x].region \in 0..(x - 1)
    BY <1>1, <1>2
  <2>2. h[x].region \in 0..r
    BY <1>1, <2>1
  <2>3. g[x] = {x} \cup g[h[x].region]
    BY <1>5
  <2> QED BY <2>2, <2>3
<1>7. r \in 0..r
  BY <1>1
<1>8. CASE a = r
  BY <1>3, <1>6, <1>7, <1>8
<1>9. CASE r # 0 /\ a = h[r].region
  BY <1>3, <1>6, <1>7, <1>9
<1>10. CASE r # 0 /\ h[r].region # 0 /\ a = h[h[r].region].region
  <2>1. h[r].region \in 0..r /\ g[h[r].region] \subseteq g[r]
    BY <1>6, <1>7, <1>10
  <2>2. a \in 0..r /\ g[a] \subseteq g[h[r].region]
    BY <1>6, <1>10, <2>1
  <2>3. a \in g[a]
    BY <1>6, <2>2
  <2> QED BY <1>3, <2>1, <2>2, <2>3
<1> QED BY <1>8, <1>9, <1>10 DEF Reach

-----------------------------------------------------------------------------
(* What the invariant says of the properties *)

LEMMA InvPairs ==
  ASSUME Inv
  PROVE  DefinitionsPair
<1> SUFFICES ASSUME "reset" \notin failed, NEW d \in Nodes, IsRoutine(d), ast[d].completion # 0
             PROVE  LET def == ast[d].completion
                    IN  /\ ast[def].forward = d /\ SameProfile(ast, d, def)
                        /\ ast[d].region \in Enclosing(ast, ast[def].region)
                        /\ ast[def].completion = 0
  BY DEF DefinitionsPair
<1> DEFINE f == ast[d].completion
<1>1. d \in Forwards(ast)
  BY DEF Forwards, Nodes, IsRoutine, Kind
<1>2. Well(ast, Len(ast)) /\ Agree(ast, d, f)
  BY <1>1 DEF Inv, NodesInv, DefinitionsAgree
<1>3. ast[f].forward = d /\ ast[f].completion = 0
  BY <1>1 DEF Inv, CleanInv, DefinitionsPointBack
<1> HIDE DEF f
<1>4. SameProfile(ast, d, f)
  BY <1>2 DEF Agree, SameProfile, RootOf
<1>5. ast[d].region \in Enclosing(ast, ast[f].region)
  <2>1. f \in 1..Len(ast) /\ Reach(ast, ast[d].region, ast[f].region)
    BY <1>2 DEF Agree
  <2>2. ast[f].region \in 0..Len(ast)
    BY <1>2, <2>1, RegionFacts
  <2>3. ast[d].region # 0
    BY <2>1 DEF Reach
  <2> QED BY <1>2, <2>1, <2>2, <2>3, ReachEncloses
<1> QED BY <1>3, <1>4, <1>5 DEF f

\* A body from which a package is one or two steps outwards is that package's.
LEMMA BodyOf ==
  ASSUME NEW h, PackagesWhole(h), NEW p \in 1..Len(h), h[p].kind = "Package",
         NEW b \in 1..Len(h), h[b].kind = "Body", Reach(h, p, b), Well(h, Len(h))
  PROVE  h[p].body = b
<1>1. p # b /\ p # 0
  BY DEF Reach
<1>2. /\ h[b].region # 0
      /\ \/ h[h[b].region].kind = "Package" /\ h[h[b].region].body = b
         \/ /\ h[h[b].region].kind = "PrivatePart" /\ h[h[b].region].region # 0
            /\ h[h[h[b].region].region].body = b
  BY DEF PackagesWhole
<1>3. h[b].region \in 1..Len(h)
  BY <1>2, RegionFacts
<1>4. CASE p = h[b].region
  BY <1>2, <1>4
<1>5. CASE p = h[h[b].region].region
  <2>1. h[h[b].region].kind # "Package"
    BY <1>1, <1>3, <1>5 DEF PackagesWhole
  <2> QED BY <1>2, <1>5, <2>1
<1> QED BY <1>1, <1>4, <1>5 DEF Reach

LEMMA InvComplete ==
  ASSUME Inv
  PROVE  AcceptedBodiesComplete
<1> SUFFICES ASSUME errors = 0, Len(scope) = 1, NEW p \in Nodes, Kind(p) = "Package",
                    ast[p].body # 0, NEW d \in Range(ast[p].decls)
             PROVE  /\ Kind(d) \in {"Function", "Procedure"} =>
                         /\ ast[d].completion # 0
                         /\ ast[ast[d].completion].region = ast[p].body
                         /\ ast[ast[d].completion].body # 0
                    /\ Kind(d) \in {"Incomplete", "Private"} => ast[d].completion # 0
  BY DEF AcceptedBodiesComplete
<1>1. /\ Well(ast, Len(ast)) /\ PackagesWhole(ast) /\ DefinitionsAgree(ast) /\ pending = 0
      /\ p \in 1..Len(ast) /\ ast[p].kind = "Package" /\ Len(ast) \in Nat
  BY TopFacts DEF Nodes, Kind
<1>2. PackagesComplete(ast, FALSE, package) /\ DefinitionsHaveBodies(ast, 0)
  <2>1. (Len(scope) > 1) = FALSE
    OBVIOUS
  <2> QED BY <1>1, <2>1 DEF Inv, CleanInv
<1>3. d \in 1..Len(ast) /\ ast[d].region = p
  BY <1>1, ListedFacts
<1>4. /\ Kind(d) \in DeclKinds \cup {"Incomplete"} => ast[d].completion # 0
      /\ Kind(d) = "Private" => ast[d].completion # 0
  BY <1>1, <1>2 DEF PackagesComplete, Kind
<1>5. ASSUME Kind(d) \in DeclKinds
      PROVE  ast[ast[d].completion].region = ast[p].body /\ ast[ast[d].completion].body # 0
  <2> DEFINE f == ast[d].completion
  <2>1. d \in Forwards(ast) /\ f # 0
    BY <1>3, <1>4, <1>5 DEF Forwards, DeclKinds, RoutineKinds, Kind
  <2>2. Agree(ast, d, f)
    BY <1>1, <2>1 DEF DefinitionsAgree
  <2>3. ast[ast[f].region].kind = "Body" /\ ast[f].body # 0
    BY <1>2, <2>1 DEF DefinitionsHaveBodies
  <2> HIDE DEF f
  <2>4. f \in 1..Len(ast) /\ Reach(ast, p, ast[f].region)
    BY <1>3, <2>2 DEF Agree
  <2>5. ast[f].region \in 1..Len(ast)
    <3>1. ast[f].region # 0
      BY <2>4 DEF Reach
    <3> QED BY <1>1, <2>4, <3>1, RegionFacts
  <2>6. ast[p].body = ast[f].region
    BY <1>1, <2>3, <2>4, <2>5, BodyOf
  <2> QED BY <2>3, <2>6 DEF f
<1> QED BY <1>4, <1>5 DEF DeclKinds

LEMMA InvFollows ==
  ASSUME Inv
  PROVE  ScopesFollowRegions
<1> DEFINE frame == Head(scope)
           formals(x) == {y \in Nodes : Kind(y) = "Param" /\ ast[y].region = x}
           own == IF IsRoutine(region) THEN region ELSE ast[region].region
<1>1. /\ scope \in Seq(Frame) /\ Shape(ast, scope, region, package) /\ PackagesWhole(ast)
      /\ Len(ast) \in Nat
  BY DEF Inv, ShapeInv, NodesInv, Well, Heap
<1>2. frame = scope[1]
  <2>1. Len(scope) = 1 \/ Len(scope) = 2 \/ Len(scope) = 3 \/ Len(scope) > 1
    BY <1>1 DEF Shape, TopShape, BaseShape, PackageShape, SubroutineShape, RecordShape
  <2>2. Len(scope) > 0
    BY <1>1, <2>1
  <2> QED BY <1>1, <2>2, TailFacts
<1> HIDE DEF frame
<1>3. \A x : formals(x) = FormalsOf(ast, x)
  BY DEF FormalsOf, Nodes, Kind
<1> HIDE DEF formals
<1>4. frame.kind = "PACKAGE_SCOPE" =>
        region \in {package, ast[package].private, ast[package].body} \ {0}
  <2> SUFFICES ASSUME frame.kind = "PACKAGE_SCOPE"
               PROVE  region \in {package, ast[package].private, ast[package].body} \ {0}
    OBVIOUS
  <2>1. PackageShape(ast, scope, region, package)
    BY <1>1, <1>2 DEF Shape, TopShape, BaseShape, SubroutineShape, SubroutineFrame, RecordShape
  <2>2. PartOf(ast, package, region)
    BY <2>1 DEF PackageShape
  <2> QED BY <1>1, <2>2 DEF PartOf
<1>5. frame.kind = "SUBROUTINE_SCOPE" =>
        /\ ast[own].region = ast[package].body
        /\ {own} \cup formals(own) \subseteq frame.decls
        /\ IsRoutine(region) => frame.decls = {own} \cup formals(own)
  <2> SUFFICES ASSUME frame.kind = "SUBROUTINE_SCOPE"
               PROVE  /\ ast[own].region = ast[package].body
                      /\ {own} \cup formals(own) \subseteq frame.decls
                      /\ IsRoutine(region) => frame.decls = {own} \cup formals(own)
    OBVIOUS
  <2>1. SubroutineShape(ast, scope, region, package)
    BY <1>1, <1>2 DEF Shape, TopShape, BaseShape, PackageShape, PackageFrame, RecordShape
  <2>2. PICK d \in 1..Len(ast) : /\ SubroutineFrame(ast, frame, region, d)
                                 /\ ast[d].region = ast[package].body
    BY <1>2, <2>1 DEF SubroutineShape
  <2>3. own = d /\ (IsRoutine(region) => region = d)
    BY <2>2 DEF SubroutineFrame, IsRoutine, Kind, RoutineKinds, DeclKinds
  <2> HIDE DEF own
  <2> QED BY <1>3, <2>2, <2>3 DEF SubroutineFrame
<1>6. frame.kind = "RECORD_SCOPE" =>
        Kind(region) = "Record" /\ frame.decls \subseteq Range(ast[region].decls)
  <2> SUFFICES ASSUME frame.kind = "RECORD_SCOPE"
               PROVE  Kind(region) = "Record" /\ frame.decls \subseteq Range(ast[region].decls)
    OBVIOUS
  <2>1. RecordShape(ast, scope, region, package)
    BY <1>1, <1>2 DEF Shape, TopShape, BaseShape, PackageShape, PackageFrame, SubroutineShape,
                      SubroutineFrame
  <2> QED BY <1>2, <2>1 DEF RecordShape, Kind
<1>7. frame.kind = "CUNIT_SCOPE" => stencil.of = "idle" /\ pending = 0
  <2> SUFFICES ASSUME frame.kind = "CUNIT_SCOPE" PROVE stencil.of = "idle" /\ pending = 0
    OBVIOUS
  <2>1. TopShape(ast, scope, region)
    BY <1>1, <1>2 DEF Shape, BaseShape, PackageShape, PackageFrame, SubroutineShape,
                      SubroutineFrame, RecordShape
  <2>2. Len(scope) = 1
    BY <2>1 DEF TopShape
  <2> QED BY <2>2, TopFacts
<1> QED BY <1>4, <1>5, <1>6, <1>7 DEF ScopesFollowRegions, frame, formals, own
-----------------------------------------------------------------------------
\* The invariant holds throughout, whatever the parser calls.
THEOREM InvariantHolds == Spec => []Inv
<1>1. Init => Inv
  BY InitInv
<1>2. Inv /\ [Next]_vars => Inv'
  BY NextInv
<1> QED BY <1>1, <1>2, PTL DEF Spec

\* The frame stack and the declarative region stay in step, in every sequence of
\* callbacks and for any names, packages and bounds.
THEOREM FramesAndRegionsAgree == Spec => []ScopesFollowRegions
<1>1. Inv => ScopesFollowRegions
  BY InvFollows
<1> QED BY <1>1, InvariantHolds, PTL

\* A forward declaration and its definition point at each other, agree in profile
\* and lie in nested regions, as long as the assertion of setDefiningDeclaration holds.
THEOREM ForwardDeclarationsPair == Spec => []DefinitionsPair
<1>1. Inv => DefinitionsPair
  BY InvPairs
<1> QED BY <1>1, InvariantHolds, PTL

\* What endPackageSpec and endPackageBody accept without a diagnostic is complete:
\* every exported subroutine is defined in the body, every type completed.
THEOREM AcceptedPackagesComplete == Spec => []AcceptedBodiesComplete
<1>1. Inv => AcceptedBodiesComplete
  BY InvComplete
<1> QED BY <1>1, InvariantHolds, PTL
=============================================================================
