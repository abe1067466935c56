-------------------------- MODULE ExceptionProofs --------------------------
(***************************************************************************)
(* The compiled landing pads, the personality and the two-phase unwinder    *)
(* implement the language's exceptions: Spec => ImplementsSemantics, for    *)
(* every program whose exinfos tell apart what its handlers tell apart.     *)
(*                                                                          *)
(* The argument.  Selectors and comparisons: the entry that match_exception *)
(* finds in a selector, compared in the pad, leads to the first handler     *)
(* that covers the exception (FlattenFacts to DispatchFacts).  Places: two  *)
(* stacks that catch an exception at the same places and agree up to each   *)
(* of them are the same to a raise (Agree, AgreeSame).  The inductive       *)
(* invariant says which activations the search has passed over and what the *)
(* register holds in a pad; with it every step of the runtime either        *)
(* preserves the place of the handler or enters it.                         *)
(***************************************************************************)
EXTENDS Exceptions, OrderLemmas

\* A handled sequence under way.
Region == [seq: Handled, handler: Int]

\* The hypothesis on the program: a handler that names an exception with the
\* exinfo of e also covers e.  It holds whenever registerException is injective
\* on the exceptions of the program; the missing break after its case of user
\* defined exceptions makes it fail for a program with a handler for one user
\* defined exception and a raise of another one.
Faithful ==
  \A q \in Handled : \A i \in DOMAIN handlers[q] : \A e \in Exception :
    (\E c \in DOMAIN handlers[q][i] :
       registerException(handlers[q][i][c]) = registerException(e))
    => Covers(q, i, e)
-----------------------------------------------------------------------------
(* Selectors and dispatch *)

\* Every exception has an exinfo, and none is the null of the catch-all.
LEMMA ExinfoNotNone ==
  ASSUME NEW e \in Exception
  PROVE  registerException(e) \in ExceptionIDs /\ registerException(e) # None
<1>1. getID[e] \in ExceptionIDs
  BY IDAssumption
<1> QED BY <1>1 DEF registerException, ExceptionIDs, None

\* The handlers of a sequence, their choices and their bounds.
LEMMA HandlerFacts ==
  ASSUME NEW q \in Handled
  PROVE  /\ handlers[q] \in Seq(Seq(Exception)) /\ Len(handlers[q]) \in Nat \ {0}
         /\ DOMAIN handlers[q] = 1..Len(handlers[q])
         /\ \A i \in 1..Len(handlers[q]) :
              /\ handlers[q][i] \in Seq(Exception) /\ Len(handlers[q][i]) \in Nat
              /\ DOMAIN handlers[q][i] = 1..Len(handlers[q][i])
              /\ \A c \in 1..Len(handlers[q][i]) : handlers[q][i][c] \in Exception
              /\ handlers[q][i] = <<>> => Len(handlers[q][i]) = 0
<1>1. handlers[q] \in Seq(Seq(Exception)) /\ handlers[q] # <<>>
  BY HandlersAssumption
<1> DEFINE h == handlers[q]
<1>2. h \in Seq(Seq(Exception)) /\ h # <<>>
  BY <1>1
<1> HIDE DEF h
<1>3. Len(h) \in Nat \ {0} /\ DOMAIN h = 1..Len(h)
  BY <1>2, EmptySeq
<1>4. ASSUME NEW i \in 1..Len(h)
      PROVE  /\ h[i] \in Seq(Exception) /\ Len(h[i]) \in Nat /\ DOMAIN h[i] = 1..Len(h[i])
             /\ \A c \in 1..Len(h[i]) : h[i][c] \in Exception
             /\ h[i] = <<>> => Len(h[i]) = 0
  <2>1. h[i] \in Seq(Exception)
    BY <1>2, <1>3
  <2> QED BY <2>1
<1> QED BY <1>2, <1>3, <1>4 DEF h

\* Some handler of the sequence names an exception with this exinfo.
Named(q, id) ==
  \E i \in 1..Len(handlers[q]) : \E c \in 1..Len(handlers[q][i]) :
    registerException(handlers[q][i][c]) = id

\* emitSelector: the exinfos of all choices of all handlers, none of them null,
\* then the null entry.
LEMMA SelectorFacts ==
  ASSUME NEW q \in Handled
  PROVE  \E n \in Nat :
           /\ emitSelector(q) \in Seq(ExceptionIDs \cup {None})
           /\ Len(emitSelector(q)) = n + 1 /\ emitSelector(q)[n + 1] = None
           /\ \A k \in 1..n : emitSelector(q)[k] # None
           /\ \A id : id # None =>
                ((\E k \in 1..n : emitSelector(q)[k] = id) <=> Named(q, id))
<1> DEFINE h == handlers[q]
           row(i) == [c \in DOMAIN h[i] |-> registerException(h[i][c])]
           rows == [i \in DOMAIN h |-> row(i)]
           flat == FlattenSeq(rows)
<1>1. emitSelector(q) = Append(flat, None)
  BY DEF emitSelector
<1>2. /\ h \in Seq(Seq(Exception)) /\ Len(h) \in Nat \ {0} /\ DOMAIN h = 1..Len(h)
      /\ \A i \in 1..Len(h) :
           /\ Len(h[i]) \in Nat /\ DOMAIN h[i] = 1..Len(h[i])
           /\ \A c \in 1..Len(h[i]) : h[i][c] \in Exception
  BY HandlerFacts
<1>3. ASSUME NEW i \in 1..Len(h)
      PROVE  /\ row(i) \in Seq(ExceptionIDs) /\ Len(row(i)) = Len(h[i])
             /\ \A c \in 1..Len(h[i]) : row(i)[c] = registerException(h[i][c])
  <2>1. /\ Len(h[i]) \in Nat /\ DOMAIN h[i] = 1..Len(h[i])
        /\ \A c \in 1..Len(h[i]) : h[i][c] \in Exception
    BY <1>2
  <2>2. \A c \in 1..Len(h[i]) : registerException(h[i][c]) \in ExceptionIDs
    BY <2>1, ExinfoNotNone
  <2> HIDE DEF h
  <2>3. row(i) = [c \in 1..Len(h[i]) |-> registerException(h[i][c])]
    BY <2>1
  <2> HIDE DEF row
  <2> QED BY <2>1, <2>2, <2>3
<1> HIDE DEF h, row
<1>4. /\ rows \in Seq(Seq(ExceptionIDs)) /\ Len(rows) = Len(h)
      /\ \A i \in 1..Len(h) : rows[i] = row(i)
  BY <1>2, <1>3
<1> HIDE DEF rows
<1>5. /\ flat \in Seq(ExceptionIDs)
      /\ \A x : Contains(flat, x) <=> \E i \in 1..Len(rows) : Contains(rows[i], x)
  <2>1. Len(rows) # 0
    BY <1>2, <1>4
  <2> QED BY <1>4, <2>1, FlattenFacts
<1> HIDE DEF flat
<1> DEFINE n == Len(flat)
           s == Append(flat, None)
<1>6. n \in Nat /\ \A k \in 1..n : flat[k] \in ExceptionIDs
  BY <1>5
<1>7. flat \in Seq(ExceptionIDs \cup {None})
  <2>1. ExceptionIDs \subseteq ExceptionIDs \cup {None}
    OBVIOUS
  <2> HIDE DEF n
  <2> QED BY <1>5, <2>1
<1>8. /\ s \in Seq(ExceptionIDs \cup {None}) /\ Len(s) = n + 1 /\ s[n + 1] = None
      /\ \A k \in 1..n : s[k] = flat[k]
  <2>1. None \in ExceptionIDs \cup {None}
    OBVIOUS
  <2> QED BY <1>7, <2>1, AppendProperties
<1>9. \A x \in ExceptionIDs : x # None
  BY DEF ExceptionIDs, None
<1>10. \A id : Contains(flat, id) <=> \E k \in 1..n : s[k] = id
  BY <1>8 DEF Contains
<1>11. ASSUME NEW id PROVE Contains(flat, id) <=> Named(q, id)
  <2>1. \A i \in 1..Len(h) : Contains(rows[i], id) <=>
          \E c \in 1..Len(h[i]) : registerException(h[i][c]) = id
    BY <1>3, <1>4 DEF Contains
  <2> QED BY <1>4, <1>5, <2>1 DEF Named, h
<1> HIDE DEF n, s
<1>12. \A k \in 1..n : s[k] # None
  BY <1>6, <1>8, <1>9
<1>13. emitSelector(q) = s
  BY <1>1 DEF s
<1> QED BY <1>6, <1>8, <1>10, <1>11, <1>12, <1>13

\* match_exception always finds an entry in a selector: the exception's own when
\* a handler names its exinfo, and else the catch-all.
LEMMA MatchFacts ==
  ASSUME NEW q \in Handled, exception.id # None
  PROVE  LET k == match_exception(emitSelector(q))
         IN  /\ k # 0
             /\ Named(q, exception.id) => emitSelector(q)[k] = exception.id
             /\ ~Named(q, exception.id) => emitSelector(q)[k] = None
<1> DEFINE s == emitSelector(q)
           id == exception.id
           I == {i \in 1..Len(s) : s[i] = None \/ s[i] = id}
<1>1. PICK n \in Nat :
        /\ Len(s) = n + 1 /\ s[n + 1] = None
        /\ \A k \in 1..n : s[k] # None
        /\ \A x : x # None => ((\E k \in 1..n : s[k] = x) <=> Named(q, x))
  BY SelectorFacts
<1>2. match_exception(s) = IF I # {} THEN Min(I) ELSE 0
  BY Zenon DEF match_exception, SelectInSeq
<1> HIDE DEF s, id
<1>3. n + 1 \in I /\ I \in SUBSET Nat
  BY <1>1
<1>4. match_exception(s) \in I /\ \A k \in I : match_exception(s) =< k
  BY <1>2, <1>3, MinOfNaturals
<1> DEFINE m == match_exception(s)
<1>5. m # 0 /\ m \in 1..(n + 1) /\ (s[m] = None \/ s[m] = id)
  BY <1>1, <1>4
<1>6. \A k \in I : m =< k
  BY <1>4
<1> HIDE DEF m
<1>7. CASE Named(q, id)
  <2>1. PICK k \in 1..n : s[k] = id
    BY <1>1, <1>7 DEF id
  <2>2. k \in I
    BY <1>1, <2>1
  <2>3. m \in 1..n
    BY <1>5, <1>6, <2>2
  <2>4. s[m] = id
    BY <1>1, <1>5, <2>3
  <2> QED BY <1>5, <1>7, <2>4 DEF m, s, id
<1>8. CASE ~Named(q, id)
  <2>1. \A k \in 1..n : s[k] # id
    BY <1>1, <1>8 DEF id
  <2>2. m \notin 1..n
    BY <1>1, <1>5, <2>1
  <2>3. m = n + 1
    BY <1>5, <2>2
  <2>4. s[m] = None
    BY <1>1, <2>3
  <2> QED BY <1>5, <1>8, <2>4 DEF m, s, id
<1> QED BY <1>7, <1>8

\* The comparisons of a pad on the entry found choose the first handler that
\* covers the exception, and none exactly when the sequence does not handle it.
LEMMA DispatchFacts ==
  ASSUME Faithful, NEW q \in Handled, NEW e \in Exception, NEW sel,
         Named(q, registerException(e)) => sel = registerException(e),
         ~Named(q, registerException(e)) => sel = None
  PROVE  /\ Dispatch(q, sel) = FirstHandler(q, e)
         /\ Dispatch(q, sel) # 0 <=> Handles(q, e)
         /\ Dispatch(q, sel) \in 0..Len(handlers[q])
<1> DEFINE h == handlers[q]
           I == {i \in 1..Len(h) : h[i] = <<>>
                   \/ \E c \in DOMAIN h[i] : registerException(h[i][c]) = sel}
           J == {i \in 1..Len(h) : h[i] = <<>> \/ Contains(h[i], e)}
<1>1. Dispatch(q, sel) = IF I # {} THEN Min(I) ELSE 0
  BY Zenon DEF Dispatch, SelectInSeq
<1>2. FirstHandler(q, e) = IF J # {} THEN Min(J) ELSE 0
  BY Zenon DEF FirstHandler, SelectInSeq
<1>3. /\ Len(h) \in Nat \ {0} /\ DOMAIN h = 1..Len(h)
      /\ \A i \in 1..Len(h) :
           /\ Len(h[i]) \in Nat /\ DOMAIN h[i] = 1..Len(h[i])
           /\ \A c \in 1..Len(h[i]) : h[i][c] \in Exception
  BY HandlerFacts
<1>4. ASSUME NEW i \in 1..Len(h)
      PROVE  (\E c \in DOMAIN h[i] : registerException(h[i][c]) = sel) => i \in J
  <2> SUFFICES ASSUME NEW c \in DOMAIN h[i], registerException(h[i][c]) = sel PROVE i \in J
    OBVIOUS
  <2>1. sel # None
    BY <1>3, ExinfoNotNone
  <2>2. sel = registerException(e)
    BY <2>1
  <2>3. Covers(q, i, e)
    BY <1>3, <2>2 DEF Faithful
  <2> QED BY <2>3 DEF Covers
<1>5. ASSUME NEW i \in 1..Len(h), Contains(h[i], e) PROVE i \in I
  <2>1. PICK c \in 1..Len(h[i]) : h[i][c] = e
    BY <1>5 DEF Contains
  <2>2. Named(q, registerException(e))
    BY <2>1 DEF Named
  <2>3. sel = registerException(e)
    BY <2>2
  <2> QED BY <1>3, <2>1, <2>3
<1>6. I = J
  BY <1>4, <1>5
<1>7. Handles(q, e) <=> J # {}
  BY <1>3 DEF Handles, Covers
<1> HIDE DEF I
<1>8. J # {} => Min(J) \in 1..Len(h)
  <2>1. J \in SUBSET Nat
    BY <1>3
  <2>2. J # {} => Min(J) \in J
    BY <2>1, MinOfNaturals
  <2> QED BY <2>2
<1> HIDE DEF J
<1>9. Len(h) \in Nat
  BY <1>3
<1> QED BY <1>1, <1>2, <1>6, <1>7, <1>8, <1>9
-----------------------------------------------------------------------------
(* The place where an exception is caught *)

\* A stack: for each activation its handled sequences under way.
Activations == Seq(Seq(Region))

\* The r-th handled sequence of activation a is in its statements and handles e.
CatchesAt(acts, a, r, e) ==
  /\ a \in 1..Len(acts) /\ r \in 1..Len(acts[a])
  /\ acts[a][r].handler = 0 /\ Handles(acts[a][r].seq, e)

\* Bounds and types of the parts of a stack.
LEMMA ActFacts ==
  ASSUME NEW acts \in Activations
  PROVE  /\ Len(acts) \in Nat /\ DOMAIN acts = 1..Len(acts)
         /\ \A a \in 1..Len(acts) :
              /\ acts[a] \in Seq(Region) /\ Len(acts[a]) \in Nat
              /\ DOMAIN acts[a] = 1..Len(acts[a])
              /\ \A r \in 1..Len(acts[a]) :
                   /\ acts[a][r] \in Region
                   /\ acts[a][r].seq \in Handled /\ acts[a][r].handler \in Int
<1>1. Len(acts) \in Nat /\ DOMAIN acts = 1..Len(acts)
  BY DEF Activations
<1>2. ASSUME NEW a \in 1..Len(acts)
      PROVE  /\ acts[a] \in Seq(Region) /\ Len(acts[a]) \in Nat
             /\ DOMAIN acts[a] = 1..Len(acts[a])
             /\ \A r \in 1..Len(acts[a]) :
                   /\ acts[a][r] \in Region
                   /\ acts[a][r].seq \in Handled /\ acts[a][r].handler \in Int
  <2>1. acts[a] \in Seq(Region)
    BY <1>1 DEF Activations
  <2>2. \A r \in 1..Len(acts[a]) : acts[a][r] \in Region
    BY <2>1
  <2> QED BY <2>1, <2>2 DEF Region
<1> QED BY <1>1, <1>2

\* Catching is the set of the places where CatchesAt holds.
LEMMA CatchingFacts ==
  ASSUME NEW acts \in Activations, NEW e
  PROVE  /\ \A a, r : CatchesAt(acts, a, r, e) => <<a, r>> \in Catching(acts, e)
         /\ \A p \in Catching(acts, e) : \E a, r : p = <<a, r>> /\ CatchesAt(acts, a, r, e)
<1>1. /\ DOMAIN acts = 1..Len(acts)
      /\ \A a \in 1..Len(acts) : DOMAIN acts[a] = 1..Len(acts[a])
  BY ActFacts
<1>2. ASSUME NEW a, NEW r, CatchesAt(acts, a, r, e)
      PROVE  <<a, r>> \in Catching(acts, e)
  <2>1. a \in DOMAIN acts /\ r \in DOMAIN acts[a]
    BY <1>1, <1>2 DEF CatchesAt
  <2>2. <<a, r>> \in {a} \X DOMAIN acts[a]
    BY <2>1
  <2>3. <<a, r>> \in UNION {{b} \X DOMAIN acts[b] : b \in DOMAIN acts}
    BY <2>1, <2>2
  <2> QED BY <1>2, <2>3 DEF Catching, CatchesAt
<1>3. ASSUME NEW p \in Catching(acts, e)
      PROVE  \E a, r : p = <<a, r>> /\ CatchesAt(acts, a, r, e)
  <2>1. PICK a \in DOMAIN acts : p \in {a} \X DOMAIN acts[a]
    BY DEF Catching
  <2>2. PICK r \in DOMAIN acts[a] : p = <<a, r>>
    BY <2>1
  <2>3. acts[a][r].handler = 0 /\ Handles(acts[a][r].seq, e)
    BY <2>2 DEF Catching
  <2> QED BY <1>1, <2>1, <2>2, <2>3 DEF CatchesAt
<1> QED BY <1>2, <1>3

\* If any place catches e then Innermost is the last one, activations first.
LEMMA InnermostFacts ==
  ASSUME NEW acts \in Activations, NEW e, Catching(acts, e) # {}
  PROVE  \E a, r : /\ Innermost(Catching(acts, e)) = <<a, r>> /\ CatchesAt(acts, a, r, e)
                   /\ \A b, s : CatchesAt(acts, b, s, e) => b < a \/ (b = a /\ s =< r)
<1> DEFINE C == Catching(acts, e)
           A == {a \in 1..Len(acts) : \E r : CatchesAt(acts, a, r, e)}
<1>1. PICK a0, r0 : CatchesAt(acts, a0, r0, e)
  BY CatchingFacts
<1>2. Len(acts) \in Nat /\ A \in SUBSET (0..Len(acts)) /\ A # {}
  BY <1>1, ActFacts DEF CatchesAt
<1>3. PICK a \in A : \A k \in A : k =< a
  BY <1>2, GreatestNatural
<1> DEFINE R == {r \in 1..Len(acts[a]) : CatchesAt(acts, a, r, e)}
<1>4. a \in 1..Len(acts) /\ Len(acts[a]) \in Nat
  BY <1>3, ActFacts
<1>5. R \in SUBSET (0..Len(acts[a])) /\ R # {}
  BY <1>3, <1>4 DEF CatchesAt
<1>6. PICK r \in R : \A k \in R : k =< r
  BY <1>4, <1>5, GreatestNatural
<1>7. CatchesAt(acts, a, r, e)
  BY <1>6
<1>8. ASSUME NEW b, NEW s, CatchesAt(acts, b, s, e) PROVE b < a \/ (b = a /\ s =< r)
  <2>1. b \in A /\ b \in 1..Len(acts) /\ b =< a
    BY <1>3, <1>8 DEF CatchesAt
  <2>2. CASE b = a
    <3>1. s \in R
      BY <1>8, <2>2 DEF CatchesAt
    <3> QED BY <1>6, <2>2, <3>1
  <2>3. CASE b # a
    BY <1>2, <1>4, <2>1, <2>3
  <2> QED BY <2>2, <2>3
<1> HIDE DEF A, R
<1>9. <<a, r>> \in C /\ \A o \in C : Inside(<<a, r>>, o)
  <2>1. <<a, r>> \in C
    BY <1>7, CatchingFacts
  <2>2. ASSUME NEW o \in C PROVE Inside(<<a, r>>, o)
    <3>1. PICK b, s : o = <<b, s>> /\ CatchesAt(acts, b, s, e)
      BY CatchingFacts
    <3>2. b < a \/ (b = a /\ s =< r)
      BY <1>8, <3>1
    <3> QED BY <3>1, <3>2 DEF Inside
  <2> QED BY <2>1, <2>2
<1>10. Innermost(C) \in C /\ \A o \in C : Inside(Innermost(C), o)
  BY <1>9, Zenon DEF Innermost
<1>11. PICK b, s : Innermost(C) = <<b, s>> /\ CatchesAt(acts, b, s, e)
  BY <1>10, CatchingFacts
<1>12. Inside(<<b, s>>, <<a, r>>)
  BY <1>9, <1>10, <1>11
<1>13. a < b \/ (a = b /\ r =< s)
  BY <1>12 DEF Inside
<1>14. b < a \/ (b = a /\ s =< r)
  BY <1>8, <1>11
<1>15. a \in Int /\ b \in Int /\ r \in Int /\ s \in Int
  <2>1. b \in 1..Len(acts) /\ s \in 1..Len(acts[b]) /\ a \in 1..Len(acts) /\ r \in 1..Len(acts[a])
    BY <1>7, <1>11 DEF CatchesAt
  <2> QED BY <2>1
<1>16. b = a /\ s = r
  BY <1>13, <1>14, <1>15
<1> QED BY <1>7, <1>8, <1>11, <1>16

\* Two stacks that catch e in the same places, and agree up to each of them.
Agree(X, Y, e) ==
  /\ \A a, r : CatchesAt(Y, a, r, e) => CatchesAt(X, a, r, e)
  /\ \A a, r : CatchesAt(X, a, r, e) =>
       /\ CatchesAt(Y, a, r, e)
       /\ \A b \in 1..(a - 1) : X[b] = Y[b]
       /\ \A s \in 1..r : X[a][s] = Y[a][s]

\* Prefixes of sequences that agree that far are equal.
LEMMA SamePrefix ==
  ASSUME NEW S, NEW s \in Seq(S), NEW t \in Seq(S), NEW m \in Nat,
         m =< Len(s), m =< Len(t), \A i \in 1..m : s[i] = t[i]
  PROVE  SubSeq(s, 1, m) = SubSeq(t, 1, m)
<1>1. m \in 0..Len(s) /\ m \in 0..Len(t)
  OBVIOUS
<1>2. /\ SubSeq(s, 1, m) \in Seq(S) /\ Len(SubSeq(s, 1, m)) = m
      /\ \A i \in 1..m : SubSeq(s, 1, m)[i] = s[i]
  BY <1>1, PrefixFacts
<1>3. /\ SubSeq(t, 1, m) \in Seq(S) /\ Len(SubSeq(t, 1, m)) = m
      /\ \A i \in 1..m : SubSeq(t, 1, m)[i] = t[i]
  BY <1>1, PrefixFacts
<1> DEFINE u == SubSeq(s, 1, m)
           v == SubSeq(t, 1, m)
<1> HIDE DEF u, v
<1>4. u \in Seq(S) /\ v \in Seq(S) /\ Len(u) = Len(v) /\ \A i \in 1..Len(u) : u[i] = v[i]
  BY <1>2, <1>3 DEF u, v
<1>5. u = v
  BY <1>4, SeqEqual
<1> QED BY <1>5 DEF u, v

\* A sequence is its front with its last element.
LEMMA Rejoined ==
  ASSUME NEW S, NEW s \in Seq(S), NEW m \in Nat, m = Len(s), m > 0
  PROVE  Append(SubSeq(s, 1, m - 1), s[m]) = s
<1>1. m - 1 \in 0..Len(s) /\ s[m] \in S
  OBVIOUS
<1>2. PICK p : p = SubSeq(s, 1, m - 1)
  OBVIOUS
<1>3. p \in Seq(S) /\ Len(p) = m - 1 /\ \A i \in 1..(m - 1) : p[i] = s[i]
  BY <1>1, <1>2, PrefixFacts
<1>4. PICK u : u = Append(p, s[m])
  OBVIOUS
<1>5. u \in Seq(S) /\ Len(u) = Len(p) + 1 /\ u[Len(p) + 1] = s[m]
      /\ \A i \in 1..Len(p) : u[i] = p[i]
  BY <1>1, <1>3, <1>4, AppendProperties
<1>6. Len(u) = m /\ u[m] = s[m] /\ \A i \in 1..(m - 1) : u[i] = s[i]
  <2>1. Len(p) + 1 = m
    BY <1>3
  <2> QED BY <1>3, <1>5, <2>1
<1>7. \A i \in 1..m : i = m \/ i \in 1..(m - 1)
  OBVIOUS
<1>8. u = s
  BY <1>5, <1>6, <1>7, SeqEqual
<1> QED BY <1>2, <1>4, <1>8

\* To a raise of e such stacks are the same.
LEMMA AgreeSame ==
  ASSUME NEW X \in Activations, NEW Y \in Activations, NEW e, Agree(X, Y, e)
  PROVE  /\ AfterRaise(X, e) = AfterRaise(Y, e)
         /\ Catching(X, e) = {} <=> Catching(Y, e) = {}
<1>1. Catching(X, e) = Catching(Y, e)
  <2>1. ASSUME NEW p \in Catching(X, e) PROVE p \in Catching(Y, e)
    <3>1. PICK a, r : p = <<a, r>> /\ CatchesAt(X, a, r, e)
      BY CatchingFacts
    <3>2. CatchesAt(Y, a, r, e)
      BY <3>1 DEF Agree
    <3> QED BY <3>1, <3>2, CatchingFacts
  <2>2. ASSUME NEW p \in Catching(Y, e) PROVE p \in Catching(X, e)
    <3>1. PICK a, r : p = <<a, r>> /\ CatchesAt(Y, a, r, e)
      BY CatchingFacts
    <3>2. CatchesAt(X, a, r, e)
      BY <3>1 DEF Agree
    <3> QED BY <3>1, <3>2, CatchingFacts
  <2> QED BY <2>1, <2>2
<1>2. CASE Catching(X, e) = {}
  BY <1>1, <1>2 DEF AfterRaise
<1>3. CASE Catching(X, e) # {}
  <2>1. PICK a, r : Innermost(Catching(X, e)) = <<a, r>> /\ CatchesAt(X, a, r, e)
    BY <1>3, InnermostFacts
  <2>2. /\ CatchesAt(Y, a, r, e)
        /\ \A b \in 1..(a - 1) : X[b] = Y[b]
        /\ \A s \in 1..r : X[a][s] = Y[a][s]
    BY <2>1 DEF Agree
  <2>3. /\ a \in 1..Len(X) /\ r \in 1..Len(X[a]) /\ a \in 1..Len(Y) /\ r \in 1..Len(Y[a])
        /\ Len(X) \in Nat /\ Len(Y) \in Nat /\ Len(X[a]) \in Nat /\ Len(Y[a]) \in Nat
        /\ X[a] \in Seq(Region) /\ Y[a] \in Seq(Region)
    <3>1. a \in 1..Len(X) /\ r \in 1..Len(X[a]) /\ a \in 1..Len(Y) /\ r \in 1..Len(Y[a])
      BY <2>1, <2>2 DEF CatchesAt
    <3> QED BY <3>1, ActFacts
  <2>4. SubSeq(X, 1, a - 1) = SubSeq(Y, 1, a - 1)
    <3>1. a - 1 \in Nat /\ a - 1 =< Len(X) /\ a - 1 =< Len(Y)
      BY <2>3
    <3> QED BY <2>2, <3>1, SamePrefix DEF Activations
  <2>5. SubSeq(X[a], 1, r - 1) = SubSeq(Y[a], 1, r - 1) /\ X[a][r] = Y[a][r]
    <3>1. r - 1 \in Nat /\ r - 1 =< Len(X[a]) /\ r - 1 =< Len(Y[a]) /\ r \in 1..r
          /\ \A i \in 1..(r - 1) : i \in 1..r
      BY <2>3
    <3> QED BY <2>2, <2>3, <3>1, SamePrefix
  <2>6. <<a, r>>[1] = a /\ <<a, r>>[2] = r
    OBVIOUS
  <2>7. \A i : CaughtBy(X, <<a, r>>, i) = CaughtBy(Y, <<a, r>>, i)
    BY <2>4, <2>5, <2>6 DEF CaughtBy
  <2>8. /\ AfterRaise(X, e) = CaughtBy(X, <<a, r>>, FirstHandler(X[a][r].seq, e))
        /\ AfterRaise(Y, e) = CaughtBy(Y, <<a, r>>, FirstHandler(Y[a][r].seq, e))
    BY <1>1, <1>3, <2>1, <2>6 DEF AfterRaise
  <2> QED BY <1>1, <2>5, <2>7, <2>8
<1> QED BY <1>2, <1>3
-----------------------------------------------------------------------------
(* The pad under way *)

\* Undecided of a stack and a mode: the pad under way still open.
Decide(st, md) ==
  [a \in DOMAIN st |-> [r \in DOMAIN st[a] |->
     IF st[a][r].handler = InPad /\ md = "pad"
     THEN [st[a][r] EXCEPT !.handler = 0] ELSE st[a][r]]]

\* Decide changes nothing but the handler of the places in a pad.
LEMMA DecideFacts ==
  ASSUME NEW st \in Activations, NEW md
  PROVE  /\ Decide(st, md) \in Activations /\ Len(Decide(st, md)) = Len(st)
         /\ \A a \in 1..Len(st) :
              /\ Len(Decide(st, md)[a]) = Len(st[a])
              /\ \A r \in 1..Len(st[a]) :
                   Decide(st, md)[a][r] =
                     IF st[a][r].handler = InPad /\ md = "pad"
                     THEN [st[a][r] EXCEPT !.handler = 0] ELSE st[a][r]
<1> DEFINE one(a, r) == IF st[a][r].handler = InPad /\ md = "pad"
                        THEN [st[a][r] EXCEPT !.handler = 0] ELSE st[a][r]
           row(a) == [r \in DOMAIN st[a] |-> one(a, r)]
           D == [a \in DOMAIN st |-> row(a)]
<1>1. /\ Len(st) \in Nat /\ DOMAIN st = 1..Len(st)
      /\ \A a \in 1..Len(st) :
           /\ Len(st[a]) \in Nat /\ DOMAIN st[a] = 1..Len(st[a])
           /\ \A r \in 1..Len(st[a]) : st[a][r] \in Region
  BY ActFacts
<1>2. ASSUME NEW a \in 1..Len(st)
      PROVE  /\ row(a) \in Seq(Region) /\ Len(row(a)) = Len(st[a])
             /\ \A r \in 1..Len(st[a]) : row(a)[r] = one(a, r)
  <2>1. \A r \in 1..Len(st[a]) : one(a, r) \in Region
    <3> SUFFICES ASSUME NEW r \in 1..Len(st[a]) PROVE one(a, r) \in Region
      OBVIOUS
    <3>1. PICK x \in Region : x = st[a][r]
      BY <1>1
    <3>2. [x EXCEPT !.handler = 0] \in Region
      BY DEF Region
    <3> QED BY <3>1, <3>2
  <2> HIDE DEF one
  <2> QED BY <1>1, <2>1
<1> HIDE DEF row
<1>3. D \in Seq(Seq(Region)) /\ Len(D) = Len(st) /\ \A a \in 1..Len(st) : D[a] = row(a)
  BY <1>1, <1>2
<1>4. Decide(st, md) = D
  BY DEF Decide, row
<1> HIDE DEF D, one
<1>5. /\ D \in Activations /\ Len(D) = Len(st)
      /\ \A a \in 1..Len(st) :
           /\ Len(D[a]) = Len(st[a])
           /\ \A r \in 1..Len(st[a]) : D[a][r] = one(a, r)
  BY <1>2, <1>3 DEF Activations
<1> QED BY <1>4, <1>5 DEF one

\* It leaves alone activations with no pad under way, and all when no pad runs.
LEMMA DecideSame ==
  ASSUME NEW st \in Activations, NEW md
  PROVE  /\ \A a \in 1..Len(st) :
              (md # "pad" \/ \A r \in 1..Len(st[a]) : st[a][r].handler # InPad)
              => Decide(st, md)[a] = st[a]
         /\ md # "pad" => Decide(st, md) = st
<1> DEFINE D == Decide(st, md)
<1>1. /\ D \in Activations /\ Len(D) = Len(st)
      /\ \A a \in 1..Len(st) :
           /\ Len(D[a]) = Len(st[a])
           /\ \A r \in 1..Len(st[a]) :
                ~(st[a][r].handler = InPad /\ md = "pad") => D[a][r] = st[a][r]
  <2>1. /\ D \in Activations /\ Len(D) = Len(st)
        /\ \A a \in 1..Len(st) : Len(D[a]) = Len(st[a])
    BY DecideFacts
  <2>2. ASSUME NEW a \in 1..Len(st), NEW r \in 1..Len(st[a]),
               ~(st[a][r].handler = InPad /\ md = "pad")
        PROVE  D[a][r] = st[a][r]
    <3>1. D[a][r] = IF st[a][r].handler = InPad /\ md = "pad"
                    THEN [st[a][r] EXCEPT !.handler = 0] ELSE st[a][r]
      BY DecideFacts
    <3> QED BY <2>2, <3>1
  <2> QED BY <2>1, <2>2
<1> HIDE DEF D
<1>2. ASSUME NEW a \in 1..Len(st),
             md # "pad" \/ \A r \in 1..Len(st[a]) : st[a][r].handler # InPad
      PROVE  D[a] = st[a]
  <2>1. D[a] \in Seq(Region) /\ st[a] \in Seq(Region)
    BY <1>1, ActFacts
  <2>2. Len(D[a]) = Len(st[a]) /\ \A r \in 1..Len(st[a]) : D[a][r] = st[a][r]
    BY <1>1, <1>2
  <2> QED BY <2>1, <2>2, SeqEqual
<1>3. ASSUME md # "pad" PROVE D = st
  <2>1. \A a \in 1..Len(st) : D[a] = st[a]
    BY <1>2, <1>3
  <2> QED BY <1>1, <2>1, SeqEqual DEF Activations
<1> QED BY <1>2, <1>3 DEF D

\* landing_pad of an activation is its innermost sequence in its statements, and
\* 0 exactly when it has none.
LEMMA LandingFacts ==
  ASSUME NEW act \in Seq(Region)
  PROVE  /\ \A r \in PadsInForce(act) : r \in 1..Len(act) /\ act[r].handler = 0
         /\ \A r \in 1..Len(act) : act[r].handler = 0 => r \in PadsInForce(act)
         /\ PadsInForce(act) = {} => landing_pad(act) = 0
         /\ PadsInForce(act) # {} =>
              /\ landing_pad(act) \in PadsInForce(act) /\ landing_pad(act) # 0
              /\ \A o \in PadsInForce(act) : o =< landing_pad(act)
<1> DEFINE P == PadsInForce(act)
<1>1. /\ \A r \in P : r \in 1..Len(act) /\ act[r].handler = 0
      /\ \A r \in 1..Len(act) : act[r].handler = 0 => r \in P
  BY DEF PadsInForce
<1>2. landing_pad(act) = IF P = {} THEN 0 ELSE CHOOSE r \in P : \A o \in P : o =< r
  BY Zenon DEF landing_pad
<1> HIDE DEF P
<1>3. Len(act) \in Nat /\ P \in SUBSET (0..Len(act))
  BY <1>1
<1>4. ASSUME P # {}
      PROVE  landing_pad(act) \in P /\ \A o \in P : o =< landing_pad(act)
  <2>1. \E r \in P : \A o \in P : o =< r
    BY <1>3, <1>4, GreatestNatural
  <2> QED BY <1>2, <1>4, <2>1, Zenon
<1>5. 0 \notin P
  BY <1>1
<1> QED BY <1>1, <1>2, <1>4, <1>5 DEF P

\* The personality accepts main always, and an activation exactly when it has a
\* pad in force: the catch-all makes every selector match.
LEMMA AcceptsFacts ==
  ASSUME stack \in Activations, exception.id # None, NEW a \in 0..Len(stack)
  PROVE  Accepts(a) <=> (a = 0 \/ PadsInForce(stack[a]) # {})
<1>1. CASE a = 0
  <2> DEFINE s == <<None>>
             I == {i \in 1..Len(s) : s[i] = None \/ s[i] = exception.id}
  <2>1. match_exception(s) = IF I # {} THEN Min(I) ELSE 0
    BY Zenon DEF match_exception, SelectInSeq
  <2>2. 1 \in I /\ I \in SUBSET Nat /\ 0 \notin I
    OBVIOUS
  <2>3. match_exception(s) # 0
    BY <2>1, <2>2, MinOfNaturals
  <2>4. HasPad(a)
    BY <1>1 DEF HasPad
  <2> QED BY <1>1, <2>3, <2>4 DEF Accepts, Actions
<1>2. CASE a # 0
  <2>1. a \in 1..Len(stack) /\ a > 0
    BY <1>2, ActFacts
  <2>2. stack[a] \in Seq(Region)
    BY <2>1, ActFacts
  <2>3. CASE PadsInForce(stack[a]) = {}
    <3>1. landing_pad(stack[a]) = 0
      BY <2>2, <2>3, LandingFacts
    <3> QED BY <1>2, <2>1, <2>3, <3>1 DEF Accepts, HasPad
  <2>4. CASE PadsInForce(stack[a]) # {}
    <3> DEFINE r == landing_pad(stack[a])
    <3>1. r \in 1..Len(stack[a]) /\ r # 0
      BY <2>2, <2>4, LandingFacts
    <3>2. stack[a][r].seq \in Handled
      BY <2>1, <3>1, ActFacts
    <3>3. match_exception(emitSelector(stack[a][r].seq)) # 0
      BY <3>2, MatchFacts
    <3> QED BY <1>2, <2>4, <3>1, <3>3 DEF Accepts, HasPad, Actions
  <2> QED BY <2>3, <2>4
<1> QED BY <1>1, <1>2
-----------------------------------------------------------------------------
(* The inductive invariant *)

\* A place in a pad is the last of the last activation (also after the pad has
\* raised its exception again).
OnlyLast(st) ==
  \A a \in 1..Len(st) : \A r \in 1..Len(st[a]) :
    st[a][r].handler = InPad => a = Len(st) /\ r = Len(st[a])

\* No place is in a pad.
NoPad(st) ==
  \A a \in 1..Len(st) : \A r \in 1..Len(st[a]) : st[a][r].handler # InPad

\* No activation above the c-th has a pad in force.
NoneAbove(st, c) == \A a \in 1..Len(st) : a > c => PadsInForce(st[a]) = {}

\* Compiled code runs in an activation, and in no pad.
RunInv == mode = "run" => Len(stack) > 0 /\ NoPad(stack)

\* The object in flight carries the exinfo of its declaration.
FlightInv ==
  Propagating => /\ exception.decl \in Exception
                 /\ exception.id = registerException(exception.decl)

\* The search phase has passed over activations without pads alone.
SearchInv == mode = "search" => cursor \in 0..Len(stack) /\ NoneAbove(stack, cursor)

\* The target of the cleanup phase is main or an activation with a pad, and
\* nothing above it has one.
CleanupInv ==
  mode = "cleanup" =>
    /\ cursor = Len(stack) /\ target \in 0..Len(stack) /\ NoneAbove(stack, target)
    /\ target > 0 => PadsInForce(stack[target]) # {}

\* In a pad the register holds the exinfo of the exception if a handler of the
\* pad's sequence names it, and null otherwise.
PadInv ==
  mode = "pad" =>
    /\ Len(stack) > 0 /\ Len(stack[Len(stack)]) > 0 /\ Pad.handler = InPad
    /\ Named(Pad.seq, exception.id) => selector = exception.id
    /\ ~Named(Pad.seq, exception.id) => selector = None

\* The inductive invariant.  In particular _Unwind_RaiseException never returns
\* to compiled code: mode is never "returned".
Inv ==
  /\ stack \in Activations /\ mode \in Modes \ {"returned"} /\ OnlyLast(stack)
  /\ RunInv /\ FlightInv /\ SearchInv /\ CleanupInv /\ PadInv

\* The invariant holds when main has called the program.
LEMMA InvInit == Init => Inv
<1> SUFFICES ASSUME Init PROVE Inv
  OBVIOUS
<1>1. stack = <<<<>>>> /\ mode = "run"
  BY DEF Init
<1>2. <<>> \in Seq(Region)
  OBVIOUS
<1>3. stack \in Activations /\ Len(stack) = 1 /\ stack[1] = <<>>
  BY <1>1, <1>2 DEF Activations
<1>4. NoPad(stack) /\ OnlyLast(stack)
  <2>1. Len(<<>>) = 0
    OBVIOUS
  <2> QED BY <1>3, <2>1 DEF NoPad, OnlyLast
<1> QED BY <1>1, <1>3, <1>4 DEF Inv, Modes, RunInv, FlightInv, SearchInv, CleanupInv, PadInv,
                               Propagating

\* The stack when install_handler has entered the pad of its last activation.
NewPad(st) ==
  [st EXCEPT ![Len(st)] =
     Append(SubSeq(@, 1, landing_pad(st[Len(st)]) - 1),
            [@[landing_pad(st[Len(st)])] EXCEPT !.handler = InPad])]

\* What is known of it: cut at the pad, which is now the only place in a pad.
IsNewPad(st, n, r, t) ==
  /\ t \in Activations /\ Len(t) = n /\ Len(t[n]) = r /\ OnlyLast(t)
  /\ r \in 1..Len(st[n]) /\ st[n][r].handler = 0
  /\ \A s \in 1..Len(st[n]) : st[n][s].handler = 0 => s =< r
  /\ t[n][r] = [st[n][r] EXCEPT !.handler = InPad]
  /\ \A a \in 1..(n - 1) : t[a] = st[a]
  /\ \A s \in 1..(r - 1) : t[n][s] = st[n][s] /\ t[n][s].handler # InPad

\* NewPad is such a stack.
LEMMA NewPadFacts ==
  ASSUME NEW st \in Activations, Len(st) > 0, OnlyLast(st),
         PadsInForce(st[Len(st)]) # {}
  PROVE  IsNewPad(st, Len(st), landing_pad(st[Len(st)]), NewPad(st))
<1> DEFINE t == NewPad(st)
<1> HIDE DEF t
<1>0. PICK n \in Nat : n = Len(st)
  BY ActFacts
<1>1. n > 0 /\ n \in 1..n /\ \A a \in 1..n : Len(st[a]) \in Nat
  BY <1>0, ActFacts
<1>2. PICK act \in Seq(Region) : act = st[n]
  BY <1>0, <1>1, ActFacts
<1>3. PICK r \in 1..Len(act) : r = landing_pad(act)
  BY <1>0, <1>2, LandingFacts
<1>4. act[r].handler = 0 /\ \A s \in 1..Len(act) : act[s].handler = 0 => s =< r
  BY <1>0, <1>2, <1>3, LandingFacts
<1>5. PICK pre : pre = SubSeq(act, 1, r - 1)
  OBVIOUS
<1>6. PICK x \in Region : x = [act[r] EXCEPT !.handler = InPad]
  <2>1. PICK y \in Region : y = act[r]
    OBVIOUS
  <2>2. InPad \in Int
    BY DEF InPad
  <2>3. [y EXCEPT !.handler = InPad] \in Region
    BY <2>2 DEF Region
  <2> QED BY <2>1, <2>3
<1>7. pre \in Seq(Region) /\ Len(pre) = r - 1 /\ \A s \in 1..(r - 1) : pre[s] = act[s]
  <2>1. r - 1 \in 0..Len(act)
    OBVIOUS
  <2> QED BY <1>5, <2>1, PrefixFacts
<1>8. PICK v : v = Append(pre, x)
  OBVIOUS
<1>9. v \in Seq(Region) /\ Len(v) = r /\ v[r] = x /\ \A s \in 1..(r - 1) : v[s] = act[s]
  <2>1. v \in Seq(Region) /\ Len(v) = Len(pre) + 1 /\ v[Len(pre) + 1] = x
        /\ \A s \in 1..Len(pre) : v[s] = pre[s]
    BY <1>7, <1>8, AppendProperties
  <2>2. Len(pre) + 1 = r /\ r \in Int
    BY <1>7
  <2> QED BY <1>7, <2>1, <2>2
<1>10. t = [st EXCEPT ![n] = v]
  BY <1>0, <1>2, <1>3, <1>5, <1>6, <1>8 DEF NewPad, t
<1>11. /\ t \in Activations /\ Len(t) = n /\ t[n] = v
       /\ \A a \in 1..(n - 1) : t[a] = st[a]
       /\ \A a \in 1..n : a # n => a \in 1..(n - 1)
  <2>1. v \in Seq(Region)
    BY <1>9
  <2> QED BY <1>0, <1>1, <1>10, <2>1 DEF Activations
<1>12. \A s \in 1..(r - 1) : act[s].handler # InPad
  <2>1. \A s \in 1..(r - 1) : s \in 1..Len(act) /\ s # Len(act)
    OBVIOUS
  <2> QED BY <1>0, <1>1, <1>2, <2>1 DEF OnlyLast
<1>13. OnlyLast(t)
  <2> SUFFICES ASSUME NEW a \in 1..Len(t), NEW s \in 1..Len(t[a]), t[a][s].handler = InPad
               PROVE  a = Len(t) /\ s = Len(t[a])
    BY DEF OnlyLast
  <2>1. CASE a = n
    <3>1. s \in 1..r /\ (s # r => s \in 1..(r - 1))
      <4>1. Len(t[a]) = r /\ r \in Int
        BY <1>9, <1>11, <2>1
      <4> QED BY <4>1
    <3> QED BY <1>9, <1>11, <1>12, <2>1, <3>1
  <2>2. CASE a # n
    <3>1. a \in 1..n /\ a \in 1..(n - 1) /\ t[a] = st[a]
      BY <1>11, <2>2
    <3> QED BY <1>0, <2>2, <3>1 DEF OnlyLast
  <2> QED BY <2>1, <2>2
<1>14. IsNewPad(st, n, r, t)
  <2>1. Len(t[n]) = r /\ t[n][r] = x /\ \A s \in 1..(r - 1) : t[n][s] = act[s]
    BY <1>9, <1>11
  <2>2. t[n][r] = [act[r] EXCEPT !.handler = InPad]
    BY <1>6, <2>1, Zenon
  <2>3. \A s \in 1..(r - 1) : t[n][s] = act[s] /\ t[n][s].handler # InPad
    BY <1>12, <2>1
  <2> QED BY <1>2, <1>4, <1>11, <1>13, <2>1, <2>2, <2>3 DEF IsNewPad
<1> QED BY <1>0, <1>2, <1>3, <1>14 DEF t

\* A call preserves the invariant.
LEMMA CallInv == ASSUME Inv, call PROVE Inv'
<1>1. /\ stack \in Activations /\ Len(stack) > 0 /\ NoPad(stack) /\ mode = "run"
      /\ stack' = Append(stack, <<>>) /\ mode' = "run"
  BY DEF Inv, RunInv, call
<1>2. <<>> \in Seq(Region) /\ Len(<<>>) = 0
  OBVIOUS
<1>3. /\ stack' \in Activations /\ Len(stack') = Len(stack) + 1 /\ Len(stack) \in Nat
      /\ stack'[Len(stack) + 1] = <<>> /\ \A a \in 1..Len(stack) : stack'[a] = stack[a]
  BY <1>1, <1>2, AppendProperties DEF Activations
<1>4. NoPad(stack')
  <2> SUFFICES ASSUME NEW a \in 1..Len(stack'), NEW r \in 1..Len(stack'[a])
               PROVE  stack'[a][r].handler # InPad
    BY DEF NoPad
  <2>1. a \in 1..Len(stack) \/ a = Len(stack) + 1
    BY <1>3
  <2>2. CASE a \in 1..Len(stack)
    BY <1>1, <1>3, <2>2 DEF NoPad
  <2>3. CASE a = Len(stack) + 1
    BY <1>2, <1>3, <2>3
  <2> QED BY <2>1, <2>2, <2>3
<1> QED BY <1>1, <1>3, <1>4 DEF Inv, Modes, RunInv, FlightInv, SearchInv, CleanupInv, PadInv,
                               Propagating, OnlyLast, NoPad

\* A return preserves the invariant.
LEMMA ReturnInv == ASSUME Inv, return PROVE Inv'
<1>1. /\ stack \in Activations /\ Len(stack) > 0 /\ NoPad(stack) /\ mode = "run"
      /\ stack' = Front(stack) /\ mode' = IF Len(stack) = 1 THEN "finished" ELSE "run"
  BY DEF Inv, RunInv, return
<1>2. /\ stack' \in Activations /\ Len(stack') = Len(stack) - 1 /\ Len(stack) \in Nat
      /\ \A a \in 1..(Len(stack) - 1) : stack'[a] = stack[a]
  <2>1. stack \in Seq(Seq(Region)) /\ Len(stack) > 0 /\ stack' = Front(stack)
    BY <1>1 DEF Activations
  <2>2. Len(stack) \in Nat
    BY <2>1
  <2> QED BY <2>1, <2>2, FrontFacts DEF Activations
<1>3. NoPad(stack')
  BY <1>1, <1>2 DEF NoPad
<1> QED BY <1>1, <1>2, <1>3 DEF Inv, Modes, RunInv, FlightInv, SearchInv, CleanupInv, PadInv,
                               Propagating, OnlyLast, NoPad

\* So does any change of the last activation that puts no place in a pad.
LEMMA TopReplaced ==
  ASSUME Inv, mode = "run", mode' = "run", NEW v \in Seq(Region),
         stack' = [stack EXCEPT ![Len(stack)] = v],
         \A r \in 1..Len(v) : v[r].handler # InPad
  PROVE  Inv'
<1>1. stack \in Activations /\ Len(stack) > 0 /\ NoPad(stack)
  BY DEF Inv, RunInv
<1>2. PICK n \in Nat : n = Len(stack)
  BY <1>1, ActFacts
<1>3. /\ stack' \in Activations /\ Len(stack') = n /\ stack'[n] = v
      /\ \A a \in 1..(n - 1) : stack'[a] = stack[a]
      /\ \A a \in 1..n : a # n => a \in 1..(n - 1)
  BY <1>1, <1>2 DEF Activations
<1>4. NoPad(stack')
  <2> SUFFICES ASSUME NEW a \in 1..n, NEW r \in 1..Len(stack'[a])
               PROVE  stack'[a][r].handler # InPad
    BY <1>3 DEF NoPad
  <2>1. CASE a = n
    BY <1>3, <2>1
  <2>2. CASE a # n
    BY <1>1, <1>2, <1>3, <2>2 DEF NoPad
  <2> QED BY <2>1, <2>2
<1> QED BY <1>1, <1>2, <1>3, <1>4 DEF Inv, Modes, RunInv, FlightInv, SearchInv, CleanupInv,
                               PadInv, Propagating, OnlyLast, NoPad

\* Entering a handled sequence preserves the invariant.
LEMMA EnterInv == ASSUME Inv, NEW q \in Handled, enter(q) PROVE Inv'
<1>1. stack \in Activations /\ Len(stack) > 0 /\ NoPad(stack) /\ mode = "run" /\ mode' = "run"
  BY DEF Inv, RunInv, enter
<1>2. PICK act \in Seq(Region) : act = stack[Len(stack)]
  BY <1>1, ActFacts
<1>3. PICK x \in Region : x = [seq |-> q, handler |-> 0]
  <2>1. [seq |-> q, handler |-> 0] \in Region
    BY DEF Region
  <2> QED BY <2>1
<1>4. PICK v : v = Append(act, x)
  OBVIOUS
<1>5. /\ v \in Seq(Region) /\ Len(v) = Len(act) + 1 /\ v[Len(act) + 1] = x
      /\ \A r \in 1..Len(act) : v[r] = act[r]
  BY <1>4, AppendProperties
<1>6. stack' = [stack EXCEPT ![Len(stack)] = v]
  BY <1>2, <1>3, <1>4 DEF enter
<1>7. \A r \in 1..Len(v) : v[r].handler # InPad
  <2>1. \A r \in 1..Len(act) : act[r].handler # InPad
    BY <1>1, <1>2, ActFacts DEF NoPad
  <2>2. x.handler # InPad
    BY <1>3 DEF InPad
  <2>3. \A r \in 1..Len(v) : r \in 1..Len(act) \/ r = Len(act) + 1
    BY <1>5
  <2> QED BY <1>5, <2>1, <2>2, <2>3
<1>8. v \in Seq(Region)
  BY <1>5
<1> QED BY <1>1, <1>6, <1>7, <1>8, TopReplaced

\* Leaving a handled sequence preserves the invariant.
LEMMA LeaveInv == ASSUME Inv, leave PROVE Inv'
<1>1. stack \in Activations /\ Len(stack) > 0 /\ NoPad(stack) /\ mode = "run" /\ mode' = "run"
  BY DEF Inv, RunInv, leave
<1>2. PICK act \in Seq(Region) : act = stack[Len(stack)]
  BY <1>1, ActFacts
<1>3. Len(act) > 0
  <2>1. act # <<>>
    BY <1>2 DEF leave, Top
  <2> QED BY <2>1, EmptySeq
<1>4. PICK v : v = Front(act)
  OBVIOUS
<1>5. v \in Seq(Region) /\ Len(v) = Len(act) - 1 /\ \A r \in 1..(Len(act) - 1) : v[r] = act[r]
  BY <1>3, <1>4, FrontFacts
<1>6. stack' = [stack EXCEPT ![Len(stack)] = v]
  BY <1>2, <1>4 DEF leave
<1>7. \A r \in 1..Len(v) : v[r].handler # InPad
  <2>1. \A r \in 1..Len(act) : act[r].handler # InPad
    BY <1>1, <1>2, ActFacts DEF NoPad
  <2>2. \A r \in 1..Len(v) : r \in 1..(Len(act) - 1) /\ r \in 1..Len(act)
    BY <1>5
  <2> QED BY <1>5, <2>1, <2>2
<1>8. v \in Seq(Region)
  BY <1>5
<1> QED BY <1>1, <1>6, <1>7, <1>8, TopReplaced

\* A raise starts the search with nothing passed over.
LEMMA RaiseInv == ASSUME Inv, NEW e \in Exception, _comma_raise(e) PROVE Inv'
<1>1. /\ stack \in Activations /\ Len(stack) > 0 /\ NoPad(stack) /\ OnlyLast(stack)
      /\ stack' = stack /\ mode' = "search" /\ cursor' = Len(stack)
      /\ exception' = [id |-> registerException(e), decl |-> e]
  BY DEF Inv, RunInv, _comma_raise
<1>2. Len(stack) \in Nat
  BY <1>1, ActFacts
<1>3. cursor' \in 0..Len(stack') /\ NoneAbove(stack', cursor')
  BY <1>1, <1>2 DEF NoneAbove
<1>4. FlightInv'
  BY <1>1 DEF FlightInv, Propagating, registerException
<1> QED BY <1>1, <1>3, <1>4 DEF Inv, Modes, RunInv, SearchInv, CleanupInv, PadInv

\* While an exception is in flight its exinfo is a real one.
LEMMA InFlight ==
  ASSUME Inv, Propagating
  PROVE  /\ exception.decl \in Exception /\ exception.id # None
         /\ exception.id = registerException(exception.decl)
BY ExinfoNotNone DEF Inv, FlightInv

\* The activation that the personality accepts is a good target.
LEMMA HandlerFoundInv == ASSUME Inv, HandlerFound PROVE Inv'
<1>1. /\ mode = "search" /\ stack \in Activations /\ OnlyLast(stack)
      /\ cursor \in 0..Len(stack) /\ NoneAbove(stack, cursor) /\ Accepts(cursor)
      /\ stack' = stack /\ exception' = exception /\ mode' = "cleanup"
      /\ target' = cursor /\ cursor' = Len(stack)
  BY DEF Inv, SearchInv, HandlerFound
<1>2. Propagating
  BY <1>1 DEF Propagating
<1>3. exception.id # None
  BY <1>2, InFlight
<1>4. cursor = 0 \/ PadsInForce(stack[cursor]) # {}
  BY <1>1, <1>3, AcceptsFacts
<1>5. CleanupInv'
  <2>1. target' > 0 => PadsInForce(stack[cursor]) # {}
    BY <1>1, <1>4
  <2>2. PadsInForce(stack[target])' = PadsInForce(stack[cursor])
    BY <1>1 DEF PadsInForce
  <2> QED BY <1>1, <2>1, <2>2 DEF CleanupInv, NoneAbove, PadsInForce
<1>6. FlightInv'
  BY <1>1, <1>2 DEF Inv, FlightInv, Propagating, registerException
<1> QED BY <1>1, <1>5, <1>6 DEF Inv, Modes, RunInv, SearchInv, PadInv

\* One that it does not accept has no pad; main is never passed over.
LEMMA ContinueSearchInv == ASSUME Inv, ContinueSearch PROVE Inv'
<1>1. /\ mode = "search" /\ stack \in Activations /\ OnlyLast(stack)
      /\ cursor \in 0..Len(stack) /\ NoneAbove(stack, cursor) /\ ~Accepts(cursor)
      /\ stack' = stack /\ exception' = exception /\ cursor' = cursor - 1
      /\ mode' = IF cursor = 0 THEN "returned" ELSE "search"
  BY DEF Inv, SearchInv, ContinueSearch
<1>2. Propagating
  BY <1>1 DEF Propagating
<1>3. exception.id # None
  BY <1>2, InFlight
<1>4. cursor # 0 /\ PadsInForce(stack[cursor]) = {}
  BY <1>1, <1>3, AcceptsFacts
<1>5. mode' = "search"
  BY <1>1, <1>4
<1>6. cursor' \in 0..Len(stack) /\ NoneAbove(stack, cursor')
  <2>1. Len(stack) \in Nat
    BY <1>1, ActFacts
  <2>2. \A a \in 1..Len(stack) : a > cursor' => a = cursor \/ a > cursor
    BY <1>1, <2>1
  <2>3. NoneAbove(stack, cursor')
    BY <1>1, <1>4, <2>2 DEF NoneAbove
  <2> QED BY <1>1, <1>4, <2>1, <2>3
<1>7. SearchInv'
  BY <1>1, <1>6 DEF SearchInv, NoneAbove, PadsInForce
<1>8. FlightInv'
  BY <1>1, <1>2, <1>5 DEF Inv, FlightInv, Propagating, registerException
<1> QED BY <1>1, <1>5, <1>7, <1>8 DEF Inv, Modes, RunInv, CleanupInv, PadInv

\* Unwinding an activation above the target preserves the invariant.
LEMMA ContinueUnwindInv == ASSUME Inv, ContinueUnwind PROVE Inv'
<1>1. /\ mode = "cleanup" /\ stack \in Activations /\ OnlyLast(stack)
      /\ cursor = Len(stack) /\ target \in 0..Len(stack) /\ NoneAbove(stack, target)
      /\ target > 0 => PadsInForce(stack[target]) # {}
      /\ cursor > target /\ stack' = Front(stack) /\ cursor' = cursor - 1
      /\ mode' = mode /\ exception' = exception /\ target' = target
  BY DEF Inv, CleanupInv, ContinueUnwind
<1>2. Len(stack) \in Nat /\ Len(stack) > 0
  BY <1>1, ActFacts
<1>3. /\ stack' \in Activations /\ Len(stack') = Len(stack) - 1
      /\ \A a \in 1..(Len(stack) - 1) : stack'[a] = stack[a]
  BY <1>1, <1>2, FrontFacts DEF Activations
<1>4. OnlyLast(stack')
  <2>1. \A a \in 1..(Len(stack) - 1) : a \in 1..Len(stack) /\ a # Len(stack)
    BY <1>2
  <2>2. ASSUME NEW a \in 1..(Len(stack) - 1), NEW r \in 1..Len(stack'[a])
        PROVE  stack'[a][r].handler # InPad
    <3>1. a \in 1..Len(stack) /\ a # Len(stack) /\ stack'[a] = stack[a]
      BY <1>3, <2>1
    <3> QED BY <1>1, <3>1 DEF OnlyLast
  <2>3. Len(stack') = Len(stack) - 1
    BY <1>3
  <2> QED BY <2>2, <2>3 DEF OnlyLast
<1>5. NoneAbove(stack', target)
  <2>1. \A a \in 1..(Len(stack) - 1) : a \in 1..Len(stack)
    BY <1>2
  <2> QED BY <1>1, <1>3, <2>1 DEF NoneAbove
<1>6. target > 0 => PadsInForce(stack'[target]) # {}
  <2>1. target > 0 => target \in 1..(Len(stack) - 1)
    BY <1>1, <1>2
  <2> QED BY <1>1, <1>3, <2>1
<1>7. CleanupInv'
  <2>1. cursor' = Len(stack') /\ target' \in 0..Len(stack')
    BY <1>1, <1>2, <1>3
  <2> QED BY <1>1, <1>5, <1>6, <2>1 DEF CleanupInv, NoneAbove, PadsInForce
<1>8. FlightInv'
  BY <1>1 DEF Inv, FlightInv, Propagating, registerException
<1> QED BY <1>1, <1>3, <1>4, <1>7, <1>8 DEF Inv, Modes, RunInv, SearchInv, PadInv

\* install_handler sets the register as the pad expects it.
LEMMA InstallContextInv == ASSUME Inv, InstallContext PROVE Inv'
<1>1. /\ mode = "cleanup" /\ stack \in Activations /\ OnlyLast(stack)
      /\ target = Len(stack) /\ target > 0 /\ PadsInForce(stack[target]) # {}
      /\ mode' = "pad" /\ exception' = exception
      /\ selector' = Actions(target)[match_exception(Actions(target))]
  BY DEF Inv, CleanupInv, InstallContext
<1>2. stack' = NewPad(stack)
  BY <1>1 DEF InstallContext, NewPad
<1>3. PICK n \in Nat : n = Len(stack)
  BY <1>1, ActFacts
<1>4. PICK r : r = landing_pad(stack[n])
  OBVIOUS
<1>5. /\ stack' \in Activations /\ Len(stack') = n /\ Len(stack'[n]) = r /\ OnlyLast(stack')
      /\ r \in 1..Len(stack[n])
      /\ stack'[n][r] = [stack[n][r] EXCEPT !.handler = InPad]
  <2>1. IsNewPad(stack, n, r, stack')
    BY <1>1, <1>2, <1>3, <1>4, NewPadFacts
  <2> QED BY <2>1 DEF IsNewPad
<1>6. n > 0 /\ n \in 1..Len(stack)
  BY <1>1, <1>3
<1>7. stack[n][r] \in Region /\ stack[n][r].seq \in Handled
  BY <1>1, <1>5, <1>6, ActFacts
<1>8. PICK x \in Region : x = stack[n][r]
  BY <1>7
<1>9. x.seq \in Handled /\ [x EXCEPT !.handler = InPad].seq = x.seq
      /\ [x EXCEPT !.handler = InPad].handler = InPad
  BY DEF Region
<1>10. Pad' = [x EXCEPT !.handler = InPad]
  BY <1>5, <1>8 DEF Pad, Top
<1>11. Propagating
  BY <1>1 DEF Propagating
<1>12. exception.id # None
  BY <1>11, InFlight
<1>13. selector' = emitSelector(x.seq)[match_exception(emitSelector(x.seq))]
  BY <1>1, <1>3, <1>4, <1>6, <1>8 DEF Actions
<1>14. /\ Named(x.seq, exception.id) => selector' = exception.id
       /\ ~Named(x.seq, exception.id) => selector' = None
  BY <1>9, <1>12, <1>13, MatchFacts
<1>15. PadInv'
  <2>1. Pad'.seq = x.seq /\ Pad'.handler = InPad
    BY <1>9, <1>10
  <2>2. Named(Pad.seq, exception.id)' <=> Named(x.seq, exception.id)
    BY <1>1, <2>1 DEF Named, registerException
  <2>3. Len(stack') > 0 /\ Len(stack'[Len(stack')]) > 0
    BY <1>5, <1>6
  <2>4. exception' = exception
    BY <1>1
  <2> QED BY <1>14, <2>1, <2>2, <2>3, <2>4 DEF PadInv, None
<1>16. FlightInv'
  BY <1>1, <1>11 DEF Inv, FlightInv, Propagating, registerException
<1> QED BY <1>1, <1>5, <1>15, <1>16 DEF Inv, Modes, RunInv, SearchInv, CleanupInv

\* Entering main's own pad preserves the invariant.
LEMMA UnhandledInv == ASSUME Inv, _comma_unhandled_exception PROVE Inv'
<1>1. /\ mode = "cleanup" /\ mode' = "unhandled" /\ stack' = stack /\ exception' = exception
  BY DEF _comma_unhandled_exception
<1>2. FlightInv'
  BY <1>1 DEF Inv, FlightInv, Propagating, registerException
<1> QED BY <1>1, <1>2 DEF Inv, Modes, RunInv, SearchInv, CleanupInv, PadInv

\* The comparisons choose a handler or none.
LEMMA DispatchRange ==
  ASSUME NEW q \in Handled, NEW sel
  PROVE  Dispatch(q, sel) \in Nat
<1> DEFINE h == handlers[q]
           I == {i \in 1..Len(h) : h[i] = <<>>
                   \/ \E c \in DOMAIN h[i] : registerException(h[i][c]) = sel}
<1>1. Dispatch(q, sel) = IF I # {} THEN Min(I) ELSE 0
  BY Zenon DEF Dispatch, SelectInSeq
<1>2. I \in SUBSET Nat
  BY HandlerFacts
<1> HIDE DEF I
<1>3. I # {} => Min(I) \in I
  BY <1>2, MinOfNaturals
<1>4. I # {} => Min(I) \in Nat
  BY <1>2, <1>3
<1> QED BY <1>1, <1>4

\* The stack with the pad of the last place left for handler d.
Chosen(st, d) == [st EXCEPT ![Len(st)][Len(st[Len(st)])].handler = d]

\* What is known of that stack.
IsChosen(st, n, m, d, t) ==
  /\ t \in Activations /\ Len(t) = n /\ Len(t[n]) = m /\ NoPad(t)
  /\ t[n][m] = [st[n][m] EXCEPT !.handler = d]
  /\ \A a \in 1..(n - 1) : t[a] = st[a]
  /\ \A r \in 1..(m - 1) : t[n][r] = st[n][r]

\* Chosen is such a stack, and no place of it is in a pad any more.
LEMMA ChosenFacts ==
  ASSUME NEW st \in Activations, NEW n \in Nat, n = Len(st), n > 0, Len(st[n]) > 0,
         OnlyLast(st), NEW d \in Nat
  PROVE  IsChosen(st, n, Len(st[n]), d, Chosen(st, d))
<1> DEFINE t == Chosen(st, d)
<1> HIDE DEF t
<1>0. n \in 1..n
  OBVIOUS
<1>1. PICK act \in Seq(Region) : act = st[n]
  BY <1>0, ActFacts
<1>2. PICK m \in Nat : m = Len(act)
  OBVIOUS
<1>3. m \in 1..m /\ m > 0
  BY <1>1, <1>2
<1>4. PICK x \in Region : x = [act[m] EXCEPT !.handler = d]
  <2>1. PICK y \in Region : y = act[m]
    BY <1>2, <1>3
  <2>2. d \in Int
    OBVIOUS
  <2>3. [y EXCEPT !.handler = d] \in Region
    BY <2>2 DEF Region
  <2> QED BY <2>1, <2>3
<1>5. PICK v : v = [act EXCEPT ![m] = x]
  OBVIOUS
<1>6. v \in Seq(Region) /\ Len(v) = m /\ v[m] = x /\ \A r \in 1..(m - 1) : v[r] = act[r]
  BY <1>2, <1>3, <1>5
<1>7. t = [st EXCEPT ![n] = v]
  BY <1>1, <1>2, <1>4, <1>5 DEF Chosen, t
<1>8. v \in Seq(Region)
  BY <1>6
<1>9. PICK u : u = [st EXCEPT ![n] = v]
  OBVIOUS
<1>10. /\ u \in Activations /\ Len(u) = n /\ u[n] = v
       /\ \A a \in 1..(n - 1) : u[a] = st[a]
       /\ \A a \in 1..n : a # n => a \in 1..(n - 1)
  BY <1>0, <1>8, <1>9 DEF Activations
<1>11. x.handler # InPad
  <2>1. x.handler = d
    BY <1>2, <1>3, <1>4 DEF Region
  <2> QED BY <2>1 DEF InPad
<1>12. NoPad(u)
  <2> SUFFICES ASSUME NEW a \in 1..n, NEW r \in 1..Len(u[a]) PROVE u[a][r].handler # InPad
    BY <1>10 DEF NoPad
  <2>1. CASE a = n
    <3>1. r = m \/ (r \in 1..(m - 1) /\ r \in 1..m /\ r # m)
      BY <1>6, <1>10, <2>1
    <3>2. r # m => act[r].handler # InPad
      BY <1>0, <1>1, <1>2, <3>1 DEF OnlyLast
    <3> QED BY <1>6, <1>10, <1>11, <2>1, <3>1, <3>2
  <2>2. CASE a # n
    BY <1>10, <2>2 DEF OnlyLast
  <2> QED BY <2>1, <2>2
<1>13. u = t
  BY <1>7, <1>9
<1>14. IsChosen(st, n, m, d, u)
  <2>1. u[n][m] = [st[n][m] EXCEPT !.handler = d]
    BY <1>1, <1>4, <1>6, <1>10, Zenon
  <2>2. Len(u[n]) = m /\ \A r \in 1..(m - 1) : u[n][r] = st[n][r]
    BY <1>1, <1>6, <1>10
  <2> QED BY <1>10, <1>12, <2>1, <2>2 DEF IsChosen
<1> QED BY <1>1, <1>2, <1>13, <1>14 DEF t

\* Entering a handler preserves the invariant.
LEMMA EnterHandlerInv == ASSUME Inv, EnterHandler PROVE Inv'
<1>1. /\ mode = "pad" /\ stack \in Activations /\ OnlyLast(stack) /\ Len(stack) > 0
      /\ Len(stack[Len(stack)]) > 0 /\ mode' = "run"
      /\ stack' = Chosen(stack, Dispatch(Pad.seq, selector))
  BY DEF Inv, PadInv, EnterHandler, Top, Chosen
<1>2. PICK n \in Nat : n = Len(stack)
  BY <1>1, ActFacts
<1>3. n \in 1..n /\ Len(stack[n]) \in 1..Len(stack[n])
  BY <1>1, <1>2, ActFacts
<1>4. Pad.seq \in Handled
  BY <1>1, <1>2, <1>3, ActFacts DEF Pad, Top
<1>5. PICK d \in Nat : d = Dispatch(Pad.seq, selector)
  BY <1>4, DispatchRange
<1>6. stack' \in Activations /\ Len(stack') = n /\ NoPad(stack')
  <2>1. stack' = Chosen(stack, d) /\ n > 0 /\ Len(stack[n]) > 0
    BY <1>1, <1>2, <1>5
  <2>2. IsChosen(stack, n, Len(stack[n]), d, stack')
    BY <1>1, <1>2, <2>1, ChosenFacts
  <2> QED BY <2>2 DEF IsChosen
<1> QED BY <1>1, <1>2, <1>6 DEF Inv, Modes, RunInv, FlightInv, SearchInv, CleanupInv, PadInv,
                               Propagating, OnlyLast, NoPad

\* Raising the same object again from a pad preserves the invariant.
LEMMA ReraiseInv == ASSUME Inv, _comma_reraise_exception PROVE Inv'
<1>1. /\ mode = "pad" /\ stack \in Activations /\ OnlyLast(stack)
      /\ mode' = "search" /\ cursor' = Len(stack) /\ stack' = stack /\ exception' = exception
  BY DEF Inv, _comma_reraise_exception
<1>2. Len(stack) \in Nat
  BY <1>1, ActFacts
<1>3. cursor' \in 0..Len(stack') /\ NoneAbove(stack', cursor')
  BY <1>1, <1>2 DEF NoneAbove
<1>4. FlightInv'
  BY <1>1 DEF Inv, FlightInv, Propagating, registerException
<1> QED BY <1>1, <1>3, <1>4 DEF Inv, Modes, RunInv, SearchInv, CleanupInv, PadInv

\* The invariant is inductive.
LEMMA InvStep == Inv /\ [Next]_vars => Inv'
<1> SUFFICES ASSUME Inv, [Next]_vars PROVE Inv'
  OBVIOUS
<1>1. CASE UNCHANGED vars
  <2>1. /\ stack' = stack /\ mode' = mode /\ exception' = exception /\ cursor' = cursor
        /\ target' = target /\ selector' = selector
    BY <1>1 DEF vars
  <2>2. PadInv'
    <3>1. Pad' = Pad
      BY <2>1 DEF Pad, Top
    <3>2. Named(Pad.seq, exception.id)' <=> Named(Pad.seq, exception.id)
      BY <2>1, <3>1 DEF Named, registerException
    <3> QED BY <2>1, <3>1, <3>2 DEF Inv, PadInv, None
  <2>3. RunInv' /\ FlightInv' /\ SearchInv' /\ CleanupInv'
    BY <2>1 DEF Inv, RunInv, FlightInv, SearchInv, CleanupInv, Propagating, NoPad, NoneAbove,
                PadsInForce, registerException
  <2> QED BY <2>1, <2>2, <2>3 DEF Inv, Modes, OnlyLast
<1>2. CASE Next
  BY <1>2, CallInv, ReturnInv, EnterInv, LeaveInv, RaiseInv, HandlerFoundInv,
     ContinueSearchInv, ContinueUnwindInv, InstallContextInv, UnhandledInv, EnterHandlerInv,
     ReraiseInv, Zenon DEF Next, Runtime
<1> QED BY <1>1, <1>2
-----------------------------------------------------------------------------
(* The refinement *)

\* Compiled code: the program sees the stack as it is.
LEMMA SeenRunning ==
  mode = "run" => SeenCalls = stack /\ SeenOutcome = "running"
BY DEF SeenCalls, SeenOutcome, Propagating

\* In flight: it sees where the exception will be handled.
LEMMA SeenInFlight ==
  Propagating =>
    /\ SeenCalls = AfterRaise(Decide(stack, mode), exception.decl)
    /\ SeenOutcome = IF Catching(Decide(stack, mode), exception.decl) = {}
                     THEN "unhandled" ELSE "running"
<1> SUFFICES ASSUME Propagating
             PROVE  /\ SeenCalls = AfterRaise(Decide(stack, mode), exception.decl)
                    /\ SeenOutcome = IF Catching(Decide(stack, mode), exception.decl) = {}
                                     THEN "unhandled" ELSE "running"
  OBVIOUS
<1>1. Undecided = Decide(stack, mode)
  BY DEF Undecided, Decide
<1>2. mode # "run"
  BY DEF Propagating
<1> QED BY <1>1, <1>2 DEF SeenCalls, SeenOutcome

\* Same-looking stacks are the same to the program.
LEMMA LooksSame ==
  ASSUME Inv, Inv', Propagating, Propagating', exception'.decl = exception.decl,
         Agree(Decide(stack, mode), Decide(stack', mode'), exception.decl)
  PROVE  SeenCalls' = SeenCalls /\ SeenOutcome' = SeenOutcome
<1> DEFINE e == exception.decl
<1>1. PICK X : X = Decide(stack, mode)
  OBVIOUS
<1>2. PICK Y : Y = Decide(stack', mode')
  OBVIOUS
<1>3. X \in Activations /\ Y \in Activations
  BY <1>1, <1>2, DecideFacts DEF Inv
<1>4. AfterRaise(X, e) = AfterRaise(Y, e) /\ (Catching(X, e) = {} <=> Catching(Y, e) = {})
  BY <1>1, <1>2, <1>3, AgreeSame
<1>5. SeenCalls = AfterRaise(X, e)
      /\ SeenOutcome = IF Catching(X, e) = {} THEN "unhandled" ELSE "running"
  BY <1>1, SeenInFlight
<1>6. SeenCalls' = AfterRaise(Y, e)
      /\ SeenOutcome' = IF Catching(Y, e) = {} THEN "unhandled" ELSE "running"
  <2>1. /\ SeenCalls' = AfterRaise(Decide(stack', mode'), exception'.decl)
        /\ SeenOutcome' = IF Catching(Decide(stack', mode'), exception'.decl) = {}
                          THEN "unhandled" ELSE "running"
    <3>1. Undecided' = Decide(stack', mode')
      BY DEF Undecided, Decide
    <3>2. mode' # "run"
      BY DEF Propagating
    <3> QED BY <3>1, <3>2 DEF SeenCalls, SeenOutcome
  <2> QED BY <1>2, <2>1
<1> QED BY <1>4, <1>5, <1>6

\* The operators of the abstract specification are those of the detailed one.
LEMMA SameMeaning ==
  /\ \A s : Semantics!Front(s) = Front(s) /\ Semantics!Last(s) = Last(s)
  /\ \A X, e : Semantics!Catching(X, e) = Catching(X, e)
  /\ \A X, e : Semantics!AfterRaise(X, e) = AfterRaise(X, e)
<1>1. \A s : Semantics!Front(s) = Front(s) /\ Semantics!Last(s) = Last(s)
  BY DEF Semantics!Front, Front, Semantics!Last, Last
<1>2. \A X, e : Semantics!Catching(X, e) = Catching(X, e)
  BY Zenon DEF Semantics!Catching, Catching, Semantics!Handles, Handles, Semantics!Covers, Covers,
         Semantics!Contains, Contains
<1>3. \A X, e : Semantics!AfterRaise(X, e) = AfterRaise(X, e)
  <2>1. \A q, e : Semantics!FirstHandler(q, e) = FirstHandler(q, e)
    BY Zenon DEF Semantics!FirstHandler, FirstHandler, Semantics!SelectInSeq, SelectInSeq,
       Semantics!Contains, Contains, Semantics!Min, Min
  <2>2. \A P : Semantics!Innermost(P) = Innermost(P)
    BY Zenon DEF Semantics!Innermost, Innermost, Semantics!Inside, Inside
  <2>3. \A X, p, h : Semantics!CaughtBy(X, p, h) = CaughtBy(X, p, h)
    BY Zenon DEF Semantics!CaughtBy, CaughtBy
  <2>4. ASSUME NEW X, NEW e PROVE Semantics!AfterRaise(X, e) = AfterRaise(X, e)
    BY <1>2, <2>1, <2>2, <2>3 DEF Semantics!AfterRaise, AfterRaise
  <2> QED BY <2>4
<1> QED BY <1>1, <1>2, <1>3

\* A step of the abstract specification, or none that the program sees.
SeenStep == Semantics!Next \/ UNCHANGED <<SeenCalls, SeenOutcome>>

\* A call is a call.
LEMMA CallSeen == ASSUME Inv, call PROVE SeenStep
<1>1. mode = "run" /\ mode' = "run" /\ Len(stack) < MaxActivations /\ stack' = Append(stack, <<>>)
  BY DEF call
<1>2. SeenCalls = stack /\ SeenOutcome = "running"
  BY <1>1, SeenRunning
<1>3. SeenCalls' = stack' /\ SeenOutcome' = "running"
  BY <1>1 DEF SeenCalls, SeenOutcome, Propagating
<1>4. Semantics!call
  BY <1>1, <1>2, <1>3 DEF Semantics!call, Semantics!Running
<1> QED BY <1>4 DEF SeenStep, Semantics!Next

\* A return is a return.
LEMMA ReturnSeen == ASSUME Inv, return PROVE SeenStep
<1>1. mode = "run" /\ stack' = Front(stack)
      /\ mode' = IF Len(stack) = 1 THEN "finished" ELSE "run"
  BY DEF return
<1>2. SeenCalls = stack /\ SeenOutcome = "running"
  BY <1>1, SeenRunning
<1>3. SeenCalls' = stack' /\ SeenOutcome' = IF Len(stack) = 1 THEN "finished" ELSE "running"
  BY <1>1 DEF SeenCalls, SeenOutcome, Propagating
<1>4. Semantics!return
  BY <1>1, <1>2, <1>3, SameMeaning DEF Semantics!return, Semantics!Running
<1> QED BY <1>4 DEF SeenStep, Semantics!Next

\* Entering a handled sequence is that.
LEMMA EnterSeen == ASSUME Inv, NEW q \in Handled, enter(q) PROVE SeenStep
<1>1. /\ mode = "run" /\ mode' = "run" /\ Len(stack[Len(stack)]) < MaxRegions
      /\ stack' = [stack EXCEPT ![Len(stack)] =
                     Append(stack[Len(stack)], [seq |-> q, handler |-> 0])]
  BY DEF enter, Top
<1>2. SeenCalls = stack /\ SeenOutcome = "running"
  BY <1>1, SeenRunning
<1>3. SeenCalls' = stack' /\ SeenOutcome' = "running"
  BY <1>1 DEF SeenCalls, SeenOutcome, Propagating
<1>4. Semantics!Current = stack[Len(stack)]
  BY <1>2 DEF Semantics!Current, Semantics!Last
<1>5. Semantics!enter(q)
  BY <1>1, <1>2, <1>3, <1>4, Zenon DEF Semantics!enter, Semantics!Running, Semantics!InCurrent
<1> QED BY <1>5 DEF SeenStep, Semantics!Next

\* And leaving one.
LEMMA LeaveSeen == ASSUME Inv, leave PROVE SeenStep
<1>1. /\ mode = "run" /\ mode' = "run" /\ stack[Len(stack)] # <<>>
      /\ stack' = [stack EXCEPT ![Len(stack)] = Front(stack[Len(stack)])]
  BY DEF leave, Top
<1>2. SeenCalls = stack /\ SeenOutcome = "running"
  BY <1>1, SeenRunning
<1>3. SeenCalls' = stack' /\ SeenOutcome' = "running"
  BY <1>1 DEF SeenCalls, SeenOutcome, Propagating
<1>4. Semantics!Current = stack[Len(stack)]
  BY <1>2 DEF Semantics!Current, Semantics!Last
<1>5. Semantics!leave
  <2>1. Semantics!Front(Semantics!Current) = Front(stack[Len(stack)])
    BY <1>4, SameMeaning
  <2> QED BY <1>1, <1>2, <1>3, <1>4, <2>1, Zenon
          DEF Semantics!leave, Semantics!Running, Semantics!InCurrent
<1> QED BY <1>5 DEF SeenStep, Semantics!Next

\* A call of the raise routine is the whole transfer of control.
LEMMA RaiseSeen == ASSUME Inv, NEW e \in Exception, _comma_raise(e) PROVE SeenStep
<1>1. /\ mode = "run" /\ mode' = "search" /\ stack' = stack /\ exception'.decl = e
      /\ stack \in Activations
  BY DEF _comma_raise, Inv
<1>2. SeenCalls = stack /\ SeenOutcome = "running"
  BY <1>1, SeenRunning
<1>3. Undecided' = stack
  <2>1. Undecided' = Decide(stack', mode')
    BY DEF Undecided, Decide
  <2> QED BY <1>1, <2>1, DecideSame
<1>4. /\ SeenCalls' = AfterRaise(stack, e)
      /\ SeenOutcome' = IF Catching(stack, e) = {} THEN "unhandled" ELSE "running"
  <2>1. mode' # "run" /\ Propagating'
    BY <1>1 DEF Propagating
  <2> QED BY <1>1, <1>3, <2>1 DEF SeenCalls, SeenOutcome
<1>5. Semantics!raise(e)
  BY <1>2, <1>4, SameMeaning DEF Semantics!raise, Semantics!Running
<1> QED BY <1>5 DEF SeenStep, Semantics!Next

\* What the unwinder does without touching the stack is not seen.
LEMMA SameStackSeen ==
  ASSUME Inv, mode # "pad", mode' # "pad", Propagating, Propagating', stack' = stack,
         exception' = exception
  PROVE  SeenStep
<1>1. Undecided' = Undecided
  <2>1. Undecided' = Decide(stack', mode') /\ Undecided = Decide(stack, mode)
    BY DEF Undecided, Decide
  <2> QED BY <2>1, DecideSame DEF Inv
<1>2. mode # "run" /\ mode' # "run"
  BY DEF Propagating
<1> QED BY <1>1, <1>2 DEF SeenStep, SeenCalls, SeenOutcome

\* An activation unwound above the target could not catch the exception.
LEMMA UnwindSeen == ASSUME Inv, Inv', ContinueUnwind PROVE SeenStep
<1>1. /\ mode = "cleanup" /\ mode' = "cleanup" /\ stack \in Activations
      /\ cursor = Len(stack) /\ target \in 0..Len(stack) /\ NoneAbove(stack, target)
      /\ cursor > target /\ stack' = Front(stack) /\ exception' = exception
  BY DEF Inv, CleanupInv, ContinueUnwind
<1>2. Propagating /\ Propagating'
  BY <1>1 DEF Propagating
<1>3. PICK e : e = exception.decl
  OBVIOUS
<1>4. PICK n \in Nat : n = Len(stack)
  BY <1>1, ActFacts
<1>5. n > 0 /\ n > target /\ n \in 1..n
  BY <1>1, <1>4
<1>6. /\ stack' \in Activations /\ Len(stack') = n - 1
      /\ \A a \in 1..(n - 1) : stack'[a] = stack[a]
  BY <1>1, <1>4, <1>5, FrontFacts DEF Activations
<1>7. Decide(stack, mode) = stack /\ Decide(stack', mode') = stack'
  BY <1>1, <1>6, DecideSame
<1>8. \A r : ~CatchesAt(stack, n, r, e)
  <2>1. PadsInForce(stack[n]) = {} /\ stack[n] \in Seq(Region)
    BY <1>1, <1>4, <1>5, ActFacts DEF NoneAbove
  <2> QED BY <2>1, LandingFacts DEF CatchesAt
<1>9. Agree(stack, stack', e)
  <2>1. ASSUME NEW a, NEW r, CatchesAt(stack', a, r, e) PROVE CatchesAt(stack, a, r, e)
    <3>1. a \in 1..(n - 1) /\ a \in 1..n
      BY <1>6, <2>1 DEF CatchesAt
    <3> QED BY <1>4, <1>6, <2>1, <3>1 DEF CatchesAt
  <2>2. ASSUME NEW a, NEW r, CatchesAt(stack, a, r, e)
        PROVE  /\ CatchesAt(stack', a, r, e)
               /\ \A b \in 1..(a - 1) : stack[b] = stack'[b]
               /\ \A s \in 1..r : stack[a][s] = stack'[a][s]
    <3>1. a \in 1..n /\ a # n
      BY <1>4, <1>8, <2>2 DEF CatchesAt
    <3>2. a \in 1..(n - 1) /\ \A b \in 1..(a - 1) : b \in 1..(n - 1)
      BY <3>1
    <3> QED BY <1>6, <2>2, <3>2 DEF CatchesAt
  <2> QED BY <2>1, <2>2 DEF Agree
<1>10. Agree(Decide(stack, mode), Decide(stack', mode'), exception.decl)
  BY <1>3, <1>7, <1>9
<1> QED BY <1>1, <1>2, <1>10, LooksSame DEF SeenStep

\* What install_handler cuts off could not catch the exception, and the pad
\* entered may still do so.
LEMMA InstallSeen == ASSUME Inv, Inv', InstallContext PROVE SeenStep
<1>1. /\ mode = "cleanup" /\ mode' = "pad" /\ stack \in Activations /\ OnlyLast(stack)
      /\ target = Len(stack) /\ target > 0 /\ PadsInForce(stack[target]) # {}
      /\ exception' = exception
  BY DEF Inv, CleanupInv, InstallContext
<1>2. stack' = NewPad(stack)
  BY <1>1 DEF InstallContext, NewPad
<1>3. Propagating /\ Propagating'
  BY <1>1 DEF Propagating
<1>4. PICK e : e = exception.decl
  OBVIOUS
<1>5. PICK n \in Nat : n = Len(stack)
  BY <1>1, ActFacts
<1>6. PICK r : r = landing_pad(stack[n])
  OBVIOUS
<1>7. /\ stack' \in Activations /\ Len(stack') = n /\ Len(stack'[n]) = r
      /\ r \in 1..Len(stack[n]) /\ stack[n][r].handler = 0
      /\ \A s \in 1..Len(stack[n]) : stack[n][s].handler = 0 => s =< r
      /\ stack'[n][r] = [stack[n][r] EXCEPT !.handler = InPad]
      /\ \A a \in 1..(n - 1) : stack'[a] = stack[a]
      /\ \A s \in 1..(r - 1) : stack'[n][s] = stack[n][s] /\ stack'[n][s].handler # InPad
  <2>1. IsNewPad(stack, n, r, stack')
    BY <1>1, <1>2, <1>5, <1>6, NewPadFacts
  <2> QED BY <2>1 DEF IsNewPad
<1>8. OnlyLast(stack') /\ n \in 1..n /\ n > 0 /\ \A a \in 1..n : a # n => a \in 1..(n - 1)
  BY <1>1, <1>5 DEF Inv
<1>9. PICK X \in Activations : X = stack
  BY <1>1
<1>10. PICK Y \in Activations : Y = Decide(stack', mode')
  BY <1>7, DecideFacts
<1>11. /\ Len(Y) = n /\ Len(Y[n]) = r
       /\ \A s \in 1..r :
            Y[n][s] = IF stack'[n][s].handler = InPad /\ mode' = "pad"
                      THEN [stack'[n][s] EXCEPT !.handler = 0] ELSE stack'[n][s]
  <2>1. PICK t \in Activations : t = stack'
    BY <1>7
  <2>2. n \in 1..Len(t) /\ Len(t) = n /\ Len(t[n]) = r /\ Y = Decide(t, mode')
    BY <1>7, <1>8, <1>10, <2>1
  <2>3. Len(Y) = n /\ Len(Y[n]) = r
    BY <2>2, DecideFacts
  <2>4. ASSUME NEW s \in 1..r
        PROVE  Y[n][s] = IF t[n][s].handler = InPad /\ mode' = "pad"
                         THEN [t[n][s] EXCEPT !.handler = 0] ELSE t[n][s]
    BY <2>2, <2>4, DecideFacts
  <2> QED BY <2>1, <2>3, <2>4
<1>12. \A a \in 1..(n - 1) : Y[a] = X[a]
  <2> SUFFICES ASSUME NEW a \in 1..(n - 1) PROVE Y[a] = X[a]
    OBVIOUS
  <2>1. a \in 1..n /\ a # n
    OBVIOUS
  <2>2. \A s \in 1..Len(stack'[a]) : stack'[a][s].handler # InPad
    BY <1>7, <2>1 DEF OnlyLast, Inv
  <2>3. Decide(stack', mode')[a] = stack'[a]
    BY <1>7, <2>1, <2>2, DecideSame
  <2> QED BY <1>7, <1>9, <1>10, <2>3
<1>13. r \in Nat /\ r \in 1..r /\ \A s \in 1..r : s # r => s \in 1..(r - 1)
  BY <1>7
<1>14. \A s \in 1..r : Y[n][s] = X[n][s]
  <2> SUFFICES ASSUME NEW s \in 1..r PROVE Y[n][s] = X[n][s]
    OBVIOUS
  <2>1. Y[n][s] = IF stack'[n][s].handler = InPad /\ mode' = "pad"
                  THEN [stack'[n][s] EXCEPT !.handler = 0] ELSE stack'[n][s]
    BY <1>11
  <2>2. CASE s # r
    <3>1. stack'[n][s] = stack[n][s] /\ stack'[n][s].handler # InPad
      BY <1>7, <1>13, <2>2
    <3> QED BY <1>9, <2>1, <3>1
  <2>3. CASE s = r
    <3>1. PICK x \in Region : x = stack[n][r]
      BY <1>1, <1>5, <1>7, <1>8, ActFacts
    <3>2. x.handler = 0
      BY <1>7, <3>1
    <3>3. PICK y : y = [x EXCEPT !.handler = InPad]
      OBVIOUS
    <3>4. y.handler = InPad /\ [y EXCEPT !.handler = 0] = x
      BY <3>2, <3>3 DEF Region
    <3>5. stack'[n][s] = y
      BY <1>7, <2>3, <3>1, <3>3
    <3> QED BY <1>1, <1>9, <2>1, <2>3, <3>1, <3>4, <3>5
  <2> QED BY <2>2, <2>3
<1>15. Len(X) = n /\ r \in 1..Len(X[n]) /\ \A s \in 1..Len(X[n]) : X[n][s].handler = 0 => s =< r
  BY <1>5, <1>7, <1>9
<1>16. Agree(X, Y, e)
  <2>1. ASSUME NEW a, NEW s, CatchesAt(Y, a, s, e) PROVE CatchesAt(X, a, s, e)
    <3>1. CASE a = n
      <4>1. s \in 1..r
        BY <1>11, <2>1, <3>1 DEF CatchesAt
      <4>2. s \in 1..Len(X[n])
        <5>1. Len(X[n]) \in Nat
          BY <1>8, <1>15, ActFacts
        <5> QED BY <1>15, <4>1, <5>1
      <4> QED BY <1>8, <1>14, <1>15, <2>1, <3>1, <4>1, <4>2 DEF CatchesAt
    <3>2. CASE a # n
      <4>1. a \in 1..(n - 1) /\ a \in 1..n
        BY <1>8, <1>11, <2>1, <3>2 DEF CatchesAt
      <4> QED BY <1>12, <1>15, <2>1, <4>1 DEF CatchesAt
    <3> QED BY <3>1, <3>2
  <2>2. ASSUME NEW a, NEW s, CatchesAt(X, a, s, e)
        PROVE  /\ CatchesAt(Y, a, s, e)
               /\ \A b \in 1..(a - 1) : X[b] = Y[b]
               /\ \A i \in 1..s : X[a][i] = Y[a][i]
    <3>1. a \in 1..n /\ \A b \in 1..(a - 1) : b \in 1..(n - 1)
      BY <1>15, <2>2 DEF CatchesAt
    <3>2. CASE a = n
      <4>1. s \in 1..r /\ \A i \in 1..s : i \in 1..r
        <5>1. s \in 1..Len(X[n]) /\ s =< r
          BY <1>15, <2>2, <3>2 DEF CatchesAt
        <5> QED BY <1>13, <5>1
      <4>2. CatchesAt(Y, a, s, e)
        BY <1>8, <1>11, <1>14, <2>2, <3>2, <4>1 DEF CatchesAt
      <4> QED BY <1>12, <1>14, <3>1, <3>2, <4>1, <4>2
    <3>3. CASE a # n
      <4>1. a \in 1..(n - 1)
        BY <1>8, <3>1, <3>3
      <4>2. CatchesAt(Y, a, s, e)
        BY <1>11, <1>12, <2>2, <3>1, <4>1 DEF CatchesAt
      <4> QED BY <1>12, <3>1, <4>1, <4>2
    <3> QED BY <3>2, <3>3
  <2> QED BY <2>1, <2>2 DEF Agree
<1>17. Decide(stack, mode) = X
  BY <1>1, <1>9, DecideSame
<1>18. Agree(Decide(stack, mode), Decide(stack', mode'), exception.decl)
  BY <1>4, <1>10, <1>16, <1>17
<1> QED BY <1>1, <1>3, <1>18, LooksSame DEF SeenStep

\* The place of the pad under way, and what its comparisons choose.
LEMMA PadFacts ==
  ASSUME Faithful, Inv, mode = "pad"
  PROVE  \E n, m \in Nat :
           /\ n = Len(stack) /\ n > 0 /\ m = Len(stack[n]) /\ m > 0
           /\ Pad = stack[n][m] /\ Pad \in Region /\ Pad.handler = InPad
           /\ Dispatch(Pad.seq, selector) \in Nat
           /\ Dispatch(Pad.seq, selector) = FirstHandler(Pad.seq, exception.decl)
           /\ Dispatch(Pad.seq, selector) # 0 <=> Handles(Pad.seq, exception.decl)
<1>1. /\ stack \in Activations /\ Len(stack) > 0 /\ Len(stack[Len(stack)]) > 0
      /\ Pad.handler = InPad
      /\ Named(Pad.seq, exception.id) => selector = exception.id
      /\ ~Named(Pad.seq, exception.id) => selector = None
  BY DEF Inv, PadInv
<1>2. PICK n \in Nat : n = Len(stack)
  BY <1>1, ActFacts
<1>3. n > 0 /\ n \in 1..Len(stack)
  BY <1>1, <1>2
<1>4. PICK m \in Nat : m = Len(stack[n])
  BY <1>1, <1>3, ActFacts
<1>5. m > 0 /\ m \in 1..Len(stack[n])
  BY <1>1, <1>2, <1>4
<1>6. Pad = stack[n][m] /\ Pad \in Region /\ Pad.seq \in Handled
  BY <1>1, <1>2, <1>3, <1>4, <1>5, ActFacts DEF Pad, Top
<1>7. Propagating
  BY DEF Propagating
<1>8. exception.decl \in Exception /\ exception.id = registerException(exception.decl)
  BY <1>7, InFlight
<1>9. /\ Dispatch(Pad.seq, selector) = FirstHandler(Pad.seq, exception.decl)
      /\ Dispatch(Pad.seq, selector) # 0 <=> Handles(Pad.seq, exception.decl)
  <2>1. PICK q \in Handled : q = Pad.seq
    BY <1>6
  <2>2. PICK e \in Exception : e = exception.decl
    BY <1>8
  <2>3. /\ Named(q, registerException(e)) => selector = registerException(e)
        /\ ~Named(q, registerException(e)) => selector = None
    BY <1>1, <1>8, <2>1, <2>2
  <2> QED BY <2>1, <2>2, <2>3, DispatchFacts
<1>10. Dispatch(Pad.seq, selector) \in Nat
  BY <1>6, DispatchRange
<1> QED BY <1>1, <1>2, <1>3, <1>4, <1>5, <1>6, <1>9, <1>10

\* The stack as the pad under way sees it, its own place still open.
LEMMA OpenFacts ==
  ASSUME NEW st \in Activations, NEW n \in Nat, NEW m \in Nat, n = Len(st), n > 0,
         m = Len(st[n]), m > 0, OnlyLast(st), st[n][m].handler = InPad, NEW X, X = Decide(st, "pad")
  PROVE  /\ X \in Activations /\ Len(X) = n /\ Len(X[n]) = m
         /\ X[n][m] = [st[n][m] EXCEPT !.handler = 0]
         /\ \A a \in 1..(n - 1) : X[a] = st[a]
         /\ \A r \in 1..(m - 1) : X[n][r] = st[n][r]
<1>1. n \in 1..Len(st) /\ m \in 1..Len(st[n])
  OBVIOUS
<1>2. /\ X \in Activations /\ Len(X) = n /\ Len(X[n]) = m
      /\ X[n][m] = [st[n][m] EXCEPT !.handler = 0]
  BY <1>1, DecideFacts
<1>3. \A a \in 1..(n - 1) : X[a] = st[a]
  <2> SUFFICES ASSUME NEW a \in 1..(n - 1) PROVE X[a] = st[a]
    OBVIOUS
  <2>1. a \in 1..Len(st) /\ a # n
    OBVIOUS
  <2>2. \A r \in 1..Len(st[a]) : st[a][r].handler # InPad
    BY <2>1 DEF OnlyLast
  <2> QED BY <2>1, <2>2, DecideSame
<1>4. \A r \in 1..(m - 1) : X[n][r] = st[n][r]
  <2> SUFFICES ASSUME NEW r \in 1..(m - 1) PROVE X[n][r] = st[n][r]
    OBVIOUS
  <2>1. r \in 1..Len(st[n]) /\ r # m
    OBVIOUS
  <2>2. st[n][r].handler # InPad
    BY <1>1, <2>1 DEF OnlyLast
  <2>3. X[n][r] = IF st[n][r].handler = InPad /\ "pad" = "pad"
                  THEN [st[n][r] EXCEPT !.handler = 0] ELSE st[n][r]
    BY <1>1, <2>1, DecideFacts
  <2> QED BY <2>2, <2>3
<1> QED BY <1>2, <1>3, <1>4

\* A pad raises again only an exception its sequence does not handle.
LEMMA ReraiseSeen ==
  ASSUME Faithful, Inv, Inv', _comma_reraise_exception PROVE SeenStep
<1>1. /\ mode = "pad" /\ mode' = "search" /\ stack \in Activations /\ OnlyLast(stack)
      /\ stack' = stack /\ exception' = exception /\ Dispatch(Pad.seq, selector) = 0
  BY DEF Inv, _comma_reraise_exception
<1>2. Propagating /\ Propagating'
  BY <1>1 DEF Propagating
<1>3. PICK e : e = exception.decl
  OBVIOUS
<1>4. PICK n \in Nat, m \in Nat :
        /\ n = Len(stack) /\ n > 0 /\ m = Len(stack[n]) /\ m > 0
        /\ Pad = stack[n][m] /\ Pad \in Region /\ Pad.handler = InPad
        /\ Dispatch(Pad.seq, selector) # 0 <=> Handles(Pad.seq, exception.decl)
  BY <1>1, PadFacts
<1>5. PICK Y \in Activations : Y = stack
  BY <1>1
<1>6. PICK X : X = Decide(Y, "pad")
  OBVIOUS
<1>7. PICK y \in Region : y = Y[n][m]
  BY <1>4, <1>5
<1>8. /\ n = Len(Y) /\ n > 0 /\ m = Len(Y[n]) /\ m > 0 /\ OnlyLast(Y)
      /\ Y[n][m].handler = InPad /\ ~Handles(y.seq, e)
  BY <1>1, <1>3, <1>4, <1>5, <1>7
<1>9. /\ X \in Activations /\ Len(X) = n /\ Len(X[n]) = m
      /\ X[n][m] = [y EXCEPT !.handler = 0]
      /\ \A a \in 1..(n - 1) : X[a] = Y[a]
      /\ \A r \in 1..(m - 1) : X[n][r] = Y[n][r]
  BY <1>6, <1>7, <1>8, OpenFacts
<1>10. X[n][m].seq = y.seq
  BY <1>9 DEF Region
<1>11. InPad # 0
  BY DEF InPad
<1>12. Agree(X, Y, e)
  <2>1. ASSUME NEW a, NEW r, CatchesAt(Y, a, r, e) PROVE CatchesAt(X, a, r, e)
    <3>1. a \in 1..n /\ ~(a = n /\ r = m)
      BY <1>8, <1>11, <2>1 DEF CatchesAt
    <3>2. CASE a = n
      <4>1. r \in 1..(m - 1) /\ r \in 1..m
        BY <1>8, <2>1, <3>1, <3>2 DEF CatchesAt
      <4> QED BY <1>9, <2>1, <3>1, <3>2, <4>1 DEF CatchesAt
    <3>3. CASE a # n
      <4>1. a \in 1..(n - 1)
        BY <3>1, <3>3
      <4> QED BY <1>9, <2>1, <3>1, <4>1 DEF CatchesAt
    <3> QED BY <3>2, <3>3
  <2>2. ASSUME NEW a, NEW r, CatchesAt(X, a, r, e)
        PROVE  /\ CatchesAt(Y, a, r, e)
               /\ \A b \in 1..(a - 1) : X[b] = Y[b]
               /\ \A s \in 1..r : X[a][s] = Y[a][s]
    <3>1. a \in 1..n /\ ~(a = n /\ r = m) /\ \A b \in 1..(a - 1) : b \in 1..(n - 1)
      <4>1. a \in 1..n
        BY <1>9, <2>2 DEF CatchesAt
      <4>2. ~(a = n /\ r = m)
        BY <1>8, <1>10, <2>2 DEF CatchesAt
      <4> QED BY <4>1, <4>2
    <3>2. CASE a = n
      <4>1. r \in 1..(m - 1) /\ r \in 1..m /\ \A s \in 1..r : s \in 1..(m - 1)
        BY <1>9, <2>2, <3>1, <3>2 DEF CatchesAt
      <4>2. CatchesAt(Y, a, r, e)
        BY <1>8, <1>9, <2>2, <3>1, <3>2, <4>1 DEF CatchesAt
      <4> QED BY <1>9, <3>1, <3>2, <4>1, <4>2
    <3>3. CASE a # n
      <4>1. a \in 1..(n - 1)
        BY <3>1, <3>3
      <4>2. CatchesAt(Y, a, r, e)
        BY <1>8, <1>9, <2>2, <3>1, <4>1 DEF CatchesAt
      <4> QED BY <1>9, <3>1, <4>1, <4>2
    <3> QED BY <3>2, <3>3
  <2> QED BY <2>1, <2>2 DEF Agree
<1>13. Decide(stack', mode') = Y
  BY <1>1, <1>5, DecideSame
<1>14. Agree(Decide(stack, mode), Decide(stack', mode'), exception.decl)
  BY <1>1, <1>3, <1>5, <1>6, <1>12, <1>13
<1> QED BY <1>1, <1>2, <1>14, LooksSame DEF SeenStep

\* The handler entered is the one the language prescribes.
LEMMA EnterHandlerSeen == ASSUME Faithful, Inv, EnterHandler PROVE SeenStep
<1>1. /\ mode = "pad" /\ mode' = "run" /\ stack \in Activations /\ OnlyLast(stack)
      /\ Dispatch(Pad.seq, selector) # 0
      /\ stack' = Chosen(stack, Dispatch(Pad.seq, selector))
  BY DEF Inv, EnterHandler, Chosen, Top
<1>2. Propagating
  BY <1>1 DEF Propagating
<1>3. PICK e : e = exception.decl
  OBVIOUS
<1>4. PICK n \in Nat, m \in Nat :
        /\ n = Len(stack) /\ n > 0 /\ m = Len(stack[n]) /\ m > 0
        /\ Pad = stack[n][m] /\ Pad \in Region /\ Pad.handler = InPad
        /\ Dispatch(Pad.seq, selector) \in Nat
        /\ Dispatch(Pad.seq, selector) = FirstHandler(Pad.seq, exception.decl)
        /\ Dispatch(Pad.seq, selector) # 0 <=> Handles(Pad.seq, exception.decl)
  BY <1>1, PadFacts
<1>5. PICK st \in Activations : st = stack
  BY <1>1
<1>6. PICK y \in Region : y = st[n][m]
  BY <1>4, <1>5
<1>7. PICK d \in Nat : d = FirstHandler(y.seq, e)
  BY <1>3, <1>4, <1>5, <1>6
<1>8. /\ n = Len(st) /\ n > 0 /\ m = Len(st[n]) /\ m > 0 /\ OnlyLast(st)
      /\ st[n][m].handler = InPad /\ Handles(y.seq, e) /\ stack' = Chosen(st, d)
  BY <1>1, <1>3, <1>4, <1>5, <1>6, <1>7
<1>9. PICK X : X = Decide(st, "pad")
  OBVIOUS
<1>10. /\ X \in Activations /\ Len(X) = n /\ Len(X[n]) = m
       /\ X[n][m] = [y EXCEPT !.handler = 0]
       /\ \A a \in 1..(n - 1) : X[a] = st[a]
       /\ \A r \in 1..(m - 1) : X[n][r] = st[n][r]
  BY <1>6, <1>8, <1>9, OpenFacts
<1>11. X[n][m].seq = y.seq /\ X[n][m].handler = 0
       /\ [X[n][m] EXCEPT !.handler = d] = [y EXCEPT !.handler = d]
  <2>1. PICK z : z = [y EXCEPT !.handler = 0]
    OBVIOUS
  <2>2. z.seq = y.seq /\ z.handler = 0 /\ [z EXCEPT !.handler = d] = [y EXCEPT !.handler = d]
    BY <2>1 DEF Region
  <2>3. X[n][m] = z
    BY <1>10, <2>1
  <2> QED BY <2>2, <2>3
<1>12. n \in 1..n /\ m \in 1..m
  BY <1>8
<1>13. CatchesAt(X, n, m, e)
  <2>1. n \in 1..Len(X) /\ m \in 1..Len(X[n])
    BY <1>10, <1>12
  <2>2. X[n][m].handler = 0 /\ Handles(X[n][m].seq, e)
    BY <1>8, <1>11
  <2> QED BY <2>1, <2>2 DEF CatchesAt
<1>14. Catching(X, e) # {}
  BY <1>10, <1>13, CatchingFacts
<1>15. Innermost(Catching(X, e)) = <<n, m>>
  <2>1. PICK a, r : /\ Innermost(Catching(X, e)) = <<a, r>> /\ CatchesAt(X, a, r, e)
                    /\ \A b, s : CatchesAt(X, b, s, e) => b < a \/ (b = a /\ s =< r)
    BY <1>10, <1>14, InnermostFacts
  <2>2. n < a \/ (n = a /\ m =< r)
    BY <1>13, <2>1
  <2>3. a \in 1..n /\ r \in 1..Len(X[a])
    BY <1>10, <2>1 DEF CatchesAt
  <2>4. a = n
    BY <2>2, <2>3
  <2>5. r = m
    BY <1>10, <2>2, <2>3, <2>4
  <2> QED BY <2>1, <2>4, <2>5
<1>16. AfterRaise(X, e) = CaughtBy(X, <<n, m>>, d)
  <2>1. <<n, m>>[1] = n /\ <<n, m>>[2] = m
    OBVIOUS
  <2> QED BY <1>7, <1>11, <1>14, <1>15, <2>1 DEF AfterRaise
<1>17. PICK t : t = Chosen(st, d)
  OBVIOUS
<1>18. IsChosen(st, n, m, d, t)
  BY <1>8, <1>17, ChosenFacts
<1>19. /\ t \in Activations /\ Len(t) = n /\ Len(t[n]) = m
       /\ t[n][m] = [y EXCEPT !.handler = d]
       /\ \A a \in 1..(n - 1) : t[a] = st[a]
       /\ \A r \in 1..(m - 1) : t[n][r] = st[n][r]
  BY <1>6, <1>18 DEF IsChosen
<1>20. SubSeq(X, 1, n - 1) = SubSeq(t, 1, n - 1)
  <2>1. n - 1 \in Nat /\ n - 1 =< Len(X) /\ n - 1 =< Len(t)
    BY <1>8, <1>10, <1>19
  <2>2. \A i \in 1..(n - 1) : X[i] = t[i]
    BY <1>10, <1>19
  <2>3. X \in Seq(Seq(Region)) /\ t \in Seq(Seq(Region))
    BY <1>10, <1>19 DEF Activations
  <2> QED BY <2>1, <2>2, <2>3, SamePrefix
<1>21. X[n] \in Seq(Region) /\ t[n] \in Seq(Region)
  BY <1>10, <1>12, <1>19, ActFacts
<1>22. SubSeq(X[n], 1, m - 1) = SubSeq(t[n], 1, m - 1)
  <2>1. m - 1 \in Nat /\ m - 1 =< Len(X[n]) /\ m - 1 =< Len(t[n])
    BY <1>8, <1>10, <1>19
  <2>2. \A i \in 1..(m - 1) : X[n][i] = t[n][i]
    BY <1>10, <1>19
  <2> QED BY <1>21, <2>1, <2>2, SamePrefix
<1>23. CaughtBy(X, <<n, m>>, d) =
         Append(SubSeq(t, 1, n - 1), Append(SubSeq(t[n], 1, m - 1), t[n][m]))
  <2>1. <<n, m>>[1] = n /\ <<n, m>>[2] = m
    OBVIOUS
  <2>2. [X[n][m] EXCEPT !.handler = d] = t[n][m]
    BY <1>11, <1>19
  <2> QED BY <1>20, <1>22, <2>1, <2>2 DEF CaughtBy
<1>24. Append(SubSeq(t[n], 1, m - 1), t[n][m]) = t[n]
  BY <1>8, <1>19, <1>21, Rejoined
<1>25. Append(SubSeq(t, 1, n - 1), t[n]) = t
  BY <1>8, <1>19, Rejoined DEF Activations
<1>26. AfterRaise(X, e) = t
  BY <1>16, <1>23, <1>24, <1>25
<1>27. SeenCalls = t /\ SeenOutcome = "running"
  <2>1. Decide(stack, mode) = X
    BY <1>1, <1>5, <1>9
  <2> QED BY <1>2, <1>3, <1>14, <1>26, <2>1, SeenInFlight
<1>28. SeenCalls' = stack' /\ SeenOutcome' = "running"
  BY <1>1 DEF SeenCalls, SeenOutcome, Propagating
<1>29. stack' = t
  BY <1>8, <1>17
<1> QED BY <1>27, <1>28, <1>29 DEF SeenStep

\* Every step is a step of the abstract specification or is not seen.
LEMMA StepSeen ==
  Faithful /\ Inv /\ Inv' /\ [Next]_vars => [Semantics!Next]_<<SeenCalls, SeenOutcome>>
<1> SUFFICES ASSUME Faithful, Inv, Inv', [Next]_vars PROVE SeenStep
  BY DEF SeenStep
<1>1. CASE UNCHANGED vars
  <2>1. stack' = stack /\ mode' = mode /\ exception' = exception
    BY <1>1 DEF vars
  <2> QED BY <2>1 DEF SeenStep, SeenCalls, SeenOutcome, Propagating, Undecided
<1>2. CASE HandlerFound \/ ContinueSearch \/ _comma_unhandled_exception
  <2>1. /\ mode \in {"search", "cleanup"}
        /\ mode' \in {"search", "cleanup", "unhandled", "returned"}
        /\ stack' = stack /\ exception' = exception
    BY <1>2 DEF HandlerFound, ContinueSearch, _comma_unhandled_exception
  <2>2. mode' # "returned"
    BY DEF Inv
  <2>3. mode # "pad" /\ mode' # "pad" /\ Propagating /\ Propagating'
    BY <2>1, <2>2 DEF Propagating
  <2> QED BY <2>1, <2>3, SameStackSeen
<1>3. CASE Next
  BY <1>2, <1>3, CallSeen, ReturnSeen, EnterSeen, LeaveSeen, RaiseSeen, UnwindSeen, InstallSeen,
     ReraiseSeen, EnterHandlerSeen, Zenon DEF Next, Runtime
<1> QED BY <1>1, <1>3

\* Initial states map to initial states.
LEMMA Seen0 == Init => Semantics!Init
BY SeenRunning DEF Init, Semantics!Init

\* The invariant holds in every state of every program, faithful or not: the
\* search always ends at an activation with a pad or at main, so the raise and
\* reraise routines never return to the code after their calls.
THEOREM Invariance == Spec => []Inv
BY InvInit, InvStep, PTL DEF Spec

\* The raise routines, the personality, the unwinder's two phases and the
\* generated pads implement the exceptions of the language, for any number of
\* activations, handled sequences, handlers and choices.
THEOREM RuntimeRefinesSemantics ==
  ASSUME Faithful PROVE Spec => ImplementsSemantics
<1>1. Inv /\ Inv' /\ [Next]_vars => [Semantics!Next]_<<SeenCalls, SeenOutcome>>
  BY StepSeen
<1> QED BY <1>1, Seen0, Invariance, PTL DEF Spec, ImplementsSemantics, Semantics!Spec
=============================================================================
