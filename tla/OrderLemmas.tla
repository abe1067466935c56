----------------------------- MODULE OrderLemmas -----------------------------
(***************************************************************************)
(* Least and greatest elements of sets of numbers, the form in which the    *)
(* proofs of this project use induction: a counterexample to a claim about  *)
(* numbers would have a least one.  And what the searches of the community  *)
(* modules return, which are defined by such elements, SetToSeq and         *)
(* FlattenSeq.                                                              *)
(***************************************************************************)
EXTENDS Integers, Sequences, SequencesExt, SequenceTheorems, FiniteSetTheorems,
        WellFoundedInduction, TLAPS

\* Natural numbers are well ordered.
LEMMA LeastNatural ==
  ASSUME NEW S \in SUBSET Nat, S # {}
  PROVE  \E m \in S : \A k \in S : m =< k
<1>1. \E x \in S : \A y \in S : ~(<<y, x>> \in OpToRel(<, Nat))
  BY NatLessThanWellFounded, WFMin
<1>2. \A x, y \in S : y < x => <<y, x>> \in OpToRel(<, Nat)
  BY DEF OpToRel
<1>3. \E x \in S : \A y \in S : ~(y < x)
  BY <1>1, <1>2, Zenon
<1> QED BY <1>3

\* A set of numbers with an upper bound has a greatest element.
LEMMA GreatestNatural ==
  ASSUME NEW n \in Nat, NEW S \in SUBSET (0..n), S # {}
  PROVE  \E m \in S : \A k \in S : k =< m
<1> DEFINE T == {d \in 0..n : n - d \in S}
<1>1. \A k \in S : n - k \in T /\ k \in Int
  OBVIOUS
<1>2. \A d \in T : d \in Nat /\ n - d \in S
  OBVIOUS
<1> HIDE DEF T
<1>3. T \in SUBSET Nat /\ T # {}
  BY <1>1, <1>2
<1>4. PICK d \in T : \A k \in T : d =< k
  BY <1>3, LeastNatural
<1>5. \A k \in S : d =< n - k
  BY <1>1, <1>4
<1>6. \A k \in S : k =< n - d
  BY <1>1, <1>2, <1>5
<1> QED BY <1>2, <1>6

\* Hence what Max returns.
LEMMA MaxOfBounded ==
  ASSUME NEW n \in Nat, NEW S \in SUBSET (0..n), S # {}
  PROVE  Max(S) \in S /\ \A k \in S : k =< Max(S)
<1>1. \E m \in S : \A k \in S : m >= k
  BY GreatestNatural
<1> QED BY <1>1 DEF Max

\* And what Min returns.
LEMMA MinOfNaturals ==
  ASSUME NEW S \in SUBSET Nat, S # {}
  PROVE  Min(S) \in S /\ \A k \in S : Min(S) =< k
<1>1. \E m \in S : \A k \in S : m =< k
  BY LeastNatural
<1> QED BY <1>1 DEF Min

\* Induction on the natural numbers, with a set of numbers as the claim.
LEMMA SetInduction ==
  ASSUME NEW S, 0 \in S, \A n \in Nat : n \in S => n + 1 \in S
  PROVE  Nat \subseteq S
<1> DEFINE T == {n \in Nat : n \notin S}
<1>1. SUFFICES ASSUME T # {} PROVE FALSE
  OBVIOUS
<1>2. PICK m \in T : \A k \in T : m =< k
  BY <1>1, LeastNatural
<1>3. m # 0 /\ m \in Nat
  BY <1>2
<1>4. m - 1 \in Nat /\ m - 1 \notin T
  BY <1>2, <1>3
<1>5. (m - 1) + 1 \in S
  BY <1>4
<1> QED BY <1>3, <1>5

\* What is left of a sequence without its last element.
LEMMA FrontFacts ==
  ASSUME NEW S, NEW s \in Seq(S), Len(s) > 0
  PROVE  /\ Front(s) \in Seq(S) /\ Len(Front(s)) = Len(s) - 1
         /\ \A i \in 1..(Len(s) - 1) : Front(s)[i] = s[i]
<1> DEFINE n == Len(s)
<1>1. n \in Nat /\ n > 0 /\ 1 \in Int /\ n - 1 \in Int
  OBVIOUS
<1>2. \A i \in 1..(n - 1) : s[i] \in S
  BY <1>1
<1>3. Front(s) = SubSeq(s, 1, n - 1)
  BY DEF Front
<1> HIDE DEF n
<1>4. /\ SubSeq(s, 1, n - 1) \in Seq(S) /\ Len(SubSeq(s, 1, n - 1)) = n - 1
      /\ \A i \in 1..(n - 1) : SubSeq(s, 1, n - 1)[i] = s[i]
  BY <1>1, <1>2, SubSeqProperties
<1> QED BY <1>3, <1>4 DEF n

\* A prefix of a sequence.
LEMMA PrefixFacts ==
  ASSUME NEW S, NEW s \in Seq(S), NEW m \in 0..Len(s)
  PROVE  /\ SubSeq(s, 1, m) \in Seq(S) /\ Len(SubSeq(s, 1, m)) = m
         /\ \A i \in 1..m : SubSeq(s, 1, m)[i] = s[i]
<1>1. Len(s) \in Nat /\ m \in Nat /\ 1 \in Int /\ m \in Int
  OBVIOUS
<1>2. \A i \in 1..m : s[i] \in S
  BY <1>1
<1> QED BY <1>1, <1>2, SubSeqProperties

\* A function on an initial segment of the positive numbers is a sequence.
LEMMA SegmentIsSeq ==
  ASSUME NEW n \in Nat, NEW f, DOMAIN f = 1..n, f = [i \in 1..n |-> f[i]]
  PROVE  f \in Seq({f[i] : i \in 1..n}) /\ Len(f) = n
<1> DEFINE S == {f[i] : i \in 1..n}
<1>1. \A i \in 1..n : f[i] \in S
  OBVIOUS
<1> HIDE DEF S
<1>2. f \in [1..n -> S]
  BY <1>1, Zenon
<1>3. f \in Seq(S)
  BY <1>2
<1> QED BY <1>3 DEF S

\* And a sequence is such a function.
LEMMA SeqIsSegment ==
  ASSUME NEW S, NEW s \in Seq(S)
  PROVE  DOMAIN s = 1..Len(s) /\ s = [i \in 1..Len(s) |-> s[i]]
OBVIOUS

\* The function that FlattenSeq chooses: the concatenations of the first i rows.
IsFlat(seqs, f) ==
  f = [i \in 1..Len(seqs) |-> IF i = 1 THEN seqs[i] ELSE f[i - 1] \o seqs[i]]

\* There is such a function, by induction on the number of rows.
LEMMA FlatExists ==
  ASSUME NEW S, NEW seqs \in Seq(Seq(S))
  PROVE  \E f : IsFlat(seqs, f)
<1> DEFINE L == Len(seqs)
           Upto(n, f) == \A i \in 1..n :
                           f[i] = IF i = 1 THEN seqs[i] ELSE f[i - 1] \o seqs[i]
           T == {n \in Nat : \E f : f = [i \in 1..n |-> f[i]] /\ Upto(n, f)}
<1>1. L \in Nat
  OBVIOUS
<1>2. 0 \in T
  <2> DEFINE f == [i \in 1..0 |-> seqs]
  <2>1. f = [i \in 1..0 |-> f[i]]
    BY Zenon
  <2>2. 1..0 = {}
    OBVIOUS
  <2>3. Upto(0, f)
    BY <2>2
  <2> HIDE DEF f
  <2> QED BY <2>1, <2>3
<1>3. ASSUME NEW n \in Nat, n \in T PROVE n + 1 \in T
  <2>1. PICK f : f = [i \in 1..n |-> f[i]] /\ Upto(n, f)
    BY <1>3
  <2> DEFINE v == IF n = 0 THEN seqs[1] ELSE f[n] \o seqs[n + 1]
             g == [i \in 1..(n + 1) |-> IF i = n + 1 THEN v ELSE f[i]]
  <2>2. g = [i \in 1..(n + 1) |-> g[i]]
    BY Zenon
  <2>3. /\ \A i \in 1..n : i \in 1..(n + 1) /\ i # n + 1 /\ (i # 1 => i - 1 \in 1..n)
        /\ \A i \in 1..(n + 1) : i = n + 1 \/ i \in 1..n
        /\ n + 1 \in 1..(n + 1) /\ (n # 0 => n \in 1..n /\ (n + 1) - 1 = n /\ n + 1 # 1)
        /\ (n = 0 => n + 1 = 1)
    OBVIOUS
  <2>4. (\A i \in 1..n : g[i] = f[i]) /\ g[n + 1] = v
    BY <2>3
  <2> HIDE DEF g
  <2>5. ASSUME NEW i \in 1..(n + 1)
        PROVE  g[i] = IF i = 1 THEN seqs[i] ELSE g[i - 1] \o seqs[i]
    <3>1. CASE i \in 1..n
      <4>1. CASE i = 1
        BY <2>1, <2>4, <3>1, <4>1
      <4>2. CASE i # 1
        <5>1. g[i] = f[i] /\ g[i - 1] = f[i - 1]
          BY <2>3, <2>4, <3>1, <4>2
        <5> QED BY <2>1, <3>1, <4>2, <5>1
      <4> QED BY <4>1, <4>2
    <3>2. CASE i = n + 1
      <4>1. CASE n = 0
        BY <2>3, <2>4, <3>2, <4>1
      <4>2. CASE n # 0
        <5>1. g[i] = f[n] \o seqs[i] /\ g[i - 1] = f[n] /\ i # 1
          BY <2>3, <2>4, <3>2, <4>2
        <5> QED BY <5>1
      <4> QED BY <4>1, <4>2
    <3> QED BY <2>3, <3>1, <3>2
  <2>6. Upto(n + 1, g)
    BY <2>5
  <2> HIDE DEF Upto
  <2> QED BY <2>2, <2>6
<1>4. L \in T
  <2> HIDE DEF T
  <2> QED BY <1>1, <1>2, <1>3, SetInduction
<1>5. PICK f : f = [i \in 1..L |-> f[i]] /\ Upto(L, f)
  BY <1>4
<1>6. f = [i \in 1..L |-> IF i = 1 THEN seqs[i] ELSE f[i - 1] \o seqs[i]]
  BY <1>5, Zenon
<1> QED BY <1>6 DEF IsFlat

\* The elements of a concatenation.
LEMMA ConcatContains ==
  ASSUME NEW S, NEW s \in Seq(S), NEW t \in Seq(S)
  PROVE  /\ s \o t \in Seq(S)
         /\ \A x : Contains(s \o t, x) <=> Contains(s, x) \/ Contains(t, x)
<1> DEFINE u == s \o t
<1>1. /\ u \in Seq(S) /\ Len(u) = Len(s) + Len(t) /\ Len(s) \in Nat /\ Len(t) \in Nat
      /\ \A i \in 1..(Len(s) + Len(t)) : u[i] = IF i <= Len(s) THEN s[i] ELSE t[i - Len(s)]
  BY ConcatProperties
<1> HIDE DEF u
<1>2. \A i \in 1..Len(s) : i \in 1..Len(u) /\ u[i] = s[i]
  BY <1>1
<1>3. \A i \in 1..Len(t) : i + Len(s) \in 1..Len(u) /\ u[i + Len(s)] = t[i]
  <2> SUFFICES ASSUME NEW i \in 1..Len(t)
               PROVE  i + Len(s) \in 1..Len(u) /\ u[i + Len(s)] = t[i]
    OBVIOUS
  <2>1. /\ i + Len(s) \in 1..(Len(s) + Len(t)) /\ ~(i + Len(s) <= Len(s))
        /\ (i + Len(s)) - Len(s) = i
    BY <1>1
  <2>2. u[i + Len(s)] = t[(i + Len(s)) - Len(s)]
    BY <1>1, <2>1
  <2> QED BY <1>1, <2>1, <2>2
<1>4. \A i \in 1..Len(u) :
        \/ i \in 1..Len(s) /\ u[i] = s[i]
        \/ i - Len(s) \in 1..Len(t) /\ u[i] = t[i - Len(s)]
  <2> SUFFICES ASSUME NEW i \in 1..Len(u), ~(i <= Len(s))
               PROVE  i - Len(s) \in 1..Len(t) /\ u[i] = t[i - Len(s)]
    BY <1>1
  <2> QED BY <1>1
<1>5. ASSUME NEW x PROVE Contains(u, x) <=> Contains(s, x) \/ Contains(t, x)
  BY <1>2, <1>3, <1>4 DEF Contains
<1> QED BY <1>1, <1>5 DEF u

\* The elements of a flattened sequence are those of its rows.
LEMMA FlattenFacts ==
  ASSUME NEW S, NEW seqs \in Seq(Seq(S)), Len(seqs) # 0
  PROVE  /\ FlattenSeq(seqs) \in Seq(S)
         /\ \A x : Contains(FlattenSeq(seqs), x) <=>
                     \E i \in 1..Len(seqs) : Contains(seqs[i], x)
<1> DEFINE L == Len(seqs)
           g == CHOOSE f : IsFlat(seqs, f)
<1>1. FlattenSeq(seqs) = g[L]
  BY Zenon DEF FlattenSeq, IsFlat
<1>2. IsFlat(seqs, g)
  BY FlatExists, Zenon
<1> HIDE DEF g
<1>3. L \in Nat /\ L > 0
  OBVIOUS
<1>4. /\ g[1] = seqs[1]
      /\ \A i \in 2..L : g[i] = g[i - 1] \o seqs[i]
  <2>1. \A i \in 1..L : g[i] = IF i = 1 THEN seqs[i] ELSE g[i - 1] \o seqs[i]
    BY <1>2, Zenon DEF IsFlat
  <2>2. 1 \in 1..L /\ \A i \in 2..L : i \in 1..L /\ i # 1
    BY <1>3
  <2> QED BY <2>1, <2>2
<1>5. \A i \in 1..L : seqs[i] \in Seq(S)
  OBVIOUS
<1> DEFINE Good(n) == /\ g[n] \in Seq(S)
                      /\ \A x : Contains(g[n], x) <=>
                                  \E i \in 1..n : Contains(seqs[i], x)
           T == {n \in Nat : n + 1 =< L => Good(n + 1)}
<1>6. 0 \in T
  <2>1. 1..1 = {1} /\ 1 \in 1..L /\ 0 + 1 = 1
    BY <1>3
  <2>2. Good(1)
    BY <1>4, <1>5, <2>1
  <2> QED BY <2>1, <2>2
<1>7. ASSUME NEW n \in Nat, n \in T PROVE n + 1 \in T
  <2> SUFFICES ASSUME (n + 1) + 1 =< L PROVE Good((n + 1) + 1)
    OBVIOUS
  <2> DEFINE m == n + 1
  <2>1. m \in Nat /\ m \in 1..L /\ m + 1 \in 2..L /\ (m + 1) - 1 = m /\ m + 1 \in 1..L
        /\ \A i : i \in 1..(m + 1) <=> i \in 1..m \/ i = m + 1
    BY <1>3
  <2>2. Good(m)
    BY <1>7, <2>1
  <2> HIDE DEF m
  <2>3. g[m + 1] = g[m] \o seqs[m + 1]
    BY <1>4, <2>1
  <2>4. seqs[m + 1] \in Seq(S)
    BY <1>5, <2>1
  <2>5. /\ g[m] \o seqs[m + 1] \in Seq(S)
        /\ \A x : Contains(g[m] \o seqs[m + 1], x) <=>
                    Contains(g[m], x) \/ Contains(seqs[m + 1], x)
    BY <2>2, <2>4, ConcatContains
  <2>6. Good(m + 1)
    BY <2>1, <2>2, <2>3, <2>5
  <2> QED BY <2>6 DEF m
<1>8. L - 1 \in T
  <2> HIDE DEF T
  <2>1. L - 1 \in Nat
    BY <1>3
  <2> QED BY <1>6, <1>7, <2>1, SetInduction
<1>9. Good(L)
  <2>1. (L - 1) + 1 = L
    BY <1>3
  <2> QED BY <1>8, <2>1
<1> QED BY <1>1, <1>9

\* SetToSeq lists the elements of a finite set, each once.
LEMMA SetToSeqFacts ==
  ASSUME NEW S, IsFiniteSet(S)
  PROVE  LET s == SetToSeq(S)
         IN  /\ s \in Seq(S) /\ DOMAIN s = 1..Len(s) /\ Len(s) \in Nat
             /\ Len(s) = Cardinality(S)
             /\ \A i, j \in 1..Len(s) : s[i] = s[j] => i = j
             /\ {s[i] : i \in 1..Len(s)} = S
<1>1. PICK n \in Nat : n = Cardinality(S)
  BY FS_CardinalityType
<1>2. PICK f \in Bijection(1..n, S) : TRUE
  BY <1>1, FS_CardinalityType DEF ExistsBijection
<1>3. f \in [1..n -> S] /\ IsInjective(f)
  BY <1>2 DEF Bijection, Injection
<1>4. PICK s : s = SetToSeq(S)
  OBVIOUS
<1>5. s \in [1..n -> S] /\ IsInjective(s)
  BY <1>1, <1>3, <1>4, Zenon DEF SetToSeq
<1>6. s \in Seq(S) /\ DOMAIN s = 1..n /\ Len(s) = n
  BY <1>5
<1>7. s \in Injection(1..n, S)
  BY <1>5 DEF Injection
<1>8. Cardinality(1..n) = n
  BY FS_Interval
<1>9. s \in Surjection(1..n, S)
  BY <1>1, <1>7, <1>8, FS_Injection
<1>10. {s[i] : i \in 1..n} = S
  BY <1>5, <1>9 DEF Surjection
<1>11. \A i, j \in 1..n : s[i] = s[j] => i = j
  BY <1>5, <1>6 DEF IsInjective
<1> QED BY <1>1, <1>4, <1>6, <1>10, <1>11
=============================================================================
