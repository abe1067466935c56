---------------------------- MODULE VStackProofs ----------------------------
(***************************************************************************)
(* Proofs about crt_vstack.c and the calls that return arrays on it, for    *)
(* every set of addresses and results and every depth of nesting.           *)
(*                                                                          *)
(* The pointers of the heap are abstracted to the sequence of addresses     *)
(* they link (IsList); the calls of the runtime are shown to append to that *)
(* sequence and to shorten it.  On top of it, the invariant Inv of          *)
(* VStackCalls says where in the sequence each evaluation under way has its *)
(* data.                                                                    *)
(***************************************************************************)
EXTENDS VStackCalls, OrderLemmas

\* The address the list ends in: the entry of the null stack pointer.
Bottom == AddressSpace - DataOffset

\* The heap holds the entries at the addresses c, bottom first, each once, linked
\* to the one below it, and the stack pointer points behind the last.
IsList(s, c) ==
  /\ c \in Seq(Address)
  /\ \A i, j \in 1..Len(c) : c[i] = c[j] => i = j
  /\ DOMAIN s.heap = {c[i] : i \in 1..Len(c)}
  /\ \A i \in 1..Len(c) : s.heap[c[i]].prev = IF i = 1 THEN Bottom ELSE c[i - 1]
  /\ s.top = IF Len(c) = 0 THEN 0 ELSE c[Len(c)] + DataOffset

\* Offsets and their wraparound (get_vstack_entry, set_vstack_entry).
LEMMA AddressArithmetic ==
  /\ Bottom \in 0..(AddressSpace - 1) /\ Bottom \notin Address
  /\ (0 - DataOffset) % AddressSpace = Bottom
  /\ (Bottom + DataOffset) % AddressSpace = 0
  /\ \A a \in Address :
       /\ a \in 1..(AddressSpace - 1)
       /\ ((a + DataOffset) - DataOffset) % AddressSpace = a
       /\ (a + DataOffset) % AddressSpace = a + DataOffset
<1>1. /\ DataOffset \in Nat \ {0} /\ AddressSpace \in Nat /\ DataOffset < AddressSpace
      /\ \A a \in Address : a \in 1..(AddressSpace - DataOffset - 1)
  BY AddressAssumption
<1>2. \A x \in 0..(AddressSpace - 1) : x % AddressSpace = x
  BY <1>1
<1>3. (0 - DataOffset) % AddressSpace = Bottom
  BY <1>1 DEF Bottom
<1>4. (Bottom + DataOffset) % AddressSpace = 0
  BY <1>1 DEF Bottom
<1>5. \A a \in Address :
       /\ a \in 1..(AddressSpace - 1)
       /\ ((a + DataOffset) - DataOffset) % AddressSpace = a
       /\ (a + DataOffset) % AddressSpace = a + DataOffset
  <2> TAKE a \in Address
  <2>1. /\ a \in 1..(AddressSpace - 1) /\ (a + DataOffset) - DataOffset = a
        /\ a + DataOffset \in 0..(AddressSpace - 1)
    BY <1>1
  <2> QED BY <2>1, <1>2
<1> QED BY <1>1, <1>3, <1>4, <1>5 DEF Bottom

\* The entry of the stack pointer is the last of the list.
LEMMA ListTop ==
  ASSUME NEW s, NEW c, IsList(s, c)
  PROVE  get_vstack_entry(s) = IF Len(c) = 0 THEN Bottom ELSE c[Len(c)]
<1>1. Len(c) \in Nat /\ \A i \in 1..Len(c) : c[i] \in Address
  BY DEF IsList
<1> QED BY <1>1, AddressArithmetic DEF IsList, get_vstack_entry

\* _comma_vstack_push appends to the list, wherever malloc places the entry.
LEMMA PushList ==
  ASSUME NEW s, NEW c, IsList(s, c), NEW a \in malloc(s), NEW item
  PROVE  LET t == _comma_vstack_push(s, a, item)
         IN  /\ IsList(t, Append(c, a))
             /\ t.heap[a].data = item
             /\ \A b \in DOMAIN s.heap : b # a /\ t.heap[b] = s.heap[b]
<1> DEFINE t == _comma_vstack_push(s, a, item)
           n == Len(c)
           d == Append(c, a)
<1>1. /\ n \in Nat /\ c \in Seq(Address)
      /\ \A i, j \in 1..n : c[i] = c[j] => i = j
      /\ \A i \in 1..n : c[i] \in Address /\ c[i] \in DOMAIN s.heap
      /\ DOMAIN s.heap = {c[i] : i \in 1..n}
      /\ \A i \in 1..n : s.heap[c[i]].prev = IF i = 1 THEN Bottom ELSE c[i - 1]
  BY DEF IsList
<1>2. a \in Address /\ a \notin DOMAIN s.heap
  BY DEF malloc
<1>3. /\ d \in Seq(Address) /\ Len(d) = n + 1
      /\ \A i \in 1..n : d[i] = c[i]
      /\ d[n + 1] = a
  BY <1>1, <1>2
<1>4. /\ DOMAIN t.heap = DOMAIN s.heap \cup {a}
      /\ t.heap[a].prev = get_vstack_entry(s) /\ t.heap[a].data = item
      /\ \A b \in DOMAIN s.heap : b # a /\ t.heap[b] = s.heap[b]
      /\ t.top = a + DataOffset
  BY <1>2, AddressArithmetic DEF _comma_vstack_push, set_vstack_entry
<1>t. get_vstack_entry(s) = IF n = 0 THEN Bottom ELSE c[n]
  BY ListTop
<1> HIDE DEF t, d, n
<1>5. \A i, j \in 1..(n + 1) : d[i] = d[j] => i = j
  BY <1>1, <1>2, <1>3
<1>6. DOMAIN t.heap = {d[i] : i \in 1..(n + 1)}
  BY <1>1, <1>3, <1>4
<1>7. \A i \in 1..(n + 1) : t.heap[d[i]].prev = IF i = 1 THEN Bottom ELSE d[i - 1]
  <2> TAKE i \in 1..(n + 1)
  <2>1. CASE i = n + 1
    BY <2>1, <1>1, <1>3, <1>4, <1>t
  <2>2. CASE i \in 1..n
    <3>1. d[i] = c[i] /\ t.heap[c[i]] = s.heap[c[i]]
      BY <2>2, <1>1, <1>3, <1>4
    <3>2. i # 1 => i - 1 \in 1..n
      BY <2>2, <1>1
    <3> QED BY <2>2, <1>1, <1>3, <3>1, <3>2
  <2> QED BY <1>1, <2>1, <2>2
<1>8. t.top = IF Len(d) = 0 THEN 0 ELSE d[Len(d)] + DataOffset
  BY <1>1, <1>3, <1>4
<1>9. IsList(t, d)
  BY <1>3, <1>5, <1>6, <1>7, <1>8 DEF IsList
<1> QED BY <1>4, <1>9 DEF t, d

\* _comma_vstack_pop removes the last entry and leaves the others alone.
LEMMA PopList ==
  ASSUME NEW s, NEW c, IsList(s, c), Len(c) > 0
  PROVE  LET t == _comma_vstack_pop(s)
         IN  /\ IsList(t, Front(c))
             /\ \A b \in DOMAIN t.heap : b \in DOMAIN s.heap /\ t.heap[b] = s.heap[b]
<1> DEFINE t == _comma_vstack_pop(s)
           n == Len(c)
           d == Front(c)
<1>1. /\ n \in Nat \ {0} /\ c \in Seq(Address)
      /\ \A i, j \in 1..n : c[i] = c[j] => i = j
      /\ \A i \in 1..n : c[i] \in Address /\ c[i] \in DOMAIN s.heap
      /\ DOMAIN s.heap = {c[i] : i \in 1..n}
      /\ \A i \in 1..n : s.heap[c[i]].prev = IF i = 1 THEN Bottom ELSE c[i - 1]
  BY DEF IsList
<1>2. /\ d \in Seq(Address) /\ Len(d) = n - 1
      /\ \A i \in 1..(n - 1) : d[i] = c[i]
  BY <1>1, FrontFacts
<1>3. get_vstack_entry(s) = c[n]
  BY <1>1, ListTop
<1>4. /\ DOMAIN t.heap = DOMAIN s.heap \ {c[n]}
      /\ \A b \in DOMAIN t.heap : b \in DOMAIN s.heap /\ t.heap[b] = s.heap[b]
      /\ t.top = set_vstack_entry(s.heap[c[n]].prev)
  BY <1>3 DEF _comma_vstack_pop
<1> HIDE DEF t, d, n
<1>5. t.top = IF n = 1 THEN 0 ELSE c[n - 1] + DataOffset
  <2>1. CASE n = 1
    BY <2>1, <1>1, <1>4, AddressArithmetic DEF set_vstack_entry
  <2>2. CASE n # 1
    <3>1. n - 1 \in 1..n /\ n \in 1..n
      BY <2>2, <1>1
    <3>2. s.heap[c[n]].prev = c[n - 1] /\ c[n - 1] \in Address
      BY <2>2, <3>1, <1>1
    <3> QED BY <2>2, <3>2, <1>4, AddressArithmetic DEF set_vstack_entry
  <2> QED BY <2>1, <2>2
<1>6. DOMAIN t.heap = {d[i] : i \in 1..(n - 1)}
  <2>1. \A i \in 1..(n - 1) : c[i] # c[n] /\ c[i] \in DOMAIN s.heap
    BY <1>1
  <2>2. \A b \in DOMAIN s.heap \ {c[n]} : \E i \in 1..(n - 1) : b = c[i]
    BY <1>1
  <2>3. \A i \in 1..(n - 1) : d[i] \in DOMAIN t.heap
    BY <1>2, <1>4, <2>1
  <2>4. \A b \in DOMAIN t.heap : \E i \in 1..(n - 1) : b = d[i]
    BY <1>2, <1>4, <2>2
  <2> QED BY <2>3, <2>4
<1>7. \A i \in 1..(n - 1) : t.heap[d[i]].prev = IF i = 1 THEN Bottom ELSE d[i - 1]
  <2> TAKE i \in 1..(n - 1)
  <2>1. d[i] \in DOMAIN t.heap /\ d[i] = c[i] /\ i \in 1..n
    BY <1>1, <1>2, <1>6
  <2>2. t.heap[d[i]].prev = IF i = 1 THEN Bottom ELSE c[i - 1]
    BY <2>1, <1>1, <1>4
  <2>3. i # 1 => i - 1 \in 1..(n - 1)
    BY <1>1
  <2>4. i # 1 => d[i - 1] = c[i - 1]
    BY <1>2, <2>3
  <2> QED BY <2>2, <2>4
<1>8. \A i, j \in 1..(n - 1) : d[i] = d[j] => i = j
  BY <1>1, <1>2
<1>9. t.top = IF Len(d) = 0 THEN 0 ELSE d[Len(d)] + DataOffset
  BY <1>1, <1>2, <1>5
<1>10. IsList(t, d)
  BY <1>2, <1>6, <1>7, <1>8, <1>9 DEF IsList
<1> QED BY <1>4, <1>10 DEF t, d

\* The list holds all entries that are not freed.
LEMMA ListSize ==
  ASSUME NEW s, NEW c, IsList(s, c)
  PROVE  Cardinality(DOMAIN s.heap) = Len(c)
<1>1. /\ c \in Seq(Address) /\ Len(c) \in Nat
      /\ \A i, j \in 1..Len(c) : c[i] = c[j] => i = j
      /\ DOMAIN s.heap = {c[i] : i \in 1..Len(c)}
  BY DEF IsList
<1>2. DOMAIN c = 1..Len(c)
  BY <1>1
<1>3. ExistsBijection(1..Len(c), DOMAIN s.heap)
  <2>1. c \in Bijection(1..Len(c), DOMAIN s.heap)
    BY <1>1, <1>2 DEF Bijection, Injection, Surjection, IsInjective
  <2> QED BY <2>1 DEF ExistsBijection
<1> QED BY <1>1, <1>3, FS_CountingElements

\* Following prev from the stack pointer visits the list from its top to the end.
LEMMA WalkDown ==
  ASSUME NEW s, NEW c, IsList(s, c)
  PROVE  Walk(s) = [n \in 1..(Len(c) + 1) |->
                     IF n = Len(c) + 1 THEN Bottom ELSE c[Len(c) + 1 - n]]
<1> DEFINE k == Cardinality(DOMAIN s.heap)
           w[n \in 0..k] == IF n = 0 THEN get_vstack_entry(s) ELSE Below(s)[w[n - 1]]
           g == [n \in 0..k |-> IF n = k THEN Bottom ELSE c[k - n]]
           W(f) == f = [n \in 0..k |-> IF n = 0 THEN get_vstack_entry(s) ELSE Below(s)[f[n - 1]]]
<1>0. k = Len(c)
  BY ListSize
<1> HIDE DEF k
<1>1. /\ k \in Nat /\ c \in Seq(Address)
      /\ \A i \in 1..k : c[i] \in Address /\ c[i] \in DOMAIN s.heap
      /\ \A i \in 1..k : s.heap[c[i]].prev = IF i = 1 THEN Bottom ELSE c[i - 1]
  BY <1>0 DEF IsList
<1>2. \A a \in DOMAIN s.heap : Below(s)[a] = s.heap[a].prev
  BY AddressArithmetic DEF Below, IsList
<1>3. get_vstack_entry(s) = IF k = 0 THEN Bottom ELSE c[k]
  BY <1>0, ListTop
<1>4. ASSUME NEW n \in 0..k
      PROVE  g[n] = IF n = 0 THEN get_vstack_entry(s) ELSE Below(s)[g[n - 1]]
  <2>1. CASE n = 0
    BY <2>1, <1>1, <1>3
  <2>2. CASE n # 0
    <3>1. /\ n - 1 \in 0..k /\ n - 1 # k /\ k - (n - 1) \in 1..k
          /\ (k - (n - 1) = 1) <=> (n = k)
          /\ k - (n - 1) - 1 = k - n
      BY <2>2, <1>1
    <3>2. g[n - 1] = c[k - (n - 1)]
      BY <3>1
    <3>3. Below(s)[g[n - 1]] = s.heap[c[k - (n - 1)]].prev
      BY <3>1, <3>2, <1>1, <1>2
    <3>4. s.heap[c[k - (n - 1)]].prev = IF n = k THEN Bottom ELSE c[k - n]
      BY <3>1, <1>1
    <3> QED BY <2>2, <3>3, <3>4
  <2> QED BY <2>1, <2>2
<1>5. W(g)
  BY <1>4, Zenon
<1>6. W(w)
  <2>1. W(CHOOSE f : W(f))
    BY <1>5, Zenon
  <2> QED BY <2>1, Zenon
<1> HIDE DEF w, g
<1>7. /\ \A n \in 0..k : w[n] = IF n = 0 THEN get_vstack_entry(s) ELSE Below(s)[w[n - 1]]
      /\ \A n \in 0..k : g[n] = IF n = 0 THEN get_vstack_entry(s) ELSE Below(s)[g[n - 1]]
      /\ DOMAIN w = 0..k /\ w = [n \in DOMAIN w |-> w[n]]
  BY <1>4, <1>6, Zenon
<1>8. \A n \in 0..k : w[n] = g[n]
  <2> DEFINE S == {n \in Nat : n \in 0..k => w[n] = g[n]}
  <2>1. 0 \in S
    BY <1>7
  <2>2. ASSUME NEW n \in Nat, n \in S PROVE n + 1 \in S
    <3> SUFFICES ASSUME n + 1 \in 0..k PROVE w[n + 1] = g[n + 1]
      OBVIOUS
    <3>1. n \in 0..k /\ (n + 1) - 1 = n /\ n + 1 # 0
      BY <1>1
    <3>2. w[n] = g[n]
      BY <2>2, <3>1
    <3> QED BY <1>7, <3>1, <3>2
  <2> HIDE DEF S
  <2>3. Nat \subseteq S
    BY <2>1, <2>2, SetInduction
  <2> QED BY <2>3, <1>1 DEF S
<1>9. Walk(s) = [n \in 1..(k + 1) |-> w[n - 1]]
  BY Zenon DEF Walk, w, k
<1>10. \A n \in 1..(k + 1) : w[n - 1] = IF n = k + 1 THEN Bottom ELSE c[k + 1 - n]
  <2> TAKE n \in 1..(k + 1)
  <2>1. n - 1 \in 0..k /\ k - (n - 1) = k + 1 - n /\ (n - 1 = k <=> n = k + 1)
    BY <1>1
  <2>2. g[n - 1] = IF n - 1 = k THEN Bottom ELSE c[k - (n - 1)]
    BY <2>1 DEF g
  <2> QED BY <2>1, <2>2, <1>8
<1> QED BY <1>0, <1>9, <1>10, Zenon

\* Hence the entries and the items met on the way, and that the list is intact.
LEMMA ListItems ==
  ASSUME NEW s, NEW c, IsList(s, c)
  PROVE  LET k == Len(c) IN
         /\ Entries(s) = [n \in 1..k |-> c[k + 1 - n]]
         /\ Items(s) = [n \in 1..k |-> s.heap[c[k + 1 - n]].data]
         /\ Range(Entries(s)) = DOMAIN s.heap
         /\ IsInjective(Entries(s))
         /\ set_vstack_entry(Last(Walk(s))) = 0
<1> DEFINE k == Len(c)
           w == Walk(s)
           p == {n \in DOMAIN w : \A m \in 1..n : w[m] \in DOMAIN s.heap}
<1>1. /\ k \in Nat /\ c \in Seq(Address)
      /\ \A i \in 1..k : c[i] \in Address /\ c[i] \in DOMAIN s.heap
      /\ \A i, j \in 1..k : c[i] = c[j] => i = j
      /\ DOMAIN s.heap = {c[i] : i \in 1..k}
  BY DEF IsList
<1>2. w = [n \in 1..(k + 1) |-> IF n = k + 1 THEN Bottom ELSE c[k + 1 - n]]
  BY WalkDown
<1> HIDE DEF k, w
<1>3. Bottom \notin DOMAIN s.heap
  BY <1>1, AddressArithmetic
<1>4. \A n \in 1..k : k + 1 - n \in 1..k /\ n # k + 1 /\ n \in 1..(k + 1)
  BY <1>1
<1>5. /\ DOMAIN w = 1..(k + 1) /\ w[k + 1] = Bottom
      /\ \A n \in 1..k : w[n] = c[k + 1 - n]
  BY <1>1, <1>2, <1>4
<1>6. p = 1..k
  <2>1. \A n \in 1..k : n \in p
    <3> TAKE n \in 1..k
    <3>1. \A m \in 1..n : w[m] \in DOMAIN s.heap
      <4> TAKE m \in 1..n
      <4>1. m \in 1..k
        BY <1>1
      <4> QED BY <4>1, <1>1, <1>4, <1>5
    <3> QED BY <3>1, <1>1, <1>5
  <2>2. k + 1 \notin p
    BY <1>1, <1>3, <1>5
  <2>3. p \subseteq 1..(k + 1)
    BY <1>5
  <2>4. \A n \in 1..(k + 1) : n = k + 1 \/ n \in 1..k
    BY <1>1
  <2> HIDE DEF p
  <2> QED BY <2>1, <2>2, <2>3, <2>4
<1>7. Entries(s) = [n \in p |-> w[n]]
  BY Zenon DEF Entries, w, p
<1> HIDE DEF p
<1>8. Entries(s) = [n \in 1..k |-> c[k + 1 - n]]
  BY <1>5, <1>6, <1>7, Zenon
<1>9. Items(s) = [n \in 1..k |-> s.heap[c[k + 1 - n]].data]
  BY <1>8, Zenon DEF Items
<1>10. Range(Entries(s)) = DOMAIN s.heap
  <2>1. \A n \in 1..k : c[k + 1 - n] \in DOMAIN s.heap
    BY <1>1, <1>4
  <2>2. ASSUME NEW b \in DOMAIN s.heap
        PROVE  \E n \in 1..k : b = c[k + 1 - n]
    <3>1. PICK i \in 1..k : b = c[i]
      BY <1>1
    <3>2. k + 1 - i \in 1..k /\ k + 1 - (k + 1 - i) = i
      BY <1>1
    <3> QED BY <3>1, <3>2
  <2>3. Range(Entries(s)) = {c[k + 1 - n] : n \in 1..k}
    BY <1>8, Zenon DEF Range
  <2> QED BY <2>1, <2>2, <2>3
<1>11. IsInjective(Entries(s))
  <2>1. ASSUME NEW m \in 1..k, NEW n \in 1..k, c[k + 1 - m] = c[k + 1 - n]
        PROVE  m = n
    <3>1. k + 1 - m = k + 1 - n
      BY <2>1, <1>1, <1>4
    <3> QED BY <3>1, <1>1
  <2> QED BY <2>1, <1>8 DEF IsInjective
<1>12. set_vstack_entry(Last(Walk(s))) = 0
  <2>1. Last(w) = Bottom
    BY <1>1, <1>2 DEF Last
  <2> QED BY <2>1, AddressArithmetic DEF set_vstack_entry, w
<1> QED BY <1>8, <1>9, <1>10, <1>11, <1>12 DEF k

\* A push is a push of the abstract stack.
LEMMA ItemsPush ==
  ASSUME NEW s, NEW c, IsList(s, c), NEW a \in malloc(s), NEW item
  PROVE  Items(_comma_vstack_push(s, a, item)) = <<item>> \o Items(s)
<1> DEFINE t == _comma_vstack_push(s, a, item)
           d == Append(c, a)
           n == Len(c)
<1>1. /\ n \in Nat /\ c \in Seq(Address) /\ a \in Address
      /\ \A i \in 1..n : c[i] \in DOMAIN s.heap
  BY DEF IsList, malloc
<1>2. /\ IsList(t, d) /\ t.heap[a].data = item
      /\ \A b \in DOMAIN s.heap : t.heap[b] = s.heap[b]
  BY PushList
<1>3. /\ Len(d) = n + 1 /\ d[n + 1] = a
      /\ \A i \in 1..n : d[i] = c[i]
  BY <1>1
<1>4. /\ Items(s) = [i \in 1..n |-> s.heap[c[n + 1 - i]].data]
      /\ Items(t) = [i \in 1..(n + 1) |-> t.heap[d[n + 1 + 1 - i]].data]
  <2> HIDE DEF t, d
  <2>1. Items(t) = [i \in 1..Len(d) |-> t.heap[d[Len(d) + 1 - i]].data]
    BY <1>2, ListItems
  <2> QED BY <2>1, <1>3, ListItems
<1> HIDE DEF t, d, n
<1> DEFINE x == Items(s)
           y == <<item>> \o x
<1>5. Len(x) = n /\ x \in Seq({x[i] : i \in 1..n}) /\ DOMAIN x = 1..n
  <2>1. DOMAIN x = 1..n /\ x = [i \in 1..n |-> x[i]]
    BY <1>4
  <2> QED BY <2>1, <1>1, SegmentIsSeq
<1>6. /\ DOMAIN y = 1..(n + 1) /\ y = [i \in 1..(n + 1) |-> y[i]]
      /\ y[1] = item /\ \A i \in 2..(n + 1) : y[i] = x[i - 1]
  BY <1>1, <1>5
<1>7. \A i \in 1..(n + 1) : t.heap[d[n + 1 + 1 - i]].data = y[i]
  <2> TAKE i \in 1..(n + 1)
  <2>1. CASE i = 1
    <3>1. n + 1 + 1 - i = n + 1
      BY <2>1, <1>1
    <3> QED BY <2>1, <3>1, <1>2, <1>3, <1>6
  <2>2. CASE i # 1
    <3>1. /\ i \in 2..(n + 1) /\ i - 1 \in 1..n
          /\ n + 1 + 1 - i = n + 1 - (i - 1) /\ n + 1 - (i - 1) \in 1..n
      BY <2>2, <1>1
    <3>2. y[i] = s.heap[c[n + 1 - (i - 1)]].data
      BY <3>1, <1>4, <1>6
    <3> QED BY <3>1, <3>2, <1>1, <1>2, <1>3
  <2> QED BY <2>1, <2>2
<1>8. Items(t) = y
  <2> HIDE DEF y
  <2> QED BY <1>4, <1>6, <1>7, Zenon
<1> QED BY <1>8 DEF t

\* A pop is a pop of the abstract stack, which is not empty.
LEMMA ItemsPop ==
  ASSUME NEW s, NEW c, IsList(s, c), Len(c) > 0
  PROVE  Items(s) # <<>> /\ Items(_comma_vstack_pop(s)) = Tail(Items(s))
<1> DEFINE t == _comma_vstack_pop(s)
           d == Front(c)
           n == Len(c)
           x == Items(s)
<1>1. /\ n \in Nat /\ n > 0 /\ c \in Seq(Address)
      /\ \A i \in 1..n : c[i] \in DOMAIN s.heap
  BY DEF IsList
<1>2. /\ IsList(t, d)
      /\ \A b \in DOMAIN t.heap : t.heap[b] = s.heap[b]
  BY PopList
<1>3. Len(d) = n - 1 /\ \A i \in 1..(n - 1) : d[i] = c[i]
  BY <1>1, FrontFacts
<1>4. \A i \in 1..(n - 1) : d[i] \in DOMAIN t.heap
  BY <1>2, <1>3 DEF IsList
<1>5. x = [i \in 1..n |-> s.heap[c[n + 1 - i]].data]
  BY ListItems
<1>6. Items(t) = [i \in 1..(n - 1) |-> t.heap[d[n - 1 + 1 - i]].data]
  <2> HIDE DEF t, d
  <2>1. Items(t) = [i \in 1..Len(d) |-> t.heap[d[Len(d) + 1 - i]].data]
    BY <1>2, ListItems
  <2> QED BY <2>1, <1>3
<1> HIDE DEF t, d, n, x
<1>7. Len(x) = n /\ x \in Seq({x[i] : i \in 1..n}) /\ x # <<>>
  <2>1. DOMAIN x = 1..n /\ x = [i \in 1..n |-> x[i]]
    BY <1>5
  <2> QED BY <2>1, <1>1, SegmentIsSeq
<1>8. Tail(x) = [i \in 1..(n - 1) |-> x[i + 1]]
  <2> DEFINE S == {x[i] : i \in 1..n}
  <2> HIDE DEF S
  <2>1. x \in Seq(S) /\ x # <<>> /\ Len(x) = n
    BY <1>7 DEF S
  <2>2. /\ Tail(x) \in Seq(S) /\ Len(Tail(x)) = n - 1
        /\ \A i \in 1..(n - 1) : Tail(x)[i] = x[i + 1]
    BY <2>1, HeadTailProperties
  <2>3. Tail(x) = [i \in 1..(n - 1) |-> Tail(x)[i]]
    BY <2>2, SeqIsSegment, Zenon
  <2> QED BY <2>2, <2>3, Zenon
<1>9. \A i \in 1..(n - 1) : t.heap[d[n - 1 + 1 - i]].data = x[i + 1]
  <2> TAKE i \in 1..(n - 1)
  <2>1. /\ i + 1 \in 1..n /\ n - 1 + 1 - i = n - i /\ n + 1 - (i + 1) = n - i
        /\ n - i \in 1..(n - 1)
    BY <1>1
  <2> QED BY <2>1, <1>2, <1>3, <1>4, <1>5
<1>10. Items(t) = Tail(x)
  BY <1>6, <1>8, <1>9, Zenon
<1> QED BY <1>7, <1>10 DEF x, t
-----------------------------------------------------------------------------
\* The evaluations that hold a pointer to data on the vstack.
Indexing(evals) == {i \in 1..Len(evals) : evals[i].state = "indexing"}

\* The states in which the caller is about to pop.
Consuming == {"returning", "returned", "copying"}

\* The entries the innermost evaluation has on top of the vstack.
Owed(evals) ==
  IF Len(evals) = 0 THEN 0
  ELSE IF evals[Len(evals)].state = "returned" THEN 2
  ELSE IF evals[Len(evals)].state \in {"returning", "copying"} THEN 1
  ELSE 0

\* Position i is in the body of a function that returns an array.
InCall(evals, i) ==
  \E j \in 1..(i - 1) : /\ evals[j].state = "call"
                        /\ \A m \in (j + 1)..(i - 1) : evals[m].state = "handled"

\* Only the innermost evaluation is at its return; every result passed on has a
\* function under way to be the result of.
CallsNest(evals) ==
  /\ evals \in Seq(Evaluation)
  /\ \A i \in 1..Len(evals) :
       /\ evals[i].state \in Consuming \cup {"indexing"} => evals[i].value \in Result
       /\ evals[i].state \in Consuming => i = Len(evals)
       /\ evals[i].state # "handled" /\ evals[i].use = "emitVStackReturn" => InCall(evals, i)

\* What the innermost evaluation pops next is its own result.
OwnResult(s, c, evals) ==
  LET n == Len(c)
      e == evals[Len(evals)]
  IN  Len(evals) > 0 =>
        /\ e.state = "returned" => /\ n > 1
                                   /\ s.heap[c[n]].data = Bounds(e.value)
                                   /\ s.heap[c[n - 1]].data = Data(e.value)
        /\ e.state \in {"returning", "copying"} => /\ n > 0
                                                   /\ s.heap[c[n]].data = Data(e.value)

\* The data the i-th evaluation holds is at position pos[i] of the list, further
\* up for inner evaluations, and below what the innermost is about to pop.
HeldAt(s, c, pos, evals) ==
  /\ \A i \in Indexing(evals) :
       /\ pos[i] \in 1..(Len(c) - Owed(evals))
       /\ evals[i].ptr = c[pos[i]] + DataOffset
       /\ s.heap[c[pos[i]]].data = Data(evals[i].value)
  /\ \A i, j \in Indexing(evals) : i < j => pos[i] < pos[j]

\* The vstack s with the list c, n entries of it left behind by exceptions.
StackInv(s, c, pos, evals, n) ==
  /\ IsList(s, c)
  /\ OwnResult(s, c, evals)
  /\ HeldAt(s, c, pos, evals)
  /\ n \in Nat
  /\ Len(c) = Held(evals) + n + Owed(evals)

\* The inductive invariant.  Positions and their order are what it adds to the
\* properties: after an exception a pop may free an entry that is not its own,
\* and only the order shows that this entry is nobody else's.
Inv == CallsNest(pending) /\ \E c, pos : StackInv(vs, c, pos, pending, lost)

\* The handled sequence that raise finds is a position of the stack of evaluations.
LEMMA LastHandled ==
  ASSUME NEW evals \in Seq(Evaluation)
  PROVE  LET h == SelectLastInSeq(evals, LAMBDA e : e.state = "handled")
         IN  h \in 0..Len(evals)
<1> DEFINE I == {i \in 1..Len(evals) : evals[i].state = "handled"}
<1>1. SelectLastInSeq(evals, LAMBDA e : e.state = "handled") = IF I # {} THEN Max(I) ELSE 0
  BY Zenon DEF SelectLastInSeq
<1>2. Len(evals) \in Nat /\ I \in SUBSET (0..Len(evals)) /\ I \in SUBSET (1..Len(evals))
  OBVIOUS
<1> HIDE DEF I
<1>3. I # {} => Max(I) \in I
  BY <1>2, MaxOfBounded
<1> QED BY <1>1, <1>2, <1>3

\* What Enclosing returns: everything inside it is a handled sequence.
LEMMA EnclosingFacts ==
  ASSUME NEW evals \in Seq(Evaluation)
  PROVE  LET e == Enclosing(evals)
         IN  /\ e \in 0..Len(evals)
             /\ e # 0 => evals[e].state # "handled"
             /\ \A m \in (e + 1)..Len(evals) : evals[m].state = "handled"
<1> DEFINE I == {i \in 1..Len(evals) : evals[i].state # "handled"}
           e == Enclosing(evals)
<1>1. e = IF I # {} THEN Max(I) ELSE 0
  BY Zenon DEF SelectLastInSeq, Enclosing
<1>2. Len(evals) \in Nat /\ I \in SUBSET (0..Len(evals)) /\ I \in SUBSET (1..Len(evals))
  OBVIOUS
<1>3. \A m \in 1..Len(evals) : m \in I <=> evals[m].state # "handled"
  OBVIOUS
<1> HIDE DEF I
<1>4. I # {} => Max(I) \in I /\ \A k \in I : k =< Max(I)
  BY <1>2, MaxOfBounded
<1>5. CASE I = {}
  BY <1>1, <1>2, <1>3, <1>5
<1>6. CASE I # {}
  <2>1. e \in I /\ \A k \in I : k =< e
    BY <1>1, <1>4, <1>6
  <2> HIDE DEF e
  <2>2. e \in 1..Len(evals) /\ evals[e].state # "handled"
    BY <2>1, <1>2, <1>3
  <2>3. ASSUME NEW m \in (e + 1)..Len(evals) PROVE evals[m].state = "handled"
    <3>1. m \in 1..Len(evals) /\ ~(m =< e)
      BY <2>2, <1>2
    <3> QED BY <3>1, <2>1, <1>3
  <2> QED BY <2>2, <2>3, <1>2 DEF e
<1> QED BY <1>5, <1>6

\* Held counts a finite set.
LEMMA HeldFacts ==
  ASSUME NEW evals \in Seq(Evaluation)
  PROVE  /\ Held(evals) = Cardinality(Indexing(evals)) /\ Held(evals) \in Nat
         /\ IsFiniteSet(Indexing(evals))
<1>1. Held(evals) = Cardinality(Indexing(evals))
  <2>1. DOMAIN evals = 1..Len(evals)
    BY SeqIsSegment
  <2> QED BY <2>1, Zenon DEF Held, Indexing
<1>2. IsFiniteSet(1..Len(evals)) /\ Indexing(evals) \subseteq 1..Len(evals)
  BY FS_Interval DEF Indexing
<1>3. IsFiniteSet(Indexing(evals)) /\ Cardinality(Indexing(evals)) \in Nat
  BY <1>2, FS_Subset, FS_CardinalityType
<1> QED BY <1>1, <1>3

\* Abandoning the innermost evaluations leaves calls nested.
LEMMA NestPrefix ==
  ASSUME NEW evals, CallsNest(evals), NEW m \in 0..Len(evals)
  PROVE  LET p == SubSeq(evals, 1, m)
         IN  /\ CallsNest(p) /\ Len(p) = m
             /\ \A i \in 1..m : p[i] = evals[i]
<1> DEFINE p == SubSeq(evals, 1, m)
<1>1. evals \in Seq(Evaluation) /\ Len(evals) \in Nat /\ m \in Nat
  BY DEF CallsNest
<1>2. p \in Seq(Evaluation) /\ Len(p) = m /\ \A i \in 1..m : p[i] = evals[i]
  BY <1>1, PrefixFacts
<1> HIDE DEF p
<1>3. ASSUME NEW i \in 1..m
      PROVE  /\ p[i].state \in Consuming \cup {"indexing"} => p[i].value \in Result
             /\ p[i].state \in Consuming => i = m
             /\ p[i].state # "handled" /\ p[i].use = "emitVStackReturn" => InCall(p, i)
  <2>1. i \in 1..Len(evals) /\ p[i] = evals[i]
    BY <1>1, <1>2
  <2>2. InCall(evals, i) => InCall(p, i)
    <3> SUFFICES ASSUME NEW j \in 1..(i - 1), evals[j].state = "call",
                        \A k \in (j + 1)..(i - 1) : evals[k].state = "handled"
                 PROVE  InCall(p, i)
      BY DEF InCall
    <3>1. j \in 1..m /\ \A k \in (j + 1)..(i - 1) : k \in 1..m
      BY <1>1
    <3> QED BY <3>1, <1>2 DEF InCall
  <2>3. i = Len(evals) => i = m
    BY <1>1
  <2> QED BY <2>1, <2>2, <2>3 DEF CallsNest
<1>4. CallsNest(p)
  BY <1>2, <1>3 DEF CallsNest
<1> QED BY <1>2, <1>4 DEF p

\* So does a step of the innermost evaluation.
LEMMA NestChangeLast ==
  ASSUME NEW evals, CallsNest(evals), NEW p \in Seq(Evaluation),
         Len(p) = Len(evals), Len(evals) > 0,
         \A i \in 1..(Len(evals) - 1) : p[i] = evals[i],
         evals[Len(evals)].state # "handled", p[Len(evals)].value \in Result,
         p[Len(evals)].use = evals[Len(evals)].use
  PROVE  CallsNest(p)
<1> DEFINE n == Len(evals)
<1>1. evals \in Seq(Evaluation) /\ n \in Nat /\ n > 0 /\ Len(p) = n
  BY DEF CallsNest
<1> HIDE DEF n
<1>2. ASSUME NEW i \in 1..n, InCall(evals, i) PROVE InCall(p, i)
  <2>1. PICK j \in 1..(i - 1) : /\ evals[j].state = "call"
                                /\ \A k \in (j + 1)..(i - 1) : evals[k].state = "handled"
    BY <1>2 DEF InCall
  <2>2. j \in 1..(n - 1) /\ \A k \in (j + 1)..(i - 1) : k \in 1..(n - 1)
    BY <1>1
  <2> QED BY <2>1, <2>2 DEF InCall, n
<1>3. ASSUME NEW i \in 1..n
      PROVE  /\ p[i].state \in Consuming \cup {"indexing"} => p[i].value \in Result
             /\ p[i].state \in Consuming => i = n
             /\ p[i].state # "handled" /\ p[i].use = "emitVStackReturn" => InCall(p, i)
  <2>1. CASE i = n
    BY <2>1, <1>2 DEF CallsNest, n
  <2>2. CASE i # n
    <3>1. p[i] = evals[i]
      BY <2>2, <1>1 DEF n
    <3> QED BY <3>1, <1>2 DEF CallsNest, n
  <2> QED BY <2>1, <2>2
<1> QED BY <1>1, <1>3 DEF CallsNest

\* So does entering a call or a handled sequence.
LEMMA NestAppend ==
  ASSUME NEW evals, CallsNest(evals), Owed(evals) = 0, NEW e \in Evaluation,
         e.state \in {"call", "handled"},
         e.state # "handled" /\ e.use = "emitVStackReturn" => InCallee(evals)
  PROVE  /\ CallsNest(Append(evals, e))
         /\ Owed(Append(evals, e)) = 0 /\ Indexing(Append(evals, e)) = Indexing(evals)
<1> DEFINE n == Len(evals)
           p == Append(evals, e)
<1>1. evals \in Seq(Evaluation) /\ n \in Nat
  BY DEF CallsNest
<1>2. /\ p \in Seq(Evaluation) /\ Len(p) = n + 1
      /\ p[n + 1] = e /\ \A i \in 1..n : p[i] = evals[i]
  BY <1>1
<1>3. \A i \in 1..n : evals[i].state \notin Consuming
  BY <1>1 DEF CallsNest, Owed, Consuming
<1>4. InCallee(evals) => InCall(evals, n + 1)
  <2> SUFFICES ASSUME InCallee(evals) PROVE InCall(evals, n + 1)
    OBVIOUS
  <2> DEFINE j == Enclosing(evals)
  <2>1. /\ j \in 0..n /\ j # 0 /\ evals[j].state = "call"
        /\ \A m \in (j + 1)..n : evals[m].state = "handled"
    BY <1>1, EnclosingFacts DEF InCallee
  <2> HIDE DEF j
  <2>2. j \in 1..((n + 1) - 1) /\ (n + 1) - 1 = n
    BY <2>1, <1>1
  <2> QED BY <2>1, <2>2 DEF InCall
<1> HIDE DEF n, p
<1>5. ASSUME NEW i \in 1..(n + 1), InCall(evals, i) PROVE InCall(p, i)
  <2>1. PICK j \in 1..(i - 1) : /\ evals[j].state = "call"
                                /\ \A k \in (j + 1)..(i - 1) : evals[k].state = "handled"
    BY <1>5 DEF InCall
  <2>2. j \in 1..n /\ \A k \in (j + 1)..(i - 1) : k \in 1..n
    BY <1>1
  <2> QED BY <2>1, <2>2, <1>2 DEF InCall
<1>6. ASSUME NEW i \in 1..(n + 1)
      PROVE  /\ p[i].state \in Consuming \cup {"indexing"} => p[i].value \in Result
             /\ p[i].state \in Consuming => i = n + 1
             /\ p[i].state # "handled" /\ p[i].use = "emitVStackReturn" => InCall(p, i)
  <2>1. CASE i = n + 1
    BY <2>1, <1>2, <1>4, <1>5 DEF Consuming
  <2>2. CASE i \in 1..n
    BY <2>2, <1>2, <1>3, <1>5 DEF CallsNest, n
  <2> QED BY <2>1, <2>2, <1>1
<1>7. CallsNest(p)
  BY <1>2, <1>6 DEF CallsNest
<1>8. Owed(p) = 0
  BY <1>1, <1>2 DEF Owed
<1>9. Indexing(p) = Indexing(evals)
  <2>1. p[n + 1].state # "indexing"
    BY <1>2
  <2>2. \A i \in 1..(n + 1) : i = n + 1 \/ i \in 1..n
    BY <1>1
  <2>3. \A i \in 1..n : i \in 1..(n + 1)
    BY <1>1
  <2> QED BY <2>1, <2>2, <2>3, <1>1, <1>2 DEF Indexing, n
<1> QED BY <1>7, <1>8, <1>9 DEF p

\* So does returning out of the handled sequences a function is in; the data held
\* by others does not move.
LEMMA ReturnsFacts ==
  ASSUME NEW evals, CallsNest(evals), InCallee(evals), NEW v \in Result,
         NEW state \in {"returning", "returned"}
  PROVE  LET p == Returns(evals, v, state)
         IN  /\ CallsNest(p) /\ Len(p) > 0 /\ Len(p) =< Len(evals)
             /\ p[Len(p)].state = state /\ p[Len(p)].value = v
             /\ Indexing(p) = Indexing(evals)
             /\ \A i \in Indexing(p) : p[i] = evals[i]
<1> DEFINE e == Enclosing(evals)
           n == Len(evals)
           q == SubSeq(evals, 1, e)
           r == SubSeq(evals, 1, e - 1)
           new == [evals[e] EXCEPT !.state = state, !.value = v]
           p == Returns(evals, v, state)
<1>1. /\ evals \in Seq(Evaluation) /\ n \in Nat
      /\ e \in 1..n /\ evals[e].state = "call" /\ evals[e] \in Evaluation
      /\ \A m \in (e + 1)..n : evals[m].state = "handled"
  BY EnclosingFacts DEF CallsNest, InCallee
<1>2. new \in Evaluation /\ new.use = evals[e].use /\ new.state = state /\ new.value = v
  BY <1>1 DEF Evaluation
<1>3. p = Append(r, new)
  BY DEF Returns
<1> HIDE DEF e, n, q, r, new, p
<1>4. CallsNest(q) /\ Len(q) = e /\ \A i \in 1..e : q[i] = evals[i]
  BY <1>1, NestPrefix DEF q, n
<1>5. r \in Seq(Evaluation) /\ Len(r) = e - 1 /\ \A i \in 1..(e - 1) : r[i] = evals[i]
  BY <1>1, PrefixFacts DEF r, n
<1>6. /\ p \in Seq(Evaluation) /\ Len(p) = e /\ p[e] = new
      /\ \A i \in 1..(e - 1) : p[i] = evals[i]
  BY <1>1, <1>2, <1>3, <1>5
<1>7. CallsNest(p)
  <2>1. \A i \in 1..(e - 1) : p[i] = q[i]
    BY <1>1, <1>4, <1>6
  <2>2. q[e] = evals[e] /\ e > 0
    BY <1>1, <1>4
  <2> QED BY <2>1, <2>2, <1>1, <1>2, <1>4, <1>6, NestChangeLast
<1>8. \A i \in 1..n : evals[i].state = "indexing" => i \in 1..(e - 1)
  BY <1>1
<1>9. \A i \in 1..(e - 1) : i \in 1..n /\ i \in 1..e
  BY <1>1
<1>10. \A i \in 1..e : p[i].state = "indexing" => i \in 1..(e - 1)
  BY <1>1, <1>2, <1>6
<1>11. Indexing(p) = Indexing(evals) /\ \A i \in Indexing(p) : p[i] = evals[i]
  BY <1>6, <1>8, <1>9, <1>10 DEF Indexing, n
<1> QED BY <1>1, <1>2, <1>6, <1>7, <1>11 DEF p, n

\* Steps that do not touch the vstack: what they abandon counts as lost.
LEMMA SameStack ==
  ASSUME NEW s, NEW c, NEW pos, NEW evals \in Seq(Evaluation), NEW n,
         StackInv(s, c, pos, evals, n), Owed(evals) = 0,
         NEW p \in Seq(Evaluation), Owed(p) = 0,
         Indexing(p) \subseteq Indexing(evals),
         \A i \in Indexing(p) : p[i] = evals[i]
  PROVE  StackInv(s, c, pos, p, n + Held(evals) - Held(p))
<1>1. /\ Held(p) \in Nat /\ Held(evals) \in Nat /\ Held(p) =< Held(evals)
  BY HeldFacts, FS_Subset
<1>2. n \in Nat /\ Len(c) = Held(evals) + n + 0
  BY DEF StackInv
<1>3. /\ n + Held(evals) - Held(p) \in Nat
      /\ Len(c) = Held(p) + (n + Held(evals) - Held(p)) + Owed(p)
  BY <1>1, <1>2
<1>4. OwnResult(s, c, p)
  BY DEF OwnResult, Owed
<1>5. HeldAt(s, c, pos, p)
  BY DEF HeldAt, StackInv
<1> QED BY <1>3, <1>4, <1>5 DEF StackInv

\* A push on top of everything that is held.
LEMMA PushStep ==
  ASSUME NEW s, NEW c, NEW pos, NEW evals \in Seq(Evaluation), NEW n,
         StackInv(s, c, pos, evals, n), NEW a \in malloc(s), NEW item,
         NEW p \in Seq(Evaluation), Owed(p) = Owed(evals) + 1,
         Indexing(p) = Indexing(evals),
         \A i \in Indexing(p) : p[i] = evals[i],
         OwnResult(_comma_vstack_push(s, a, item), Append(c, a), p)
  PROVE  StackInv(_comma_vstack_push(s, a, item), Append(c, a), pos, p, n)
<1> DEFINE t == _comma_vstack_push(s, a, item)
           d == Append(c, a)
           k == Len(c)
<1>1. /\ IsList(s, c) /\ c \in Seq(Address) /\ k \in Nat /\ n \in Nat
      /\ k = Held(evals) + n + Owed(evals)
      /\ a \in Address /\ \A i \in 1..k : c[i] \in DOMAIN s.heap
  BY DEF StackInv, IsList, malloc
<1>2. IsList(t, d) /\ \A b \in DOMAIN s.heap : t.heap[b] = s.heap[b]
  BY <1>1, PushList
<1>3. Len(d) = k + 1 /\ \A i \in 1..k : d[i] = c[i]
  BY <1>1
<1>4. Held(p) = Held(evals) /\ Held(p) \in Nat /\ Owed(evals) \in Nat
  BY HeldFacts DEF Owed
<1> HIDE DEF t, d, k
<1>5. \A i \in Indexing(p) : pos[i] \in 1..(k - Owed(evals))
  BY DEF StackInv, HeldAt, k
<1>6. k - Owed(evals) = Len(d) - Owed(p)
  BY <1>1, <1>3, <1>4
<1>7. \A i \in Indexing(p) : pos[i] \in 1..k
  BY <1>1, <1>4, <1>5
<1>8. \A i \in Indexing(p) : /\ d[pos[i]] = c[pos[i]]
                            /\ t.heap[d[pos[i]]].data = s.heap[c[pos[i]]].data
  BY <1>1, <1>2, <1>3, <1>7
<1>9. HeldAt(t, d, pos, p)
  BY <1>5, <1>6, <1>8 DEF HeldAt, StackInv
<1>10. Len(d) = Held(p) + n + Owed(p)
  BY <1>1, <1>3, <1>4
<1> QED BY <1>1, <1>2, <1>9, <1>10 DEF StackInv, t, d

\* A pop of an entry above everything that is still held.
LEMMA PopStep ==
  ASSUME NEW s, NEW c, NEW pos, NEW evals \in Seq(Evaluation), NEW n,
         StackInv(s, c, pos, evals, n), Len(c) > 0,
         NEW p \in Seq(Evaluation), Len(c) - 1 = Held(p) + n + Owed(p),
         Indexing(p) \subseteq Indexing(evals),
         \A i \in Indexing(p) : p[i] = evals[i] /\ pos[i] \in 1..(Len(c) - 1 - Owed(p)),
         OwnResult(_comma_vstack_pop(s), Front(c), p)
  PROVE  StackInv(_comma_vstack_pop(s), Front(c), pos, p, n)
<1> DEFINE t == _comma_vstack_pop(s)
           d == Front(c)
           k == Len(c)
<1>1. /\ IsList(s, c) /\ c \in Seq(Address) /\ k \in Nat /\ k > 0 /\ n \in Nat
  BY DEF StackInv, IsList
<1>2. IsList(t, d) /\ \A b \in DOMAIN t.heap : t.heap[b] = s.heap[b]
  BY <1>1, PopList
<1>3. Len(d) = k - 1 /\ \A i \in 1..(k - 1) : d[i] = c[i]
  BY <1>1, FrontFacts
<1>4. \A i \in 1..(k - 1) : d[i] \in DOMAIN t.heap
  BY <1>2, <1>3 DEF IsList
<1>5. Owed(p) \in Nat
  BY DEF Owed
<1> HIDE DEF t, d, k
<1>6. \A i \in Indexing(p) : pos[i] \in 1..(Len(d) - Owed(p)) /\ pos[i] \in 1..(k - 1)
  BY <1>1, <1>3, <1>5 DEF k
<1>7. \A i \in Indexing(p) : /\ d[pos[i]] = c[pos[i]]
                            /\ t.heap[d[pos[i]]].data = s.heap[c[pos[i]]].data
  BY <1>2, <1>3, <1>4, <1>6
<1>8. HeldAt(t, d, pos, p)
  BY <1>6, <1>7 DEF HeldAt, StackInv
<1>9. Len(d) = Held(p) + n + Owed(p)
  BY <1>3 DEF k
<1> QED BY <1>1, <1>2, <1>8, <1>9 DEF StackInv, t, d

\* Code that may call or raise has nothing to pop.
LEMMA RunningOwesNothing ==
  ASSUME pending \in Seq(Evaluation), Running
  PROVE  Owed(pending) = 0
BY DEF Running, Owed, Last

\* The end of the innermost evaluation.
LEMMA NestFront ==
  ASSUME NEW evals, CallsNest(evals), Len(evals) > 0
  PROVE  LET p == Front(evals)
         IN  /\ CallsNest(p) /\ Len(p) = Len(evals) - 1
             /\ \A i \in 1..(Len(evals) - 1) : p[i] = evals[i]
             /\ Owed(p) = 0
             /\ Indexing(p) = Indexing(evals) \ {Len(evals)}
<1> DEFINE n == Len(evals)
           p == Front(evals)
<1>1. n \in Nat /\ n > 0 /\ n - 1 \in 0..n
  BY DEF CallsNest
<1>2. CallsNest(p) /\ Len(p) = n - 1 /\ \A i \in 1..(n - 1) : p[i] = evals[i]
  BY <1>1, NestPrefix DEF Front
<1> HIDE DEF n, p
<1>3. \A i \in 1..(n - 1) : i \in 1..n /\ i # n
  BY <1>1
<1>4. \A i \in 1..(n - 1) : p[i].state \notin Consuming
  BY <1>2, <1>3 DEF CallsNest, n
<1>5. Owed(p) = 0
  BY <1>1, <1>2, <1>4 DEF Owed, Consuming
<1>6. \A i \in 1..n : i # n => i \in 1..(n - 1)
  BY <1>1
<1>7. Indexing(p) = Indexing(evals) \ {n}
  BY <1>2, <1>3, <1>6 DEF Indexing, n
<1> QED BY <1>2, <1>5, <1>7 DEF n, p

\* The innermost evaluation goes on to push its bounds or to copy its data.
LEMMA BecomesFacts ==
  ASSUME NEW evals, CallsNest(evals), Len(evals) > 0,
         evals[Len(evals)].state \in Consuming,
         NEW state \in {"returned", "copying"}
  PROVE  LET p == [evals EXCEPT ![Len(evals)].state = state]
         IN  /\ CallsNest(p) /\ Len(p) = Len(evals)
             /\ p[Len(p)].state = state /\ p[Len(p)].value = evals[Len(evals)].value
             /\ Indexing(p) = Indexing(evals)
             /\ \A i \in Indexing(p) : p[i] = evals[i]
<1> DEFINE n == Len(evals)
           new == [evals[n] EXCEPT !.state = state]
           p == [evals EXCEPT ![n] = new]
<1>1. /\ evals \in Seq(Evaluation) /\ n \in Nat /\ n > 0 /\ n \in 1..n
      /\ evals[n] \in Evaluation /\ evals[n].value \in Result
  BY DEF CallsNest
<1>2. /\ new \in Evaluation /\ new.use = evals[n].use /\ new.state = state
      /\ new.value = evals[n].value
  BY <1>1 DEF Evaluation, Consuming
<1> HIDE DEF new
<1>3. /\ p \in Seq(Evaluation) /\ Len(p) = n /\ p[n] = new
      /\ \A i \in 1..(n - 1) : p[i] = evals[i]
  BY <1>1, <1>2
<1> HIDE DEF p
<1>4. CallsNest(p)
  BY <1>1, <1>2, <1>3, NestChangeLast DEF Consuming
<1> HIDE DEF n
<1>5. \A i \in 1..n : i = n \/ i \in 1..(n - 1)
  BY <1>1
<1>6. p[n].state # "indexing" /\ evals[n].state # "indexing"
  BY <1>2, <1>3 DEF Consuming, n
<1>7. Indexing(p) = Indexing(evals) /\ \A i \in Indexing(p) : p[i] = evals[i]
  BY <1>3, <1>5, <1>6 DEF Indexing, n
<1> QED BY <1>2, <1>3, <1>4, <1>7 DEF p, new, n

\* The innermost evaluation starts to hold its data.
LEMMA BeginIndexFacts ==
  ASSUME NEW evals, CallsNest(evals), Len(evals) > 0,
         evals[Len(evals)].state = "returned", NEW ptr \in Int
  PROVE  LET n == Len(evals)
             p == [evals EXCEPT ![n] = [evals[n] EXCEPT !.state = "indexing", !.ptr = ptr]]
         IN  /\ CallsNest(p) /\ Len(p) = n
             /\ p[n].state = "indexing" /\ p[n].value = evals[n].value
             /\ p[n].ptr = ptr
             /\ Indexing(p) = Indexing(evals) \cup {n}
             /\ n \notin Indexing(evals)
             /\ \A i \in Indexing(evals) : p[i] = evals[i]
<1> DEFINE n == Len(evals)
           new == [evals[n] EXCEPT !.state = "indexing", !.ptr = ptr]
           p == [evals EXCEPT ![n] = new]
<1>1. /\ evals \in Seq(Evaluation) /\ n \in Nat /\ n > 0 /\ n \in 1..n
      /\ evals[n] \in Evaluation /\ evals[n].value \in Result
  BY DEF CallsNest, Consuming
<1>2. /\ new \in Evaluation /\ new.use = evals[n].use /\ new.state = "indexing"
      /\ new.value = evals[n].value /\ new.ptr = ptr
  BY <1>1 DEF Evaluation
<1> HIDE DEF new
<1>3. /\ p \in Seq(Evaluation) /\ Len(p) = n /\ p[n] = new
      /\ \A i \in 1..(n - 1) : p[i] = evals[i]
  BY <1>1, <1>2
<1> HIDE DEF p
<1>4. CallsNest(p)
  BY <1>1, <1>2, <1>3, NestChangeLast
<1> HIDE DEF n
<1>5. \A i \in 1..n : i = n \/ i \in 1..(n - 1)
  BY <1>1
<1>6. p[n].state = "indexing" /\ evals[n].state # "indexing"
  BY <1>2, <1>3 DEF n
<1>7. /\ Indexing(p) = Indexing(evals) \cup {n} /\ n \notin Indexing(evals)
      /\ \A i \in Indexing(evals) : p[i] = evals[i]
  BY <1>1, <1>3, <1>5, <1>6 DEF Indexing, n
<1> QED BY <1>2, <1>3, <1>4, <1>7 DEF n, p, new

\* The empty stack satisfies the invariant.
LEMMA InvInit == Init => Inv
<1> SUFFICES ASSUME Init PROVE Inv
  OBVIOUS
<1>1. pending = <<>> /\ lost = 0 /\ vs = EmptyStack
  BY DEF Init
<1>2. CallsNest(pending) /\ Owed(pending) = 0 /\ Indexing(pending) = {}
  BY <1>1 DEF CallsNest, Owed, Indexing
<1>3. Held(pending) = 0
  BY <1>2, HeldFacts, FS_EmptySet DEF CallsNest
<1>4. IsList(vs, <<>>)
  BY <1>1 DEF IsList, EmptyStack
<1>5. StackInv(vs, <<>>, <<>>, pending, lost)
  BY <1>1, <1>2, <1>3, <1>4 DEF StackInv, OwnResult, HeldAt
<1> QED BY <1>2, <1>5 DEF Inv

\* Every step preserves the invariant and is a push, a pop or a stutter of the
\* abstract stack.
LEMMA InvNext == Inv /\ [Next]_callVars => Inv' /\ [Stack!Next]_(Items(vs))
<1> SUFFICES ASSUME Inv, [Next]_callVars
             PROVE  Inv' /\ (Stack!Next \/ Items(vs)' = Items(vs))
  BY DEF Stack!Next
<1> USE DEF callVars
<1>0. CallsNest(pending) /\ pending \in Seq(Evaluation) /\ Len(pending) \in Nat
  BY DEF Inv, CallsNest
<1>1. PICK c, pos : StackInv(vs, c, pos, pending, lost)
  BY DEF Inv
<1>2. /\ IsList(vs, c) /\ c \in Seq(Address) /\ Len(c) \in Nat /\ lost \in Nat
      /\ Held(pending) \in Nat
      /\ Len(c) = Held(pending) + lost + Owed(pending)
  BY <1>0, <1>1, HeldFacts DEF StackInv, IsList
<1> DEFINE n == Len(pending)
<1>l. pending # <<>> => n > 0 /\ Last(pending) = pending[n] /\ n \in 1..n
  BY <1>0 DEF Last
<1>3. ASSUME UNCHANGED vs, CallsNest(pending'), Owed(pending) = 0, Owed(pending') = 0,
             Indexing(pending') \subseteq Indexing(pending),
             \A i \in Indexing(pending') : pending'[i] = pending[i],
             lost' = lost + Held(pending) - Held(pending')
      PROVE  Inv' /\ Items(vs)' = Items(vs)
  <2>1. pending' \in Seq(Evaluation)
    BY <1>3 DEF CallsNest
  <2>2. StackInv(vs, c, pos, pending', lost')
    BY <2>1, <1>0, <1>1, <1>3, SameStack
  <2> QED BY <2>2, <1>3 DEF Inv
<1>4. ASSUME NEW item \in Item, push(item), CallsNest(pending'), UNCHANGED lost,
             Owed(pending') = Owed(pending) + 1,
             Indexing(pending') = Indexing(pending),
             \A i \in Indexing(pending') : pending'[i] = pending[i],
             \A a \in malloc(vs) :
               OwnResult(_comma_vstack_push(vs, a, item), Append(c, a), pending')
      PROVE  Inv' /\ Stack!Next
  <2>1. pending' \in Seq(Evaluation)
    BY <1>4 DEF CallsNest
  <2>2. PICK a \in malloc(vs) : vs' = _comma_vstack_push(vs, a, item)
    BY <1>4 DEF push
  <2>3. StackInv(vs', Append(c, a), pos, pending', lost')
    BY <2>1, <2>2, <1>0, <1>1, <1>4, PushStep
  <2>4. Items(vs') = <<item>> \o Items(vs)
    BY <2>2, <1>2, ItemsPush
  <2> QED BY <2>3, <2>4, <1>4 DEF Inv, Stack!Next, Stack!Push
<1>5. ASSUME pop, Len(c) > 0, CallsNest(pending'), UNCHANGED lost,
             Len(c) - 1 = Held(pending') + lost + Owed(pending'),
             Indexing(pending') \subseteq Indexing(pending),
             \A i \in Indexing(pending') : /\ pending'[i] = pending[i]
                                          /\ pos[i] \in 1..(Len(c) - 1 - Owed(pending')),
             OwnResult(_comma_vstack_pop(vs), Front(c), pending')
      PROVE  Inv' /\ Stack!Next
  <2>1. pending' \in Seq(Evaluation) /\ vs' = _comma_vstack_pop(vs)
    BY <1>5 DEF CallsNest, pop
  <2>2. StackInv(vs', Front(c), pos, pending', lost')
    BY <2>1, <1>0, <1>1, <1>5, PopStep
  <2>3. Items(vs) # <<>> /\ Items(vs') = Tail(Items(vs))
    BY <2>1, <1>2, <1>5, ItemsPop
  <2> QED BY <2>2, <2>3, <1>5 DEF Inv, Stack!Next, Stack!Pop
<1>6. \A i \in Indexing(pending) : pos[i] \in 1..(Len(c) - Owed(pending))
  BY <1>1 DEF StackInv, HeldAt
<1>7. ASSUME NEW use \in Uses, emitSimpleCall(use)
      PROVE  Inv' /\ Items(vs)' = Items(vs)
  <2> DEFINE e == [state |-> "call", use |-> use, value |-> Unknown, ptr |-> 0]
  <2>1. e \in Evaluation /\ e.state = "call" /\ e.use = use
    BY DEF Evaluation
  <2>2. /\ pending' = Append(pending, e) /\ UNCHANGED <<vs, lost>> /\ Running
        /\ use = "emitVStackReturn" => InCallee(pending)
    BY <1>7 DEF emitSimpleCall
  <2> HIDE DEF e
  <2>3. Owed(pending) = 0
    BY <2>2, <1>0, RunningOwesNothing
  <2>4. CallsNest(pending') /\ Owed(pending') = 0 /\ Indexing(pending') = Indexing(pending)
    BY <2>1, <2>2, <2>3, <1>0, NestAppend
  <2>5. \A i \in Indexing(pending') : pending'[i] = pending[i]
    BY <2>2, <2>4, <1>0 DEF Indexing
  <2>6. lost' = lost + Held(pending) - Held(pending')
    <3>1. pending' \in Seq(Evaluation)
      BY <2>4 DEF CallsNest
    <3>2. Held(pending') = Held(pending)
      BY <3>1, <2>4, <1>0, HeldFacts
    <3> QED BY <2>2, <3>2, <1>2
  <2> QED BY <2>2, <2>3, <2>4, <2>5, <2>6, <1>3
<1>8. ASSUME enterHandled
      PROVE  Inv' /\ Items(vs)' = Items(vs)
  <2> DEFINE e == [state |-> "handled"]
  <2>1. e \in Evaluation /\ e.state = "handled"
    BY DEF Evaluation
  <2>2. pending' = Append(pending, e) /\ UNCHANGED <<vs, lost>> /\ Running
    BY <1>8 DEF enterHandled
  <2> HIDE DEF e
  <2>3. Owed(pending) = 0
    BY <2>2, <1>0, RunningOwesNothing
  <2>4. CallsNest(pending') /\ Owed(pending') = 0 /\ Indexing(pending') = Indexing(pending)
    <3>1. /\ CallsNest(Append(pending, e)) /\ Owed(Append(pending, e)) = 0
          /\ Indexing(Append(pending, e)) = Indexing(pending)
      BY <2>1, <2>3, <1>0, NestAppend
    <3> QED BY <3>1, <2>2
  <2>5. \A i \in Indexing(pending') : pending'[i] = pending[i]
    BY <2>2, <2>4, <1>0 DEF Indexing
  <2>6. lost' = lost + Held(pending) - Held(pending')
    <3>1. pending' \in Seq(Evaluation)
      BY <2>4 DEF CallsNest
    <3>2. Held(pending') = Held(pending)
      BY <3>1, <2>4, <1>0, HeldFacts
    <3> QED BY <2>2, <3>2, <1>2
  <2> QED BY <2>2, <2>3, <2>4, <2>5, <2>6, <1>3
<1>9. ASSUME leaveHandled
      PROVE  Inv' /\ Items(vs)' = Items(vs)
  <2>1. /\ n > 0 /\ pending[n].state = "handled" /\ pending' = Front(pending)
        /\ UNCHANGED <<vs, lost>>
    BY <1>9, <1>l DEF leaveHandled, At
  <2>2. Owed(pending) = 0 /\ n \notin Indexing(pending)
    BY <2>1, <1>0 DEF Owed, Indexing
  <2>3. /\ CallsNest(pending') /\ Owed(pending') = 0
        /\ Indexing(pending') = Indexing(pending)
        /\ \A i \in 1..(n - 1) : pending'[i] = pending[i]
        /\ Len(pending') = n - 1
    BY <2>1, <2>2, <1>0, NestFront
  <2>4. \A i \in Indexing(pending') : pending'[i] = pending[i]
    BY <2>3 DEF Indexing
  <2>5. lost' = lost + Held(pending) - Held(pending')
    BY <2>1, <2>3, <1>0, <1>2, HeldFacts DEF CallsNest
  <2> QED BY <2>1, <2>2, <2>3, <2>4, <2>5, <1>3
<1>10. ASSUME raise
       PROVE  Inv' /\ Items(vs)' = Items(vs)
  <2> DEFINE h == SelectLastInSeq(pending, LAMBDA e : e.state = "handled")
  <2>1. /\ h # 0 /\ Running /\ pending' = SubSeq(pending, 1, h - 1)
        /\ lost' = lost + (Held(pending) - Held(pending')) /\ UNCHANGED vs
    BY <1>10, Zenon DEF raise
  <2>2. h \in 0..n
    BY <1>0, LastHandled
  <2> HIDE DEF h
  <2>3. h - 1 \in 0..n /\ h - 1 < n
    BY <2>1, <2>2, <1>0
  <2>4. /\ CallsNest(pending') /\ Len(pending') = h - 1
        /\ \A i \in 1..(h - 1) : pending'[i] = pending[i]
    BY <2>1, <2>3, <1>0, NestPrefix
  <2>5. Owed(pending) = 0
    BY <2>1, <1>0, RunningOwesNothing
  <2>6. \A i \in 1..(h - 1) : i \in 1..n /\ i # n
    BY <2>3, <1>0
  <2>7. \A i \in 1..(h - 1) : pending'[i].state \notin Consuming
    BY <2>4, <2>6, <1>0 DEF CallsNest
  <2>8. Owed(pending') = 0
    BY <2>2, <2>3, <2>4, <2>7 DEF Owed, Consuming
  <2>9. /\ Indexing(pending') \subseteq Indexing(pending)
        /\ \A i \in Indexing(pending') : pending'[i] = pending[i]
    BY <2>4, <2>6 DEF Indexing
  <2>10. lost' = lost + Held(pending) - Held(pending')
    BY <2>1, <2>4, <1>2, HeldFacts DEF CallsNest
  <2> QED BY <2>1, <2>4, <2>5, <2>8, <2>9, <2>10, <1>3
<1>11. ASSUME NEW v \in Result, emitVStackReturn(v)
       PROVE  Inv' /\ Stack!Next
  <2>1. /\ Running /\ InCallee(pending) /\ push(Data(v)) /\ UNCHANGED lost
        /\ pending' = Returns(pending, v, "returning") /\ Data(v) \in Item
    BY <1>11, ItemAssumption DEF emitVStackReturn, FirstItem
  <2>2. Owed(pending) = 0
    BY <2>1, <1>0, RunningOwesNothing
  <2>3. /\ CallsNest(pending') /\ Len(pending') > 0
        /\ pending'[Len(pending')].state = "returning" /\ pending'[Len(pending')].value = v
        /\ Indexing(pending') = Indexing(pending)
        /\ \A i \in Indexing(pending') : pending'[i] = pending[i]
    BY <2>1, <1>0, ReturnsFacts
  <2>4. Owed(pending') = 1 /\ Owed(pending') = Owed(pending) + 1
    BY <2>2, <2>3 DEF Owed
  <2>5. ASSUME NEW a \in malloc(vs)
        PROVE  OwnResult(_comma_vstack_push(vs, a, Data(v)), Append(c, a), pending')
    <3>1. _comma_vstack_push(vs, a, Data(v)).heap[a].data = Data(v)
      BY <1>2, PushList
    <3>2. /\ Len(Append(c, a)) = Len(c) + 1 /\ Len(c) + 1 > 0
          /\ Append(c, a)[Len(c) + 1] = a
      BY <1>2 DEF malloc
    <3> QED BY <3>1, <3>2, <2>3 DEF OwnResult
  <2> QED BY <2>1, <2>3, <2>4, <2>5, <1>4
<1>12. ASSUME PushBounds
       PROVE  Inv' /\ Stack!Next
  <2> DEFINE v == pending[n].value
  <2>1. /\ n > 0 /\ pending[n].state = "returning" /\ n \in 1..n
        /\ push(Bounds(v)) /\ UNCHANGED lost
        /\ pending' = [pending EXCEPT ![n].state = "returned"]
    BY <1>12, <1>l DEF PushBounds, At, Becomes
  <2>2. v \in Result /\ Bounds(v) \in Item
    BY <2>1, <1>0, ItemAssumption DEF CallsNest, Consuming
  <2>3. /\ CallsNest(pending') /\ Len(pending') = n
        /\ pending'[n].state = "returned" /\ pending'[n].value = v
        /\ Indexing(pending') = Indexing(pending)
        /\ \A i \in Indexing(pending') : pending'[i] = pending[i]
    BY <2>1, <1>0, BecomesFacts DEF Consuming
  <2>4. Owed(pending') = Owed(pending) + 1
    BY <2>1, <2>3 DEF Owed
  <2>5. Len(c) > 0 /\ vs.heap[c[Len(c)]].data = Data(v)
    BY <2>1, <1>1 DEF StackInv, OwnResult
  <2>6. ASSUME NEW a \in malloc(vs)
        PROVE  OwnResult(_comma_vstack_push(vs, a, Bounds(v)), Append(c, a), pending')
    <3> DEFINE t == _comma_vstack_push(vs, a, Bounds(v))
               d == Append(c, a)
    <3>1. /\ t.heap[a].data = Bounds(v)
          /\ \A b \in DOMAIN vs.heap : t.heap[b] = vs.heap[b]
      BY <1>2, PushList
    <3>2. /\ Len(d) = Len(c) + 1 /\ d[Len(c) + 1] = a /\ d[Len(c)] = c[Len(c)]
          /\ c[Len(c)] \in DOMAIN vs.heap
      BY <1>2, <2>5 DEF malloc, IsList
    <3>3. Len(d) > 1 /\ Len(d) - 1 = Len(c)
      BY <3>2, <2>5, <1>2
    <3> HIDE DEF t, d
    <3>4. /\ t.heap[d[Len(d)]].data = Bounds(v)
          /\ t.heap[d[Len(d) - 1]].data = Data(v)
      BY <3>1, <3>2, <3>3, <2>5
    <3>5. OwnResult(t, d, pending')
      BY <3>3, <3>4, <2>3 DEF OwnResult
    <3> QED BY <3>5 DEF t, d
  <2> HIDE DEF v
  <2> QED BY <2>1, <2>2, <2>3, <2>4, <2>6, <1>4
<1>13. ASSUME PassOn
       PROVE  Inv' /\ Items(vs)' = Items(vs)
  <2> DEFINE v == pending[n].value
             p == Front(pending)
  <2>1. /\ n > 0 /\ n \in 1..n /\ pending[n].state = "returned"
        /\ pending[n].use = "emitVStackReturn"
        /\ pending' = Returns(p, v, "returned") /\ UNCHANGED <<vs, lost>>
    BY <1>13, <1>l DEF PassOn, Consume, At
  <2>2. v \in Result /\ InCall(pending, n)
    BY <2>1, <1>0 DEF CallsNest, Consuming
  <2>3. /\ CallsNest(p) /\ Len(p) = n - 1 /\ p \in Seq(Evaluation)
        /\ \A i \in 1..(n - 1) : p[i] = pending[i]
        /\ Indexing(p) = Indexing(pending)
    <3>1. n \notin Indexing(pending)
      BY <2>1 DEF Indexing
    <3>2. /\ CallsNest(p) /\ Len(p) = n - 1
          /\ \A i \in 1..(n - 1) : p[i] = pending[i]
          /\ Indexing(p) = Indexing(pending) \ {n}
      BY <2>1, <1>0, NestFront
    <3> HIDE DEF p
    <3> QED BY <3>1, <3>2 DEF CallsNest
  <2> HIDE DEF p
  <2>4. InCallee(p)
    <3>1. PICK j \in 1..(n - 1) : /\ pending[j].state = "call"
                                  /\ \A m \in (j + 1)..(n - 1) : pending[m].state = "handled"
      BY <2>2 DEF InCall
    <3>2. p[j].state = "call" /\ \A m \in (j + 1)..(n - 1) : p[m].state = "handled"
      <4>1. \A m \in (j + 1)..(n - 1) : m \in 1..(n - 1)
        BY <1>0
      <4> QED BY <3>1, <4>1, <2>3
    <3> DEFINE e == Enclosing(p)
    <3>3. /\ e \in 0..(n - 1) /\ (e # 0 => p[e].state # "handled")
          /\ \A m \in (e + 1)..(n - 1) : p[m].state = "handled"
      BY <2>3, EnclosingFacts
    <3> HIDE DEF e
    <3>4. e = j
      <4>1. ~(e < j)
        BY <3>2, <3>3, <1>0
      <4>2. ~(j < e)
        BY <3>2, <3>3, <1>0
      <4> QED BY <4>1, <4>2, <3>3, <1>0
    <3> QED BY <3>2, <3>4, <1>0 DEF InCallee, e
  <2>5. /\ CallsNest(pending') /\ Len(pending') > 0
        /\ pending'[Len(pending')].state = "returned" /\ pending'[Len(pending')].value = v
        /\ Indexing(pending') = Indexing(pending)
        /\ \A i \in Indexing(pending') : pending'[i] = p[i]
    BY <2>1, <2>2, <2>3, <2>4, ReturnsFacts
  <2>6. \A i \in Indexing(pending') : pending'[i] = pending[i]
    BY <2>3, <2>5 DEF Indexing
  <2>7. Owed(pending) = 2 /\ Owed(pending') = 2
    BY <2>1, <2>5 DEF Owed
  <2>8. Held(pending') = Held(pending)
    BY <2>5, <1>0, HeldFacts DEF CallsNest
  <2>9. OwnResult(vs, c, pending')
    BY <2>1, <2>5, <1>1 DEF OwnResult, StackInv
  <2>10. HeldAt(vs, c, pos, pending')
    BY <2>5, <2>6, <2>7, <1>1 DEF HeldAt, StackInv
  <2>11. StackInv(vs', c, pos, pending', lost')
    BY <2>1, <2>7, <2>8, <2>9, <2>10, <1>2 DEF StackInv
  <2> QED BY <2>1, <2>5, <2>11 DEF Inv
<1>14. ASSUME CopyBounds
       PROVE  Inv' /\ Stack!Next
  <2> DEFINE v == pending[n].value
  <2>1. /\ n > 0 /\ pending[n].state = "returned" /\ n \in 1..n
        /\ pop /\ UNCHANGED lost
        /\ pending' = [pending EXCEPT ![n].state = "copying"]
    BY <1>14, <1>l DEF CopyBounds, Consume, At, Becomes
  <2>2. /\ CallsNest(pending') /\ Len(pending') = n
        /\ pending'[n].state = "copying" /\ pending'[n].value = v
        /\ Indexing(pending') = Indexing(pending)
        /\ \A i \in Indexing(pending') : pending'[i] = pending[i]
    BY <2>1, <1>0, BecomesFacts DEF Consuming
  <2>3. Owed(pending') = 1 /\ Owed(pending) = 2
    BY <2>1, <2>2 DEF Owed
  <2>4. Held(pending') = Held(pending)
    BY <2>2, <1>0, HeldFacts DEF CallsNest
  <2>5. Len(c) > 1 /\ vs.heap[c[Len(c) - 1]].data = Data(v)
    BY <2>1, <1>1 DEF StackInv, OwnResult
  <2>6. /\ Len(c) - 1 = Held(pending') + lost + Owed(pending') /\ Len(c) > 0
        /\ Len(c) - Owed(pending) = Len(c) - 1 - Owed(pending')
    BY <2>3, <2>4, <2>5, <1>2
  <2>7. OwnResult(_comma_vstack_pop(vs), Front(c), pending')
    <3> DEFINE t == _comma_vstack_pop(vs)
               d == Front(c)
    <3>1. IsList(t, d) /\ \A b \in DOMAIN t.heap : t.heap[b] = vs.heap[b]
      BY <2>6, <1>2, PopList
    <3>2. /\ d \in Seq(Address) /\ Len(d) = Len(c) - 1
          /\ \A i \in 1..(Len(c) - 1) : d[i] = c[i]
      BY <2>6, <1>2, FrontFacts
    <3> HIDE DEF t, d
    <3>3. Len(d) > 0 /\ d[Len(d)] = c[Len(c) - 1] /\ Len(d) \in 1..Len(d)
      BY <3>2, <2>5, <1>2
    <3>4. d[Len(d)] \in DOMAIN t.heap
      BY <3>1, <3>3 DEF IsList
    <3>5. t.heap[d[Len(d)]].data = Data(v)
      BY <3>1, <3>3, <3>4, <2>5
    <3>6. OwnResult(t, d, pending')
      BY <3>3, <3>5, <2>2 DEF OwnResult
    <3> QED BY <3>6 DEF t, d
  <2>8. \A i \in Indexing(pending') : /\ pending'[i] = pending[i]
                                     /\ pos[i] \in 1..(Len(c) - 1 - Owed(pending'))
    BY <2>2, <2>6, <1>6
  <2> QED BY <2>1, <2>2, <2>6, <2>7, <2>8, <1>5
<1>15. ASSUME CopyData
       PROVE  Inv' /\ Stack!Next
  <2>1. /\ n > 0 /\ pending[n].state = "copying" /\ n \in 1..n
        /\ pop /\ UNCHANGED lost /\ pending' = Front(pending)
    BY <1>15, <1>l DEF CopyData, At
  <2>2. n \notin Indexing(pending)
    BY <2>1 DEF Indexing
  <2>3. /\ CallsNest(pending') /\ Len(pending') = n - 1 /\ Owed(pending') = 0
        /\ Indexing(pending') = Indexing(pending)
        /\ \A i \in 1..(n - 1) : pending'[i] = pending[i]
    BY <2>1, <2>2, <1>0, NestFront
  <2>4. Owed(pending) = 1
    BY <2>1 DEF Owed
  <2>5. Held(pending') = Held(pending)
    BY <2>3, <1>0, HeldFacts DEF CallsNest
  <2>6. /\ Len(c) - 1 = Held(pending') + lost + Owed(pending') /\ Len(c) > 0
        /\ Len(c) - Owed(pending) = Len(c) - 1 - Owed(pending')
    BY <2>3, <2>4, <2>5, <1>2
  <2>7. OwnResult(_comma_vstack_pop(vs), Front(c), pending')
    BY <2>3 DEF OwnResult, Owed
  <2>8. \A i \in Indexing(pending') : /\ pending'[i] = pending[i]
                                     /\ pos[i] \in 1..(Len(c) - 1 - Owed(pending'))
    <3>1. \A i \in Indexing(pending') : pending'[i] = pending[i]
      BY <2>3 DEF Indexing
    <3> QED BY <3>1, <2>3, <2>6, <1>6
  <2> QED BY <2>1, <2>3, <2>6, <2>7, <2>8, <1>5
<1>16. ASSUME EndIndex
       PROVE  Inv' /\ Stack!Next
  <2>1. /\ n > 0 /\ pending[n].state = "indexing" /\ n \in 1..n
        /\ pop /\ UNCHANGED lost /\ pending' = Front(pending)
    BY <1>16, <1>l DEF EndIndex, At
  <2>2. n \in Indexing(pending) /\ Owed(pending) = 0
    BY <2>1 DEF Indexing, Owed
  <2>3. /\ CallsNest(pending') /\ Len(pending') = n - 1 /\ Owed(pending') = 0
        /\ Indexing(pending') = Indexing(pending) \ {n}
        /\ \A i \in 1..(n - 1) : pending'[i] = pending[i]
    BY <2>1, <1>0, NestFront
  <2>4. Held(pending') = Held(pending) - 1
    <3>1. pending' \in Seq(Evaluation)
      BY <2>3 DEF CallsNest
    <3>2. Cardinality(Indexing(pending')) = Cardinality(Indexing(pending)) - 1
      BY <2>2, <2>3, <1>0, HeldFacts, FS_RemoveElement
    <3> QED BY <3>1, <3>2, <1>0, HeldFacts
  <2>5. pos[n] \in 1..Len(c)
    BY <2>2, <1>2, <1>6
  <2>6. Len(c) - 1 = Held(pending') + lost + Owed(pending') /\ Len(c) > 0
    BY <2>2, <2>3, <2>4, <2>5, <1>2
  <2>7. OwnResult(_comma_vstack_pop(vs), Front(c), pending')
    BY <2>3 DEF OwnResult, Owed
  <2>8. ASSUME NEW i \in Indexing(pending')
        PROVE  pending'[i] = pending[i] /\ pos[i] \in 1..(Len(c) - 1 - Owed(pending'))
    <3>1. pending'[i] = pending[i] /\ i < n /\ i \in Indexing(pending)
      BY <2>3, <1>0 DEF Indexing
    <3>2. pos[i] < pos[n] /\ pos[i] \in 1..Len(c)
      BY <3>1, <2>2, <1>1, <1>2, <1>6 DEF StackInv, HeldAt
    <3> QED BY <3>1, <3>2, <2>3, <2>5, <1>2
  <2> QED BY <2>1, <2>3, <2>6, <2>7, <2>8, <1>5
<1>17. ASSUME BeginIndex
       PROVE  Inv' /\ Stack!Next
  <2> DEFINE v == pending[n].value
             t == _comma_vstack_pop(vs)
             d == Front(c)
             k == Len(c)
             q == [i \in 1..n |-> IF i = n THEN k - 1 ELSE pos[i]]
  <2>1. /\ n > 0 /\ pending[n].state = "returned" /\ n \in 1..n
        /\ vs' = t /\ UNCHANGED lost
        /\ pending' = [pending EXCEPT ![n].state = "indexing", ![n].ptr = t.top]
    BY <1>17, <1>l DEF BeginIndex, Consume, At, PopBounds
  <2>2. /\ k > 1 /\ vs.heap[c[k - 1]].data = Data(v) /\ Owed(pending) = 2
        /\ k \in Nat /\ k > 0 /\ c[k - 1] \in Address
    BY <2>1, <1>1, <1>2 DEF StackInv, OwnResult, Owed
  <2>3. IsList(t, d) /\ \A b \in DOMAIN t.heap : t.heap[b] = vs.heap[b]
    BY <2>2, <1>2, PopList
  <2>4. d \in Seq(Address) /\ Len(d) = k - 1 /\ \A i \in 1..(k - 1) : d[i] = c[i]
    BY <2>2, <1>2, FrontFacts
  <2> HIDE DEF t, d, v, k
  <2>5. t.top = c[k - 1] + DataOffset /\ t.top \in Int
    <3>1. k - 1 # 0 /\ k - 1 \in 1..(k - 1)
      BY <2>2
    <3>2. t.top = c[k - 1] + DataOffset
      BY <2>3, <2>4, <3>1 DEF IsList
    <3>3. DataOffset \in Int /\ AddressSpace \in Int /\ \A a \in Address : a \in Int
      BY AddressAssumption
    <3> QED BY <2>2, <3>2, <3>3
  <2>6. /\ CallsNest(pending') /\ Len(pending') = n
        /\ pending'[n].state = "indexing" /\ pending'[n].value = v
        /\ pending'[n].ptr = t.top
        /\ Indexing(pending') = Indexing(pending) \cup {n}
        /\ n \notin Indexing(pending)
        /\ \A i \in Indexing(pending) : pending'[i] = pending[i]
    <3> DEFINE top == t.top
               p == [pending EXCEPT ![n] = [pending[n] EXCEPT !.state = "indexing", !.ptr = top]]
    <3>1. pending' = p
      BY <2>1
    <3> HIDE DEF top
    <3>2. /\ CallsNest(p) /\ Len(p) = n
          /\ p[n].state = "indexing" /\ p[n].value = pending[n].value
          /\ p[n].ptr = top
          /\ Indexing(p) = Indexing(pending) \cup {n}
          /\ n \notin Indexing(pending)
          /\ \A i \in Indexing(pending) : p[i] = pending[i]
      <4>1. top \in Int
        BY <2>5 DEF top
      <4> QED BY <4>1, <2>1, <1>0, BeginIndexFacts
    <3> HIDE DEF p
    <3> QED BY <3>1, <3>2 DEF v, top
  <2>7. Owed(pending') = 0
    BY <2>6 DEF Owed
  <2>8. Held(pending') = Held(pending) + 1
    <3>1. pending' \in Seq(Evaluation)
      BY <2>6 DEF CallsNest
    <3>2. Cardinality(Indexing(pending')) = Cardinality(Indexing(pending)) + 1
      BY <2>6, <1>0, HeldFacts, FS_AddElement
    <3> QED BY <3>1, <3>2, <1>0, HeldFacts
  <2>9. Len(d) = Held(pending') + lost' + Owed(pending')
    BY <2>1, <2>2, <2>4, <2>7, <2>8, <1>2 DEF k
  <2>10. OwnResult(t, d, pending')
    BY <2>6 DEF OwnResult
  <2>11. \A i \in 1..(k - 1) : d[i] \in DOMAIN t.heap /\ t.heap[d[i]].data = vs.heap[c[i]].data
    BY <2>3, <2>4 DEF IsList
  <2>12. /\ q[n] = k - 1 /\ k - 1 \in 1..(k - 1)
         /\ \A i \in Indexing(pending) : /\ q[i] = pos[i] /\ i < n
                                        /\ pos[i] \in 1..(k - 1) /\ pos[i] < k - 1
    <3>1. \A i \in Indexing(pending) : i \in 1..n /\ i # n
      BY <2>6 DEF Indexing
    <3>2. \A i \in Indexing(pending) : q[i] = pos[i] /\ i < n
      BY <3>1, <1>0
    <3>3. \A i \in Indexing(pending) : pos[i] \in 1..(k - 2)
      BY <2>2, <1>6 DEF k
    <3>4. \A x \in 1..(k - 2) : x \in 1..(k - 1) /\ x < k - 1
      BY <2>2
    <3>5. q[n] = k - 1 /\ k - 1 \in 1..(k - 1)
      BY <2>1, <2>2
    <3> HIDE DEF q
    <3> QED BY <3>2, <3>3, <3>4, <3>5
  <2> HIDE DEF q
  <2>13. HeldAt(t, d, q, pending')
    <3>1. ASSUME NEW i \in Indexing(pending')
          PROVE  /\ q[i] \in 1..(Len(d) - Owed(pending'))
                 /\ pending'[i].ptr = d[q[i]] + DataOffset
                 /\ t.heap[d[q[i]]].data = Data(pending'[i].value)
      <4>1. Len(d) - Owed(pending') = k - 1
        BY <2>2, <2>4, <2>7
      <4>2. CASE i = n
        BY <4>1, <4>2, <2>2, <2>4, <2>5, <2>6, <2>11, <2>12
      <4>3. CASE i \in Indexing(pending)
        <5>1. /\ pending[i].ptr = c[pos[i]] + DataOffset
              /\ vs.heap[c[pos[i]]].data = Data(pending[i].value)
          BY <4>3, <1>1 DEF StackInv, HeldAt
        <5> QED BY <4>1, <4>3, <5>1, <2>4, <2>6, <2>11, <2>12
      <4> QED BY <4>2, <4>3, <2>6
    <3>2. ASSUME NEW i \in Indexing(pending'), NEW j \in Indexing(pending'), i < j
          PROVE  q[i] < q[j]
      <4>1. i \in Indexing(pending)
        <5>1. i # n
          BY <3>2, <2>6, <1>0 DEF Indexing
        <5> QED BY <5>1, <2>6
      <4>2. CASE j = n
        BY <4>1, <4>2, <2>12
      <4>3. CASE j \in Indexing(pending)
        BY <3>2, <4>1, <4>3, <2>12, <1>1 DEF StackInv, HeldAt
      <4> QED BY <4>2, <4>3, <2>6
    <3> QED BY <3>1, <3>2 DEF HeldAt
  <2>14. StackInv(vs', d, q, pending', lost')
    BY <2>1, <2>3, <2>9, <2>10, <2>13, <1>2 DEF StackInv
  <2>15. Items(vs) # <<>> /\ Items(vs') = Tail(Items(vs))
    BY <2>1, <2>2, <1>2, ItemsPop DEF t, k
  <2> QED BY <2>6, <2>14, <2>15 DEF Inv, Stack!Next, Stack!Pop
<1>18. CASE UNCHANGED callVars
  BY <1>18 DEF Inv
<1>19. CASE Next
  BY <1>19, <1>7, <1>8, <1>9, <1>10, <1>11, <1>12, <1>13, <1>14, <1>15, <1>16, <1>17 DEF Next
<1> QED BY <1>18, <1>19

\* The invariant implies that results reach their callers.
LEMMA InvResults == Inv => ResultsReachTheirCallers
<1> SUFFICES ASSUME Inv PROVE ResultsReachTheirCallers
  OBVIOUS
<1>0. CallsNest(pending) /\ pending \in Seq(Evaluation) /\ Len(pending) \in Nat
  BY DEF Inv, CallsNest
<1>1. PICK c, pos : StackInv(vs, c, pos, pending, lost)
  BY DEF Inv
<1> DEFINE n == Len(pending)
           k == Len(c)
           t == _comma_vstack_pop(vs)
           d == Front(c)
<1>2. IsList(vs, c) /\ c \in Seq(Address) /\ k \in Nat
  BY <1>1 DEF StackInv, IsList
<1>3. pending # <<>> => n > 0 /\ Last(pending) = pending[n]
  BY <1>0 DEF Last
<1>4. k > 0 => vstack(vs) = vs.heap[c[k]].data
  BY <1>2, ListTop DEF vstack
<1>5. k > 1 => vstack(t) = vs.heap[c[k - 1]].data
  <2> SUFFICES ASSUME k > 1 PROVE vstack(t) = vs.heap[c[k - 1]].data
    OBVIOUS
  <2>0. Len(c) > 0
    BY <1>2
  <2>1. IsList(t, d) /\ \A b \in DOMAIN t.heap : t.heap[b] = vs.heap[b]
    BY <2>0, <1>2, PopList
  <2>2. Len(d) = k - 1 /\ \A i \in 1..(k - 1) : d[i] = c[i]
    BY <1>2, FrontFacts
  <2> HIDE DEF t, d, k
  <2>3. k - 1 \in 1..(k - 1) /\ k - 1 # 0
    BY <1>2
  <2>4. get_vstack_entry(t) = c[k - 1]
    BY <2>1, <2>2, <2>3, ListTop
  <2>5. c[k - 1] \in DOMAIN t.heap
    BY <2>1, <2>2, <2>3 DEF IsList
  <2> QED BY <2>1, <2>4, <2>5 DEF vstack
<1> HIDE DEF k, t, d
<1>6. At("returned") => /\ vstack(vs) = Bounds(Last(pending).value)
                       /\ vstack(t) = Data(Last(pending).value)
  <2> SUFFICES ASSUME At("returned")
               PROVE  /\ vstack(vs) = Bounds(Last(pending).value)
                      /\ vstack(t) = Data(Last(pending).value)
    OBVIOUS
  <2>1. n > 0 /\ Last(pending) = pending[n] /\ pending[n].state = "returned"
    BY <1>3 DEF At
  <2>2. /\ k > 1 /\ vs.heap[c[k]].data = Bounds(pending[n].value)
        /\ vs.heap[c[k - 1]].data = Data(pending[n].value)
    BY <1>1, <2>1 DEF StackInv, OwnResult, k
  <2>3. k > 0
    BY <2>2, <1>2
  <2> QED BY <2>1, <2>2, <2>3, <1>4, <1>5
<1>7. At("copying") => vstack(vs) = Data(Last(pending).value)
  <2> SUFFICES ASSUME At("copying") PROVE vstack(vs) = Data(Last(pending).value)
    OBVIOUS
  <2>1. n > 0 /\ Last(pending) = pending[n] /\ pending[n].state = "copying"
    BY <1>3 DEF At
  <2>2. k > 0 /\ vs.heap[c[k]].data = Data(pending[n].value)
    BY <1>1, <2>1 DEF StackInv, OwnResult, k
  <2> QED BY <2>1, <2>2, <1>4
<1>8. HeldDataStaysValid
  <2> SUFFICES ASSUME NEW i \in DOMAIN pending, pending[i].state = "indexing"
               PROVE  /\ pending[i].ptr - DataOffset \in DOMAIN vs.heap
                      /\ vs.heap[pending[i].ptr - DataOffset].data = Data(pending[i].value)
    BY DEF HeldDataStaysValid
  <2>1. i \in Indexing(pending)
    BY <1>0, SeqIsSegment DEF Indexing
  <2>2. /\ pos[i] \in 1..(k - Owed(pending))
        /\ pending[i].ptr = c[pos[i]] + DataOffset
        /\ vs.heap[c[pos[i]]].data = Data(pending[i].value)
    BY <2>1, <1>1 DEF StackInv, HeldAt, k
  <2>3. Owed(pending) \in Nat
    BY DEF Owed
  <2>4. pos[i] \in 1..k
    BY <2>2, <2>3, <1>2
  <2>5. c[pos[i]] \in DOMAIN vs.heap /\ c[pos[i]] \in Address
    BY <2>4, <1>2 DEF IsList, k
  <2>6. DataOffset \in Int /\ AddressSpace \in Int /\ \A a \in Address : a \in Int
    BY AddressAssumption
  <2>7. pending[i].ptr - DataOffset = c[pos[i]]
    BY <2>2, <2>5, <2>6
  <2> QED BY <2>2, <2>5, <2>7
<1> QED BY <1>6, <1>7, <1>8 DEF ResultsReachTheirCallers, ResultsOnTop, t

\* The invariant implies that all entries are accounted for.
LEMMA InvAccounts == Inv => EntriesAccounted
<1> SUFFICES ASSUME Inv PROVE EntriesAccounted
  OBVIOUS
<1>0. pending \in Seq(Evaluation) /\ Len(pending) \in Nat
  BY DEF Inv, CallsNest
<1>1. PICK c, pos : StackInv(vs, c, pos, pending, lost)
  BY DEF Inv
<1>2. ListIsIntact
  BY <1>1, ListItems DEF ListIsIntact, StackInv
<1>3. Cardinality(DOMAIN vs.heap) = Held(pending) + lost + Owed(pending)
  BY <1>1, ListSize DEF StackInv
<1>4. Owed(pending) = CASE At("returned") -> 2
                        [] At("returning") \/ At("copying") -> 1
                        [] OTHER -> 0
  BY <1>0 DEF Owed, At, Last
<1> QED BY <1>2, <1>3, <1>4 DEF EntriesAccounted

\* The invariant holds in every behaviour.
THEOREM Invariance == Spec => []Inv
<1>1. Inv /\ [Next]_callVars => Inv'
  BY InvNext
<1> QED BY InvInit, <1>1, PTL DEF Spec

\* A caller finds the bounds and the data of its own result on top of the vstack
\* (emitVStackCall, emitCallAllocator, PassOn), and the pointer emitIndexedArrayRef
\* keeps stays valid, whatever calls and exceptions happen in between.
THEOREM CallersFindResults == Spec => []ResultsReachTheirCallers
BY Invariance, InvResults, PTL

\* Every entry of crt_vstack.c that is not freed is in the list exactly once, and
\* is owed to an evaluation or was left behind by an exception.
THEOREM EntriesAreAccounted == Spec => []EntriesAccounted
BY Invariance, InvAccounts, PTL

\* The linked list of crt_vstack.c implements a last in, first out stack.
THEOREM ListRefinesStack == Spec => ImplementsStack
<1>1. Init => Stack!Init
  <2> SUFFICES ASSUME Init PROVE Items(vs) = <<>>
    BY DEF Stack!Init
  <2>1. vs = EmptyStack
    BY DEF Init
  <2>2. IsList(vs, <<>>)
    BY <2>1 DEF IsList, EmptyStack
  <2> QED BY <2>2, ListItems
<1>2. Inv /\ [Next]_callVars => [Stack!Next]_(Items(vs))
  BY InvNext
<1> QED BY Invariance, <1>1, <1>2, PTL DEF Spec, ImplementsStack, Stack!Spec
=============================================================================
