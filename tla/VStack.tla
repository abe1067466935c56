------------------------------- MODULE VStack -------------------------------
(***************************************************************************)
(* lib/runtime/crt_vstack.c: the linked list of malloc'ed entries on which  *)
(* compiled code returns arrays of variable length.                         *)
(*                                                                          *)
(* The global _comma_vstack points at the data of the topmost entry, which  *)
(* lies DataOffset bytes behind the entry itself.  On the empty stack the   *)
(* pointer is null, and "the entry of" null is an address that wraps around *)
(* below zero; the list ends in that address and not in null.               *)
(***************************************************************************)
EXTENDS Integers, Sequences, FiniteSets, SequencesExt

CONSTANTS
  Item,         \* what the data of an entry can be
  Address,      \* where malloc can place an entry
  DataOffset,   \* offsetof(struct vstack_entry, data)
  AddressSpace  \* two to the width of a pointer

ASSUME AddressAssumption ==
  /\ DataOffset \in Nat \ {0} /\ AddressSpace \in Nat /\ DataOffset < AddressSpace
  \* malloc returns neither null nor a block that reaches the last address.
  /\ Address \subseteq 1..(AddressSpace - DataOffset - 1)

VARIABLE vs   \* heap: the entries malloc'ed and not freed; top: _comma_vstack

Entry == [prev: 0..(AddressSpace - 1), data: Item]
EmptyStack == [heap |-> [a \in {} |-> 0], top |-> 0]

\* Types, and the stack pointer is null or points at the data of an entry.
StackTypeOK ==
  /\ DOMAIN vs.heap \subseteq Address
  /\ \A a \in DOMAIN vs.heap : vs.heap[a] \in Entry
  /\ vs.top \in {0} \cup {a + DataOffset : a \in DOMAIN vs.heap}
-----------------------------------------------------------------------------
(* Pointer arithmetic is modulo the address space. *)

get_vstack_entry(s) == (s.top - DataOffset) % AddressSpace

\* _comma_vstack after set_vstack_entry(entry).
set_vstack_entry(entry) == (entry + DataOffset) % AddressSpace

\* Where malloc may place the next entry: also where one has been freed.
malloc(s) == Address \ DOMAIN s.heap

\* Mutant: the entry is made the top before it is linked to the old top.
push_swapped(s, a, item) ==
  [heap |-> [b \in DOMAIN s.heap \cup {a} |->
               IF b = a THEN [prev |-> a, data |-> item] ELSE s.heap[b]],
   top |-> set_vstack_entry(a)]

\* _comma_vstack_push, with the entry placed at a.
_comma_vstack_push(s, a, item) ==
  [heap |-> [b \in DOMAIN s.heap \cup {a} |->
               IF b = a THEN [prev |-> get_vstack_entry(s), data |-> item]
                        ELSE s.heap[b]],
   top |-> set_vstack_entry(a)]

\* Mutant: the popped entry is not freed.
pop_leaks(s) ==
  [heap |-> s.heap, top |-> set_vstack_entry(s.heap[get_vstack_entry(s)].prev)]

_comma_vstack_pop(s) ==
  LET entry == get_vstack_entry(s)
  IN  [heap |-> [b \in DOMAIN s.heap \ {entry} |-> s.heap[b]],
       top |-> set_vstack_entry(s.heap[entry].prev)]

\* The data the stack pointer gives access to (CommaRT::vstack).
vstack(s) == s.heap[get_vstack_entry(s)].data
-----------------------------------------------------------------------------
\* One call of the runtime.  Callers pop only what was pushed.
push(item) == \E a \in malloc(vs) : vs' = _comma_vstack_push(vs, a, item)
pop == vs' = _comma_vstack_pop(vs)
-----------------------------------------------------------------------------
(* Properties *)

\* One step down the list; the address the list ends in has none below it.
Below(s) ==
  [a \in 0..(AddressSpace - 1) |-> IF a \in DOMAIN s.heap THEN s.heap[a].prev ELSE a]

\* The addresses met on the way down, with the one the list ends in last.
Walk(s) ==
  LET walk[n \in 0..Cardinality(DOMAIN s.heap)] ==
        IF n = 0 THEN get_vstack_entry(s) ELSE Below(s)[walk[n - 1]]
  IN  [n \in 1..(Cardinality(DOMAIN s.heap) + 1) |-> walk[n - 1]]

\* The entries in front of that end, the topmost first.
Entries(s) ==
  LET addresses == Walk(s)
      entries == {n \in DOMAIN addresses : \A m \in 1..n : addresses[m] \in DOMAIN s.heap}
  IN  [n \in entries |-> addresses[n]]
Items(s) ==
  LET entries == Entries(s) IN [i \in DOMAIN entries |-> s.heap[entries[i]].data]

\* The list holds every entry not yet freed exactly once and ends where the
\* last pop makes the stack pointer null again, whatever addresses malloc
\* reuses.
ListIsIntact ==
  /\ LET entries == Entries(vs)
     IN  IsInjective(entries) /\ Range(entries) = DOMAIN vs.heap
  /\ set_vstack_entry(Last(Walk(vs))) = 0

Stack == INSTANCE ValueStack WITH items <- Items(vs)

\* The list is a stack: pops return what was pushed, last in first out.
ImplementsStack == Stack!Spec
=============================================================================
