-------------------------- MODULE HandledSequences --------------------------
(***************************************************************************)
(* The handled sequences of statements of a program, the stack of those     *)
(* under way, and the one among them that a raised exception must reach.    *)
(***************************************************************************)
EXTENDS Integers, Sequences, FiniteSets, SequencesExt

CONSTANTS
  Exception,      \* exception declarations (ExceptionDecl)
  Handled,        \* the handled statement sequences of the program
  handlers,       \* Handled -> the choices of each handler; none for others
  MaxActivations, \* bound: depth of calls
  MaxRegions      \* bound: handled sequences under way in one activation

ASSUME HandlersAssumption ==
  \A q \in Handled :
    /\ handlers[q] \in Seq(Seq(Exception)) /\ handlers[q] # <<>>
    /\ \A i \in 1..(Len(handlers[q]) - 1) : handlers[q][i] # <<>>

\* A handled sequence under way is a record: which one (seq), and whether it is
\* in its statements (handler = 0) or in one of its handlers.  An activation is
\* the sequence of those under way in it, outermost first.

\* HandlerStmt::handles and StmtSequence::handles.
Covers(q, i, e) == handlers[q][i] = <<>> \/ Contains(handlers[q][i], e)
Handles(q, e) == \E i \in DOMAIN handlers[q] : Covers(q, i, e)
FirstHandler(q, e) == SelectInSeq(handlers[q], LAMBDA h : h = <<>> \/ Contains(h, e))

\* The regions, in all activations, that handle e.
Catching(acts, e) ==
  {p \in UNION {{a} \X DOMAIN acts[a] : a \in DOMAIN acts} :
     acts[p[1]][p[2]].handler = 0 /\ Handles(acts[p[1]][p[2]].seq, e)}

Inside(p, o) == o[1] < p[1] \/ (o[1] = p[1] /\ o[2] =< p[2])

Innermost(places) == CHOOSE p \in places : \A o \in places : Inside(p, o)

\* Everything inside the handled sequence is abandoned.
CaughtBy(acts, p, handler) ==
  Append(SubSeq(acts, 1, p[1] - 1),
         Append(SubSeq(acts[p[1]], 1, p[2] - 1),
                [acts[p[1]][p[2]] EXCEPT !.handler = handler]))

AfterRaise(acts, e) ==
  LET places == Catching(acts, e)
      p == Innermost(places)
  IN  IF places = {} THEN <<>>
      ELSE CaughtBy(acts, p, FirstHandler(acts[p[1]][p[2]].seq, e))
=============================================================================
