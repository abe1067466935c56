---------------------------- MODULE TextProvider ----------------------------
(***************************************************************************)
(* The text of a source file and the table of its lines                    *)
(* (lib/basic/TextProvider.cpp).  A text is a sequence of characters; an    *)
(* offset counts from 0, as the code's do, and the character behind the     *)
(* last one is NUL.  The table is built lazily: lv.lines holds the offsets   *)
(* at which the lines met so far start, lv.max is maxLineIndex, the offset   *)
(* up to which the table answers without being extended.                    *)
(***************************************************************************)
EXTENDS Naturals, Integers, Sequences, SequencesExt, FiniteSetsExt

NUL == "nul"
CR  == "cr"
LF  == "lf"
FF  == "ff"
TAB == "tab"

At(text, o) == IF o < Len(text) THEN text[o + 1] ELSE NUL

\* A mutant: a carriage return and its line feed count as two.
startsAtEachBreak(text, o) == At(text, o - 1) \in {LF, FF, CR}

(* The line that starts at offset o: behind a line feed, a form feed or a     *)
(* carriage return, where a carriage return and a line feed count as one.     *)
StartsLine(text, o) ==
  \/ At(text, o - 1) \in {LF, FF}
  \/ At(text, o - 1) = CR /\ At(text, o) /= LF

initializeLinevec == [lines |-> <<0>>, max |-> 0]

(* extendLinevec walks from the last known line start and asserts that index  *)
(* lies in the buffer; it stops at index only if the walk, which takes a       *)
(* carriage return and its line feed in one step, meets it.                    *)
MayExtend(text, index) ==
  /\ index < Len(text)
  /\ ~ (index > 0 /\ At(text, index) = LF /\ At(text, index - 1) = CR)

(* What extendLinevec answers for: an index that the table covers, or one that *)
(* the walk meets.  For any other the walk leaves the buffer.                 *)
Answers(text, lv, index) ==
  index < Len(text) /\ (index < lv.max \/ MayExtend(text, index))

(* The starts up to index are pushed, then the start of the line behind it,   *)
(* or the end of the buffer where there is none.                              *)
extendLinevec(text, lv, index) ==
  IF index < lv.max THEN lv
  ELSE LET next == Min({o \in index + 1 .. Len(text) :
                          StartsLine(text, o) \/ o = Len(text)})
           new  == {o \in Last(lv.lines) + 1 .. index : StartsLine(text, o)}
       IN [lines |-> lv.lines \o SetToSortSeq(new, <) \o <<next>>, max |-> next]

(* close asks for the last character of the buffer.  Where that is the line    *)
(* feed of a carriage return and the table is not complete yet, the walk       *)
(* misses it; in an empty buffer there is none.                               *)
MayFinish(text, lv) == Len(text) > 0 /\ Answers(text, lv, Len(text) - 1)
finishLinevec(text, lv) == extendLinevec(text, lv, Len(text) - 1)

(* The binary search of getLine over the entries from..to of the table. *)
RECURSIVE SearchLine(_, _, _, _)
SearchLine(lines, loc, from, to) ==
  LET mid == (from + to) \div 2
  IN  IF lines[mid + 1] > loc THEN SearchLine(lines, loc, from, mid - 1)
      ELSE IF mid + 1 = Len(lines) THEN mid
      ELSE IF lines[mid + 2] <= loc THEN SearchLine(lines, loc, mid + 1, to)
      ELSE mid + 1

(* The line of loc, from 1, once the table covers it: extendLinevec answers   *)
(* with the length of the table before it pushes the next line.               *)
getLine(text, lv, loc) ==
  IF loc >= lv.max THEN Len(extendLinevec(text, lv, loc).lines) - 1
                   ELSE SearchLine(lv.lines, loc, 0, Len(lv.lines) - 1)

(* getSourceLocation asks for the line and then for the column; the second   *)
(* question finds the table extended by the first.                           *)
getColumn(text, lv, loc) ==
  LET start(known) == known.lines[getLine(text, known, loc)]
  IN  loc - start(extendLinevec(text, lv, loc))

getSourceLocation(text, lv, loc) ==
  [line |-> getLine(text, lv, loc), column |-> getColumn(text, lv, loc)]

(* The line of source text printed below a diagnostic, as a pair of offsets:  *)
(* to be asked of an open provider only, once the table covers the line.      *)
MayExtract(closed, lv, loc) == ~closed /\ loc < lv.max
extract(lv, sloc) == <<lv.lines[sloc.line], lv.lines[sloc.line + 1]>>
-----------------------------------------------------------------------------
(* What the table stands for: line and column counted on the text itself.  A  *)
(* line is broken by each line feed, each form feed and each carriage return   *)
(* that no line feed follows.                                                  *)
Breaks(text) == {o \in 0 .. Len(text) - 1 :
                   \/ text[o + 1] \in {LF, FF}
                   \/ text[o + 1] = CR /\ (o + 1 = Len(text) \/ text[o + 2] /= LF)}
LineStarts(text, loc) == {o + 1 : o \in {b \in Breaks(text) : b < loc}}
Position(text, loc) ==
  [line   |-> Cardinality(LineStarts(text, loc)) + 1,
   column |-> loc - Max({0} \cup LineStarts(text, loc))]

(* A line ends where the next one starts, or with the text. *)
LineAt(text, loc) ==
  << Max({0} \cup LineStarts(text, loc)),
     Min({Len(text)} \cup {b + 1 : b \in {k \in Breaks(text) : k >= loc}}) >>
=============================================================================
