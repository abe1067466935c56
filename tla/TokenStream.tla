----------------------------- MODULE TokenStream -----------------------------
(***************************************************************************)
(* The parser's view of its tokens: lib/parser/ParserBase.cpp, and the      *)
(* routines of Parser.cpp that skip tokens after an error.                  *)
(*                                                                          *)
(* A routine takes a parser state to the next one.  Its pos is the current  *)
(* token, its ok what the routine returned, and its err whether the parser  *)
(* has posted a diagnostic.                                                 *)
(***************************************************************************)
EXTENDS Integers, Sequences, FiniteSets, SequencesExt

CONSTANT Ident   \* identifiers; every other token is its own code

NoTag == "no tag"
EOT == "EOT"
Semi == ";"
Comma == ","

\* The words that the language reserves, and its glyphs.
Reserved ==
  {"abstract", "access", "all", "and", "array", "begin", "body", "declare", "digits", "else",
   "elsif", "end", "exception", "exit", "for", "function", "generic", "if", "in", "is", "limited",
   "loop", "mod", "new", "not", "null", "of", "or", "out", "others", "package", "raise", "pragma",
   "private", "procedure", "range", "record", "rem", "renames", "return", "reverse", "subtype",
   "then", "type", "use", "when", "while", "with", "xor",
   Comma, ":", ".", Semi, "%", "&", "*", "+", "-", "<", "=", ">", "'", "/", "|", "(", ")",
   "..", "=>", "<=", "<>", ">=", "/=", "**", ":="}

ASSUME IdentAssumption == NoTag \notin Ident /\ EOT \notin Ident /\ Ident \cap Reserved = {}

VARIABLE input   \* the tokens of the file

Positions == 1..(Len(input) + 1)
Code(i) == IF i \in DOMAIN input THEN input[i] ELSE EOT

At(s, codes) == Code(s.pos) \in codes
nextTokenIs(s, codes) == Code(s.pos + 1) \in codes

Valid(s) == [s EXCEPT !.ok = TRUE]
Invalid(s) == [s EXCEPT !.ok = FALSE]
report(s) == [s EXCEPT !.err = TRUE]
MoveTo(s, i) == [s EXCEPT !.pos = i]
-----------------------------------------------------------------------------
(* ParserBase *)

\* The lexer delivers the end of the text again and again.
Behind(i) == IF Code(i) = EOT THEN i ELSE i + 1
ignoreToken(s) == MoveTo(s, Behind(s.pos))

reduceToken(s, code) ==
  IF At(s, {code}) THEN Valid(ignoreToken(s)) ELSE Invalid(s)

requireToken(s, code) ==
  IF At(s, {code}) THEN Valid(ignoreToken(s)) ELSE Invalid(report(s))

\* The first position from i on that holds one of the codes or the end.
First(i, codes) == Min({j \in Positions : j >= i /\ Code(j) \in codes \cup {EOT}})

\* seekToken and seekTokens.
seekTokens(s, codes) ==
  LET i == First(s.pos, codes) IN [s EXCEPT !.pos = i, !.ok = Code(i) # EOT]

seekAndConsumeToken(s, code) == ignoreToken(seekTokens(s, {code}))

parseIdentifier(s) ==
  IF At(s, Ident) THEN Valid(ignoreToken(s)) ELSE Invalid(report(s))
-----------------------------------------------------------------------------
(* Recovery *)

\* A place in the file, and how many constructs are open there.
Nestings == [pos: Positions, depth: Nat \ {0}]
Nesting(i, depth) == [pos |-> i, depth |-> depth]

\* The parenthesis that closes one left open before i, or the end.
ClosingParen(i) ==
  LET closing[x \in Nestings] ==
        LET at(k) == CASE Code(k) = "(" -> closing[Nesting(k + 1, x.depth + 1)]
                       [] Code(k) = ")" /\ x.depth > 1 -> closing[Nesting(k + 1, x.depth - 1)]
                       [] OTHER -> k
        IN  at(First(x.pos, {"(", ")"}))
  IN  closing[Nesting(i, 1)]

seekCloseParen(s) ==
  LET i == ClosingParen(s.pos)
  IN  [ignoreToken(MoveTo(s, i)) EXCEPT !.ok = Code(i) # EOT]

\* A semicolon that is not inside parentheses.
seekSemi(s) ==
  LET semi[i \in Positions] ==
        LET j == First(i, {"(", Semi})
        IN  IF Code(j) = "(" THEN semi[ClosingParen(j + 1)] ELSE j
  IN  MoveTo(s, semi[s.pos])

seekNameEnd(s) ==
  LET nameEnd[i \in Positions] ==
        CASE Code(i) \in Ident -> nameEnd[i + 1]
          [] Code(i) = "(" -> nameEnd[Behind(ClosingParen(i + 1))]
          [] OTHER -> i
  IN  MoveTo(s, nameEnd[s.pos])

\* The tag behind the end at i.
EndTagAt(i) == IF Code(i + 1) \in Ident THEN Code(i + 1) ELSE NoTag

\* ok: an end with this tag is the current token.
seekEndTag(s, tag) ==
  LET ends == {i \in s.pos..Len(input) : Code(i) = "end" /\ EndTagAt(i) = tag}
  IN  IF ends = {} THEN Invalid(MoveTo(s, Len(input) + 1))
      ELSE Valid(MoveTo(s, CHOOSE i \in ends : \A k \in ends : i =< k))

\* Two tokens are consumed, also where no tag follows.
seekAndConsumeEndTag(s, tag) ==
  LET t == seekEndTag(s, tag) IN IF t.ok THEN ignoreToken(ignoreToken(t)) ELSE t

\* Mutant: an inner if is not counted.
seekNextEndIf(s) ==
  LET i == First(s.pos, {"end"}) IN ignoreToken(ignoreToken(MoveTo(s, i)))

\* Past the end if that matches an if already consumed.
seekEndIf(s) ==
  LET endIf[x \in Nestings] ==
        LET j == First(x.pos, {"if", "end"})
            closes == Code(j) = "end" /\ Code(j + 1) = "if"
        IN  CASE Code(j) = "if" -> endIf[Nesting(j + 1, x.depth + 1)]
              [] Code(j) = "end" /\ ~closes -> endIf[Nesting(j + 1, x.depth)]
              [] closes /\ x.depth > 1 -> endIf[Nesting(j + 2, x.depth - 1)]
              [] OTHER -> IF closes THEN j + 2 ELSE j
  IN  MoveTo(s, endIf[Nesting(s.pos, 1)])

\* Past an end loop.  With a tag the rest is left to the caller; without one
\* another token is consumed unless an identifier comes behind it.
PastEndLoop(j, tag) ==
  IF tag = NoTag /\ Code(j + 3) \notin Ident THEN Behind(j + 2) ELSE j + 2

seekEndLoop(s, tag) ==
  LET endLoop[x \in Nestings] ==
        LET j == First(x.pos, {"for", "while", "loop", "end"})
            header == Behind(First(j, {"loop"}))
            closes == Code(j) = "end" /\ Code(j + 1) = "loop"
        IN  CASE Code(j) \in {"for", "while"} -> endLoop[Nesting(header, x.depth + 1)]
              [] Code(j) = "loop" -> endLoop[Nesting(j + 1, x.depth + 1)]
              [] Code(j) = "end" /\ ~closes -> endLoop[Nesting(j + 1, x.depth)]
              [] closes /\ x.depth > 1 -> endLoop[Nesting(j + 2, x.depth - 1)]
              [] OTHER -> IF closes THEN PastEndLoop(j, tag) ELSE j
  IN  MoveTo(s, endLoop[Nesting(s.pos, 1)])
=============================================================================
