------------------------------- MODULE Lexer --------------------------------
(***************************************************************************)
(* The lexer (lib/parser/Lexer.cpp) over a text, with the lookahead of the   *)
(* parser on top of it (ParserBase): a cache of tokens, an index into it and *)
(* a stack of positions to come back to.  The scanning routines are          *)
(* operators from an offset to a result                                      *)
(*   [tok, pos, reports]                                                     *)
(* with the token, the offset of the stream behind it and the offsets of the *)
(* errors reported, in their order.  What lies behind the NUL that ends the  *)
(* buffer is arbitrary: one character of Stray, then NUL again.              *)
(***************************************************************************)
EXTENDS TextProvider

CONSTANTS
  tolower,      \* the letters, each with its lower case form
  Reserved,     \* the reserved words, as sequences of characters
  Texts,        \* the files
  Speculative,  \* those files that are also read with excursions and lookahead
  Stray,        \* what may lie behind the end of the buffer
  MaxExcursions \* bound on nested excursions

VARIABLES
  text, stray,  \* the file
  pos,          \* currentIter
  aborted,      \* scanningAborted
  errorCount,   \* the lexer's errors
  lv,           \* the line table of the TextProvider
  closed,       \* the TextProvider's buffer has been released
  failed,       \* an assertion of the TextProvider failed
  tokens, index, positionStack,  \* the cache of the lexer
  token, savedTokens,            \* the parser's current and saved tokens
  raw, stream   \* history: the number of tokens scanned, and all of them with
                \* their ends

lexer  == <<pos, aborted, errorCount, lv, failed, raw>>
cache  == <<tokens, index, positionStack>>
vars   == <<text, stray, lexer, closed, cache, token, savedTokens, stream>>

ASSUME TextsAssumption ==
  /\ Speculative \subseteq Texts
  /\ Stray /= {}
  /\ MaxExcursions \in Nat

Digits == {"0", "7"}
Escapes == {"\\", "\"", "'", "t", "n", "r", "b"}
Glyphs == {<<c>> : c \in {"(", ")", ";", ".", ":", ",", "=", "<", ">", "+", "-",
                          "*", "/", "&", "|"}}
          \cup {<<".", ".">>, <<":", "=">>, <<"=", ">">>, <<"<", "=">>, <<"<", ">">>,
                <<">", "=">>, <<"*", "*">>, <<"/", "=">>}

isDecimalDigit(c) == c \in Digits
isInitialIdentifierChar(c) == c \in DOMAIN tolower \cup {"%", "_"}
isInnerIdentifierChar(c) == isInitialIdentifierChar(c) \/ isDecimalDigit(c) \/ c = "?"
isWhitespace(c) == c \in {" ", TAB, LF}
-----------------------------------------------------------------------------
(* The stream of characters.  Carriage returns read as line feeds, alone or   *)
(* with the line feed behind them; ungetStream goes back one character, so    *)
(* that it may stop between the two.                                          *)
Limit == Len(text) + 2
CharAt(o) == IF o = Len(text) + 1 THEN stray ELSE At(text, o)

peekStream(o) == IF CharAt(o) = CR THEN LF ELSE CharAt(o)
readStream(o) == IF CharAt(o) = CR /\ CharAt(o + 1) = LF THEN o + 2 ELSE o + 1
ungetStream(o) == o - 1

(* The first offset from o on whose character is not one, or is one, of C. *)
Behind(o, C) == Min({i \in o .. Limit : peekStream(i) \notin C})
Seek(o, C)   == Min({i \in o .. Limit : peekStream(i) \in C})

Sub(start, end) == [i \in 1 .. end - start |-> CharAt(start + i - 1)]

Token(code, loc, rep) == [code |-> code, loc |-> loc, rep |-> rep]
EOT == Token("EOT", 0, <<>>)
Unused == Token("UNUSED_ID", 0, <<>>)
Result(code, start, rep, end, reports) ==
  [tok |-> Token(code, start, rep), pos |-> end, reports |-> reports]
Slice(code, start, end, rest, reports) ==
  Result(code, start, Sub(start, end), rest, reports)
-----------------------------------------------------------------------------
eatWhitespace(o) == Behind(o, {" ", TAB, LF})

AtComment(o) == peekStream(o) = "-" /\ peekStream(o + 1) = "-"
\* A mutant: a comment takes the character behind the newline as well.
eatPastNewline(o) == readStream(readStream(Seek(o + 1, {LF, NUL})))

(* The character that ends the comment is consumed, be it NUL. *)
eatComment(o) == readStream(Seek(o + 1, {LF, NUL}))

RECURSIVE skipBlanks(_)
skipBlanks(o) ==
  IF AtComment(eatWhitespace(o)) THEN skipBlanks(eatComment(eatWhitespace(o)))
                                 ELSE eatWhitespace(o)

(* diagnoseConsecutiveUnderscores takes the second character by value: the    *)
(* underscores are skipped, but consumeName goes on with the underscore it    *)
(* holds, and drops the character behind them unseen.                         *)
RECURSIVE consumeName(_, _, _, _)
consumeName(c1, o, buff, reports) ==
  LET name == Append(buff, IF c1 \in DOMAIN tolower THEN tolower[c1] ELSE c1)
      diagnoseConsecutiveUnderscores(c2, at) ==
        IF c1 = "_" /\ c2 = "_"
        THEN [at |-> Behind(at, {"_"}), reports |-> Append(reports, at)]
        ELSE [at |-> at, reports |-> reports]
      continue(c2, r) ==
        IF isInnerIdentifierChar(c2) THEN consumeName(c2, r.at, name, r.reports)
        ELSE [rep |-> name, pos |-> r.at, reports |-> r.reports]
      read(at) == continue(peekStream(at), diagnoseConsecutiveUnderscores(peekStream(at), at))
  IN  read(readStream(o))

Name(o) == consumeName(peekStream(o), o, <<>>, <<>>)

getTokenCode(name) == IF name \in Reserved \cup {<<"%">>} THEN "RESERVED" ELSE "IDENTIFIER"

scanName(o) ==
  LET emit(n) == Result(getTokenCode(n.rep), o, n.rep, n.pos, n.reports) IN emit(Name(o))

scanAttribute(o, loc) ==
  LET emit(n) == Result("ATTRIBUTE", loc, n.rep, n.pos, n.reports)
  IN  IF isInitialIdentifierChar(peekStream(o)) THEN emit(Name(o))
      ELSE Result("ATTRIBUTE", loc, <<>>, o, <<loc>>)

\* A mutant: glyphs of two characters are read one by one.
scanShortGlyph(o) == Result("GLYPH", o, Sub(o, o + 1), o + 1, <<>>)

AtGlyph(o) == <<peekStream(o)>> \in Glyphs
scanGlyph(o) ==
  LET pair == <<peekStream(o), peekStream(o + 1)>>
      end  == IF pair \in Glyphs THEN o + 2 ELSE o + 1
  IN  Result("GLYPH", o, Sub(o, end), end, <<>>)

(* Behind a backslash: an escape is consumed, and so is an illegal one, with  *)
(* an error; the end of the stream is left to scanString.                     *)
scanEscape(o) ==
  [pos     |-> IF peekStream(o) = NUL THEN o ELSE readStream(o),
   reports |-> IF peekStream(o) \in Escapes \cup {NUL} THEN <<>> ELSE <<o>>]

RECURSIVE StringFrom(_, _, _)
StringFrom(start, o, reports) ==
  LET resume(e) == StringFrom(start, e.pos, reports \o e.reports)
      end == readStream(o)
  IN  CASE peekStream(o) = "\\" -> resume(scanEscape(end))
        [] peekStream(o) \in {NUL, LF} -> Slice("STRING", start, end, end, Append(reports, start))
        [] peekStream(o) = "\"" -> Slice("STRING", start, end, end, reports)
        [] OTHER -> StringFrom(start, end, reports)
scanString(o) == StringFrom(o, o + 1, <<>>)
-----------------------------------------------------------------------------
(* A quote: a character literal, an empty one, the tick of a qualified        *)
(* expression or an attribute.  A left parenthesis between two quotes is a    *)
(* literal unless another quote stands two characters further on.             *)
scanCharacter(o) ==
  LET c   == peekStream(o + 1)
      end == readStream(o + 1)
  IN  CASE c = "'" -> Slice("CHARACTER", o, end, end, <<o>>)
        [] c /= "'" /\ peekStream(end) /= "'" ->
             IF peekStream(ungetStream(end)) = "("
             THEN Result("QUOTE", o, <<"'">>, ungetStream(end), <<>>)
             ELSE scanAttribute(ungetStream(end), o)
        [] c = "(" /\ peekStream(end) = "'"
           /\ CharAt(end + 1) /= NUL /\ CharAt(end + 2) = "'" ->
             Result("QUOTE", o, <<"'">>, ungetStream(end), <<>>)
        [] OTHER -> Slice("CHARACTER", o, readStream(end), readStream(end), <<>>)

(* A character that does not belong to a literal is put back: of a carriage   *)
(* return and its line feed, only the second half.                            *)
Reread(o) == ungetStream(readStream(o))

NumberCode(isReal) == IF isReal THEN "REAL" ELSE "INTEGER"

(* From an offset within the literal: digits and underscores, a decimal       *)
(* point, exponents.  A part that is malformed is reported and left out of    *)
(* the token.                                                                 *)
RECURSIVE NumberFrom(_, _, _, _)
NumberFrom(start, o, isReal, reports) ==
  LET c == peekStream(o)
      d == peekStream(o + 1)
      code == NumberCode(isReal)
      bad == Append(reports, start)
      exponent(e) ==           \* e: behind the optional sign
        IF isDecimalDigit(peekStream(e)) THEN NumberFrom(start, e, isReal, reports)
        ELSE Slice(code, start, o, e, bad)
      negative(e) == Slice("INTEGER", start, o, Behind(e, Digits \cup {"_"}), bad)
  IN  CASE isDecimalDigit(c) \/ c = "_" -> NumberFrom(start, o + 1, isReal, reports)
        [] c = "." /\ d = "." -> Slice(code, start, o, o, reports)
        [] c = "." /\ d /= "." /\ isReal -> Slice("REAL", start, o, o, bad)
        [] c = "." /\ d /= "." /\ ~isReal /\ ~isDecimalDigit(d) ->
             Slice("INTEGER", start, o, o + 1, bad)
        [] c = "." /\ ~isReal /\ isDecimalDigit(d) -> NumberFrom(start, o + 1, TRUE, reports)
        [] c \in {"e", "E"} /\ d = "-" /\ ~isReal -> negative(o + 2)
        [] c \in {"e", "E"} /\ (d = "+" \/ (d = "-" /\ isReal)) -> exponent(o + 2)
        [] c \in {"e", "E"} /\ d \notin {"+", "-"} -> exponent(o + 1)
        [] OTHER -> Slice(code, start, Reread(o), Reread(o), reports)

(* Leading zeros are reported and skipped, together with the first digit      *)
(* behind them; a literal of zeros alone is one zero.                         *)
scanNumeric(o) ==
  LET zeros == Behind(o + 1, {"0"})
  IN  IF ~ (peekStream(o) = "0" /\ isDecimalDigit(peekStream(o + 1)))
      THEN NumberFrom(o, o + 1, FALSE, <<>>)
      ELSE IF isDecimalDigit(peekStream(zeros))
           THEN NumberFrom(o, zeros + 1, FALSE, <<o>>)
           ELSE Slice("INTEGER", o, o + 1, zeros, <<o>>)
-----------------------------------------------------------------------------
(* scanToken.  An invalid character is reported and aborts the scan; the loop *)
(* then still skips white space and comments before it returns EOT.           *)
ScanAt(o) ==
  LET c == peekStream(o)
      aborts == [tok |-> EOT, pos |-> skipBlanks(readStream(o)), reports |-> <<o>>]
  IN  CASE c = NUL -> [tok |-> EOT, pos |-> o, reports |-> <<>>]
        [] isInitialIdentifierChar(c) -> scanName(o)
        [] AtGlyph(o) -> scanGlyph(o)
        [] c = "\"" -> scanString(o)
        [] isDecimalDigit(c) -> scanNumeric(o)
        [] c = "'" -> scanCharacter(o)
        [] OTHER -> aborts

Valid(c) == \/ c \in {NUL, "\"", "'"} \/ <<c>> \in Glyphs
            \/ isInitialIdentifierChar(c) \/ isDecimalDigit(c)

scanToken(o, stop) ==
  LET at(p) == IF stop THEN [tok |-> EOT, pos |-> p, reports |-> <<>>] ELSE ScanAt(p)
  IN  at(skipBlanks(o))

(* Each report asks the TextProvider for its line, which extends the table;   *)
(* the text of the line is then extracted from it.                            *)
RECURSIVE report(_, _)
report(table, locs) ==
  IF locs = <<>> THEN table
  ELSE report(extendLinevec(text, table, Head(locs)), Tail(locs))

(* The tokens of the whole text, as one pass of scanToken finds them. *)
RECURSIVE ScanAll(_)
ScanAll(o) ==
  LET from(r) == IF r.tok = EOT THEN <<>> ELSE <<r>> \o ScanAll(r.pos)
  IN  from(scanToken(o, FALSE))

Reportable(locs) == \A i \in 1..Len(locs) : Answers(text, lv, locs[i])

(* What a call of scanToken does to the lexer. *)
Scans(r) ==
  /\ pos' = r.pos
  /\ aborted' = (aborted \/ ~Valid(peekStream(skipBlanks(pos))))
  /\ errorCount' = errorCount + Len(r.reports)
  /\ failed' = ~Reportable(r.reports)
  /\ lv' = IF Reportable(r.reports) THEN report(lv, r.reports) ELSE lv
  /\ raw' = IF r.tok = EOT THEN raw ELSE raw + 1
-----------------------------------------------------------------------------
Open == ~closed /\ ~failed /\ token /= Unused

Init ==
  /\ text \in Texts /\ stray \in Stray
  /\ pos = 0 /\ aborted = FALSE /\ errorCount = 0 /\ raw = 0
  /\ lv = initializeLinevec /\ closed = FALSE /\ failed = FALSE
  /\ tokens = <<>> /\ index = 0 /\ positionStack = <<>> /\ savedTokens = <<>>
  /\ token = Unused /\ stream = <<>>

(* ParserBase::nextToken: Lexer::scan into the current token. *)
scan(keeps) ==
  IF index < Len(tokens)
  THEN /\ token' = tokens[index + 1]
       /\ index' = index + 1
       /\ UNCHANGED <<lexer, tokens>>
  ELSE \E r \in {scanToken(pos, aborted)} :
       /\ Scans(r)
       /\ token' = r.tok
       /\ IF keeps /\ r.tok /= EOT THEN tokens' = Append(tokens, r.tok) /\ index' = index + 1
          ELSE IF keeps THEN UNCHANGED <<tokens, index>>
          ELSE tokens' = <<>> /\ index' = 0

(* The parser is constructed and loads its first token. *)
ParserBase ==
  /\ token = Unused
  /\ scan(FALSE)
  /\ \E s \in {ScanAll(0)} : stream' = s
  /\ UNCHANGED <<text, stray, closed, positionStack, savedTokens>>

nextToken ==
  /\ Open
  /\ scan(positionStack /= <<>>)
  /\ UNCHANGED <<text, stray, closed, positionStack, savedTokens, stream>>

\* A mutant: the token looked at is not kept.
peekAndForget(n) ==
  IF index + n < Len(tokens) THEN UNCHANGED <<lexer, tokens>>
  ELSE \E r \in {scanToken(pos, aborted)} : Scans(r) /\ UNCHANGED tokens

(* ParserBase::peekToken: the token behind the current one, left in the cache. *)
peek(n) ==
  IF index + n < Len(tokens) THEN UNCHANGED <<lexer, tokens>>
  ELSE \E r \in {scanToken(pos, aborted)} :
       /\ Scans(r)
       /\ tokens' = IF r.tok = EOT THEN tokens ELSE Append(tokens, r.tok)

peekToken ==
  /\ Open /\ text \in Speculative
  /\ peek(0)
  /\ UNCHANGED <<text, stray, closed, index, positionStack, token, savedTokens, stream>>

beginExcursion ==
  /\ Open /\ text \in Speculative
  /\ Len(positionStack) < MaxExcursions
  /\ positionStack' = Append(positionStack, index)
  /\ savedTokens' = Append(savedTokens, token)
  /\ UNCHANGED <<text, stray, lexer, closed, tokens, index, token, stream>>

endExcursion ==
  /\ Open /\ positionStack /= <<>>
  /\ index' = Last(positionStack) /\ positionStack' = Front(positionStack)
  /\ token' = Last(savedTokens) /\ savedTokens' = Front(savedTokens)
  /\ UNCHANGED <<text, stray, lexer, closed, tokens, stream>>

(* The location of a token is looked up: by the report of an error at the     *)
(* current token, or later, for a declaration, by the type checker, and then   *)
(* also when the file has been closed.                                        *)
Locations == {stream[i].tok.loc : i \in 1..raw}

Locate(loc) ==
  /\ ~failed /\ text \in Speculative
  /\ failed' = (loc >= lv.max /\ (closed \/ ~MayExtend(text, loc)))
  /\ lv' = IF failed' THEN lv ELSE extendLinevec(text, lv, loc)
  /\ UNCHANGED <<text, stray, pos, aborted, errorCount, raw, closed, cache, token, savedTokens, stream>>

(* The driver closes the file when the parser is done with it, at EOT or where *)
(* a declaration could not be parsed; the line table is completed first, which *)
(* may run off the buffer.                                                     *)
close ==
  /\ Open /\ positionStack = <<>>
  /\ token = EOT \/ text \in Speculative
  /\ closed' = TRUE
  /\ failed' = ~MayFinish(text, lv)
  /\ lv' = IF MayFinish(text, lv) THEN finishLinevec(text, lv) ELSE lv
  /\ UNCHANGED <<text, stray, pos, aborted, errorCount, raw, cache, token, savedTokens, stream>>

Next ==
  \/ ParserBase \/ nextToken \/ peekToken \/ beginExcursion \/ endExcursion \/ close
  \/ \E loc \in Locations : Locate(loc)

Spec == Init /\ [][Next]_vars
-----------------------------------------------------------------------------
(* Where a token is in the stream, given its position in the cache. *)
Place(i, t) ==
  IF t = Unused THEN 0
  ELSE raw - Len(tokens) + i + (IF t = EOT THEN 1 ELSE 0)

Cursor == INSTANCE TokenCursor WITH
  EOT <- EOT, Unused <- Unused, token <- token,
  stream <- [i \in 1..Len(stream) |-> stream[i].tok],
  next <- Place(index, token),
  saved <- [i \in 1..Len(positionStack) |-> Place(positionStack[i], savedTokens[i])]

(* Lookahead and excursions are transparent: whatever has been cached, cleared *)
(* or read again, the parser moves over the tokens of the file one by one, and *)
(* an excursion puts it back on the token where it began (Lexer::scan, peek,   *)
(* beginExcursion, endExcursion).                                              *)
LookaheadIsTransparent == Cursor!Spec

(* The lazily built table answers with the line and the column counted on the  *)
(* text, in whatever order locations are asked for, and the line printed with  *)
(* a diagnostic, which only an open file can give, is that line; once the file *)
(* is closed every location is answered from the table (TextProvider::getLine, *)
(* getColumn, extract, close).  What a failed walk leaves behind is not asked. *)
LinesAreRight ==
  \A loc \in Locations :
    ~failed /\ loc < Len(text) =>
      /\ getSourceLocation(text, lv, loc) = Position(text, loc)
      /\ MayExtract(closed, lv, loc) => extract(lv, Position(text, loc)) = LineAt(text, loc)
      /\ closed => loc < lv.max

(* A file that ends with a newline and has no backslash is never scanned       *)
(* beyond its end, and no walk of the line table leaves it, whatever else is   *)
(* wrong with the file; the exception is that closing a file whose last line   *)
(* ends in a carriage return and a line feed may run off the buffer            *)
(* (ClosedFilesAreFinished).  Without the newline a comment or a string that   *)
(* is not closed, or a name that ends in two underscores, is read beyond the   *)
(* NUL of the buffer (Lexer::scanToken, TextProvider::extendLinevec).          *)
EndsInDosNewline == Len(text) > 1 /\ SubSeq(text, Len(text) - 1, Len(text)) = <<CR, LF>>
StaysInText ==
  text /= <<>> /\ Last(text) = LF /\ "\\" \notin Range(text) =>
    pos <= Len(text) /\ (failed => closed /\ EndsInDosNewline)

(* What TextProvider.h says of close: every location can still be looked up    *)
(* once the file, here any that is not empty, is closed.  The walk that        *)
(* completes the table misses the line feed of a final carriage return and     *)
(* line feed, and runs past the end of the buffer: as an invariant of MCLexer  *)
(* this is violated.                                                           *)
ClosedFilesAreFinished == closed /\ text /= <<>> => ~failed

(* The lexemes of the language, as doc/commaspec/lexstruct.xml has them and    *)
(* told without the scanner.  A name begins with a letter and goes on with     *)
(* letters, digits and underscores, no two of these in a row.                  *)
Letters == DOMAIN tolower
IsName(s) ==
  /\ s /= <<>> /\ s[1] \in Letters
  /\ \A i \in 2..Len(s) : /\ s[i] \in Letters \cup Digits \cup {"_"}
                          /\ <<s[i - 1], s[i]>> /= <<"_", "_">>

(* A number: an integer without leading zeros, in which underscores may stand, *)
(* then a fraction, then one exponent.  (The code, unlike the document, wants  *)
(* a digit on both sides of the point.)                                        *)
AllDigits(s) == s /= <<>> /\ Range(s) \subseteq Digits
IsInteger(s) ==
  /\ s /= <<>> /\ s[1] \in Digits /\ Range(s) \subseteq Digits \cup {"_"}
  /\ ~ (Len(s) > 1 /\ s[1] = "0" /\ s[2] \in Digits)
IsFraction(s) == s = <<>> \/ (s[1] = "." /\ AllDigits(Tail(s)))
IsExponent(s) ==
  s = <<>> \/ /\ s[1] \in {"e", "E"}
              /\ AllDigits(SubSeq(s, IF Len(s) > 1 /\ s[2] \in {"+", "-"} THEN 3 ELSE 2, Len(s)))
IsNumber(s) ==
  \E k \in 1..Len(s) : \E m \in k..Len(s) :
    /\ IsInteger(SubSeq(s, 1, k))
    /\ IsFraction(SubSeq(s, k + 1, m))
    /\ IsExponent(SubSeq(s, m + 1, Len(s)))

IsString(s) ==
  /\ Len(s) > 1 /\ s[1] = "\"" /\ LF \notin Range(s)
  /\ \A i \in 2..Len(s) : s[i] = "\"" <=> i = Len(s)

IsLexeme(s) ==
  \/ IsName(s) \/ IsNumber(s) \/ IsString(s) \/ s \in Glyphs \cup {<<"'">>}
  \/ Len(s) = 3 /\ s[1] = "'" /\ s[2] /= "'" /\ s[3] = "'"
  \/ Len(s) > 1 /\ s[1] = "'" /\ IsName(Tail(s))

IsBlank(a, b) ==
  \A k \in a .. b - 1 :
    \/ isWhitespace(At(text, k))
    \/ \E c \in a .. k : AtComment(c) /\ \A j \in c .. k : At(text, j) /= LF

(* The forms that the scanner takes and the document does not: a name that     *)
(* begins with an underscore or holds a question or percent mark; a number     *)
(* with a second exponent, a fraction behind its exponent, or underscores      *)
(* behind its point or exponent.                                               *)
LaxName(s) == s /= <<>> /\ (s[1] = "_" \/ Range(s) \cap {"?", "%"} /= {})
LaxNumber(s) ==
  /\ s /= <<>> /\ s[1] \in Digits
  /\ \E i \in 1..Len(s) : \E j \in i + 1..Len(s) :
       \/ s[i] \in {"e", "E"} /\ s[j] \in {"e", "E", ".", "_"}
       \/ s[i] = "." /\ s[j] = "_"
Lax(s) == LaxName(s) \/ LaxNumber(s) \/ (s /= <<>> /\ s[1] = "'" /\ LaxName(Tail(s)))

Lexeme(i) == Sub(stream[i].tok.loc, stream[i].pos)
ReadWithoutError ==
  closed /\ token = EOT /\ errorCount = 0 /\ pos = Len(text) /\ {CR, "\\"} \cap Range(text) = {}

(* The maximal match rule: a file read without an error is a sequence of       *)
(* lexemes, or of the forms above, with only white space and comments between  *)
(* them; and where none of those forms occurs, each is the longest lexeme that *)
(* starts where it starts, the tick of a qualified expression apart            *)
(* (Lexer::scanToken).  Left out are files with carriage returns, as a number  *)
(* in front of a DOS newline keeps the carriage return.                        *)
LexemesTileTheText ==
  ReadWithoutError =>
    LET strict == \A i \in 1..Len(stream) : ~Lax(Lexeme(i))
    IN  \A i \in 1..Len(stream) :
          /\ IsBlank(IF i = 1 THEN 0 ELSE stream[i - 1].pos, stream[i].tok.loc)
          /\ IsLexeme(Lexeme(i)) \/ Lax(Lexeme(i))
          /\ strict => \/ stream[i].tok.code = "QUOTE"
                       \/ \A e \in stream[i].pos + 1 .. Len(text) :
                            ~IsLexeme(Sub(stream[i].tok.loc, e))

(* What lexstruct.xml says of every program: a file read without an error      *)
(* consists of lexemes of its grammar.  The scanner accepts more: as an        *)
(* invariant of MCLexer this is violated.                                      *)
TokensAreLexemes ==
  ReadWithoutError => \A i \in 1..Len(stream) : IsLexeme(Lexeme(i))
=============================================================================
