------------------------------- MODULE Parser -------------------------------
(***************************************************************************)
(* The recursive descent parser: lib/parser/Parser.cpp and ParseStmt.cpp,   *)
(* with the names of ParseName.cpp reduced to single identifiers.           *)
(*                                                                          *)
(* Routines that do not recurse are operators on a parser state.  The ones  *)
(* that do are actions: ctl holds the loops under way, outermost first, and *)
(* each iteration is a step.  The client (the type checker) may refuse what *)
(* it is given; open holds the contexts that its begin callbacks have       *)
(* opened and its end callbacks have not closed.                            *)
(***************************************************************************)
EXTENDS TokenStream

CONSTANTS
  Undeclared,  \* identifiers that the client refuses as names
  WellFormed,  \* files that follow the grammar
  Malformed    \* files that need not

\* No name is followed by a parenthesis, and none is an operator symbol.
Readable(text) == \A i \in DOMAIN text :
  /\ text[i] = "(" =>
       \/ i > 1 /\ text[i - 1] \in {"is", "array"}
       \/ /\ i > 2 /\ text[i - 2] \in {"procedure", "function", "pragma"}
          /\ i > 3 => text[i - 3] # "end"
  /\ text[i] = "mod" => i > 1 /\ text[i - 1] = "is"

ASSUME ParserAssumption ==
  /\ WellFormed \cup Malformed \subseteq Seq(STRING)
  /\ Undeclared \subseteq Ident /\ {"Assert", "Import"} \subseteq Ident
  /\ \A text \in WellFormed \cup Malformed : Readable(text)

VARIABLES
  st,   \* the parser state
  ctl   \* the routines under way

vars == <<input, st, ctl>>

Contexts == {"package", "definition", "subroutine body", "block", "handler", "loop"}
PackageParts == {"spec", "private part", "body"}
StatementParts == {"statements", "block", "handler", "if", "else", "loop"}
Kinds == PackageParts \cup StatementParts \cup
  {"context", "top level", "declarations", "definition end", "declare", "block end",
   "exception"}

\* A routine: the name of its construct, whether its do loop is still in the
\* first iteration, and for handlers whether others has been seen.
Routines == [kind: Kinds, tag: Ident \cup {NoTag}, first: BOOLEAN, others: BOOLEAN]
\* What the client refused, and the constructs abandoned at their headers.
Refusals == {"name", "subroutine", "package", "if", "loop", "handler"}
ParserStates == [pos: Positions, ok: BOOLEAN, err: BOOLEAN, refused: SUBSET Refusals,
                 tags: Seq(Ident), open: Seq(Contexts)]

\* tags is endTagStack.
TypeOK == st \in ParserStates /\ ctl \in Seq(Routines)
-----------------------------------------------------------------------------
(* Client callbacks *)

begin(s, context) == [s EXCEPT !.open = Append(@, context)]
end(s, context) ==
  IF s.open # <<>> /\ Last(s.open) = context THEN [s EXCEPT !.open = Front(@)] ELSE s

\* The client returns an invalid node, having posted a diagnostic of its own.
refuse(s, what) == [s EXCEPT !.ok = FALSE, !.refused = @ \cup {what}]
verdict(s, accepted, what) == IF accepted THEN Valid(s) ELSE refuse(s, what)
-----------------------------------------------------------------------------
(* Names and sequences of tokens *)

parseName(s) ==
  CASE At(s, Undeclared) -> refuse(ignoreToken(s), "name")
    [] At(s, Ident \ Undeclared) -> Valid(ignoreToken(s))
    [] OTHER -> Invalid(seekNameEnd(report(s)))

parseExpr(s) == IF At(s, {"null"}) THEN Valid(ignoreToken(s)) ELSE parseName(s)

parseItem(s, item) ==
  CASE item = "IDENTIFIER" -> parseIdentifier(s)
    [] item = "NAME" -> parseName(s)
    [] item = "EXPR" -> parseExpr(s)
    [] OTHER -> requireToken(s, item)

\* One item after the other, up to the first that is missing.
Phrase(s, items) ==
  LET after[i \in 0..Len(items)] ==
        CASE i > 0 /\ after[i - 1].ok -> parseItem(after[i - 1], items[i])
          [] i > 0 /\ ~after[i - 1].ok -> after[i - 1]
          [] OTHER -> Valid(s)
  IN  after[Len(items)]

\* What follows a phrase, if it is complete.
Then(s, Rest(_)) == IF s.ok THEN Rest(s) ELSE s

\* The usual recovery: on to the next semicolon.
OrSeekSemi(s) == IF s.ok THEN s ELSE Invalid(seekSemi(s))

\* On to one of the codes, unless the routine has succeeded.
OrSeek(s, codes) == IF s.ok THEN s ELSE seekTokens(s, codes)

PhraseToSemi(s, items) == OrSeekSemi(Phrase(s, items))
-----------------------------------------------------------------------------
(* Declarations *)

parseWithClause(s) == PhraseToSemi(s, <<"with", "IDENTIFIER", Semi>>)
parseUseDeclaration(s) == Phrase(s, <<"use", "NAME">>)

parseParameterMode(s) ==
  IF At(s, {"in"}) THEN reduceToken(ignoreToken(s), "out")
  ELSE LET t == reduceToken(s, "out")
       IN  IF t.ok /\ At(t, {"in"}) THEN ignoreToken(report(t)) ELSE t

parseSubroutineParameter(s) ==
  Then(Phrase(s, <<"IDENTIFIER", ":">>), LAMBDA t : parseName(parseParameterMode(t)))

\* The abandoned list is left one token behind its closing parenthesis.
parseSubroutineParameters(s) ==
  LET abandon(c) == IF c.ok THEN ignoreToken(c) ELSE c
      list[l \in ParserStates] ==
        LET at(t) == CASE At(t, {Semi}) -> list[ignoreToken(t)]
                       [] At(t, {Comma}) -> list[ignoreToken(report(t))]
                       [] At(t, {")"}) -> ignoreToken(t)
                       [] OTHER -> abandon(seekCloseParen(report(t)))
        IN  at(OrSeek(parseSubroutineParameter(l), {Semi, ")"}))
      empty == ignoreToken(ignoreToken(report(s)))
  IN  CASE ~At(s, {"("}) -> s
        [] At(s, {"("}) /\ nextTokenIs(s, {")"}) -> empty
        [] OTHER -> list[ignoreToken(s)]

\* The end of both declaration routines.  accepted: the client's verdict.
endSubroutineDeclaration(s, name, bodyFollows, accepted) ==
  verdict([s EXCEPT !.tags = IF bodyFollows THEN Append(@, name) ELSE @], accepted, "subroutine")

parseProcedureDeclaration(s, accepted) ==
  LET noReturn(p) == IF At(p, {"return"}) THEN seekTokens(report(p), {Semi, "is"}) ELSE p
      finish(t) == endSubroutineDeclaration(t, Code(s.pos + 1), At(t, {"is"}), accepted)
  IN  Then(Phrase(s, <<"procedure", "IDENTIFIER">>),
           LAMBDA t : finish(noReturn(parseSubroutineParameters(t))))

\* A missing "is" in front of a body is noticed by its "begin".
parseFunctionDeclaration(s, accepted) ==
  LET returnType(p) == IF At(p, {"return"}) THEN OrSeek(parseName(ignoreToken(p)), {Semi, "is"})
                                            ELSE report(p)
      finish(t) == endSubroutineDeclaration(t, Code(s.pos + 1), At(t, {"is", "begin"}), accepted)
  IN  Then(Phrase(s, <<"function", "IDENTIFIER">>),
           LAMBDA t : finish(returnType(parseSubroutineParameters(t))))

parseSubroutineDeclaration(s, accepted) ==
  IF At(s, {"function"}) THEN parseFunctionDeclaration(s, accepted)
                         ELSE parseProcedureDeclaration(s, accepted)

parseRange(s) == Phrase(s, <<"EXPR", "..", "EXPR">>)
parseIntegerRange(s) == PhraseToSemi(s, <<"range", "EXPR", "..", "EXPR">>)
parseModularInteger(s) == PhraseToSemi(s, <<"mod", "EXPR">>)
parseAccessTypeDecl(s) == Phrase(s, <<"access", "NAME">>)
parsePrivateTypeDecl(s) ==
  PhraseToSemi(IF At(s, {"limited"}) THEN ignoreToken(s) ELSE s, <<"private">>)

\* s.pos is behind the opening parenthesis.
parseEnumerationList(s) ==
  LET list[l \in ParserStates] ==
        LET t == parseIdentifier(l)
        IN  CASE t.ok /\ At(t, {Comma}) -> list[ignoreToken(t)]
              [] t.ok /\ ~At(t, {Comma}) -> requireToken(t, ")")
              [] OTHER -> seekCloseParen(t)
  IN  IF At(s, {")"}) THEN report(ignoreToken(s)) ELSE list[s]

\* A subtype mark is told from a range by the token behind it.
parseDSTDefinition(s, acceptDiamond) ==
  LET mark == At(s, Ident) /\ nextTokenIs(s, {"range", "loop", Comma, ")"})
      diamond(t) == IF acceptDiamond THEN t ELSE Invalid(report(t))
      range(n) == CASE ~At(n, {"range"}) -> n
                    [] At(n, {"range"}) /\ nextTokenIs(n, {"<>"}) ->
                         diamond(ignoreToken(ignoreToken(n)))
                    [] OTHER -> parseRange(ignoreToken(n))
  IN  IF mark THEN Then(parseName(s), range) ELSE parseRange(s)

\* ok: at least one index is valid, in the list one of those before l.
parseArrayIndexProfile(s) ==
  LET close(c) == IF c.ok THEN c ELSE seekCloseParen(c)
      list[l \in ParserStates] ==
        LET at(t, some) == IF At(t, {Comma}) THEN list[[ignoreToken(t) EXCEPT !.ok = some]]
                           ELSE [close(requireToken(t, ")")) EXCEPT !.ok = some]
            index(i) == at(OrSeek(i, {Comma, ")"}), l.ok \/ i.ok)
        IN  index(parseDSTDefinition(l, TRUE))
  IN  IF At(s, {")"}) THEN Invalid(report(ignoreToken(s))) ELSE list[Invalid(s)]

\* Without a parenthesis the declaration fails, and nothing is reported.
parseArrayTypeDecl(s) ==
  IF nextTokenIs(s, {"("})
  THEN OrSeekSemi(Then(parseArrayIndexProfile(ignoreToken(ignoreToken(s))),
                       LAMBDA t : Phrase(t, <<"of", "NAME">>)))
  ELSE Invalid(ignoreToken(s))

parseRecordTypeDecl(s) ==
  LET component(l) == IF At(l, {"null"}) THEN ignoreToken(l)
                      ELSE PhraseToSemi(l, <<"IDENTIFIER", ":", "NAME">>)
      list[l \in ParserStates] ==
        LET t == requireToken(component(l), Semi)
        IN  IF At(t, {"end", EOT}) THEN Phrase(t, <<"end", "record">>) ELSE list[t]
  IN  IF At(s, {"null"}) /\ nextTokenIs(s, {"record"})
      THEN Valid(ignoreToken(ignoreToken(s))) ELSE list[ignoreToken(s)]

parseType(s) ==
  LET definition(t) ==
        CASE At(t, {"("}) -> Valid(parseEnumerationList(ignoreToken(t)))
          [] At(t, {"range"}) -> parseIntegerRange(t)
          [] At(t, {"mod"}) -> parseModularInteger(t)
          [] At(t, {"array"}) -> parseArrayTypeDecl(t)
          [] At(t, {"record", "null"}) -> parseRecordTypeDecl(t)
          [] At(t, {"access"}) -> parseAccessTypeDecl(t)
          [] At(t, {"limited", "private"}) -> parsePrivateTypeDecl(t)
          [] OTHER -> OrSeekSemi(Invalid(report(t)))
  IN  Then(Phrase(s, <<"type", "IDENTIFIER">>),
           LAMBDA t : IF At(t, {Semi}) THEN t ELSE Then(requireToken(t, "is"), definition))

parseSubtype(s) ==
  LET constraint(t) ==
        IF At(t, {Semi}) THEN t ELSE Phrase(t, <<"range", "EXPR", "..", "EXPR">>)
  IN  OrSeekSemi(Then(Phrase(s, <<"subtype", "IDENTIFIER", "is", "NAME">>), constraint))

parseSubtypeIndication(s) ==
  Then(parseName(s),
       LAMBDA t : IF At(t, {"range"}) THEN parseRange(ignoreToken(t)) ELSE t)

\* Without the colon the semicolon is consumed as well.
parseObjectDeclaration(s) ==
  LET value(t) == CASE At(t, {"renames"}) -> parseName(ignoreToken(t))
                    [] At(t, {":="}) -> parseExpr(ignoreToken(t))
                    [] OTHER -> t
      object(t) == IF t.ok THEN t ELSE Invalid(seekTokens(t, {Semi}))
      rest(t) == IF t.ok THEN object(Then(parseSubtypeIndication(t), value))
                         ELSE Invalid(seekAndConsumeToken(t, Semi))
  IN  rest(Phrase(s, <<"IDENTIFIER", ":">>))

parsePragmaImport(s) ==
  LET t == Phrase(s, <<"(", "IDENTIFIER", Comma, "IDENTIFIER", Comma, "EXPR", ")">>)
  IN  IF t.ok \/ ~At(s, {"("}) THEN t ELSE seekCloseParen(t)

parseDeclarationPragma(s) ==
  LET t == Phrase(s, <<"pragma", "IDENTIFIER">>)
  IN  CASE ~t.ok -> t
        [] nextTokenIs(s, {"Import"}) -> parsePragmaImport(t)
        [] OTHER -> report(t)

\* accepted: what the client says of a subroutine.
parseDeclaration(s, accepted) ==
  CASE At(s, Ident) -> parseObjectDeclaration(s)
    [] At(s, {"function", "procedure"}) -> parseSubroutineDeclaration(s, accepted)
    [] At(s, {"use"}) -> parseUseDeclaration(s)
    [] At(s, {"type"}) -> parseType(s)
    [] At(s, {"subtype"}) -> parseSubtype(s)
    [] OTHER -> Invalid(seekTokens(report(s), {Semi}))
-----------------------------------------------------------------------------
(* End tags *)

\* Mutant: any tag will do.
AnyTag(s, tag) == IF At(s, Ident) THEN ignoreToken(s) ELSE s

\* The tag behind "end" or "end loop", where one is expected or not.
CheckTag(s, tag) ==
  CASE At(s, Ident \ {tag}) -> report(ignoreToken(s))
    [] tag # NoTag /\ At(s, {tag}) -> ignoreToken(s)
    [] tag # NoTag /\ ~At(s, Ident) -> report(s)
    [] OTHER -> s

\* ok: tokens were consumed.
parseEndTag(s, tag) ==
  Then(requireToken(s, "end"), LAMBDA t : Valid(CheckTag(t, tag)))
parseLoopEndTag(s, tag) ==
  Then(Phrase(s, <<"end", "loop">>), LAMBDA t : Valid(CheckTag(t, tag)))
-----------------------------------------------------------------------------
(* Statements that hold no others *)

parseReturnStmt(s) ==
  IF nextTokenIs(s, {Semi}) THEN ignoreToken(s) ELSE PhraseToSemi(s, <<"return", "EXPR">>)

parseExitStmt(s) ==
  LET t == IF nextTokenIs(s, Ident) THEN ignoreToken(ignoreToken(s)) ELSE ignoreToken(s)
  IN  IF At(t, {"when"}) THEN PhraseToSemi(t, <<"when", "EXPR">>) ELSE t

parseRaiseStmt(s) ==
  OrSeekSemi(Then(Phrase(s, <<"raise", "NAME">>),
    LAMBDA t : IF At(t, {"with"}) THEN Phrase(t, <<"with", "EXPR">>) ELSE t))

\* Inside the parentheses an error is followed by a search for ")", which is
\* left to be parsed.
parsePragmaAssert(s) ==
  LET condition == Phrase(s, <<"(", "EXPR">>)
      message(t) == IF At(t, {Comma}) THEN Phrase(t, <<Comma, "EXPR">>) ELSE t
      t == Then(Then(condition, message), LAMBDA u : requireToken(u, ")"))
  IN  CASE ~At(s, {"("}) -> seekSemi(t)
        [] t.ok -> t
        [] OTHER -> seekTokens(t, {")"})

parsePragmaStmt(s) ==
  LET t == Phrase(s, <<"pragma", "IDENTIFIER">>)
  IN  CASE ~t.ok -> seekSemi(t)
        [] nextTokenIs(s, {"Assert"}) -> parsePragmaAssert(t)
        [] OTHER -> seekSemi(report(t))

assignmentFollows(s) == At(seekNameEnd(s), {":="})

\* Whatever follows the target is taken for ":=".
parseAssignmentStmt(s) ==
  OrSeekSemi(Then(parseName(s), LAMBDA t : parseExpr(ignoreToken(t))))

taggedStmtFollows(s) == At(s, Ident) /\ nextTokenIs(s, {":"})

\* The tag of a statement, and the statement behind it.
Tag(s) == IF taggedStmtFollows(s) THEN Code(s.pos) ELSE NoTag
Untagged(s) == IF Tag(s) = NoTag THEN s ELSE ignoreToken(ignoreToken(s))

\* Mutant: the next semicolon is not sought.
requireSemi(s) == requireToken(s, Semi)

\* The end of parseStatement.
parseSemi(s) ==
  LET t == requireToken(s, Semi) IN IF t.ok THEN t ELSE seekAndConsumeToken(t, Semi)

parseSimpleStatement(s) ==
  CASE At(s, {"return"}) -> parseReturnStmt(s)
    [] At(s, {"exit"}) -> parseExitStmt(s)
    [] At(s, {"raise"}) -> parseRaiseStmt(s)
    [] At(s, {"pragma"}) -> parsePragmaStmt(s)
    [] At(s, {"null"}) -> ignoreToken(s)
    [] Tag(s) # NoTag -> seekSemi(report(Untagged(s)))
    [] assignmentFollows(s) -> parseAssignmentStmt(s)
    [] OTHER -> parseName(s)

\* What comes before the statements of a loop.
parseLoopHeader(s) ==
  CASE At(s, {"loop"}) -> Valid(ignoreToken(s))
    [] At(s, {"while"}) -> Phrase(s, <<"while", "EXPR", "loop">>)
    [] OTHER ->
         LET range(t) == parseDSTDefinition(IF At(t, {"reverse"}) THEN ignoreToken(t) ELSE t,
                                            FALSE)
         IN  Then(Then(Phrase(s, <<"for", "IDENTIFIER", "in">>), range),
                  LAMBDA t : requireToken(t, "loop"))

\* The choices of a handler up to "=>".
parseChoices(s) ==
  LET names[l \in ParserStates] ==
        LET t == parseName(l)
            bar == t.ok /\ At(t, {"|"})
        IN  CASE bar /\ ~nextTokenIs(t, {"others"}) -> names[ignoreToken(t)]
              [] bar /\ nextTokenIs(t, {"others"}) ->
                   Invalid(report(ignoreToken(ignoreToken(t))))
              [] OTHER -> t
  IN  Then(IF At(s, {"others"}) THEN Valid(ignoreToken(s)) ELSE names[s],
           LAMBDA t : requireToken(t, "=>"))
-----------------------------------------------------------------------------
(* The control stack *)

Top == Last(ctl)
Running(kinds) == ctl # <<>> /\ Top.kind \in kinds

Routine(kind, tag, first) == [kind |-> kind, tag |-> tag, first |-> first, others |-> FALSE]
Replaced(r) == Append(Front(ctl), r)
Proceed(kind) == Replaced([Top EXCEPT !.kind = kind, !.first = FALSE])
Again == Replaced([Top EXCEPT !.first = FALSE])
Call(r) == Append(Again, r)

\* The tokens at which a sequence of statements ends.
Terminators(kind) ==
  {"end", EOT} \cup CASE kind \in {"statements", "block"} -> {"exception"}
                      [] kind = "handler" -> {"when"}
                      [] kind = "if" -> {"else", "elsif"}
                      [] OTHER -> {}

\* Another statement is to be parsed, or the sequence is at its end.
Parsing == Running(StatementParts) /\ (Top.first \/ ~At(st, Terminators(Top.kind)))
Parsed(kind) == Running({kind}) /\ ~Parsing
Step(s, c) == st' = s /\ ctl' = c /\ UNCHANGED input

\* A statement with statements of its own returns to parseStatement.
Return(s) == Step(parseSemi(s), Front(ctl))
-----------------------------------------------------------------------------
(* parseStatement *)

parseStatement ==
  /\ Parsing /\ ~At(st, {"if"})
  /\ ~At(Untagged(st), {"while", "for", "loop", "declare", "begin"})
  /\ Step(parseSemi(parseSimpleStatement(st)), Again)

beginIfStmt ==
  /\ Parsing /\ At(st, {"if"})
  /\ LET t == Phrase(st, <<"if", "EXPR", "then">>)
     IN  IF t.ok THEN Step(t, Call(Routine("if", NoTag, TRUE)))
                 ELSE Step(parseSemi(seekEndIf(t)), Again)

\* acceptIfStmt or acceptElsifStmt, then what follows the statements.
endThenPart ==
  /\ Parsed("if")
  /\ \E accepted \in BOOLEAN :
       LET s == verdict(st, accepted, "if")
           t == Phrase(s, <<"elsif", "EXPR", "then">>)
       IN  CASE ~s.ok -> Return(seekEndIf(s))
             [] s.ok /\ At(s, {"elsif"}) ->
                  IF t.ok THEN Step(t, Replaced(Routine("if", NoTag, TRUE)))
                          ELSE Return(seekEndIf(t))
             [] s.ok /\ At(s, {"else"}) ->
                  Step(ignoreToken(s), Replaced(Routine("else", NoTag, TRUE)))
             [] OTHER -> Return(Phrase(s, <<"end", "if">>))

endElsePart == Parsed("else") /\ Return(Phrase(st, <<"end", "if">>))

beginLoop ==
  /\ Parsing /\ At(Untagged(st), {"while", "for", "loop"})
  /\ LET t == parseLoopHeader(Untagged(st))
     IN  IF t.ok THEN Step(begin(t, "loop"), Call(Routine("loop", Tag(st), TRUE)))
                 ELSE Step(parseSemi(seekEndLoop(refuse(t, "loop"), NoTag)), Again)

endLoop ==
  /\ Parsed("loop")
  /\ LET t == parseLoopEndTag(st, Top.tag)
     IN  Return(end(IF t.ok THEN t ELSE seekEndLoop(t, Top.tag), "loop"))

parseBlockStmt ==
  /\ Parsing /\ At(Untagged(st), {"declare", "begin"})
  /\ LET s == Untagged(st)
         kind == IF At(s, {"declare"}) THEN "declare" ELSE "block"
     IN  Step(begin(ignoreToken(s), "block"), Call(Routine(kind, Tag(st), FALSE)))

\* Mutant: the client is not told that the block is over.
forgetDeclarePart ==
  /\ Running({"declare"}) /\ At(st, {"begin", EOT})
  /\ LET t == requireToken(st, "begin")
     IN  IF t.ok THEN Step(t, Proceed("block"))
                 ELSE Return(seekAndConsumeEndTag(t, Top.tag))

endDeclarePart ==
  /\ Running({"declare"}) /\ At(st, {"begin", EOT})
  /\ LET t == requireToken(st, "begin")
     IN  IF t.ok THEN Step(t, Proceed("block"))
                 ELSE Return(seekAndConsumeEndTag(end(t, "block"), Top.tag))

\* The statements are over; the handlers, if any, come first, then the end.
endStatements(kind, context, after) ==
  /\ Parsed(kind)
  /\ LET t == end(st, context)
     IN  IF At(t, {"exception"})
         THEN Step(ignoreToken(t), Append(Proceed(after), Routine("exception", NoTag, FALSE)))
         ELSE Step(t, Proceed(after))

endBlockStmt == endStatements("block", "block", "block end")

parseBlockEnd ==
  /\ Running({"block end"})
  /\ LET t == parseEndTag(st, Top.tag)
     IN  Return(IF t.ok THEN t ELSE seekAndConsumeEndTag(t, Top.tag))
-----------------------------------------------------------------------------
(* parseExceptionStmt *)

\* A handler up to its statements; the client may refuse the choices.
beginHandlerStmt ==
  /\ Running({"exception"})
  /\ \E accepted \in BOOLEAN :
       LET w == requireToken(st, "when")
           t == IF w.ok /\ Top.others THEN Invalid(report(w)) ELSE Then(w, parseChoices)
           s == verdict(t, t.ok /\ accepted, "handler")
       IN  IF s.ok
           THEN Step(begin(s, "handler"),
                     Replaced([Routine("handler", NoTag, TRUE) EXCEPT !.others = At(w, {"others"})]))
           ELSE Step(seekTokens(s, {"end"}), Front(ctl))

endHandlerStmt ==
  /\ Parsed("handler")
  /\ Step(end(st, "handler"), IF At(st, {"when"}) THEN Proceed("exception") ELSE Front(ctl))
-----------------------------------------------------------------------------
(* Subroutine bodies *)

\* One declaration of a subroutine's or a block's declarative part.
parseDeclarationItem ==
  /\ \/ Running({"declarations"}) /\ ~At(st, {"begin", "end", EOT})
     \/ Running({"declare"}) /\ ~At(st, {"begin", EOT})
  /\ \E accepted \in BOOLEAN :
       Step(requireToken(parseDeclaration(st, accepted), Semi), ctl)

\* A body that ends in its declarative part goes straight to its end tag.
endDeclarations ==
  /\ Running({"declarations"}) /\ At(st, {"begin", "end", EOT})
  /\ IF At(st, {"end"})
     THEN Step(end(report(st), "subroutine body"), Proceed("definition end"))
     ELSE Step(requireToken(st, "begin"), Proceed("statements"))

endSubroutineBody == endStatements("statements", "subroutine body", "definition end")

\* The semicolon is required by parsePackageBody.
endSubroutineDefinition ==
  /\ Running({"definition end"})
  /\ LET t == parseEndTag([st EXCEPT !.tags = Front(@)], Last(st.tags))
     IN  Step(requireToken(end(t, "definition"), Semi), Front(ctl))
-----------------------------------------------------------------------------
(* Packages *)

\* A package is begun, unless the client refuses.
parsePackage ==
  /\ Running({"top level"}) /\ At(st, {"package"})
  /\ \E accepted \in BOOLEAN :
       LET isBody == nextTokenIs(st, {"body"})
           p == IF isBody THEN ignoreToken(ignoreToken(st)) ELSE ignoreToken(st)
           name == Code(p.pos)
           n == parseIdentifier(p)
           is == Then(n, LAMBDA t : requireToken(t, "is"))
           s == IF is.ok THEN verdict(is, accepted, "package") ELSE is
           kind == IF isBody THEN "body" ELSE "spec"
       IN  CASE ~n.ok -> Step(n, ctl)
             [] s.ok -> Step(begin(s, "package"), Append(ctl, Routine(kind, name, FALSE)))
             [] OTHER -> Step(reduceToken(seekAndConsumeEndTag(s, name), Semi), ctl)

parseBasicDeclarativeItem ==
  /\ Running({"spec", "private part"}) /\ At(st, {"function", "procedure", "type", "subtype"})
  /\ \E accepted \in BOOLEAN :
       LET t == OrSeek(parseDeclaration(st, accepted),
                       {"function", "procedure", "type", Semi, "end"})
       IN  Step(requireToken(t, Semi), ctl)

BodyItems == {"function", "procedure", "use", "type", "subtype", "pragma"}

\* Everything in a package body that has no body itself.
parseBodyItem ==
  /\ Running({"body"}) /\ At(st, BodyItems \ {"function", "procedure"})
  /\ LET t == IF At(st, {"pragma"}) THEN parseDeclarationPragma(st)
                                   ELSE parseDeclaration(st, TRUE)
     IN  Step(requireToken(t, Semi), ctl)

\* A subroutine that was refused is skipped, down to the end that carries the
\* tag on top of the stack.  The top of an empty stack may be anything.
skipDefinition(s) ==
  LET t == seekTokens(s, {Semi, "is"})
  IN  IF ~At(t, {"is"}) THEN {t}
      ELSE {seekAndConsumeEndTag([t EXCEPT !.tags = IF @ = <<>> THEN @ ELSE Front(@)], tag) :
              tag \in IF t.tags = <<>> THEN Ident \cup {NoTag} ELSE {Last(t.tags)}}

\* parseFunctionDeclOrDefinition and parseProcedureDeclOrDefinition.
parseDeclOrDefinition ==
  /\ Running({"body"}) /\ At(st, {"function", "procedure"})
  /\ \E accepted \in BOOLEAN : \E s \in {parseSubroutineDeclaration(st, accepted)} :
       LET context == begin(begin(ignoreToken(s), "definition"), "subroutine body")
           noBody == IF At(st, {"function"}) /\ ~At(s, {Semi}) THEN report(s) ELSE s
       IN  CASE ~s.ok -> \E t \in skipDefinition(s) : Step(requireToken(t, Semi), ctl)
             [] s.ok /\ At(s, {"is"}) ->
                  Step(context, Append(ctl, Routine("declarations", Code(st.pos + 1), FALSE)))
             [] OTHER -> Step(requireToken(noBody, Semi), ctl)

beginPackagePrivatePart ==
  /\ Running({"spec"}) /\ At(st, {"private"})
  /\ Step(ignoreToken(st), Proceed("private part"))

endPackage ==
  /\ \/ Running({"spec"}) /\ ~At(st, {"function", "procedure", "type", "subtype", "private"})
     \/ Running({"private part"}) /\ ~At(st, {"function", "procedure", "type", "subtype"})
     \/ Running({"body"}) /\ ~At(st, BodyItems)
  /\ LET t == parseEndTag(end(st, "package"), Top.tag)
     IN  Step(IF t.ok THEN requireToken(t, Semi)
                      ELSE seekTokens(t, {"package", "procedure", "function"}), Front(ctl))
-----------------------------------------------------------------------------
(* parseCompilationUnit *)

parseContext ==
  /\ Running({"context"})
  /\ IF At(st, {"with"}) THEN Step(parseWithClause(st), ctl) ELSE Step(st, Proceed("top level"))

\* Nothing is recovered at the top level.
parseTopLevelEnd ==
  /\ Running({"top level"}) /\ ~At(st, {"package"})
  /\ Step(IF At(st, {EOT}) THEN st ELSE report(st), <<>>)

Done == ctl = <<>>
Finished == Done /\ UNCHANGED vars
-----------------------------------------------------------------------------
Init ==
  /\ input \in WellFormed \cup Malformed
  /\ st = [pos |-> 1, ok |-> TRUE, err |-> FALSE, refused |-> {}, tags |-> <<>>, open |-> <<>>]
  /\ ctl = <<Routine("context", NoTag, FALSE)>>

Next ==
  \/ parseStatement \/ beginIfStmt \/ endThenPart \/ endElsePart
  \/ beginLoop \/ endLoop
  \/ parseBlockStmt \/ endDeclarePart \/ endBlockStmt \/ parseBlockEnd
  \/ beginHandlerStmt \/ endHandlerStmt
  \/ parseDeclarationItem \/ endDeclarations \/ endSubroutineBody \/ endSubroutineDefinition
  \/ parsePackage \/ parseBasicDeclarativeItem \/ parseBodyItem \/ parseDeclOrDefinition
  \/ beginPackagePrivatePart \/ endPackage
  \/ parseContext \/ parseTopLevelEnd
  \/ Finished

Spec == Init /\ [][Next]_vars
-----------------------------------------------------------------------------
(* Properties *)

ContextsOf(kind) ==
  CASE kind \in PackageParts -> <<"package">>
    [] kind \in {"declarations", "statements"} -> <<"definition", "subroutine body">>
    [] kind = "definition end" -> <<"definition">>
    [] kind \in {"declare", "block"} -> <<"block">>
    [] kind \in {"handler", "loop"} -> <<kind>>
    [] OTHER -> <<>>

\* Whatever the text and whatever the client refuses, the client's begin and
\* end callbacks are nested like the constructs being parsed: no error path
\* leaves a scope of the type checker open or closes one that is not its own.
ClientCallsNest == st.open = FlattenSeq([i \in DOMAIN ctl |-> ContextsOf(ctl[i].kind)])

\* Where the body of a subroutine ends, the stack of end tags is not empty:
\* whatever was refused or skipped before, no tag has been taken twice.
EndTagAtHand == Running({"definition end"}) => st.tags # <<>>

TagAfter(i) == IF Code(i) \in Ident THEN Code(i) ELSE NoTag
TagBefore(i) == IF Code(i - 1) = ":" THEN Code(i - 2) ELSE NoTag

\* The constructs open after token i, if those in open are before it.
OpenAfter(i, open) ==
  LET innermost == IF open = <<>> THEN <<"none", NoTag>> ELSE Last(open)
      push(kind, tag) == Append(open, <<kind, tag>>)
      becomes(kind) == Append(Front(open), <<kind, innermost[2]>>)
      subroutine == Code(1 + CHOOSE j \in 1..i :
                           /\ Code(j) \in {"procedure", "function"}
                           /\ \A k \in (j + 1)..i : Code(k) \notin {"procedure", "function"})
      closes == CASE innermost[1] = "if" -> Code(i + 1) = "if"
                  [] innermost[1] = "record" -> Code(i + 1) = "record"
                  [] innermost[1] = "loop" ->
                       Code(i + 1) = "loop" /\ TagAfter(i + 2) = innermost[2]
                  [] innermost[1] \in {"package", "block"} -> TagAfter(i + 1) = innermost[2]
                  [] OTHER -> FALSE
  IN  CASE Code(i) = "package" ->
             push("package", IF Code(i + 1) = "body" THEN Code(i + 2) ELSE Code(i + 1))
        [] Code(i) = "is" /\ Code(i - 2) \notin {"package", "body", "type", "subtype"} ->
             push("declare", subroutine)
        [] Code(i) = "declare" -> push("declare", TagBefore(i))
        [] Code(i) = "begin" -> IF innermost[1] = "declare" THEN becomes("block")
                                                            ELSE push("block", TagBefore(i))
        [] Code(i) \in {"for", "while"} -> push("header", TagBefore(i))
        [] Code(i) = "loop" /\ Code(i - 1) # "end" ->
             IF innermost[1] = "header" THEN becomes("loop") ELSE push("loop", TagBefore(i))
        [] Code(i) = "if" /\ Code(i - 1) # "end" -> push("if", NoTag)
        [] Code(i) = "record" /\ Code(i - 1) \notin {"end", "null"} -> push("record", NoTag)
        [] Code(i) = "end" -> IF closes THEN Front(open) ELSE push("mismatch", NoTag)
        [] OTHER -> open

\* The whole file read as brackets.
Nested ==
  LET scan[i \in Positions, open \in Seq(STRING \X STRING)] ==
        IF i > Len(input) THEN open = <<>> ELSE scan[i + 1, OpenAfter(i, open)]
  IN  scan[1, <<>>]

\* A file that is parsed without a diagnostic is properly bracketed: each end
\* closes the innermost construct that is open and carries its tag.  Left out
\* are arrays without an index list, which parseArrayTypeDecl drops silently,
\* together with all that comes before the next semicolon.
AcceptedMeansNested ==
  /\ Done /\ ~st.err /\ st.refused = {}
  /\ \A i \in DOMAIN input : Code(i) = "array" => Code(i + 1) = "("
  => Nested

\* When the client refuses something in a file that follows the grammar, the
\* parser finds its way back: no syntax error is reported on top of the
\* client's.  Three recoveries are left out: from a refused exception choice,
\* which the source has a FIXME about; from a refused loop header, where
\* seekEndLoop takes the loop's own "loop" for that of an inner one; and from a
\* refused argument of an Assert pragma, where parsePragmaAssert stops at the
\* closing parenthesis and parseStatement wants a semicolon there.
AssertsAccepted ==
  \A i \in DOMAIN input :
    Code(i) = "Assert" => {Code(i + 2), Code(i + 4)} \cap Undeclared = {}

RecoveryIsSilent ==
  Done /\ input \in WellFormed /\ AssertsAccepted /\ st.refused \cap {"loop", "handler"} = {}
    => ~st.err

\* What the routines under way still have to do without reading a token.
Weight(kind) ==
  CASE kind \in {"declarations", "declare"} -> 4
    [] kind \in {"statements", "block", "handler"} -> 3
    [] kind \in {"context", "definition end", "block end", "exception"} -> 2
    [] OTHER -> 1
Load(r) == IF r.first THEN Weight(r.kind) + 1 ELSE Weight(r.kind)
Work ==
  LET sum[i \in 0..Len(ctl)] == IF i = 0 THEN 0 ELSE sum[i - 1] + Load(ctl[i])
  IN  sum[Len(ctl)]

\* No step of the parser goes round in circles, whatever it has found: it
\* moves on in the text, or brings a routine nearer to its end.  As some step
\* is possible until the parser is done, it is done in the end.
EveryStepProgresses ==
  [][st'.pos > st.pos \/ (st'.pos = st.pos /\ Work' < Work)]_vars
=============================================================================
