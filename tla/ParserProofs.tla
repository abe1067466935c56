---------------------------- MODULE ParserProofs ----------------------------
(***************************************************************************)
(* Proofs about the parser, for any file and any client: no path through    *)
(* its routines leaves one of the client's contexts open or closes another, *)
(* and every step moves on in the file or brings a routine nearer its end.  *)
(*                                                                          *)
(* Every routine that does not recurse Goes from a parser state to a later  *)
(* one: it moves forward only, opens and closes nothing and pops no tag.    *)
(* The first sections show this for each of them, the loops included; the   *)
(* last ones go through the actions.                                        *)
(***************************************************************************)
EXTENDS Parser, OrderLemmas

-----------------------------------------------------------------------------
(* Loops.  x goes to nxt[x] until it is in Stop, and m[x] decreases.           *)

Loops(f, S, Stop, out, nxt) ==
  f = [x \in S |-> IF x \in Stop THEN out[x] ELSE f[nxt[x]]]

Ends(S, Stop, nxt, m, K) ==
  /\ K \in Nat
  /\ \A x \in S : m[x] \in 0..K
  /\ \A x \in S : x \notin Stop => nxt[x] \in S /\ m[nxt[x]] < m[x]

\* What is good for the end is good for every iteration before it.
Keeps(S, Stop, out, nxt, G) ==
  /\ \A x \in S : x \in Stop => out[x] \in G[x]
  /\ \A x \in S : x \notin Stop => G[nxt[x]] \subseteq G[x]

\* A loop that comes nearer its end in every iteration has a result.
LEMMA LoopExists ==
  ASSUME NEW S, NEW Stop, NEW out, NEW nxt, NEW m, NEW K, Ends(S, Stop, nxt, m, K)
  PROVE  \E f : Loops(f, S, Stop, out, nxt)
<1>0. /\ K \in Nat /\ \A x \in S : m[x] \in 0..K
      /\ \A x \in S : x \notin Stop => nxt[x] \in S /\ m[nxt[x]] < m[x]
  BY Zenon DEF Ends
<1> DEFINE D(n) == {x \in S : m[x] < n}
           C(f, n) == f = [x \in D(n) |-> IF x \in Stop THEN out[x] ELSE f[nxt[x]]]
           T == {n \in Nat : \E f : C(f, n)}
<1>1. 0 \in T
  <2>1. D(0) = {}
    BY <1>0
  <2> DEFINE g == [x \in D(0) |-> 0]
  <2>2. C(g, 0)
    BY <2>1
  <2>3. \E f : C(f, 0)
    BY <2>2, Zenon
  <2> QED BY <2>3
<1>2. ASSUME NEW n \in Nat, n \in T PROVE n + 1 \in T
  <2>1. PICK f : C(f, n)
    BY <1>2
  <2> DEFINE g == [x \in D(n + 1) |-> IF x \in Stop THEN out[x] ELSE f[nxt[x]]]
  <2>2. \A x \in D(n) : f[x] = IF x \in Stop THEN out[x] ELSE f[nxt[x]]
    BY <2>1, Zenon
  <2>3. \A x \in D(n) : x \in D(n + 1)
    BY <1>0
  <2>4. \A x \in D(n) : g[x] = f[x]
    <3> SUFFICES ASSUME NEW x \in D(n) PROVE g[x] = f[x]
      OBVIOUS
    <3> HIDE DEF D
    <3> QED BY <2>2, <2>3, Zenon
  <2>5. \A x \in D(n + 1) : x \notin Stop => nxt[x] \in D(n)
    BY <1>0
  <2>6. \A x \in D(n + 1) : g[x] = IF x \in Stop THEN out[x] ELSE f[nxt[x]]
    <3> HIDE DEF D
    <3> QED BY Zenon
  <2> HIDE DEF D
  <2>7. g = [x \in D(n + 1) |-> g[x]]
    BY Zenon
  <2> HIDE DEF g
  <2>8. \A x \in D(n + 1) : g[x] = IF x \in Stop THEN out[x] ELSE g[nxt[x]]
    BY <2>4, <2>5, <2>6
  <2>9. C(g, n + 1)
    BY <2>7, <2>8
  <2>10. \E h : C(h, n + 1)
    BY <2>9, Zenon
  <2>11. n + 1 \in Nat
    OBVIOUS
  <2> QED BY <2>10, <2>11, Zenon
<1>3. K + 1 \in T
  <2> HIDE DEF T
  <2>1. K + 1 \in Nat
    BY <1>0
  <2> QED BY <1>1, <1>2, <2>1, SetInduction
<1>4. D(K + 1) = S
  BY <1>0
<1>5. PICK f : C(f, K + 1)
  BY <1>3
<1> HIDE DEF D
<1>6. Loops(f, S, Stop, out, nxt)
  BY <1>4, <1>5, Zenon DEF Loops
<1> QED BY <1>6, Zenon

\* What a loop returns is good for all it began with.
LEMMA LoopReturns ==
  ASSUME NEW S, NEW Stop, NEW out, NEW nxt, NEW m, NEW K, Ends(S, Stop, nxt, m, K),
         NEW f, Loops(f, S, Stop, out, nxt), NEW G, Keeps(S, Stop, out, nxt, G)
  PROVE  \A x \in S : f[x] \in G[x]
<1> USE DEF Ends, Keeps
<1> DEFINE T == {n \in Nat : \A x \in S : m[x] < n => f[x] \in G[x]}
<1>0. \A x \in S : f[x] = IF x \in Stop THEN out[x] ELSE f[nxt[x]]
  BY Zenon DEF Loops
<1>1. 0 \in T
  OBVIOUS
<1>2. ASSUME NEW n \in Nat, n \in T PROVE n + 1 \in T
  <2> SUFFICES ASSUME NEW x \in S, m[x] < n + 1 PROVE f[x] \in G[x]
    OBVIOUS
  <2>1. CASE x \in Stop
    BY <2>1, <1>0
  <2>2. CASE x \notin Stop
    <3>1. nxt[x] \in S /\ m[nxt[x]] < n
      BY <2>2
    <3>2. f[nxt[x]] \in G[nxt[x]]
      BY <3>1, <1>2
    <3>3. f[x] = f[nxt[x]]
      BY <2>2, <1>0
    <3> QED BY <2>2, <3>2, <3>3
  <2> QED BY <2>1, <2>2
<1>3. K + 1 \in T
  <2> HIDE DEF T
  <2>1. K + 1 \in Nat
    OBVIOUS
  <2> QED BY <1>1, <1>2, <2>1, SetInduction
<1> QED BY <1>3

-----------------------------------------------------------------------------
(* Tokens and parser states.                                                   *)

Text == input \in Seq(STRING)

\* From s the parser goes on to t.
Goes(s, t) ==
  /\ t \in ParserStates /\ s.pos =< t.pos /\ t.open = s.open
  /\ Len(s.tags) =< Len(t.tags)

\* It does not stay where it is.
Moves(s, t) == Goes(s, t) /\ s.pos < t.pos

\* The tokens that have names of their own differ from the others.
LEMMA SeparatorFacts ==
  /\ Semi # EOT /\ Comma # EOT /\ Semi # Comma
  /\ Semi \notin {"IDENTIFIER", "NAME", "EXPR"} /\ Comma \notin {"IDENTIFIER", "NAME", "EXPR"}
  /\ Semi \notin {"(", ")", "is", "begin", "end", "function", "procedure"}
  /\ Comma \notin {"(", ")"}
<1>1. Semi # EOT /\ Comma # EOT /\ Semi # Comma
  BY Zenon DEF Semi, Comma, EOT
<1>2. Semi \notin {"IDENTIFIER", "NAME", "EXPR"} /\ Comma \notin {"IDENTIFIER", "NAME", "EXPR"}
  BY Zenon DEF Semi, Comma
<1>3. /\ Semi \notin {"(", ")", "is", "begin", "end", "function", "procedure"}
      /\ Comma \notin {"(", ")"}
  BY Zenon DEF Semi, Comma
<1> QED BY <1>1, <1>2, <1>3

\* No identifier is one of the tokens that the parser knows.
LEMMA IdentFacts ==
  /\ NoTag \notin Ident /\ EOT \notin Ident
  /\ "(" \notin Ident /\ ")" \notin Ident /\ Semi \notin Ident
  /\ Comma \notin Ident /\ ":" \notin Ident /\ "null" \notin Ident
  /\ "is" \notin Ident /\ "end" \notin Ident /\ "function" \notin Ident
  /\ "procedure" \notin Ident /\ "use" \notin Ident /\ "type" \notin Ident
  /\ "subtype" \notin Ident /\ "others" \notin Ident
<1>1. "(" \in Reserved
  BY DEF Reserved
<1>2. ")" \in Reserved
  BY DEF Reserved
<1>3. Semi \in Reserved
  BY DEF Reserved
<1>4. Comma \in Reserved
  BY DEF Reserved
<1>5. ":" \in Reserved
  BY DEF Reserved
<1>6. "null" \in Reserved
  BY DEF Reserved
<1>7. "is" \in Reserved
  BY DEF Reserved
<1>8. "end" \in Reserved
  BY DEF Reserved
<1>9. "function" \in Reserved
  BY DEF Reserved
<1>10. "procedure" \in Reserved
  BY DEF Reserved
<1>11. "use" \in Reserved
  BY DEF Reserved
<1>12. "type" \in Reserved
  BY DEF Reserved
<1>13. "subtype" \in Reserved
  BY DEF Reserved
<1>14. "others" \in Reserved
  BY DEF Reserved
<1> QED BY <1>1, <1>2, <1>3, <1>4, <1>5, <1>6, <1>7,
       <1>8, <1>9, <1>10, <1>11, <1>12, <1>13, <1>14, IdentAssumption

\* The end of the text is behind the last token.
LEMMA CodeFacts ==
  ASSUME Text
  PROVE  /\ Len(input) \in Nat /\ Positions = 1..(Len(input) + 1)
         /\ \A i \in Positions : i \in Nat /\ i > 0 /\ i =< Len(input) + 1
         /\ \A i : Code(i) # EOT => i \in 1..Len(input) /\ i \in Positions /\ i + 1 \in Positions
         /\ \A i : Code(i) \in Ident => Code(i) # EOT
         /\ Code(Len(input) + 1) = EOT /\ Len(input) + 1 \in Positions
<1>1. Len(input) \in Nat /\ DOMAIN input = 1..Len(input)
  BY DEF Text
<1>2. \A i : Code(i) # EOT => i \in 1..Len(input)
  BY <1>1 DEF Code
<1>3. Code(Len(input) + 1) = EOT
  <2>1. Len(input) + 1 \notin DOMAIN input
    BY <1>1
  <2> QED BY <2>1 DEF Code
<1>4. \A i : Code(i) \in Ident => Code(i) # EOT
  BY IdentAssumption
<1> QED BY <1>1, <1>2, <1>3, <1>4 DEF Positions

\* The fields of a parser state.
LEMMA StateFacts ==
  ASSUME Text, NEW s \in ParserStates
  PROVE  /\ s.pos \in Positions /\ s.pos \in Nat /\ s.ok \in BOOLEAN /\ s.err \in BOOLEAN
         /\ s.refused \in SUBSET Refusals /\ s.tags \in Seq(Ident) /\ s.open \in Seq(Contexts)
         /\ Len(s.tags) \in Nat
<1>1. /\ s.pos \in Positions /\ s.ok \in BOOLEAN /\ s.err \in BOOLEAN
      /\ s.refused \in SUBSET Refusals /\ s.tags \in Seq(Ident) /\ s.open \in Seq(Contexts)
  BY DEF ParserStates
<1> QED BY <1>1, CodeFacts

\* Nothing but the position changes.
LEMMA MoveGoes ==
  ASSUME Text, NEW s \in ParserStates, NEW i \in Positions, s.pos =< i
  PROVE  /\ Goes(s, MoveTo(s, i)) /\ MoveTo(s, i).pos = i /\ MoveTo(s, i).ok = s.ok
         /\ s.pos < i => Moves(s, MoveTo(s, i))
         /\ MoveTo(s, i).tags = s.tags
<1>1. s.tags \in Seq(Ident) /\ Len(s.tags) \in Nat
  BY StateFacts
<1>2. MoveTo(s, i) \in ParserStates
  BY DEF MoveTo, ParserStates
<1>3. MoveTo(s, i).pos = i /\ MoveTo(s, i).ok = s.ok /\ MoveTo(s, i).open = s.open
      /\ MoveTo(s, i).tags = s.tags
  BY DEF MoveTo, ParserStates
<1> QED BY <1>1, <1>2, <1>3 DEF Goes, Moves

\* A routine returns, or posts a diagnostic, where it is.
LEMMA StandsFacts ==
  ASSUME Text, NEW s \in ParserStates
  PROVE  /\ Goes(s, Valid(s)) /\ Valid(s).pos = s.pos /\ Valid(s).ok /\ Valid(s).tags = s.tags
         /\ Goes(s, Invalid(s)) /\ Invalid(s).pos = s.pos /\ ~Invalid(s).ok /\ Invalid(s).tags = s.tags
         /\ Goes(s, report(s)) /\ report(s).pos = s.pos /\ report(s).ok = s.ok /\ report(s).tags = s.tags
         /\ \A x \in BOOLEAN : /\ Goes(s, [s EXCEPT !.ok = x]) /\ [s EXCEPT !.ok = x].pos = s.pos
                               /\ [s EXCEPT !.ok = x].ok = x
<1>1. s.pos \in Nat /\ Len(s.tags) \in Nat
  BY StateFacts
<1>2. Valid(s) \in ParserStates /\ Invalid(s) \in ParserStates /\ report(s) \in ParserStates
  BY DEF Valid, Invalid, report, ParserStates
<1>3. \A x \in BOOLEAN : [s EXCEPT !.ok = x] \in ParserStates
  BY DEF ParserStates
<1>4. /\ Valid(s).pos = s.pos /\ Valid(s).ok /\ Valid(s).tags = s.tags /\ Valid(s).open = s.open
      /\ Invalid(s).pos = s.pos /\ ~Invalid(s).ok /\ Invalid(s).tags = s.tags /\ Invalid(s).open = s.open
      /\ report(s).pos = s.pos /\ report(s).ok = s.ok /\ report(s).tags = s.tags
      /\ report(s).open = s.open
  BY DEF Valid, Invalid, report, ParserStates
<1>5. \A x \in BOOLEAN : /\ [s EXCEPT !.ok = x].pos = s.pos /\ [s EXCEPT !.ok = x].ok = x
                         /\ [s EXCEPT !.ok = x].open = s.open /\ [s EXCEPT !.ok = x].tags = s.tags
  BY DEF ParserStates
<1> QED BY <1>1, <1>2, <1>3, <1>4, <1>5 DEF Goes

\* One way leads on from the other.
LEMMA GoesOn ==
  ASSUME Text, NEW s \in ParserStates, NEW t, Goes(s, t)
  PROVE  /\ t \in ParserStates /\ Goes(s, s) /\ s.pos =< t.pos
         /\ \A u : Goes(t, u) => Goes(s, u)
         /\ \A u : Moves(t, u) => Moves(s, u)
         /\ Moves(s, t) => \A u : Goes(t, u) => Moves(s, u)
<1>1. t \in ParserStates /\ s.pos \in Nat /\ Len(s.tags) \in Nat /\ t.pos \in Nat /\ Len(t.tags) \in Nat
  BY StateFacts DEF Goes
<1>2. Goes(s, s) /\ s.pos =< t.pos
  BY <1>1 DEF Goes
<1>3. ASSUME NEW u, Goes(t, u)
      PROVE  Goes(s, u) /\ (t.pos < u.pos \/ s.pos < t.pos => Moves(s, u))
  <2>1. u \in ParserStates /\ u.pos \in Nat /\ Len(u.tags) \in Nat
    BY <1>3, StateFacts DEF Goes
  <2>2. /\ s.pos =< t.pos /\ t.open = s.open /\ Len(s.tags) =< Len(t.tags)
        /\ t.pos =< u.pos /\ u.open = t.open /\ Len(t.tags) =< Len(u.tags)
    BY <1>3 DEF Goes
  <2>3. s.pos =< u.pos /\ Len(s.tags) =< Len(u.tags) /\ (t.pos < u.pos \/ s.pos < t.pos => s.pos < u.pos)
    BY <1>1, <2>1, <2>2
  <2>4. u.open = s.open
    BY <2>2
  <2>5. Goes(s, u)
    BY <2>1, <2>3, <2>4 DEF Goes
  <2> QED BY <2>3, <2>5 DEF Moves
<1>4. \A u : Moves(t, u) => Moves(s, u)
  BY <1>3 DEF Moves
<1>5. Moves(s, t) => \A u : Goes(t, u) => Moves(s, u)
  BY <1>3 DEF Moves
<1> QED BY <1>1, <1>2, <1>3, <1>4, <1>5

\* The next token, if there is one.
LEMMA BehindFacts ==
  ASSUME Text, NEW i \in Positions
  PROVE  /\ Behind(i) \in Positions /\ i =< Behind(i)
         /\ Code(i) # EOT => Behind(i) = i + 1 /\ i < Behind(i)
BY CodeFacts DEF Behind

\* ignoreToken consumes the current token, unless it is the end.
LEMMA ignoreGoes ==
  ASSUME Text, NEW s \in ParserStates
  PROVE  /\ Goes(s, ignoreToken(s)) /\ ignoreToken(s).ok = s.ok /\ ignoreToken(s).tags = s.tags
         /\ Code(s.pos) # EOT => Moves(s, ignoreToken(s)) /\ ignoreToken(s).pos = s.pos + 1
<1>1. s.pos \in Positions /\ s.pos \in Nat
  BY StateFacts
<1>2. Behind(s.pos) \in Positions /\ s.pos =< Behind(s.pos)
      /\ (Code(s.pos) # EOT => Behind(s.pos) = s.pos + 1 /\ s.pos < Behind(s.pos))
  BY <1>1, BehindFacts
<1> QED BY <1>2, MoveGoes DEF ignoreToken

\* Where a chain of moves ends, the token is the one the last move stands at.
LEMMA AtFacts ==
  ASSUME NEW s, NEW codes
  PROVE  /\ At(s, codes) <=> Code(s.pos) \in codes
         /\ nextTokenIs(s, codes) <=> Code(s.pos + 1) \in codes
BY DEF At, nextTokenIs

\* A token that is consumed if it is there, whatever is posted if it is not.
TakesToken(s, t, codes) ==
  /\ Goes(s, t) /\ t.tags = s.tags
  /\ t.ok <=> Code(s.pos) \in codes
  /\ t.ok => t.pos = Behind(s.pos)
  /\ ~t.ok => t.pos = s.pos
  /\ t.ok /\ EOT \notin codes => Moves(s, t)

\* A token behind which the routine returns, posting nothing.
LEMMA TakeIt ==
  ASSUME Text, NEW s \in ParserStates, NEW codes, Code(s.pos) \in codes
  PROVE  TakesToken(s, Valid(ignoreToken(s)), codes)
<1> DEFINE t == ignoreToken(s)
           u == Valid(t)
<1>1. /\ Goes(s, t) /\ t.tags = s.tags
      /\ Code(s.pos) # EOT => Moves(s, t)
  BY ignoreGoes
<1>2. t.pos = Behind(s.pos)
  BY DEF ignoreToken, MoveTo, ParserStates
<1>3. t \in ParserStates
  BY <1>1 DEF Goes
<1> HIDE DEF t
<1>4. Goes(t, u) /\ u.pos = t.pos /\ u.ok /\ u.tags = t.tags
  BY <1>3, StandsFacts
<1> HIDE DEF u
<1>5. Goes(s, u) /\ (Code(s.pos) # EOT => Moves(s, u))
  BY <1>1, <1>4, GoesOn
<1>6. TakesToken(s, u, codes)
  BY <1>1, <1>2, <1>4, <1>5 DEF TakesToken
<1> QED BY <1>6 DEF t, u

\* A token that is missing, with a diagnostic or without.
LEMMA MissIt ==
  ASSUME Text, NEW s \in ParserStates, NEW codes, Code(s.pos) \notin codes
  PROVE  /\ TakesToken(s, Invalid(s), codes)
         /\ TakesToken(s, Invalid(report(s)), codes)
<1>1. Goes(s, Invalid(s)) /\ Invalid(s).pos = s.pos /\ ~Invalid(s).ok /\ Invalid(s).tags = s.tags
  BY StandsFacts
<1> DEFINE t == report(s)
           u == Invalid(t)
<1>2. Goes(s, t) /\ t.pos = s.pos /\ t.tags = s.tags
  BY StandsFacts
<1>3. t \in ParserStates
  BY <1>2 DEF Goes
<1> HIDE DEF t
<1>4. Goes(t, u) /\ u.pos = t.pos /\ ~u.ok /\ u.tags = t.tags
  BY <1>3, StandsFacts
<1> HIDE DEF u
<1>5. Goes(s, u)
  BY <1>2, <1>4, GoesOn
<1>6. TakesToken(s, Invalid(s), codes)
  BY <1>1 DEF TakesToken
<1>7. TakesToken(s, u, codes)
  BY <1>2, <1>4, <1>5 DEF TakesToken
<1> QED BY <1>6, <1>7 DEF t, u

\* reduceToken, requireToken and parseIdentifier.
LEMMA TokenGoes ==
  ASSUME Text, NEW s \in ParserStates
  PROVE  /\ \A code : TakesToken(s, reduceToken(s, code), {code})
         /\ \A code : TakesToken(s, requireToken(s, code), {code})
         /\ TakesToken(s, parseIdentifier(s), Ident)
<1>1. ASSUME NEW code
      PROVE  TakesToken(s, reduceToken(s, code), {code}) /\ TakesToken(s, requireToken(s, code), {code})
  <2>1. CASE Code(s.pos) \in {code}
    BY <2>1, TakeIt DEF reduceToken, requireToken, At
  <2>2. CASE Code(s.pos) \notin {code}
    BY <2>2, MissIt DEF reduceToken, requireToken, At
  <2> QED BY <2>1, <2>2
<1>2. TakesToken(s, parseIdentifier(s), Ident)
  <2>1. CASE Code(s.pos) \in Ident
    BY <2>1, TakeIt DEF parseIdentifier, At
  <2>2. CASE Code(s.pos) \notin Ident
    BY <2>2, MissIt DEF parseIdentifier, At
  <2> QED BY <2>1, <2>2
<1> QED BY <1>1, <1>2

\* The position that First finds.
LEMMA FirstFacts ==
  ASSUME Text, NEW i \in Positions, NEW codes
  PROVE  /\ First(i, codes) \in Positions /\ i =< First(i, codes)
         /\ Code(First(i, codes)) \in codes \cup {EOT}
         /\ Code(i) \in codes => First(i, codes) = i
<1> DEFINE S == {j \in Positions : j >= i /\ Code(j) \in codes \cup {EOT}}
<1>1. /\ Len(input) \in Nat /\ \A k \in Positions : k \in Nat /\ k =< Len(input) + 1
      /\ Code(Len(input) + 1) = EOT /\ Len(input) + 1 \in Positions
  BY CodeFacts
<1>2. S \in SUBSET Nat
  BY <1>1
<1>3. Len(input) + 1 \in S
  BY <1>1
<1>4. \A j \in S : j \in Positions /\ j >= i /\ Code(j) \in codes \cup {EOT}
  OBVIOUS
<1>5. Code(i) \in codes => i \in S
  BY <1>1
<1>6. First(i, codes) = Min(S)
  BY DEF First
<1> HIDE DEF S
<1>7. Min(S) \in S /\ \A k \in S : Min(S) =< k
  BY <1>2, <1>3, MinOfNaturals
<1> DEFINE m == Min(S)
<1>8. m \in S /\ m \in Positions /\ m >= i /\ m \in Nat /\ i \in Nat
  BY <1>1, <1>4, <1>7
<1>9. Code(i) \in codes => m =< i
  BY <1>5, <1>7
<1> HIDE DEF m
<1>10. Code(m) \in codes \cup {EOT} /\ i =< m
  BY <1>4, <1>8
<1>11. Code(i) \in codes => m = i
  BY <1>8, <1>9
<1> QED BY <1>6, <1>8, <1>10, <1>11 DEF m

-----------------------------------------------------------------------------
(* Searches.                                                                   *)

\* seekTokens and seekAndConsumeToken.
LEMMA seekGoes ==
  ASSUME Text, NEW s \in ParserStates, NEW codes
  PROVE  LET t == seekTokens(s, codes)
         IN  /\ Goes(s, t) /\ Code(t.pos) \in codes \cup {EOT} /\ (t.ok <=> Code(t.pos) # EOT)
             /\ Code(s.pos) \in codes => t.pos = s.pos
<1> DEFINE i == First(s.pos, codes)
           t == seekTokens(s, codes)
           u == MoveTo(s, i)
<1>1. s.pos \in Positions /\ s.pos \in Nat
  BY StateFacts
<1>2. i \in Positions /\ s.pos =< i /\ Code(i) \in codes \cup {EOT}
      /\ (Code(s.pos) \in codes => i = s.pos)
  BY <1>1, FirstFacts
<1>3. t = [u EXCEPT !.ok = (Code(i) # EOT)]
  BY DEF seekTokens, MoveTo, ParserStates
<1> HIDE DEF i
<1>4. Goes(s, u) /\ u.pos = i
  BY <1>2, MoveGoes
<1>5. u \in ParserStates
  BY <1>4 DEF Goes
<1> HIDE DEF u
<1> DEFINE b == Code(i) # EOT
<1>6. b \in BOOLEAN
  BY Zenon
<1> HIDE DEF b
<1>7. Goes(u, [u EXCEPT !.ok = b]) /\ [u EXCEPT !.ok = b].pos = u.pos /\ [u EXCEPT !.ok = b].ok = b
  BY <1>5, <1>6, StandsFacts
<1>8. t = [u EXCEPT !.ok = b]
  BY <1>3, Zenon DEF b
<1> HIDE DEF t
<1>9. Goes(u, t) /\ t.pos = i /\ t.ok = b
  BY <1>4, <1>7, <1>8
<1>10. Goes(s, t)
  BY <1>4, <1>9, GoesOn
<1>11. t.ok <=> Code(i) # EOT
  BY <1>9 DEF b
<1> QED BY <1>2, <1>9, <1>10, <1>11 DEF t

\* A token that is sought and consumed.
LEMMA seekAndConsumeGoes ==
  ASSUME Text, NEW s \in ParserStates, NEW code
  PROVE  /\ Goes(s, seekAndConsumeToken(s, code))
         /\ Code(s.pos) # EOT => Moves(s, seekAndConsumeToken(s, code))
<1> DEFINE t == seekTokens(s, {code})
           u == ignoreToken(t)
<1>1. Goes(s, t) /\ (t.ok <=> Code(t.pos) # EOT)
  BY seekGoes
<1>2. t \in ParserStates /\ s.pos \in Nat /\ s.pos \in Positions
  BY <1>1, StateFacts DEF Goes
<1>3. t.pos \in Nat
  BY <1>2, StateFacts
<1>4. Goes(t, u) /\ (Code(t.pos) # EOT => Moves(t, u))
  BY <1>2, ignoreGoes
<1>5. Code(s.pos) # EOT => Code(t.pos) # EOT \/ s.pos # t.pos
  OBVIOUS
<1>6. s.pos =< t.pos
  BY <1>1 DEF Goes
<1>7. s.pos # t.pos => Moves(s, t)
  BY <1>1, <1>2, <1>3, <1>6 DEF Moves
<1>8. seekAndConsumeToken(s, code) = u
  BY DEF seekAndConsumeToken
<1> HIDE DEF t, u
<1>9. Goes(s, u) /\ (Moves(s, t) \/ Moves(t, u) => Moves(s, u))
  BY <1>1, <1>4, GoesOn
<1> QED BY <1>4, <1>5, <1>7, <1>8, <1>9

\* A loop over positions that moves forward, and ends in R.
LEMMA PositionLoop ==
  ASSUME Text, NEW Stop, NEW out, NEW nxt, NEW R,
         \A x \in Positions : x \in Stop => out[x] \in Positions /\ x =< out[x] /\ out[x] \in R,
         \A x \in Positions : x \notin Stop => nxt[x] \in Positions /\ x < nxt[x]
  PROVE  /\ \E f : Loops(f, Positions, Stop, out, nxt)
         /\ \A f : Loops(f, Positions, Stop, out, nxt) =>
              \A x \in Positions : f[x] \in Positions /\ x =< f[x] /\ f[x] \in R
<1> DEFINE m == [x \in Positions |-> Len(input) + 1 - x]
           G == [x \in Positions |-> {k \in Positions : x =< k /\ k \in R}]
<1>1. Len(input) \in Nat /\ Positions = 1..(Len(input) + 1)
  BY CodeFacts
<1>2. Ends(Positions, Stop, nxt, m, Len(input))
  BY <1>1 DEF Ends
<1>3. Keeps(Positions, Stop, out, nxt, G)
  BY <1>1 DEF Keeps
<1>4. \A x \in Positions : G[x] = {k \in Positions : x =< k /\ k \in R}
  OBVIOUS
<1> HIDE DEF m, G
<1>5. \E f : Loops(f, Positions, Stop, out, nxt)
  BY <1>2, LoopExists
<1>6. ASSUME NEW f, Loops(f, Positions, Stop, out, nxt)
      PROVE  \A x \in Positions : f[x] \in Positions /\ x =< f[x] /\ f[x] \in R
  <2>1. \A x \in Positions : f[x] \in G[x]
    BY <1>2, <1>3, <1>6, LoopReturns
  <2> QED BY <2>1, <1>4
<1> QED BY <1>5, <1>6

\* The same over positions inside nested constructs.
LEMMA NestingLoop ==
  ASSUME Text, NEW Stop, NEW out, NEW nxt,
         \A x \in Nestings : x \in Stop => out[x] \in Positions /\ x.pos =< out[x],
         \A x \in Nestings : x \notin Stop => nxt[x] \in Nestings /\ x.pos < nxt[x].pos
  PROVE  /\ \E f : Loops(f, Nestings, Stop, out, nxt)
         /\ \A f : Loops(f, Nestings, Stop, out, nxt) =>
              \A x \in Nestings : f[x] \in Positions /\ x.pos =< f[x]
<1> DEFINE m == [x \in Nestings |-> Len(input) + 1 - x.pos]
           G == [x \in Nestings |-> {k \in Positions : x.pos =< k}]
<1>1. Len(input) \in Nat /\ Positions = 1..(Len(input) + 1)
  BY CodeFacts
<1>2. \A x \in Nestings : x.pos \in Positions
  BY DEF Nestings
<1>3. Ends(Nestings, Stop, nxt, m, Len(input))
  BY <1>1, <1>2 DEF Ends
<1>4. Keeps(Nestings, Stop, out, nxt, G)
  BY <1>1, <1>2 DEF Keeps
<1>5. \A x \in Nestings : G[x] = {k \in Positions : x.pos =< k}
  OBVIOUS
<1> HIDE DEF m, G
<1>6. \E f : Loops(f, Nestings, Stop, out, nxt)
  BY <1>3, LoopExists
<1>7. ASSUME NEW f, Loops(f, Nestings, Stop, out, nxt)
      PROVE  \A x \in Nestings : f[x] \in Positions /\ x.pos =< f[x]
  <2>1. \A x \in Nestings : f[x] \in G[x]
    BY <1>3, <1>4, <1>7, LoopReturns
  <2> QED BY <2>1, <1>5
<1> QED BY <1>6, <1>7

\* And over parser states, for the lists of the grammar.
LEMMA StateLoop ==
  ASSUME Text, NEW Stop, NEW out, NEW nxt,
         \A x \in ParserStates : x \in Stop => Goes(x, out[x]),
         \A x \in ParserStates : x \notin Stop => Moves(x, nxt[x])
  PROVE  /\ \E f : Loops(f, ParserStates, Stop, out, nxt)
         /\ \A f : Loops(f, ParserStates, Stop, out, nxt) =>
              \A x \in ParserStates : Goes(x, f[x])
<1> DEFINE m == [x \in ParserStates |-> Len(input) + 1 - x.pos]
           G == [x \in ParserStates |-> {t \in ParserStates : Goes(x, t)}]
<1>1. Len(input) \in Nat /\ Positions = 1..(Len(input) + 1)
  BY CodeFacts
<1>2. \A x \in ParserStates : x.pos \in Positions
  BY StateFacts
<1>3. \A x \in ParserStates : x \notin Stop =>
        Goes(x, nxt[x]) /\ nxt[x] \in ParserStates /\ x.pos < nxt[x].pos
  BY DEF Moves, Goes
<1>4. Ends(ParserStates, Stop, nxt, m, Len(input))
  BY <1>1, <1>2, <1>3 DEF Ends
<1>5. \A x \in ParserStates : G[x] = {t \in ParserStates : Goes(x, t)}
  OBVIOUS
<1> HIDE DEF m, G
<1>6. ASSUME NEW x \in ParserStates, x \notin Stop PROVE G[nxt[x]] \subseteq G[x]
  <2>1. Goes(x, nxt[x]) /\ nxt[x] \in ParserStates
    BY <1>3, <1>6
  <2>2. \A t : Goes(nxt[x], t) => Goes(x, t)
    BY <2>1, GoesOn
  <2> QED BY <1>5, <2>1, <2>2
<1>7. ASSUME NEW x \in ParserStates, x \in Stop PROVE out[x] \in G[x]
  <2>1. Goes(x, out[x])
    BY <1>7
  <2>2. out[x] \in ParserStates
    BY <2>1 DEF Goes
  <2> QED BY <1>5, <2>1, <2>2
<1>8. Keeps(ParserStates, Stop, out, nxt, G)
  BY <1>6, <1>7 DEF Keeps
<1>9. \E f : Loops(f, ParserStates, Stop, out, nxt)
  BY <1>4, LoopExists
<1>10. ASSUME NEW f, Loops(f, ParserStates, Stop, out, nxt)
       PROVE  \A x \in ParserStates : Goes(x, f[x])
  <2>1. \A x \in ParserStates : f[x] \in G[x]
    BY <1>4, <1>8, <1>10, LoopReturns
  <2> QED BY <2>1, <1>5
<1> QED BY <1>9, <1>10

\* ClosingParen does not go back.
LEMMA ClosingFacts ==
  ASSUME Text, NEW i \in Positions
  PROVE  ClosingParen(i) \in Positions /\ i =< ClosingParen(i)
<1> DEFINE closing[x \in Nestings] ==
             LET at(k) == CASE Code(k) = "(" -> closing[Nesting(k + 1, x.depth + 1)]
                            [] Code(k) = ")" /\ x.depth > 1 -> closing[Nesting(k + 1, x.depth - 1)]
                            [] OTHER -> k
             IN  at(First(x.pos, {"(", ")"}))
           C(f) == f = [x \in Nestings |->
             LET k == First(x.pos, {"(", ")"})
             IN  CASE Code(k) = "(" -> f[Nesting(k + 1, x.depth + 1)]
                   [] Code(k) = ")" /\ x.depth > 1 -> f[Nesting(k + 1, x.depth - 1)]
                   [] OTHER -> k]
           K(x) == First(x.pos, {"(", ")"})
           Stop == {x \in Nestings : Code(K(x)) # "(" /\ ~(Code(K(x)) = ")" /\ x.depth > 1)}
           out == [x \in Nestings |-> K(x)]
           nxt == [x \in Nestings |-> IF Code(K(x)) = "(" THEN Nesting(K(x) + 1, x.depth + 1)
                                                        ELSE Nesting(K(x) + 1, x.depth - 1)]
<1>1. /\ Len(input) \in Nat /\ Positions = 1..(Len(input) + 1)
      /\ \A k : Code(k) # EOT => k \in 1..Len(input) /\ k \in Positions /\ k + 1 \in Positions
  BY CodeFacts
<1>2. \A x \in Nestings : /\ x.pos \in Positions /\ x.depth \in Nat \ {0}
                          /\ K(x) \in Positions /\ x.pos =< K(x)
  BY FirstFacts DEF Nestings
<1>3. \A x \in Nestings : x \notin Stop =>
        /\ nxt[x] \in Nestings /\ nxt[x].pos = K(x) + 1
  BY <1>1, <1>2 DEF Nestings, Nesting, EOT
<1>4. \A f : \A x \in Nestings :
        (LET k == First(x.pos, {"(", ")"})
         IN  CASE Code(k) = "(" -> f[Nesting(k + 1, x.depth + 1)]
               [] Code(k) = ")" /\ x.depth > 1 -> f[Nesting(k + 1, x.depth - 1)]
               [] OTHER -> k)
          = IF x \in Stop THEN out[x] ELSE f[nxt[x]]
  OBVIOUS
<1>5. \A f : C(f) <=> Loops(f, Nestings, Stop, out, nxt)
  <2> HIDE DEF Stop, out, nxt
  <2> QED BY <1>4, Zenon DEF Loops
<1>6. ClosingParen(i) = closing[Nesting(i, 1)]
  BY Zenon DEF ClosingParen
<1>7. \A x \in Nestings : x \in Stop => out[x] \in Positions /\ x.pos =< out[x]
  BY <1>2
<1>8. \A x \in Nestings : x \notin Stop => nxt[x] \in Nestings /\ x.pos < nxt[x].pos
  <2> HIDE DEF K, nxt, Stop
  <2> QED BY <1>1, <1>2, <1>3
<1> HIDE DEF Stop, out, nxt, K
<1>9. /\ \E f : Loops(f, Nestings, Stop, out, nxt)
      /\ \A f : Loops(f, Nestings, Stop, out, nxt) =>
           \A x \in Nestings : f[x] \in Positions /\ x.pos =< f[x]
  BY <1>7, <1>8, NestingLoop
<1>10. Loops(closing, Nestings, Stop, out, nxt)
  <2>1. C(CHOOSE f : C(f))
    BY <1>5, <1>9, Zenon
  <2>2. C(closing)
    BY <2>1, Zenon
  <2> HIDE DEF closing
  <2> QED BY <1>5, <2>2
<1> HIDE DEF closing
<1>11. \A x \in Nestings : closing[x] \in Positions /\ x.pos =< closing[x]
  BY <1>9, <1>10
<1>12. Nesting(i, 1) \in Nestings /\ Nesting(i, 1).pos = i
  BY DEF Nesting, Nestings
<1>13. closing[Nesting(i, 1)] \in Positions /\ i =< closing[Nesting(i, 1)]
  BY <1>11, <1>12
<1> QED BY <1>6, <1>13

\* seekCloseParen consumes the parenthesis.
LEMMA seekCloseParenGoes ==
  ASSUME Text, NEW s \in ParserStates
  PROVE  Goes(s, seekCloseParen(s))
<1> DEFINE i == ClosingParen(s.pos)
           t == MoveTo(s, i)
           u == ignoreToken(t)
           b == Code(i) # EOT
<1>1. s.pos \in Positions
  BY StateFacts
<1>2. i \in Positions /\ s.pos =< i
  BY <1>1, ClosingFacts
<1>9. seekCloseParen(s) = [u EXCEPT !.ok = b]
  BY Zenon DEF seekCloseParen
<1> HIDE DEF i
<1>3. Goes(s, t)
  BY <1>2, MoveGoes
<1>4. t \in ParserStates
  BY <1>3 DEF Goes
<1> HIDE DEF t
<1>5. Goes(t, u)
  BY <1>4, ignoreGoes
<1>6. u \in ParserStates
  BY <1>5 DEF Goes
<1> HIDE DEF u
<1>7. b \in BOOLEAN
  BY Zenon
<1> HIDE DEF b
<1>8. Goes(u, [u EXCEPT !.ok = b])
  BY <1>6, <1>7, StandsFacts
<1>10. Goes(s, u)
  BY <1>3, <1>5, GoesOn
<1>11. Goes(s, [u EXCEPT !.ok = b])
  BY <1>8, <1>10, GoesOn
<1> QED BY <1>9, <1>11, Zenon

\* seekSemi stops at a semicolon or at the end of the text.
LEMMA seekSemiGoes ==
  ASSUME Text, NEW s \in ParserStates
  PROVE  /\ Goes(s, seekSemi(s)) /\ Code(seekSemi(s).pos) \in {Semi, EOT}
<1> DEFINE semi[i \in Positions] ==
             LET j == First(i, {"(", Semi})
             IN  IF Code(j) = "(" THEN semi[ClosingParen(j + 1)] ELSE j
           C(f) == f = [i \in Positions |->
             LET j == First(i, {"(", Semi})
             IN  IF Code(j) = "(" THEN f[ClosingParen(j + 1)] ELSE j]
           J(i) == First(i, {"(", Semi})
           Stop == {i \in Positions : Code(J(i)) # "("}
           out == [i \in Positions |-> J(i)]
           nxt == [i \in Positions |-> ClosingParen(J(i) + 1)]
           R == {i \in Positions : Code(i) \in {Semi, EOT}}
<1>1. /\ Len(input) \in Nat /\ Positions = 1..(Len(input) + 1)
      /\ \A k : Code(k) # EOT => k \in 1..Len(input) /\ k \in Positions /\ k + 1 \in Positions
  BY CodeFacts
<1>2. \A i \in Positions : /\ J(i) \in Positions /\ i =< J(i)
                           /\ Code(J(i)) \in {"(", Semi} \cup {EOT}
  BY FirstFacts
<1>3. \A i \in Positions : i \in Stop => out[i] \in Positions /\ i =< out[i] /\ out[i] \in R
  BY <1>2
<1>4. \A i \in Positions : i \notin Stop => nxt[i] \in Positions /\ i < nxt[i]
  <2> SUFFICES ASSUME NEW i \in Positions, i \notin Stop PROVE nxt[i] \in Positions /\ i < nxt[i]
    OBVIOUS
  <2>1. Code(J(i)) = "(" /\ i =< J(i) /\ J(i) \in Positions
    BY <1>2
  <2>2. nxt[i] = ClosingParen(J(i) + 1)
    OBVIOUS
  <2> HIDE DEF J, nxt, Stop
  <2>3. J(i) + 1 \in Positions
    BY <1>1, <2>1 DEF EOT
  <2>4. ClosingParen(J(i) + 1) \in Positions /\ J(i) + 1 =< ClosingParen(J(i) + 1)
    BY <2>3, ClosingFacts
  <2> QED BY <1>1, <2>1, <2>2, <2>4
<1>5. \A f : \A i \in Positions :
        (LET j == First(i, {"(", Semi})
         IN  IF Code(j) = "(" THEN f[ClosingParen(j + 1)] ELSE j)
          = IF i \in Stop THEN out[i] ELSE f[nxt[i]]
  OBVIOUS
<1>6. \A f : C(f) <=> Loops(f, Positions, Stop, out, nxt)
  <2> HIDE DEF Stop, out, nxt
  <2> QED BY <1>5, Zenon DEF Loops
<1>7. seekSemi(s) = MoveTo(s, semi[s.pos])
  BY Zenon DEF seekSemi
<1>8. \A i : i \in R => Code(i) \in {Semi, EOT}
  OBVIOUS
<1> HIDE DEF Stop, out, nxt, J, R
<1>9. /\ \E f : Loops(f, Positions, Stop, out, nxt)
      /\ \A f : Loops(f, Positions, Stop, out, nxt) =>
           \A x \in Positions : f[x] \in Positions /\ x =< f[x] /\ f[x] \in R
  BY <1>3, <1>4, PositionLoop
<1>10. Loops(semi, Positions, Stop, out, nxt)
  <2>1. C(CHOOSE f : C(f))
    BY <1>6, <1>9, Zenon
  <2>2. C(semi)
    BY <2>1, Zenon
  <2> HIDE DEF semi
  <2> QED BY <1>6, <2>2
<1> HIDE DEF semi
<1>11. s.pos \in Positions
  BY StateFacts
<1>12. semi[s.pos] \in Positions /\ s.pos =< semi[s.pos] /\ Code(semi[s.pos]) \in {Semi, EOT}
  BY <1>8, <1>9, <1>10, <1>11
<1>13. Goes(s, MoveTo(s, semi[s.pos])) /\ MoveTo(s, semi[s.pos]).pos = semi[s.pos]
  BY <1>12, MoveGoes
<1> QED BY <1>7, <1>12, <1>13

\* seekNameEnd skips what can be read as a name.
LEMMA seekNameEndGoes ==
  ASSUME Text, NEW s \in ParserStates
  PROVE  Goes(s, seekNameEnd(s))
<1> DEFINE nameEnd[i \in Positions] ==
             CASE Code(i) \in Ident -> nameEnd[i + 1]
               [] Code(i) = "(" -> nameEnd[Behind(ClosingParen(i + 1))]
               [] OTHER -> i
           B(f, i) == CASE Code(i) \in Ident -> f[i + 1]
                        [] Code(i) = "(" -> f[Behind(ClosingParen(i + 1))]
                        [] OTHER -> i
           C(f) == f = [i \in Positions |-> B(f, i)]
           Stop == {i \in Positions : Code(i) \notin Ident /\ Code(i) # "("}
           out == [i \in Positions |-> i]
           nxt == [i \in Positions |-> IF Code(i) \in Ident THEN i + 1
                                                           ELSE Behind(ClosingParen(i + 1))]
<1>1. /\ Len(input) \in Nat /\ Positions = 1..(Len(input) + 1)
      /\ \A k : Code(k) # EOT => k \in 1..Len(input) /\ k \in Positions /\ k + 1 \in Positions
      /\ \A k : Code(k) \in Ident => Code(k) # EOT
  BY CodeFacts
<1>2. "(" \notin Ident
  BY IdentFacts
<1>3. \A i \in Positions : i \in Stop => out[i] \in Positions /\ i =< out[i] /\ out[i] \in Positions
  BY <1>1
<1>4. \A i \in Positions : i \notin Stop => nxt[i] \in Positions /\ i < nxt[i]
  <2> SUFFICES ASSUME NEW i \in Positions, i \notin Stop PROVE nxt[i] \in Positions /\ i < nxt[i]
    OBVIOUS
  <2>1. i + 1 \in Positions
    BY <1>1 DEF EOT
  <2>2. ClosingParen(i + 1) \in Positions /\ i + 1 =< ClosingParen(i + 1)
    BY <2>1, ClosingFacts
  <2>3. Behind(ClosingParen(i + 1)) \in Positions /\ ClosingParen(i + 1) =< Behind(ClosingParen(i + 1))
    BY <2>2, BehindFacts
  <2>4. nxt[i] \in {i + 1, Behind(ClosingParen(i + 1))}
    OBVIOUS
  <2> HIDE DEF nxt, Stop
  <2> QED BY <1>1, <2>1, <2>2, <2>3, <2>4
<1>5. \A f : \A i \in Positions : B(f, i) = IF i \in Stop THEN out[i] ELSE f[nxt[i]]
  BY <1>2
<1>6. \A f : C(f) <=> Loops(f, Positions, Stop, out, nxt)
  <2> HIDE DEF Stop, out, nxt, B
  <2> QED BY <1>5, Zenon DEF Loops
<1>7. seekNameEnd(s) = MoveTo(s, nameEnd[s.pos])
  BY Zenon DEF seekNameEnd
<1> HIDE DEF Stop, out, nxt
<1>8. /\ \E f : Loops(f, Positions, Stop, out, nxt)
      /\ \A f : Loops(f, Positions, Stop, out, nxt) =>
           \A x \in Positions : f[x] \in Positions /\ x =< f[x] /\ f[x] \in Positions
  BY <1>3, <1>4, PositionLoop
<1>9. Loops(nameEnd, Positions, Stop, out, nxt)
  <2>1. C(CHOOSE f : C(f))
    BY <1>6, <1>8, Zenon
  <2>2. C(nameEnd)
    BY <2>1, Zenon
  <2> HIDE DEF nameEnd
  <2> QED BY <1>6, <2>2
<1> HIDE DEF nameEnd
<1>10. s.pos \in Positions
  BY StateFacts
<1>11. nameEnd[s.pos] \in Positions /\ s.pos =< nameEnd[s.pos]
  BY <1>8, <1>9, <1>10
<1>12. Goes(s, MoveTo(s, nameEnd[s.pos]))
  BY <1>11, MoveGoes
<1> QED BY <1>7, <1>12

\* seekEndTag stops at an end, or at the end of the text.
LEMMA seekEndTagGoes ==
  ASSUME Text, NEW s \in ParserStates, NEW tag
  PROVE  /\ Goes(s, seekEndTag(s, tag))
         /\ seekEndTag(s, tag).ok => Code(seekEndTag(s, tag).pos) = "end"
         /\ Goes(s, seekAndConsumeEndTag(s, tag))
         /\ Code(s.pos) # EOT => Moves(s, seekAndConsumeEndTag(s, tag))
<1> DEFINE ends == {i \in s.pos..Len(input) : Code(i) = "end" /\ EndTagAt(i) = tag}
           i == IF ends = {} THEN Len(input) + 1 ELSE CHOOSE i \in ends : \A k \in ends : i =< k
           u == MoveTo(s, i)
           t == seekEndTag(s, tag)
           v == ignoreToken(t)
           w == ignoreToken(v)
<1>1. /\ Len(input) \in Nat /\ Positions = 1..(Len(input) + 1) /\ s.pos \in Positions
      /\ s.pos \in Nat
  BY CodeFacts, StateFacts
<1>2. ends \in SUBSET Nat
  BY <1>1
<1>3. \A k \in ends : k \in s.pos..Len(input) /\ Code(k) = "end"
  OBVIOUS
<1>4. t = IF ends = {} THEN Invalid(u) ELSE Valid(u)
  BY DEF seekEndTag
<1> HIDE DEF ends
<1>5. ends # {} => i \in ends
  <2> SUFFICES ASSUME ends # {} PROVE i \in ends
    OBVIOUS
  <2>1. \E j \in ends : \A k \in ends : j =< k
    BY <1>2, LeastNatural
  <2> QED BY <2>1
<1>6. ends = {} => i = Len(input) + 1
  OBVIOUS
<1> HIDE DEF i
<1>7. i \in Positions /\ s.pos =< i /\ (ends # {} => Code(i) = "end")
      /\ (ends = {} => i = Len(input) + 1)
  BY <1>1, <1>3, <1>5, <1>6
<1>8. Goes(s, u) /\ u.pos = i
  BY <1>7, MoveGoes
<1>9. u \in ParserStates
  BY <1>8 DEF Goes
<1> HIDE DEF u, t
<1>10. /\ Goes(u, Valid(u)) /\ Valid(u).pos = u.pos
       /\ Goes(u, Invalid(u)) /\ Invalid(u).pos = u.pos /\ ~Invalid(u).ok /\ Valid(u).ok
  BY <1>9, StandsFacts
<1>11. Goes(u, t) /\ t.pos = i /\ (t.ok => ends # {}) /\ (~t.ok => ends = {})
  BY <1>4, <1>8, <1>10
<1>12. Goes(s, t) /\ t \in ParserStates
  BY <1>8, <1>11, GoesOn
<1>13. t.ok => Code(t.pos) = "end"
  BY <1>7, <1>11
<1>14. Goes(t, v) /\ (Code(t.pos) # EOT => Moves(t, v))
  BY <1>12, ignoreGoes
<1>15. v \in ParserStates
  BY <1>14 DEF Goes
<1> HIDE DEF v
<1>16. Goes(v, w)
  BY <1>15, ignoreGoes
<1> HIDE DEF w
<1>17. Goes(t, w) /\ (Moves(t, v) => Moves(t, w))
  BY <1>12, <1>14, <1>16, GoesOn
<1>18. Goes(s, w) /\ (Moves(t, w) => Moves(s, w))
  BY <1>12, <1>17, GoesOn
<1>19. seekAndConsumeEndTag(s, tag) = IF t.ok THEN w ELSE t
  BY DEF seekAndConsumeEndTag, t, v, w
<1>20. t.ok => Moves(s, w)
  BY <1>13, <1>14, <1>17, <1>18 DEF EOT
<1>21. ~t.ok /\ Code(s.pos) # EOT => Moves(s, t)
  <2> SUFFICES ASSUME ~t.ok, Code(s.pos) # EOT PROVE Moves(s, t)
    OBVIOUS
  <2>1. t.pos = Len(input) + 1
    BY <1>7, <1>11
  <2>2. s.pos \in 1..Len(input)
    BY CodeFacts
  <2> QED BY <1>1, <1>12, <2>1, <2>2 DEF Moves
<1> QED BY <1>12, <1>13, <1>18, <1>19, <1>20, <1>21 DEF t

\* seekEndIf ends behind the end if, or at the end of the text.
LEMMA seekEndIfGoes ==
  ASSUME Text, NEW s \in ParserStates
  PROVE  Goes(s, seekEndIf(s))
<1> DEFINE endIf[x \in Nestings] ==
             LET j == First(x.pos, {"if", "end"})
                 closes == Code(j) = "end" /\ Code(j + 1) = "if"
             IN  CASE Code(j) = "if" -> endIf[Nesting(j + 1, x.depth + 1)]
                   [] Code(j) = "end" /\ ~closes -> endIf[Nesting(j + 1, x.depth)]
                   [] closes /\ x.depth > 1 -> endIf[Nesting(j + 2, x.depth - 1)]
                   [] OTHER -> IF closes THEN j + 2 ELSE j
           J(x) == First(x.pos, {"if", "end"})
           past(x) == Code(J(x)) = "end" /\ Code(J(x) + 1) = "if"
           B(f, x) == CASE Code(J(x)) = "if" -> f[Nesting(J(x) + 1, x.depth + 1)]
                        [] Code(J(x)) = "end" /\ ~past(x) -> f[Nesting(J(x) + 1, x.depth)]
                        [] past(x) /\ x.depth > 1 -> f[Nesting(J(x) + 2, x.depth - 1)]
                        [] OTHER -> IF past(x) THEN J(x) + 2 ELSE J(x)
           C(f) == f = [x \in Nestings |-> B(f, x)]
           Stop == {x \in Nestings : Code(J(x)) = EOT \/ (past(x) /\ x.depth = 1)}
           out == [x \in Nestings |-> IF Code(J(x)) = EOT THEN J(x) ELSE J(x) + 2]
           nxt == [x \in Nestings |->
                    CASE Code(J(x)) = "if" -> Nesting(J(x) + 1, x.depth + 1)
                      [] past(x) -> Nesting(J(x) + 2, x.depth - 1)
                      [] OTHER -> Nesting(J(x) + 1, x.depth)]
<1>1. /\ Len(input) \in Nat /\ Positions = 1..(Len(input) + 1)
      /\ \A k : Code(k) # EOT => k \in 1..Len(input) /\ k \in Positions /\ k + 1 \in Positions
  BY CodeFacts
<1>2. \A x \in Nestings : /\ x.pos \in Positions /\ x.depth \in Nat \ {0}
                          /\ J(x) \in Positions /\ x.pos =< J(x)
                          /\ Code(J(x)) \in {"if", "end", EOT}
  <2> SUFFICES ASSUME NEW x \in Nestings
               PROVE  /\ x.pos \in Positions /\ x.depth \in Nat \ {0}
                      /\ J(x) \in Positions /\ x.pos =< J(x)
                      /\ Code(J(x)) \in {"if", "end", EOT}
    OBVIOUS
  <2>1. x.pos \in Positions /\ x.depth \in Nat \ {0}
    BY DEF Nestings
  <2>2. J(x) \in Positions /\ x.pos =< J(x) /\ Code(J(x)) \in {"if", "end"} \cup {EOT}
    BY <2>1, FirstFacts
  <2> QED BY <2>1, <2>2
<1>3. \A x \in Nestings : past(x) => J(x) + 2 \in Positions
  BY <1>1 DEF EOT
<1>4. \A f : \A x \in Nestings : B(f, x) = IF x \in Stop THEN out[x] ELSE f[nxt[x]]
  <2> SUFFICES ASSUME NEW f, NEW x \in Nestings
               PROVE  B(f, x) = IF x \in Stop THEN out[x] ELSE f[nxt[x]]
    OBVIOUS
  <2>1. Code(J(x)) \in {"if", "end", EOT}
    BY <1>2
  <2> HIDE DEF J
  <2>2. CASE Code(J(x)) = EOT
    BY <2>2 DEF EOT
  <2>3. CASE Code(J(x)) = "if"
    BY <2>3 DEF EOT
  <2>4. CASE past(x)
    <3>1. CASE x.depth = 1
      BY <2>4, <3>1 DEF EOT
    <3>2. CASE x.depth # 1
      BY <1>2, <2>4, <3>2 DEF EOT
    <3> QED BY <3>1, <3>2
  <2>5. CASE Code(J(x)) = "end" /\ Code(J(x) + 1) # "if"
    BY <2>5 DEF EOT
  <2> QED BY <2>1, <2>2, <2>3, <2>4, <2>5
<1>5. \A x \in Nestings : x \in Stop => out[x] \in Positions /\ x.pos =< out[x]
  <2> HIDE DEF J
  <2> QED BY <1>1, <1>2, <1>3 DEF EOT
<1>6. \A x \in Nestings : x \notin Stop =>
        /\ nxt[x] \in Nestings
        /\ nxt[x].pos \in {J(x) + 1, J(x) + 2} /\ nxt[x].pos \in Positions
  <2> HIDE DEF J
  <2> SUFFICES ASSUME NEW x \in Nestings, x \notin Stop
               PROVE  /\ nxt[x] \in Nestings
                      /\ nxt[x].pos \in {J(x) + 1, J(x) + 2} /\ nxt[x].pos \in Positions
    OBVIOUS
  <2>1. Code(J(x)) # EOT /\ J(x) + 1 \in Positions /\ x.depth \in Nat \ {0}
        /\ (past(x) => J(x) + 2 \in Positions /\ x.depth - 1 \in Nat \ {0})
    <3>1. Code(J(x)) # EOT /\ (past(x) => x.depth # 1)
      OBVIOUS
    <3>2. x.depth \in Nat \ {0} /\ J(x) \in Positions
      BY <1>2
    <3>3. past(x) => J(x) + 2 \in Positions
      BY <1>3
    <3> HIDE DEF Stop, past, nxt
    <3> QED BY <1>1, <3>1, <3>2, <3>3
  <2>2. \A i \in Positions, d \in Nat \ {0} : Nesting(i, d) \in Nestings /\ Nesting(i, d).pos = i
    BY DEF Nesting, Nestings
  <2>3. \/ nxt[x] = Nesting(J(x) + 1, x.depth + 1)
        \/ past(x) /\ nxt[x] = Nesting(J(x) + 2, x.depth - 1)
        \/ nxt[x] = Nesting(J(x) + 1, x.depth)
    OBVIOUS
  <2>4. x.depth + 1 \in Nat \ {0}
    BY <2>1
  <2> HIDE DEF nxt, Stop, past
  <2> QED BY <2>1, <2>2, <2>3, <2>4
<1>7. \A x \in Nestings : x \notin Stop => nxt[x] \in Nestings /\ x.pos < nxt[x].pos
  <2> HIDE DEF J, nxt, Stop
  <2> QED BY <1>1, <1>2, <1>6
<1>8. \A f : C(f) <=> Loops(f, Nestings, Stop, out, nxt)
  <2> HIDE DEF Stop, out, nxt, B
  <2> QED BY <1>4, Zenon DEF Loops
<1>9. seekEndIf(s) = MoveTo(s, endIf[Nesting(s.pos, 1)])
  BY Zenon DEF seekEndIf
<1>10. endIf = CHOOSE f : C(f)
  BY Zenon
<1> HIDE DEF Stop, out, nxt, J, B, endIf
<1>11. /\ \E f : Loops(f, Nestings, Stop, out, nxt)
       /\ \A f : Loops(f, Nestings, Stop, out, nxt) =>
            \A x \in Nestings : f[x] \in Positions /\ x.pos =< f[x]
  BY <1>5, <1>7, NestingLoop
<1>12. Loops(endIf, Nestings, Stop, out, nxt)
  <2>1. C(CHOOSE f : C(f))
    BY <1>8, <1>11, Zenon
  <2>2. C(endIf)
    BY <1>10, <2>1, Zenon
  <2> QED BY <1>8, <2>2
<1>13. s.pos \in Positions
  BY StateFacts
<1>14. Nesting(s.pos, 1) \in Nestings /\ Nesting(s.pos, 1).pos = s.pos
  BY <1>13 DEF Nesting, Nestings
<1>15. endIf[Nesting(s.pos, 1)] \in Positions /\ s.pos =< endIf[Nesting(s.pos, 1)]
  BY <1>11, <1>12, <1>14
<1>16. Goes(s, MoveTo(s, endIf[Nesting(s.pos, 1)]))
  BY <1>15, MoveGoes
<1> QED BY <1>9, <1>16

\* seekEndLoop ends behind the end loop, or at the end of the text.
LEMMA seekEndLoopGoes ==
  ASSUME Text, NEW s \in ParserStates, NEW tag
  PROVE  Goes(s, seekEndLoop(s, tag))
<1> DEFINE loopEnd[x \in Nestings] ==
             LET j == First(x.pos, {"for", "while", "loop", "end"})
                 header == Behind(First(j, {"loop"}))
                 closes == Code(j) = "end" /\ Code(j + 1) = "loop"
             IN  CASE Code(j) \in {"for", "while"} -> loopEnd[Nesting(header, x.depth + 1)]
                   [] Code(j) = "loop" -> loopEnd[Nesting(j + 1, x.depth + 1)]
                   [] Code(j) = "end" /\ ~closes -> loopEnd[Nesting(j + 1, x.depth)]
                   [] closes /\ x.depth > 1 -> loopEnd[Nesting(j + 2, x.depth - 1)]
                   [] OTHER -> IF closes THEN PastEndLoop(j, tag) ELSE j
           J(x) == First(x.pos, {"for", "while", "loop", "end"})
           H(x) == Behind(First(J(x), {"loop"}))
           past(x) == Code(J(x)) = "end" /\ Code(J(x) + 1) = "loop"
           B(f, x) == CASE Code(J(x)) \in {"for", "while"} -> f[Nesting(H(x), x.depth + 1)]
                        [] Code(J(x)) = "loop" -> f[Nesting(J(x) + 1, x.depth + 1)]
                        [] Code(J(x)) = "end" /\ ~past(x) -> f[Nesting(J(x) + 1, x.depth)]
                        [] past(x) /\ x.depth > 1 -> f[Nesting(J(x) + 2, x.depth - 1)]
                        [] OTHER -> IF past(x) THEN PastEndLoop(J(x), tag) ELSE J(x)
           C(f) == f = [x \in Nestings |-> B(f, x)]
           Stop == {x \in Nestings : Code(J(x)) = EOT \/ (past(x) /\ x.depth = 1)}
           out == [x \in Nestings |-> IF Code(J(x)) = EOT THEN J(x) ELSE PastEndLoop(J(x), tag)]
           nxt == [x \in Nestings |->
                    CASE Code(J(x)) \in {"for", "while"} -> Nesting(H(x), x.depth + 1)
                      [] Code(J(x)) = "loop" -> Nesting(J(x) + 1, x.depth + 1)
                      [] past(x) -> Nesting(J(x) + 2, x.depth - 1)
                      [] OTHER -> Nesting(J(x) + 1, x.depth)]
<1>1. /\ Len(input) \in Nat /\ Positions = 1..(Len(input) + 1)
      /\ \A k : Code(k) # EOT => k \in 1..Len(input) /\ k \in Positions /\ k + 1 \in Positions
  BY CodeFacts
<1>2. \A x \in Nestings : /\ x.pos \in Positions /\ x.depth \in Nat \ {0}
                          /\ J(x) \in Positions /\ x.pos =< J(x)
                          /\ Code(J(x)) \in {"for", "while", "loop", "end", EOT}
  <2> SUFFICES ASSUME NEW x \in Nestings
               PROVE  /\ x.pos \in Positions /\ x.depth \in Nat \ {0}
                      /\ J(x) \in Positions /\ x.pos =< J(x)
                      /\ Code(J(x)) \in {"for", "while", "loop", "end", EOT}
    OBVIOUS
  <2>1. x.pos \in Positions /\ x.depth \in Nat \ {0}
    BY DEF Nestings
  <2>2. J(x) \in Positions /\ x.pos =< J(x)
        /\ Code(J(x)) \in {"for", "while", "loop", "end"} \cup {EOT}
    BY <2>1, FirstFacts
  <2> QED BY <2>1, <2>2
<1>3. \A x \in Nestings : past(x) =>
        /\ J(x) + 2 \in Positions
        /\ PastEndLoop(J(x), tag) \in Positions /\ J(x) =< PastEndLoop(J(x), tag)
  <2> SUFFICES ASSUME NEW x \in Nestings, past(x)
               PROVE  /\ J(x) + 2 \in Positions
                      /\ PastEndLoop(J(x), tag) \in Positions /\ J(x) =< PastEndLoop(J(x), tag)
    OBVIOUS
  <2>1. J(x) + 2 \in Positions /\ J(x) \in Positions
    BY <1>1 DEF EOT
  <2>2. Behind(J(x) + 2) \in Positions /\ J(x) + 2 =< Behind(J(x) + 2)
    BY <2>1, BehindFacts
  <2> HIDE DEF J
  <2> QED BY <1>1, <2>1, <2>2 DEF PastEndLoop
<1>4. \A x \in Nestings : Code(J(x)) \in {"for", "while"} => H(x) \in Positions /\ J(x) < H(x)
  <2> SUFFICES ASSUME NEW x \in Nestings, Code(J(x)) \in {"for", "while"}
               PROVE  H(x) \in Positions /\ J(x) < H(x)
    OBVIOUS
  <2> DEFINE k == First(J(x), {"loop"})
  <2>1. J(x) \in Positions
    BY <1>2
  <2>2. H(x) = Behind(k)
    OBVIOUS
  <2>3. k \in Positions /\ J(x) =< k /\ Code(k) \in {"loop"} \cup {EOT}
    BY <2>1, FirstFacts
  <2> HIDE DEF J, H, k
  <2>4. Behind(k) \in Positions /\ k =< Behind(k)
    BY <2>3, BehindFacts
  <2>5. k # J(x)
    BY <2>3 DEF EOT
  <2> QED BY <1>1, <2>1, <2>2, <2>3, <2>4, <2>5
<1>5. \A f : \A x \in Nestings : B(f, x) = IF x \in Stop THEN out[x] ELSE f[nxt[x]]
  <2> SUFFICES ASSUME NEW f, NEW x \in Nestings
               PROVE  B(f, x) = IF x \in Stop THEN out[x] ELSE f[nxt[x]]
    OBVIOUS
  <2>1. Code(J(x)) \in {"for", "while", "loop", "end", EOT}
    BY <1>2
  <2> HIDE DEF J, H
  <2>2. CASE Code(J(x)) = EOT
    BY <2>2 DEF EOT
  <2>3. CASE Code(J(x)) \in {"for", "while"}
    BY <2>3 DEF EOT
  <2>4. CASE Code(J(x)) = "loop"
    BY <2>4 DEF EOT
  <2>5. CASE past(x)
    <3>1. CASE x.depth = 1
      BY <2>5, <3>1 DEF EOT
    <3>2. CASE x.depth # 1
      BY <1>2, <2>5, <3>2 DEF EOT
    <3> QED BY <3>1, <3>2
  <2>6. CASE Code(J(x)) = "end" /\ Code(J(x) + 1) # "loop"
    BY <2>6 DEF EOT
  <2> QED BY <2>1, <2>2, <2>3, <2>4, <2>5, <2>6
<1>6. \A x \in Nestings : x \in Stop => out[x] \in Positions /\ x.pos =< out[x]
  <2> HIDE DEF J
  <2> QED BY <1>1, <1>2, <1>3 DEF EOT
<1>7. \A x \in Nestings : x \notin Stop =>
        /\ nxt[x] \in Nestings
        /\ nxt[x].pos \in Positions /\ J(x) < nxt[x].pos
  <2> HIDE DEF J, H
  <2> SUFFICES ASSUME NEW x \in Nestings, x \notin Stop
               PROVE  /\ nxt[x] \in Nestings
                      /\ nxt[x].pos \in Positions /\ J(x) < nxt[x].pos
    OBVIOUS
  <2>1. Code(J(x)) # EOT /\ J(x) + 1 \in Positions /\ x.depth \in Nat \ {0} /\ J(x) \in Nat
        /\ (past(x) => J(x) + 2 \in Positions /\ x.depth - 1 \in Nat \ {0})
    <3>1. Code(J(x)) # EOT /\ (past(x) => x.depth # 1)
      OBVIOUS
    <3>2. x.depth \in Nat \ {0} /\ J(x) \in Positions
      BY <1>2
    <3>3. past(x) => J(x) + 2 \in Positions
      BY <1>3
    <3> HIDE DEF Stop, past, nxt
    <3> QED BY <1>1, <3>1, <3>2, <3>3
  <2>2. \A i \in Positions, d \in Nat \ {0} : Nesting(i, d) \in Nestings /\ Nesting(i, d).pos = i
    BY DEF Nesting, Nestings
  <2>3. \/ Code(J(x)) \in {"for", "while"} /\ nxt[x] = Nesting(H(x), x.depth + 1)
        \/ nxt[x] = Nesting(J(x) + 1, x.depth + 1)
        \/ past(x) /\ nxt[x] = Nesting(J(x) + 2, x.depth - 1)
        \/ nxt[x] = Nesting(J(x) + 1, x.depth)
    OBVIOUS
  <2>4. x.depth + 1 \in Nat \ {0}
    BY <2>1
  <2>5. Code(J(x)) \in {"for", "while"} => H(x) \in Positions /\ J(x) < H(x)
    BY <1>4
  <2>6. J(x) < J(x) + 1 /\ J(x) < J(x) + 2
    BY <2>1
  <2> HIDE DEF nxt, Stop, past
  <2> QED BY <2>1, <2>2, <2>3, <2>4, <2>5, <2>6
<1>8. \A x \in Nestings : x \notin Stop => nxt[x] \in Nestings /\ x.pos < nxt[x].pos
  <2> HIDE DEF J, nxt, Stop
  <2> QED BY <1>1, <1>2, <1>7
<1>9. \A f : C(f) <=> Loops(f, Nestings, Stop, out, nxt)
  <2> HIDE DEF Stop, out, nxt, B
  <2> QED BY <1>5, Zenon DEF Loops
<1>10. seekEndLoop(s, tag) = MoveTo(s, loopEnd[Nesting(s.pos, 1)])
  BY Zenon DEF seekEndLoop
<1>11. loopEnd = CHOOSE f : C(f)
  BY Zenon
<1> HIDE DEF Stop, out, nxt, J, H, B, loopEnd
<1>12. /\ \E f : Loops(f, Nestings, Stop, out, nxt)
       /\ \A f : Loops(f, Nestings, Stop, out, nxt) =>
            \A x \in Nestings : f[x] \in Positions /\ x.pos =< f[x]
  BY <1>6, <1>8, NestingLoop
<1>13. Loops(loopEnd, Nestings, Stop, out, nxt)
  <2>1. C(CHOOSE f : C(f))
    BY <1>9, <1>12, Zenon
  <2>2. C(loopEnd)
    BY <1>11, <2>1, Zenon
  <2> QED BY <1>9, <2>2
<1>14. s.pos \in Positions
  BY StateFacts
<1>15. Nesting(s.pos, 1) \in Nestings /\ Nesting(s.pos, 1).pos = s.pos
  BY <1>14 DEF Nesting, Nestings
<1>16. loopEnd[Nesting(s.pos, 1)] \in Positions /\ s.pos =< loopEnd[Nesting(s.pos, 1)]
  BY <1>12, <1>13, <1>15
<1>17. Goes(s, MoveTo(s, loopEnd[Nesting(s.pos, 1)]))
  BY <1>16, MoveGoes
<1> QED BY <1>10, <1>17

-----------------------------------------------------------------------------
(* Names and sequences of tokens.                                              *)

\* A routine that reads something if it succeeds.
Reads(s, t) == Goes(s, t) /\ (t.ok => Moves(s, t))

\* Whether a routine reads something does not depend on what it returns.
LEMMA ReadsFacts ==
  ASSUME NEW s, NEW t
  PROVE  /\ Reads(s, t) => Goes(s, t)
         /\ Moves(s, t) => Reads(s, t) /\ Goes(s, t)
         /\ Goes(s, t) /\ ~t.ok => Reads(s, t)
         /\ Reads(s, t) /\ t.ok => Moves(s, t)
BY DEF Reads, Moves

\* What the client refuses is noted, and nothing else changes.
LEMMA RefuseGoes ==
  ASSUME Text, NEW s \in ParserStates, NEW what \in Refusals
  PROVE  /\ Goes(s, refuse(s, what)) /\ ~refuse(s, what).ok /\ refuse(s, what).pos = s.pos
         /\ refuse(s, what).tags = s.tags
         /\ \A a \in BOOLEAN : /\ Goes(s, verdict(s, a, what)) /\ verdict(s, a, what).ok = a
                               /\ verdict(s, a, what).pos = s.pos
                               /\ verdict(s, a, what).tags = s.tags
<1>1. s.pos \in Nat /\ Len(s.tags) \in Nat
  BY StateFacts
<1>2. refuse(s, what) \in ParserStates
  BY DEF refuse, ParserStates
<1>3. /\ refuse(s, what).pos = s.pos /\ ~refuse(s, what).ok
      /\ refuse(s, what).open = s.open /\ refuse(s, what).tags = s.tags
  BY DEF refuse, ParserStates
<1>4. Goes(s, refuse(s, what))
  BY <1>1, <1>2, <1>3 DEF Goes
<1>5. Goes(s, Valid(s)) /\ Valid(s).pos = s.pos /\ Valid(s).ok /\ Valid(s).tags = s.tags
  BY StandsFacts
<1>6. Valid(s).ok \in BOOLEAN /\ refuse(s, what).ok \in BOOLEAN
  BY <1>2, <1>5 DEF Goes, ParserStates
<1> QED BY <1>3, <1>4, <1>5, <1>6 DEF verdict

\* A name, declared or not, is one token.
LEMMA parseNameGoes ==
  ASSUME Text, NEW s \in ParserStates
  PROVE  /\ Reads(s, parseName(s))
         /\ Code(s.pos) \in Ident => Moves(s, parseName(s))
<1> DEFINE t == ignoreToken(s)
           u == report(s)
           v == seekNameEnd(u)
<1>1. /\ Goes(s, t) /\ (Code(s.pos) # EOT => Moves(s, t))
      /\ Goes(s, u)
  BY ignoreGoes, StandsFacts
<1>2. t \in ParserStates /\ u \in ParserStates
  BY <1>1 DEF Goes
<1>3. parseName(s) = CASE At(s, Undeclared) -> refuse(t, "name")
                       [] At(s, Ident \ Undeclared) -> Valid(t)
                       [] OTHER -> Invalid(v)
  BY DEF parseName
<1>4. At(s, Undeclared) \/ At(s, Ident \ Undeclared) <=> Code(s.pos) \in Ident
  BY ParserAssumption DEF At
<1>5. ~(At(s, Undeclared) /\ At(s, Ident \ Undeclared))
  BY DEF At
<1> HIDE DEF t
<1>6. Goes(t, refuse(t, "name")) /\ Goes(t, Valid(t))
  <2>1. "name" \in Refusals
    BY DEF Refusals
  <2> QED BY <1>2, <2>1, RefuseGoes, StandsFacts
<1> HIDE DEF u
<1>7. Goes(u, v)
  BY <1>2, seekNameEndGoes
<1> HIDE DEF v
<1>8. Goes(s, v) /\ v \in ParserStates
  BY <1>1, <1>7, GoesOn
<1>9. Goes(v, Invalid(v)) /\ ~Invalid(v).ok
  BY <1>8, StandsFacts
<1>10. Goes(s, Invalid(v))
  BY <1>8, <1>9, GoesOn
<1>11. CASE Code(s.pos) \in Ident
  <2>1. Moves(s, t)
    BY <1>1, <1>11, CodeFacts
  <2>2. Moves(s, refuse(t, "name")) /\ Moves(s, Valid(t))
    BY <1>1, <1>6, <2>1, GoesOn
  <2>3. parseName(s) \in {refuse(t, "name"), Valid(t)}
    BY <1>3, <1>4, <1>5, <1>11
  <2>4. Moves(s, parseName(s))
    BY <2>2, <2>3
  <2> QED BY <2>4, ReadsFacts
<1>12. CASE Code(s.pos) \notin Ident
  <2>1. parseName(s) = Invalid(v)
    BY <1>3, <1>4, <1>12
  <2> QED BY <1>9, <1>10, <1>12, <2>1, ReadsFacts
<1> QED BY <1>11, <1>12

\* An expression is one token too.
LEMMA parseExprGoes ==
  ASSUME Text, NEW s \in ParserStates
  PROVE  Reads(s, parseExpr(s))
<1>1. CASE Code(s.pos) \in {"null"}
  <2>1. TakesToken(s, Valid(ignoreToken(s)), {"null"})
    BY <1>1, TakeIt
  <2>2. Reads(s, Valid(ignoreToken(s)))
    BY <2>1 DEF TakesToken, Reads, EOT
  <2> QED BY <1>1, <2>2 DEF parseExpr, At
<1>2. CASE Code(s.pos) \notin {"null"}
  BY <1>2, parseNameGoes DEF parseExpr, At
<1> QED BY <1>1, <1>2

\* One item of a phrase.
LEMMA parseItemGoes ==
  ASSUME Text, NEW s \in ParserStates, NEW item, item # EOT
  PROVE  /\ Reads(s, parseItem(s, item))
         /\ item \notin {"IDENTIFIER", "NAME", "EXPR"} /\ Code(s.pos) = item =>
              Moves(s, parseItem(s, item))
         /\ item \notin {"IDENTIFIER", "NAME", "EXPR"} /\ parseItem(s, item).ok =>
              parseItem(s, item).pos = s.pos + 1 /\ Code(s.pos) = item
         /\ item = "IDENTIFIER" /\ parseItem(s, item).ok => Code(s.pos) \in Ident
         /\ item = "IDENTIFIER" /\ Code(s.pos) \in Ident => Moves(s, parseItem(s, item))
<1>1. CASE item = "IDENTIFIER"
  <2>1. parseItem(s, item) = parseIdentifier(s)
    BY <1>1 DEF parseItem
  <2>2. TakesToken(s, parseIdentifier(s), Ident)
    BY TokenGoes
  <2> QED BY <1>1, <2>1, <2>2, IdentAssumption DEF TakesToken, Reads
<1>2. CASE item = "NAME"
  BY <1>2, parseNameGoes DEF parseItem
<1>3. CASE item = "EXPR"
  BY <1>3, parseExprGoes DEF parseItem
<1>4. CASE item \notin {"IDENTIFIER", "NAME", "EXPR"}
  <2>1. parseItem(s, item) = requireToken(s, item)
    BY <1>4 DEF parseItem
  <2>2. TakesToken(s, requireToken(s, item), {item})
    BY TokenGoes
  <2>3. Code(s.pos) = item => Behind(s.pos) = s.pos + 1
    BY DEF Behind
  <2> QED BY <1>4, <2>1, <2>2, <2>3 DEF TakesToken, Reads
<1> QED BY <1>1, <1>2, <1>3, <1>4

\* The states after each item of a phrase.
Phrases(after, s, items) ==
  \A i \in 0..Len(items) :
    after[i] = CASE i > 0 /\ after[i - 1].ok -> parseItem(after[i - 1], items[i])
                 [] i > 0 /\ ~after[i - 1].ok -> after[i - 1]
                 [] OTHER -> Valid(s)

\* The recursive function of Phrase is well defined.
LEMMA PhraseUnfolds ==
  ASSUME NEW s, NEW items, Len(items) \in Nat
  PROVE  \E after : Phrases(after, s, items) /\ Phrase(s, items) = after[Len(items)]
<1> DEFINE after[i \in 0..Len(items)] ==
             CASE i > 0 /\ after[i - 1].ok -> parseItem(after[i - 1], items[i])
               [] i > 0 /\ ~after[i - 1].ok -> after[i - 1]
               [] OTHER -> Valid(s)
           B(f, i) == CASE i > 0 /\ f[i - 1].ok -> parseItem(f[i - 1], items[i])
                        [] i > 0 /\ ~f[i - 1].ok -> f[i - 1]
                        [] OTHER -> Valid(s)
           C(f, n) == f = [i \in 0..n |-> B(f, i)]
           S == {n \in Nat : \E f : C(f, n)}
<1>1. 0 \in S
  <2> DEFINE g == [i \in 0..0 |-> Valid(s)]
  <2>1. \A i \in 0..0 : B(g, i) = Valid(s)
    OBVIOUS
  <2>2. g = [i \in 0..0 |-> B(g, i)]
    <3> HIDE DEF B
    <3> QED BY <2>1
  <2>3. C(g, 0)
    BY <2>2
  <2>4. \E f : C(f, 0)
    BY <2>3, Zenon
  <2> QED BY <2>4
<1>2. ASSUME NEW n \in Nat, n \in S PROVE n + 1 \in S
  <2>1. PICK f : C(f, n)
    BY <1>2
  <2> DEFINE g == [i \in 0..(n + 1) |-> IF i = n + 1 THEN B(f, n + 1) ELSE f[i]]
  <2>2. \A i \in 0..n : g[i] = f[i] /\ i # n + 1 /\ i \in 0..(n + 1)
    OBVIOUS
  <2>3. \A i \in 0..n : f[i] = B(f, i)
    <3> HIDE DEF B
    <3> QED BY <2>1, Zenon
  <2>4. ASSUME NEW i \in 0..(n + 1) PROVE g[i] = B(g, i)
    <3>1. CASE i = n + 1
      <4>1. g[i] = B(f, n + 1) /\ i # 0 /\ i - 1 = n /\ n \in 0..n
        <5> HIDE DEF B
        <5> QED BY <3>1
      <4>2. g[n] = f[n]
        BY <2>2, <4>1
      <4> HIDE DEF g
      <4>3. B(g, i) = B(f, i)
        BY <4>1, <4>2
      <4> QED BY <3>1, <4>1, <4>3
    <3>2. CASE i # n + 1
      <4>1. i \in 0..n /\ (i # 0 => i - 1 \in 0..n)
        BY <3>2
      <4>2. g[i] = f[i] /\ (i # 0 => g[i - 1] = f[i - 1])
        BY <2>2, <4>1
      <4> HIDE DEF g
      <4>3. B(g, i) = B(f, i)
        BY <4>1, <4>2
      <4>4. f[i] = B(f, i)
        BY <2>3, <4>1
      <4> QED BY <4>2, <4>3, <4>4
    <3> QED BY <3>1, <3>2
  <2> HIDE DEF B
  <2>5. C(g, n + 1)
    BY <2>4, Zenon
  <2>6. \E h : C(h, n + 1)
    BY <2>5, Zenon
  <2>7. n + 1 \in Nat
    OBVIOUS
  <2> QED BY <2>6, <2>7, Zenon
<1>3. \E f : C(f, Len(items))
  <2> HIDE DEF S
  <2>1. Len(items) \in S
    BY <1>1, <1>2, SetInduction
  <2> QED BY <2>1 DEF S
<1>4. after = CHOOSE f : C(f, Len(items))
  BY Zenon
<1>5. Phrase(s, items) = after[Len(items)]
  BY Zenon DEF Phrase
<1> HIDE DEF after, B
<1>6. C(after, Len(items))
  <2>1. C(CHOOSE f : C(f, Len(items)), Len(items))
    BY <1>3, Zenon
  <2> QED BY <1>4, <2>1, Zenon
<1>7. \A i \in 0..Len(items) : after[i] = B(after, i)
  BY <1>6, Zenon
<1>8. Phrases(after, s, items)
  BY <1>7, Zenon DEF Phrases, B
<1> QED BY <1>5, <1>8

\* A phrase that may occur in the grammar.
Items(items) ==
  Len(items) \in Nat /\ Len(items) > 0 /\ \A i \in 1..Len(items) : items[i] # EOT

\* A complete phrase has been read, and so has one whose first token is there.
LEMMA PhraseGoes ==
  ASSUME Text, NEW s \in ParserStates, NEW items, Items(items)
  PROVE  /\ Reads(s, Phrase(s, items))
         /\ items[1] \notin {"IDENTIFIER", "NAME", "EXPR"} /\ Code(s.pos) = items[1] =>
              Moves(s, Phrase(s, items))
         /\ items[1] = "IDENTIFIER" /\ Code(s.pos) \in Ident => Moves(s, Phrase(s, items))
<1>1. PICK after : Phrases(after, s, items) /\ Phrase(s, items) = after[Len(items)]
  BY PhraseUnfolds DEF Items
<1> DEFINE n == Len(items)
<1>2. /\ n \in Nat /\ n > 0 /\ 0 \in 0..n /\ 1 \in 0..n /\ 1 - 1 = 0
      /\ \A i \in 1..n : items[i] # EOT
  BY DEF Items
<1>3. /\ after[0] = Valid(s)
      /\ \A i \in 0..n : i # 0 =>
           after[i] = IF after[i - 1].ok THEN parseItem(after[i - 1], items[i]) ELSE after[i - 1]
  BY <1>1, <1>2 DEF Phrases
<1>4. /\ Goes(s, after[0]) /\ after[0] \in ParserStates /\ after[0].pos = s.pos /\ after[0].ok
  BY <1>3, StandsFacts DEF Goes
<1> DEFINE A(i) == /\ Goes(s, after[i])
                   /\ i # 0 => /\ after[i].ok => Moves(s, after[i])
                               /\ Moves(s, after[1]) => Moves(s, after[i])
           T == {i \in Nat : i \in 0..n => A(i)}
<1>5. 0 \in T
  BY <1>4
<1>6. ASSUME NEW i \in Nat, i \in T PROVE i + 1 \in T
  <2> SUFFICES ASSUME i + 1 \in 0..n PROVE A(i + 1)
    OBVIOUS
  <2>1. i \in 0..n /\ (i + 1) - 1 = i /\ i + 1 # 0 /\ i + 1 \in 1..n /\ (i = 0 => i + 1 = 1)
    OBVIOUS
  <2>2. A(i)
    BY <1>6, <2>1
  <2>3. after[i + 1] = IF after[i].ok THEN parseItem(after[i], items[i + 1]) ELSE after[i]
    BY <1>3, <2>1
  <2>4. after[i] \in ParserStates
    BY <2>2 DEF Goes
  <2>5. items[i + 1] # EOT
    BY <1>2, <2>1
  <2>6. CASE after[i].ok
    <3> DEFINE t == parseItem(after[i], items[i + 1])
    <3>1. Reads(after[i], t)
      BY <2>4, <2>5, parseItemGoes
    <3>2. after[i + 1] = t
      BY <2>3, <2>6
    <3> HIDE DEF t
    <3>3. Goes(s, t) /\ (t.ok => Moves(s, t)) /\ (Moves(s, after[i]) => Moves(s, t))
      BY <2>2, <3>1, GoesOn DEF Reads
    <3>4. i # 0 => Moves(s, t)
      BY <2>2, <2>6, <3>3
    <3>5. i = 0 => t = after[1]
      BY <2>1, <3>2
    <3> QED BY <2>1, <3>2, <3>3, <3>4, <3>5
  <2>7. CASE ~after[i].ok
    <3>1. i # 0
      BY <1>4, <2>7
    <3>2. after[i + 1] = after[i]
      BY <2>3, <2>7
    <3> QED BY <2>1, <2>2, <2>7, <3>1, <3>2
  <2> QED BY <2>6, <2>7
<1> HIDE DEF T
<1>7. n \in T
  BY <1>2, <1>5, <1>6, SetInduction
<1>8. A(n)
  <2>1. n \in 0..n
    BY <1>2
  <2> QED BY <1>7, <2>1 DEF T
<1>9. Goes(s, after[n]) /\ (after[n].ok => Moves(s, after[n]))
      /\ (Moves(s, after[1]) => Moves(s, after[n]))
  BY <1>2, <1>8
<1>10. after[1] = parseItem(after[0], items[1]) /\ items[1] # EOT
  BY <1>2, <1>3, <1>4
<1>11. /\ items[1] \notin {"IDENTIFIER", "NAME", "EXPR"} /\ Code(s.pos) = items[1] =>
           Moves(after[0], after[1])
       /\ items[1] = "IDENTIFIER" /\ Code(s.pos) \in Ident => Moves(after[0], after[1])
  BY <1>4, <1>10, parseItemGoes
<1>12. Moves(after[0], after[1]) => Moves(s, after[1])
  BY <1>4, GoesOn
<1> QED BY <1>1, <1>9, <1>11, <1>12 DEF Reads

\* A reserved word and an identifier.
LEMMA PhrasePair ==
  ASSUME Text, NEW s \in ParserStates, NEW a, a \notin {"IDENTIFIER", "NAME", "EXPR", EOT},
         Phrase(s, <<a, "IDENTIFIER">>).ok
  PROVE  Code(s.pos) = a /\ Code(s.pos + 1) \in Ident
<1> DEFINE items == <<a, "IDENTIFIER">>
<1>1. Len(items) = 2 /\ items[1] = a /\ items[2] = "IDENTIFIER"
  OBVIOUS
<1> HIDE DEF items
<1>2. PICK after : Phrases(after, s, items) /\ Phrase(s, items) = after[Len(items)]
  <2>1. Len(items) \in Nat
    BY <1>1
  <2> QED BY <2>1, PhraseUnfolds
<1>3. /\ 0 \in 0..Len(items) /\ 1 \in 0..Len(items) /\ 2 \in 0..Len(items)
      /\ 1 - 1 = 0 /\ 2 - 1 = 1
  BY <1>1
<1>4. /\ after[0] = Valid(s)
      /\ after[1] = IF after[0].ok THEN parseItem(after[0], a) ELSE after[0]
      /\ after[2] = IF after[1].ok THEN parseItem(after[1], "IDENTIFIER") ELSE after[1]
  BY <1>1, <1>2, <1>3 DEF Phrases
<1>5. after[2].ok
  BY <1>1, <1>2 DEF items
<1>6. after[0] \in ParserStates /\ after[0].ok /\ after[0].pos = s.pos
  BY <1>4, StandsFacts DEF Goes
<1>7. after[1].ok /\ after[1] = parseItem(after[0], a) /\ after[2] = parseItem(after[1], "IDENTIFIER")
  BY <1>4, <1>5, <1>6
<1> HIDE <1>4
<1>8. /\ Reads(after[0], parseItem(after[0], a))
      /\ parseItem(after[0], a).pos = after[0].pos + 1 /\ Code(after[0].pos) = a
  BY <1>6, <1>7, parseItemGoes
<1>9. after[1] \in ParserStates /\ after[1].pos = s.pos + 1 /\ Code(s.pos) = a
  BY <1>6, <1>7, <1>8 DEF Reads, Goes
<1>10. "IDENTIFIER" # EOT /\ parseItem(after[1], "IDENTIFIER").ok
  BY <1>5, <1>7 DEF EOT
<1>11. Code(after[1].pos) \in Ident
  BY <1>9, <1>10, parseItemGoes
<1> QED BY <1>9, <1>11

\* The recoveries.
LEMMA OrSeekGoes ==
  ASSUME Text, NEW s \in ParserStates
  PROVE  /\ Goes(s, OrSeekSemi(s)) /\ OrSeekSemi(s).ok = s.ok
         /\ ~s.ok => Code(OrSeekSemi(s).pos) \in {Semi, EOT}
         /\ s.ok => OrSeekSemi(s) = s
         /\ \A codes : /\ Goes(s, OrSeek(s, codes))
                       /\ s.ok \/ Code(OrSeek(s, codes).pos) \in codes \cup {EOT}
                       /\ s.ok => OrSeek(s, codes) = s
<1>1. Goes(s, s) /\ s.ok \in BOOLEAN
  BY StateFacts DEF Goes
<1> DEFINE t == seekSemi(s)
<1>2. Goes(s, t) /\ Code(t.pos) \in {Semi, EOT}
  BY seekSemiGoes
<1>3. t \in ParserStates
  BY <1>2 DEF Goes
<1>4. OrSeekSemi(s) = IF s.ok THEN s ELSE Invalid(t)
  BY DEF OrSeekSemi
<1> HIDE DEF t
<1>5. Goes(t, Invalid(t)) /\ Invalid(t).pos = t.pos /\ ~Invalid(t).ok /\ Invalid(t) \in ParserStates
  BY <1>3, StandsFacts DEF Goes
<1>6. Goes(s, Invalid(t)) /\ Invalid(t).ok \in BOOLEAN
  BY <1>2, <1>5, GoesOn, StateFacts
<1>7. \A codes : Goes(s, seekTokens(s, codes)) /\ Code(seekTokens(s, codes).pos) \in codes \cup {EOT}
  BY seekGoes
<1> QED BY <1>1, <1>2, <1>4, <1>5, <1>6, <1>7 DEF OrSeek

\* A phrase, or the next semicolon.
LEMMA PhraseToSemiGoes ==
  ASSUME Text, NEW s \in ParserStates, NEW items, Items(items)
  PROVE  /\ Reads(s, PhraseToSemi(s, items))
         /\ items[1] \notin {"IDENTIFIER", "NAME", "EXPR"} /\ Code(s.pos) = items[1] =>
              Moves(s, PhraseToSemi(s, items))
         /\ ~PhraseToSemi(s, items).ok => Code(PhraseToSemi(s, items).pos) \in {Semi, EOT}
<1> DEFINE t == Phrase(s, items)
           u == OrSeekSemi(t)
<1>1. /\ Reads(s, t)
      /\ items[1] \notin {"IDENTIFIER", "NAME", "EXPR"} /\ Code(s.pos) = items[1] => Moves(s, t)
  BY PhraseGoes
<1>2. PhraseToSemi(s, items) = u
  BY DEF PhraseToSemi
<1>3. t \in ParserStates
  BY <1>1 DEF Reads, Goes
<1> HIDE DEF t
<1>4. Goes(t, u) /\ u.ok = t.ok /\ (~t.ok => Code(u.pos) \in {Semi, EOT})
  BY <1>3, OrSeekGoes
<1> HIDE DEF u
<1>5. Goes(s, u) /\ (Moves(s, t) => Moves(s, u))
  BY <1>1, <1>4, GoesOn DEF Reads
<1> QED BY <1>1, <1>2, <1>4, <1>5 DEF Reads

-----------------------------------------------------------------------------
(* Declarations.                                                               *)

\* Tokens read or posted about, one after the other.
LEMMA StepsGo ==
  ASSUME Text, NEW s \in ParserStates
  PROVE  /\ ignoreToken(s) \in ParserStates /\ Goes(s, ignoreToken(s))
         /\ report(s) \in ParserStates /\ Goes(s, report(s))
         /\ Goes(s, ignoreToken(report(s))) /\ ignoreToken(report(s)) \in ParserStates
         /\ Goes(s, report(ignoreToken(s))) /\ report(ignoreToken(s)) \in ParserStates
         /\ Goes(s, ignoreToken(ignoreToken(s))) /\ ignoreToken(ignoreToken(s)) \in ParserStates
         /\ Code(s.pos) # EOT => /\ Moves(s, ignoreToken(s))
                                 /\ Moves(s, ignoreToken(report(s)))
                                 /\ Moves(s, report(ignoreToken(s)))
                                 /\ Moves(s, ignoreToken(ignoreToken(s)))
<1> DEFINE t == ignoreToken(s)
           r == report(s)
           u == ignoreToken(t)
           v == ignoreToken(r)
           w == report(t)
<1>1. /\ Goes(s, t) /\ (Code(s.pos) # EOT => Moves(s, t))
      /\ Goes(s, r) /\ r.pos = s.pos
  BY ignoreGoes, StandsFacts
<1>2. t \in ParserStates /\ r \in ParserStates
  BY <1>1 DEF Goes
<1> HIDE DEF t, r
<1>3. Goes(t, u) /\ Goes(r, v) /\ (Code(r.pos) # EOT => Moves(r, v)) /\ Goes(t, w)
  BY <1>2, ignoreGoes, StandsFacts
<1> HIDE DEF u, v, w
<1>4. /\ Goes(s, u) /\ Goes(s, v) /\ Goes(s, w)
      /\ Moves(s, t) => Moves(s, u) /\ Moves(s, w)
      /\ Moves(r, v) => Moves(s, v)
  BY <1>1, <1>3, GoesOn
<1>5. u \in ParserStates /\ v \in ParserStates /\ w \in ParserStates
  BY <1>4 DEF Goes
<1> QED BY <1>1, <1>2, <1>3, <1>4, <1>5 DEF t, r, u, v, w

\* "in", "out", both or none, in whatever order.
LEMMA parseParameterModeGoes ==
  ASSUME Text, NEW s \in ParserStates
  PROVE  Goes(s, parseParameterMode(s))
<1> DEFINE a == ignoreToken(s)
           b == reduceToken(a, "out")
           t == reduceToken(s, "out")
           c == ignoreToken(report(t))
<1>1. Goes(s, a) /\ a \in ParserStates
  BY StepsGo
<1>2. TakesToken(s, t, {"out"})
  BY TokenGoes
<1>3. parseParameterMode(s) = IF At(s, {"in"}) THEN b ELSE IF t.ok /\ At(t, {"in"}) THEN c ELSE t
  BY DEF parseParameterMode
<1> HIDE DEF a
<1>4. TakesToken(a, b, {"out"})
  BY <1>1, TokenGoes
<1>5. Goes(s, b)
  BY <1>1, <1>4, GoesOn DEF TakesToken
<1> HIDE DEF b, t
<1>6. Goes(s, t) /\ t \in ParserStates
  BY <1>2 DEF TakesToken, Goes
<1>7. Goes(t, c)
  BY <1>6, StepsGo
<1>8. Goes(s, c)
  BY <1>6, <1>7, GoesOn
<1> QED BY <1>3, <1>5, <1>6, <1>8

\* A parameter.
LEMMA parseSubroutineParameterGoes ==
  ASSUME Text, NEW s \in ParserStates
  PROVE  Goes(s, parseSubroutineParameter(s))
<1> DEFINE items == <<"IDENTIFIER", ":">>
           t == Phrase(s, items)
           u == parseParameterMode(t)
           v == parseName(u)
<1>1. Items(items)
  BY DEF Items, EOT
<1>2. parseSubroutineParameter(s) = IF t.ok THEN v ELSE t
  BY DEF parseSubroutineParameter, Then
<1> HIDE DEF items
<1>3. Reads(s, t)
  BY <1>1, PhraseGoes
<1>4. Goes(s, t) /\ t \in ParserStates
  BY <1>3 DEF Reads, Goes
<1> HIDE DEF t
<1>5. Goes(t, u)
  BY <1>4, parseParameterModeGoes
<1>6. u \in ParserStates
  BY <1>5 DEF Goes
<1> HIDE DEF u
<1>7. Reads(u, v)
  BY <1>6, parseNameGoes
<1> HIDE DEF v
<1>8. Goes(s, u)
  BY <1>4, <1>5, GoesOn
<1>9. Goes(s, v)
  BY <1>7, <1>8, GoesOn DEF Reads
<1> QED BY <1>2, <1>4, <1>9

\* A list of parameters, however it ends.
LEMMA parseSubroutineParametersGoes ==
  ASSUME Text, NEW s \in ParserStates
  PROVE  Goes(s, parseSubroutineParameters(s))
<1> DEFINE abandon(c) == IF c.ok THEN ignoreToken(c) ELSE c
           list[l \in ParserStates] ==
             LET at(t) == CASE At(t, {Semi}) -> list[ignoreToken(t)]
                            [] At(t, {Comma}) -> list[ignoreToken(report(t))]
                            [] At(t, {")"}) -> ignoreToken(t)
                            [] OTHER -> abandon(seekCloseParen(report(t)))
             IN  at(OrSeek(parseSubroutineParameter(l), {Semi, ")"}))
           P(l) == OrSeek(parseSubroutineParameter(l), {Semi, ")"})
           B(f, l) == CASE At(P(l), {Semi}) -> f[ignoreToken(P(l))]
                        [] At(P(l), {Comma}) -> f[ignoreToken(report(P(l)))]
                        [] At(P(l), {")"}) -> ignoreToken(P(l))
                        [] OTHER -> abandon(seekCloseParen(report(P(l))))
           C(f) == f = [l \in ParserStates |-> B(f, l)]
           Stop == {l \in ParserStates : Code(P(l).pos) \notin {Semi, Comma}}
           out == [l \in ParserStates |-> IF At(P(l), {")"}) THEN ignoreToken(P(l))
                                          ELSE abandon(seekCloseParen(report(P(l))))]
           nxt == [l \in ParserStates |-> IF At(P(l), {Semi}) THEN ignoreToken(P(l))
                                          ELSE ignoreToken(report(P(l)))]
           empty == ignoreToken(ignoreToken(report(s)))
<1>1. \A l \in ParserStates : Goes(l, P(l)) /\ P(l) \in ParserStates
  <2> SUFFICES ASSUME NEW l \in ParserStates PROVE Goes(l, P(l)) /\ P(l) \in ParserStates
    OBVIOUS
  <2> DEFINE p == parseSubroutineParameter(l)
             q == OrSeek(p, {Semi, ")"})
  <2>1. Goes(l, p)
    BY parseSubroutineParameterGoes
  <2>2. p \in ParserStates
    BY <2>1 DEF Goes
  <2>3. P(l) = q
    OBVIOUS
  <2> HIDE DEF p, P
  <2>4. Goes(p, q)
    BY <2>2, OrSeekGoes
  <2> HIDE DEF q
  <2>5. Goes(l, q)
    BY <2>1, <2>4, GoesOn
  <2> QED BY <2>3, <2>5 DEF Goes
<1>2. \A f : \A l \in ParserStates : B(f, l) = IF l \in Stop THEN out[l] ELSE f[nxt[l]]
  <2> HIDE DEF P, abandon
  <2> QED BY SeparatorFacts DEF At
<1>3. \A f : C(f) <=> Loops(f, ParserStates, Stop, out, nxt)
  <2> HIDE DEF Stop, out, nxt, B
  <2> QED BY <1>2, Zenon DEF Loops
<1>4. parseSubroutineParameters(s) =
        CASE ~At(s, {"("}) -> s
          [] At(s, {"("}) /\ nextTokenIs(s, {")"}) -> empty
          [] OTHER -> list[ignoreToken(s)]
  BY Zenon DEF parseSubroutineParameters
<1>5. list = CHOOSE f : C(f)
  BY Zenon
<1>6. \A l \in ParserStates : l \in Stop => Goes(l, out[l])
  <2> SUFFICES ASSUME NEW l \in ParserStates PROVE Goes(l, out[l])
    OBVIOUS
  <2> DEFINE p == P(l)
             r == report(p)
             c == seekCloseParen(r)
             d == ignoreToken(c)
  <2>1. Goes(l, p) /\ p \in ParserStates
    BY <1>1
  <2>2. out[l] \in {ignoreToken(p), c, d}
    OBVIOUS
  <2> HIDE DEF P, out, p
  <2>3. Goes(p, ignoreToken(p)) /\ Goes(p, r) /\ r \in ParserStates
    BY <2>1, StepsGo
  <2> HIDE DEF r
  <2>4. Goes(r, c)
    BY <2>3, seekCloseParenGoes
  <2>5. Goes(p, c) /\ c \in ParserStates
    BY <2>1, <2>3, <2>4, GoesOn
  <2> HIDE DEF c
  <2>6. Goes(c, d)
    BY <2>5, StepsGo
  <2> HIDE DEF d
  <2>7. Goes(p, d)
    BY <2>1, <2>5, <2>6, GoesOn
  <2>8. Goes(l, ignoreToken(p)) /\ Goes(l, c) /\ Goes(l, d)
    BY <2>1, <2>3, <2>5, <2>7, GoesOn
  <2> QED BY <2>2, <2>8
<1>7. \A l \in ParserStates : l \notin Stop => Moves(l, nxt[l])
  <2> SUFFICES ASSUME NEW l \in ParserStates, l \notin Stop PROVE Moves(l, nxt[l])
    OBVIOUS
  <2> DEFINE p == P(l)
  <2>1. Goes(l, p) /\ p \in ParserStates
    BY <1>1
  <2>2. Code(p.pos) # EOT
    BY SeparatorFacts
  <2>3. nxt[l] \in {ignoreToken(p), ignoreToken(report(p))}
    OBVIOUS
  <2> HIDE DEF P, nxt, Stop, p
  <2>4. Moves(p, ignoreToken(p)) /\ Moves(p, ignoreToken(report(p)))
    BY <2>1, <2>2, StepsGo
  <2>5. Moves(l, ignoreToken(p)) /\ Moves(l, ignoreToken(report(p)))
    BY <2>1, <2>4, GoesOn
  <2> QED BY <2>3, <2>5
<1> HIDE DEF Stop, out, nxt, P, B, list, abandon
<1>8. /\ \E f : Loops(f, ParserStates, Stop, out, nxt)
      /\ \A f : Loops(f, ParserStates, Stop, out, nxt) =>
           \A x \in ParserStates : Goes(x, f[x])
  BY <1>6, <1>7, StateLoop
<1>9. Loops(list, ParserStates, Stop, out, nxt)
  <2>1. C(CHOOSE f : C(f))
    BY <1>3, <1>8, Zenon
  <2>2. C(list)
    BY <1>5, <2>1, Zenon
  <2> QED BY <1>3, <2>2
<1>10. \A x \in ParserStates : Goes(x, list[x])
  BY <1>8, <1>9
<1>11. Goes(s, ignoreToken(s)) /\ ignoreToken(s) \in ParserStates
  BY StepsGo
<1>12. Goes(s, list[ignoreToken(s)])
  BY <1>10, <1>11, GoesOn
<1>13. Goes(s, empty)
  <2> DEFINE r == report(s)
  <2>1. Goes(s, r) /\ r \in ParserStates
    BY StepsGo
  <2> HIDE DEF r
  <2>2. Goes(r, ignoreToken(ignoreToken(r)))
    BY <2>1, StepsGo
  <2>3. Goes(s, ignoreToken(ignoreToken(r)))
    BY <2>1, <2>2, GoesOn
  <2> QED BY <2>3 DEF r
<1>14. Goes(s, s)
  BY <1>11, GoesOn
<1> HIDE DEF empty
<1> QED BY <1>4, <1>12, <1>13, <1>14

\* The end of a declaration pushes the name if a body follows.
LEMMA endSubroutineDeclarationGoes ==
  ASSUME Text, NEW s \in ParserStates, NEW name \in Ident, NEW bodyFollows \in BOOLEAN,
         NEW accepted \in BOOLEAN
  PROVE  LET t == endSubroutineDeclaration(s, name, bodyFollows, accepted)
         IN  /\ Goes(s, t) /\ t.pos = s.pos
             /\ bodyFollows => Len(s.tags) < Len(t.tags)
<1> DEFINE u == [s EXCEPT !.tags = IF bodyFollows THEN Append(@, name) ELSE @]
           t == verdict(u, accepted, "subroutine")
<1>1. s.tags \in Seq(Ident) /\ Len(s.tags) \in Nat /\ s.pos \in Nat
  BY StateFacts
<1>2. /\ Append(s.tags, name) \in Seq(Ident)
      /\ Len(Append(s.tags, name)) = Len(s.tags) + 1
  BY <1>1
<1>3. /\ u \in ParserStates /\ u.pos = s.pos /\ u.open = s.open
      /\ u.tags = IF bodyFollows THEN Append(s.tags, name) ELSE s.tags
  BY <1>2 DEF ParserStates
<1>4. endSubroutineDeclaration(s, name, bodyFollows, accepted) = t
  BY DEF endSubroutineDeclaration
<1> HIDE DEF u
<1>5. "subroutine" \in Refusals
  BY DEF Refusals
<1>6. Goes(u, t) /\ t.pos = u.pos /\ t.tags = u.tags
  BY <1>3, <1>5, RefuseGoes
<1> HIDE DEF t
<1>7. Len(s.tags) =< Len(u.tags) /\ (bodyFollows => Len(s.tags) < Len(u.tags))
  BY <1>1, <1>2, <1>3
<1>8. Goes(s, u)
  BY <1>1, <1>3, <1>7 DEF Goes
<1>9. Goes(s, t)
  BY <1>6, <1>8, GoesOn
<1> QED BY <1>3, <1>4, <1>6, <1>7, <1>9

\* A subroutine declaration that succeeds has named the subroutine, and if a
\* body follows has pushed the name.
Declares(s, t) ==
  /\ Goes(s, t)
  /\ t.ok => Code(s.pos + 1) \in Ident
  /\ t.ok /\ Code(t.pos) = "is" => Len(s.tags) < Len(t.tags)

\* parseProcedureDeclaration.
LEMMA parseProcedureDeclarationGoes ==
  ASSUME Text, NEW s \in ParserStates, NEW accepted \in BOOLEAN
  PROVE  /\ Declares(s, parseProcedureDeclaration(s, accepted))
         /\ Code(s.pos) = "procedure" => Moves(s, parseProcedureDeclaration(s, accepted))
<1> DEFINE items == <<"procedure", "IDENTIFIER">>
           t == Phrase(s, items)
           p == parseSubroutineParameters(t)
           r == report(p)
           q == seekTokens(r, {Semi, "is"})
           n == IF At(p, {"return"}) THEN q ELSE p
           u == endSubroutineDeclaration(n, Code(s.pos + 1), At(n, {"is"}), accepted)
<1>1. /\ Items(items)
      /\ items[1] = "procedure"
  BY DEF Items, EOT
<1>2. parseProcedureDeclaration(s, accepted) = IF t.ok THEN u ELSE t
  BY DEF parseProcedureDeclaration, Then
<1>3. t.ok => Code(s.pos + 1) \in Ident
  BY PhrasePair DEF EOT
<1> HIDE DEF items
<1>4. Reads(s, t) /\ (Code(s.pos) = "procedure" => Moves(s, t))
  BY <1>1, PhraseGoes
<1>5. Goes(s, t) /\ t \in ParserStates
  BY <1>4 DEF Reads, Goes
<1> HIDE DEF t
<1>6. Goes(t, p)
  BY <1>5, parseSubroutineParametersGoes
<1>7. p \in ParserStates
  BY <1>6 DEF Goes
<1> HIDE DEF p
<1>8. Goes(p, r) /\ r \in ParserStates
  BY <1>7, StepsGo
<1> HIDE DEF r
<1>9. Goes(r, q)
  BY <1>8, seekGoes
<1> HIDE DEF q
<1>10. Goes(p, q) /\ Goes(p, p)
  BY <1>7, <1>8, <1>9, GoesOn
<1>11. Goes(p, n)
  BY <1>10
<1>12. n \in ParserStates
  BY <1>11 DEF Goes
<1> HIDE DEF n
<1>13. Goes(t, n)
  BY <1>5, <1>6, <1>11, GoesOn
<1>14. Goes(s, n)
  BY <1>5, <1>13, GoesOn
<1> DEFINE b == At(n, {"is"})
<1>15. b \in BOOLEAN /\ (b <=> Code(n.pos) = "is")
  <2>1. b \in BOOLEAN
    BY DEF At
  <2>2. b <=> Code(n.pos) = "is"
    BY DEF At
  <2> QED BY <2>1, <2>2
<1>16. u = endSubroutineDeclaration(n, Code(s.pos + 1), b, accepted)
  OBVIOUS
<1> HIDE DEF b, u
<1>17. t.ok => Goes(n, u) /\ u.pos = n.pos /\ (b => Len(n.tags) < Len(u.tags))
  BY <1>3, <1>12, <1>15, <1>16, endSubroutineDeclarationGoes
<1>18. t.ok => Goes(t, u) /\ Goes(s, u)
  BY <1>5, <1>13, <1>14, <1>17, GoesOn
<1>19. t.ok /\ Code(s.pos) = "procedure" => Moves(s, u)
  BY <1>4, <1>5, <1>18, GoesOn
<1>20. t.ok /\ Code(u.pos) = "is" => Len(s.tags) < Len(u.tags)
  <2>1. Len(s.tags) \in Nat /\ Len(n.tags) \in Nat /\ (t.ok => u \in ParserStates)
    BY <1>12, <1>18, StateFacts DEF Goes
  <2>2. t.ok => Len(u.tags) \in Nat
    BY <2>1, StateFacts
  <2>3. Len(s.tags) =< Len(n.tags)
    BY <1>14 DEF Goes
  <2> QED BY <1>15, <1>17, <2>1, <2>2, <2>3
<1> QED BY <1>2, <1>3, <1>4, <1>5, <1>18, <1>19, <1>20 DEF Declares

\* parseFunctionDeclaration.
LEMMA parseFunctionDeclarationGoes ==
  ASSUME Text, NEW s \in ParserStates, NEW accepted \in BOOLEAN
  PROVE  /\ Declares(s, parseFunctionDeclaration(s, accepted))
         /\ Code(s.pos) = "function" => Moves(s, parseFunctionDeclaration(s, accepted))
<1> DEFINE items == <<"function", "IDENTIFIER">>
           t == Phrase(s, items)
           p == parseSubroutineParameters(t)
           i == ignoreToken(p)
           m == parseName(i)
           q == OrSeek(m, {Semi, "is"})
           n == IF At(p, {"return"}) THEN q ELSE report(p)
           u == endSubroutineDeclaration(n, Code(s.pos + 1), At(n, {"is", "begin"}), accepted)
<1>1. /\ Items(items)
      /\ items[1] = "function"
  BY DEF Items, EOT
<1>2. parseFunctionDeclaration(s, accepted) = IF t.ok THEN u ELSE t
  BY DEF parseFunctionDeclaration, Then
<1>3. t.ok => Code(s.pos + 1) \in Ident
  BY PhrasePair DEF EOT
<1> HIDE DEF items
<1>4. Reads(s, t) /\ (Code(s.pos) = "function" => Moves(s, t))
  BY <1>1, PhraseGoes
<1>5. Goes(s, t) /\ t \in ParserStates
  BY <1>4 DEF Reads, Goes
<1> HIDE DEF t
<1>6. Goes(t, p)
  BY <1>5, parseSubroutineParametersGoes
<1>7. p \in ParserStates
  BY <1>6 DEF Goes
<1> HIDE DEF p
<1>8. Goes(p, i) /\ i \in ParserStates /\ Goes(p, report(p))
  BY <1>7, StepsGo
<1> HIDE DEF i
<1>9. Goes(i, m) /\ m \in ParserStates
  BY <1>8, parseNameGoes DEF Reads, Goes
<1> HIDE DEF m
<1>10. Goes(m, q)
  BY <1>9, OrSeekGoes
<1> HIDE DEF q
<1>11. Goes(i, q)
  BY <1>8, <1>9, <1>10, GoesOn
<1>12. Goes(p, q)
  BY <1>7, <1>8, <1>11, GoesOn
<1>13. Goes(p, n)
  BY <1>8, <1>12
<1>14. n \in ParserStates
  BY <1>13 DEF Goes
<1> HIDE DEF n
<1>15. Goes(t, n)
  BY <1>5, <1>6, <1>13, GoesOn
<1>16. Goes(s, n)
  BY <1>5, <1>15, GoesOn
<1> DEFINE b == At(n, {"is", "begin"})
<1>17. b \in BOOLEAN /\ (Code(n.pos) = "is" => b)
  <2>1. b \in BOOLEAN
    BY DEF At
  <2>2. Code(n.pos) = "is" => b
    BY DEF At
  <2> QED BY <2>1, <2>2
<1>18. u = endSubroutineDeclaration(n, Code(s.pos + 1), b, accepted)
  OBVIOUS
<1> HIDE DEF b, u
<1>19. t.ok => Goes(n, u) /\ u.pos = n.pos /\ (b => Len(n.tags) < Len(u.tags))
  BY <1>3, <1>14, <1>17, <1>18, endSubroutineDeclarationGoes
<1>20. t.ok => Goes(t, u) /\ Goes(s, u)
  BY <1>5, <1>15, <1>16, <1>19, GoesOn
<1>21. t.ok /\ Code(s.pos) = "function" => Moves(s, u)
  BY <1>4, <1>5, <1>20, GoesOn
<1>22. t.ok /\ Code(u.pos) = "is" => Len(s.tags) < Len(u.tags)
  <2>1. Len(s.tags) \in Nat /\ Len(n.tags) \in Nat /\ (t.ok => u \in ParserStates)
    BY <1>14, <1>20, StateFacts DEF Goes
  <2>2. t.ok => Len(u.tags) \in Nat
    BY <2>1, StateFacts
  <2>3. Len(s.tags) =< Len(n.tags)
    BY <1>16 DEF Goes
  <2> QED BY <1>17, <1>19, <2>1, <2>2, <2>3
<1> QED BY <1>2, <1>3, <1>4, <1>5, <1>20, <1>21, <1>22 DEF Declares

\* Either of them.
LEMMA parseSubroutineDeclarationGoes ==
  ASSUME Text, NEW s \in ParserStates, NEW accepted \in BOOLEAN
  PROVE  /\ Declares(s, parseSubroutineDeclaration(s, accepted))
         /\ Code(s.pos) \in {"function", "procedure"} =>
              Moves(s, parseSubroutineDeclaration(s, accepted))
<1>1. CASE Code(s.pos) = "function"
  BY <1>1, parseFunctionDeclarationGoes DEF parseSubroutineDeclaration, At
<1>2. CASE Code(s.pos) # "function"
  BY <1>2, parseProcedureDeclarationGoes DEF parseSubroutineDeclaration, At
<1> QED BY <1>1, <1>2

\* Phrases of two, three and seven items.
LEMMA ItemsFacts ==
  ASSUME NEW a, NEW b, NEW c, NEW d, NEW e, NEW f, NEW g,
         a # EOT, b # EOT, c # EOT, d # EOT, e # EOT, f # EOT, g # EOT
  PROVE  Items(<<a, b>>) /\ Items(<<a, b, c>>) /\ Items(<<a, b, c, d, e, f, g>>)
<1>1. Items(<<a, b>>)
  BY DEF Items
<1>2. Items(<<a, b, c>>)
  BY DEF Items
<1>3. Items(<<a, b, c, d, e, f, g>>)
  BY DEF Items
<1> QED BY <1>1, <1>2, <1>3

\* The phrases of the grammar.
LEMMA GrammarItems ==
  /\ Items(<<"with", "IDENTIFIER", Semi>>) /\ Items(<<"use", "NAME">>)
  /\ Items(<<"EXPR", "..", "EXPR">>) /\ Items(<<"range", "EXPR", "..", "EXPR">>)
  /\ Items(<<"mod", "EXPR">>) /\ Items(<<"access", "NAME">>) /\ Items(<<"private">>)
  /\ Items(<<"of", "NAME">>) /\ Items(<<"IDENTIFIER", ":", "NAME">>) /\ Items(<<"IDENTIFIER", ":">>)
  /\ Items(<<"end", "record">>) /\ Items(<<"type", "IDENTIFIER">>)
  /\ Items(<<"subtype", "IDENTIFIER", "is", "NAME">>)
  /\ Items(<<"(", "IDENTIFIER", Comma, "IDENTIFIER", Comma, "EXPR", ")">>)
  /\ Items(<<"pragma", "IDENTIFIER">>) /\ Items(<<"return", "EXPR">>) /\ Items(<<"when", "EXPR">>)
  /\ Items(<<"raise", "NAME">>) /\ Items(<<"with", "EXPR">>) /\ Items(<<"(", "EXPR">>)
  /\ Items(<<Comma, "EXPR">>) /\ Items(<<"while", "EXPR", "loop">>)
  /\ Items(<<"for", "IDENTIFIER", "in">>) /\ Items(<<"end", "loop">>) /\ Items(<<"end", "if">>)
  /\ Items(<<"if", "EXPR", "then">>) /\ Items(<<"elsif", "EXPR", "then">>)
<1> DEFINE Codes == /\ "with" # EOT /\ "IDENTIFIER" # EOT /\ Semi # EOT
                    /\ "(" # EOT /\ Comma # EOT /\ "EXPR" # EOT /\ ")" # EOT
<1>0. Codes
  BY SeparatorFacts DEF EOT
<1>1. Items(<<"with", "IDENTIFIER", Semi>>)
  BY <1>0, ItemsFacts
<1>2. Items(<<"use", "NAME">>)
  BY DEF Items, EOT
<1>3. Items(<<"EXPR", "..", "EXPR">>)
  BY DEF Items, EOT
<1>4. Items(<<"range", "EXPR", "..", "EXPR">>)
  BY DEF Items, EOT
<1>5. Items(<<"mod", "EXPR">>)
  BY DEF Items, EOT
<1>6. Items(<<"access", "NAME">>)
  BY DEF Items, EOT
<1>7. Items(<<"private">>)
  BY DEF Items, EOT
<1>8. Items(<<"of", "NAME">>)
  BY DEF Items, EOT
<1>9. Items(<<"IDENTIFIER", ":", "NAME">>)
  BY DEF Items, EOT
<1>10. Items(<<"IDENTIFIER", ":">>)
  BY DEF Items, EOT
<1>11. Items(<<"end", "record">>)
  BY DEF Items, EOT
<1>12. Items(<<"type", "IDENTIFIER">>)
  BY DEF Items, EOT
<1>13. Items(<<"subtype", "IDENTIFIER", "is", "NAME">>)
  BY DEF Items, EOT
<1>14. Items(<<"(", "IDENTIFIER", Comma, "IDENTIFIER", Comma, "EXPR", ")">>)
  BY <1>0, ItemsFacts
<1>15. Items(<<"pragma", "IDENTIFIER">>)
  BY DEF Items, EOT
<1>16. Items(<<"return", "EXPR">>)
  BY DEF Items, EOT
<1>17. Items(<<"when", "EXPR">>)
  BY DEF Items, EOT
<1>18. Items(<<"raise", "NAME">>)
  BY DEF Items, EOT
<1>19. Items(<<"with", "EXPR">>)
  BY DEF Items, EOT
<1>20. Items(<<"(", "EXPR">>)
  BY DEF Items, EOT
<1>21. Items(<<Comma, "EXPR">>)
  BY <1>0, ItemsFacts
<1>22. Items(<<"while", "EXPR", "loop">>)
  BY DEF Items, EOT
<1>23. Items(<<"for", "IDENTIFIER", "in">>)
  BY DEF Items, EOT
<1>24. Items(<<"end", "loop">>)
  BY DEF Items, EOT
<1>25. Items(<<"end", "if">>)
  BY DEF Items, EOT
<1>26. Items(<<"if", "EXPR", "then">>)
  BY DEF Items, EOT
<1>27. Items(<<"elsif", "EXPR", "then">>)
  BY DEF Items, EOT
<1> QED BY <1>1, <1>2, <1>3, <1>4, <1>5, <1>6, <1>7, <1>8, <1>9, <1>10, <1>11, <1>12, <1>13,
       <1>14, <1>15, <1>16, <1>17, <1>18, <1>19, <1>20, <1>21, <1>22, <1>23, <1>24, <1>25,
       <1>26, <1>27

\* One way after another.
LEMMA GoesGoes ==
  ASSUME Text, NEW s \in ParserStates, NEW t, Goes(s, t), NEW u, Goes(t, u)
  PROVE  /\ Goes(s, u) /\ u \in ParserStates /\ t \in ParserStates
         /\ Moves(s, t) \/ Moves(t, u) => Moves(s, u)
<1>1. Goes(s, u) /\ (Moves(s, t) \/ Moves(t, u) => Moves(s, u))
  BY GoesOn
<1> QED BY <1>1 DEF Goes

\* The definitions of numeric, access and private types.
LEMMA SimpleTypesGo ==
  ASSUME Text, NEW s \in ParserStates
  PROVE  /\ Goes(s, parseRange(s)) /\ Goes(s, parseIntegerRange(s))
         /\ Goes(s, parseModularInteger(s)) /\ Goes(s, parseAccessTypeDecl(s))
         /\ Goes(s, parsePrivateTypeDecl(s))
<1>1. Goes(s, parseRange(s))
  BY PhraseGoes, GrammarItems DEF parseRange, Reads
<1>2. Goes(s, parseIntegerRange(s))
  BY PhraseToSemiGoes, GrammarItems DEF parseIntegerRange, Reads
<1>3. Goes(s, parseModularInteger(s))
  BY PhraseToSemiGoes, GrammarItems DEF parseModularInteger, Reads
<1>4. Goes(s, parseAccessTypeDecl(s))
  BY PhraseGoes, GrammarItems DEF parseAccessTypeDecl, Reads
<1>5. Goes(s, parsePrivateTypeDecl(s))
  <2> DEFINE t == IF At(s, {"limited"}) THEN ignoreToken(s) ELSE s
             u == PhraseToSemi(t, <<"private">>)
  <2>1. Goes(s, s) /\ Goes(s, ignoreToken(s))
    BY StepsGo, GoesOn
  <2>2. Goes(s, t)
    BY <2>1
  <2>3. t \in ParserStates
    BY <2>2 DEF Goes
  <2>4. parsePrivateTypeDecl(s) = u
    BY DEF parsePrivateTypeDecl
  <2> HIDE DEF t
  <2>5. Goes(t, u)
    BY <2>3, PhraseToSemiGoes, GrammarItems DEF Reads
  <2> HIDE DEF u
  <2> QED BY <2>2, <2>4, <2>5, GoesGoes
<1> QED BY <1>1, <1>2, <1>3, <1>4, <1>5

\* A list of enumeration literals, however it ends.
LEMMA parseEnumerationListGoes ==
  ASSUME Text, NEW s \in ParserStates
  PROVE  Goes(s, parseEnumerationList(s))
<1> DEFINE list[l \in ParserStates] ==
             LET t == parseIdentifier(l)
             IN  CASE t.ok /\ At(t, {Comma}) -> list[ignoreToken(t)]
                   [] t.ok /\ ~At(t, {Comma}) -> requireToken(t, ")")
                   [] OTHER -> seekCloseParen(t)
           P(l) == parseIdentifier(l)
           B(f, l) ==
             LET t == parseIdentifier(l)
             IN  CASE t.ok /\ At(t, {Comma}) -> f[ignoreToken(t)]
                   [] t.ok /\ ~At(t, {Comma}) -> requireToken(t, ")")
                   [] OTHER -> seekCloseParen(t)
           C(f) == f = [l \in ParserStates |-> B(f, l)]
           Stop == {l \in ParserStates : ~P(l).ok \/ Code(P(l).pos) # Comma}
           out == [l \in ParserStates |-> IF ~P(l).ok THEN seekCloseParen(P(l))
                                          ELSE requireToken(P(l), ")")]
           nxt == [l \in ParserStates |-> ignoreToken(P(l))]
<1>1. \A l \in ParserStates : Goes(l, P(l)) /\ P(l) \in ParserStates
  BY TokenGoes DEF TakesToken, Goes
<1>2. \A f : \A l \in ParserStates : B(f, l) = IF l \in Stop THEN out[l] ELSE f[nxt[l]]
  BY DEF At
<1>3. \A f : C(f) <=> Loops(f, ParserStates, Stop, out, nxt)
  <2> HIDE DEF Stop, out, nxt, B
  <2> QED BY <1>2, Zenon DEF Loops
<1>4. parseEnumerationList(s) = IF At(s, {")"}) THEN report(ignoreToken(s)) ELSE list[s]
  BY Zenon DEF parseEnumerationList
<1>5. list = CHOOSE f : C(f)
  BY Zenon
<1>6. \A l \in ParserStates : l \in Stop => Goes(l, out[l])
  <2> SUFFICES ASSUME NEW l \in ParserStates PROVE Goes(l, out[l])
    BY Zenon
  <2> DEFINE p == P(l)
             c == seekCloseParen(p)
             r == requireToken(p, ")")
  <2>1. Goes(l, p) /\ p \in ParserStates
    BY <1>1
  <2>2. out[l] \in {c, r}
    OBVIOUS
  <2> HIDE DEF P, out, p
  <2>3. Goes(p, c)
    BY <2>1, seekCloseParenGoes
  <2>4. Goes(p, r)
    BY <2>1, TokenGoes DEF TakesToken
  <2> HIDE DEF c, r
  <2>5. Goes(l, c) /\ Goes(l, r)
    BY <2>1, <2>3, <2>4, GoesGoes
  <2> QED BY <2>2, <2>5
<1>7. \A l \in ParserStates : l \notin Stop => Moves(l, nxt[l])
  <2> SUFFICES ASSUME NEW l \in ParserStates, l \notin Stop PROVE Moves(l, nxt[l])
    OBVIOUS
  <2> DEFINE p == P(l)
             n == ignoreToken(p)
  <2>1. Goes(l, p) /\ p \in ParserStates
    BY <1>1
  <2>2. Code(p.pos) # EOT
    BY SeparatorFacts
  <2>3. nxt[l] = n
    OBVIOUS
  <2> HIDE DEF P, nxt, Stop, p
  <2>4. Moves(p, n) /\ Goes(p, n)
    BY <2>1, <2>2, StepsGo
  <2> HIDE DEF n
  <2>5. Moves(l, n)
    BY <2>1, <2>4, GoesGoes
  <2> QED BY <2>3, <2>5
<1> HIDE DEF Stop, out, nxt, P, B, list
<1>8. /\ \E f : Loops(f, ParserStates, Stop, out, nxt)
      /\ \A f : Loops(f, ParserStates, Stop, out, nxt) =>
           \A x \in ParserStates : Goes(x, f[x])
  BY <1>6, <1>7, StateLoop
<1>9. Loops(list, ParserStates, Stop, out, nxt)
  <2>1. C(CHOOSE f : C(f))
    BY <1>3, <1>8, Zenon
  <2>2. C(list)
    BY <1>5, <2>1, Zenon
  <2> QED BY <1>3, <2>2
<1>10. Goes(s, list[s])
  BY <1>8, <1>9
<1>11. Goes(s, report(ignoreToken(s)))
  BY StepsGo
<1> QED BY <1>4, <1>10, <1>11

\* An index or a range of a loop.
LEMMA parseDSTDefinitionGoes ==
  ASSUME Text, NEW s \in ParserStates, NEW acceptDiamond
  PROVE  Goes(s, parseDSTDefinition(s, acceptDiamond))
<1> DEFINE n == parseName(s)
           i == ignoreToken(n)
           d == ignoreToken(ignoreToken(n))
           x == IF acceptDiamond THEN d ELSE Invalid(report(d))
           r == parseRange(i)
           q == CASE ~At(n, {"range"}) -> n
                  [] At(n, {"range"}) /\ nextTokenIs(n, {"<>"}) -> x
                  [] OTHER -> r
           t == IF n.ok THEN q ELSE n
<1>1. parseDSTDefinition(s, acceptDiamond) \in {t, parseRange(s)}
  BY DEF parseDSTDefinition, Then
<1>2. Goes(s, n) /\ n \in ParserStates
  BY parseNameGoes DEF Reads, Goes
<1> HIDE DEF n
<1>3. Goes(n, i) /\ i \in ParserStates /\ Goes(n, d) /\ d \in ParserStates /\ Goes(n, n)
  BY <1>2, StepsGo, GoesOn
<1> HIDE DEF i, d
<1>4. Goes(i, r)
  BY <1>3, SimpleTypesGo
<1> HIDE DEF r
<1>5. Goes(n, r)
  BY <1>2, <1>3, <1>4, GoesGoes
<1>6. Goes(d, Invalid(report(d)))
  <2>1. Goes(d, report(d)) /\ report(d) \in ParserStates
    BY <1>3, StepsGo
  <2>2. Goes(report(d), Invalid(report(d)))
    BY <2>1, StandsFacts
  <2> QED BY <1>3, <2>1, <2>2, GoesGoes
<1>7. Goes(n, Invalid(report(d)))
  BY <1>2, <1>3, <1>6, GoesGoes
<1>8. Goes(n, x)
  BY <1>3, <1>7
<1> HIDE DEF x
<1>9. Goes(n, q)
  BY <1>3, <1>5, <1>8
<1> HIDE DEF q
<1>10. Goes(s, q)
  BY <1>2, <1>9, GoesGoes
<1>11. Goes(s, parseRange(s))
  BY SimpleTypesGo
<1> QED BY <1>1, <1>2, <1>10, <1>11

\* The end of an index profile: past its parenthesis, or what is taken for it.
LEMMA closeGoes ==
  ASSUME Text, NEW s \in ParserStates, NEW b \in BOOLEAN
  PROVE  LET c == requireToken(s, ")")
         IN  Goes(s, [IF c.ok THEN c ELSE seekCloseParen(c) EXCEPT !.ok = b])
<1> DEFINE c == requireToken(s, ")")
           d == seekCloseParen(c)
           e == IF c.ok THEN c ELSE d
           f == [e EXCEPT !.ok = b]
<1>1. Goes(s, c)
  BY TokenGoes DEF TakesToken
<1>2. c \in ParserStates
  BY <1>1 DEF Goes
<1> HIDE DEF c
<1>3. Goes(c, d) /\ Goes(c, c)
  BY <1>2, seekCloseParenGoes, GoesOn
<1> HIDE DEF d
<1>4. Goes(c, e)
  BY <1>3
<1> HIDE DEF e
<1>5. Goes(s, e) /\ e \in ParserStates
  BY <1>1, <1>4, GoesGoes
<1>6. Goes(e, f)
  BY <1>5, StandsFacts
<1> HIDE DEF f
<1>7. Goes(s, f)
  BY <1>5, <1>6, GoesGoes
<1> QED BY <1>7 DEF c, d, e, f

\* The indices of an array type, however the list ends.
LEMMA parseArrayIndexProfileGoes ==
  ASSUME Text, NEW s \in ParserStates
  PROVE  Goes(s, parseArrayIndexProfile(s))
<1> DEFINE close(c) == IF c.ok THEN c ELSE seekCloseParen(c)
           list[l \in ParserStates] ==
             LET at(t, some) == IF At(t, {Comma}) THEN list[[ignoreToken(t) EXCEPT !.ok = some]]
                                ELSE [close(requireToken(t, ")")) EXCEPT !.ok = some]
                 index(i) == at(OrSeek(i, {Comma, ")"}), l.ok \/ i.ok)
             IN  index(parseDSTDefinition(l, TRUE))
           I(l) == parseDSTDefinition(l, TRUE)
           P(l) == OrSeek(I(l), {Comma, ")"})
           b(l) == l.ok \/ I(l).ok
           B(f, l) == IF At(P(l), {Comma}) THEN f[[ignoreToken(P(l)) EXCEPT !.ok = b(l)]]
                                           ELSE [close(requireToken(P(l), ")")) EXCEPT !.ok = b(l)]
           C(f) == f = [l \in ParserStates |-> B(f, l)]
           Stop == {l \in ParserStates : Code(P(l).pos) # Comma}
           out == [l \in ParserStates |-> [close(requireToken(P(l), ")")) EXCEPT !.ok = b(l)]]
           nxt == [l \in ParserStates |-> [ignoreToken(P(l)) EXCEPT !.ok = b(l)]]
<1>1. \A l \in ParserStates : Goes(l, P(l)) /\ P(l) \in ParserStates /\ b(l) \in BOOLEAN
  <2> SUFFICES ASSUME NEW l \in ParserStates
               PROVE  Goes(l, P(l)) /\ P(l) \in ParserStates /\ b(l) \in BOOLEAN
    OBVIOUS
  <2> DEFINE i == I(l)
             p == OrSeek(i, {Comma, ")"})
  <2>1. Goes(l, i) /\ i \in ParserStates
    BY parseDSTDefinitionGoes DEF Goes
  <2>2. P(l) = p /\ b(l) = (l.ok \/ i.ok)
    OBVIOUS
  <2> HIDE DEF P, I, b, i
  <2>3. Goes(i, p)
    BY <2>1, OrSeekGoes
  <2> HIDE DEF p
  <2>4. Goes(l, p) /\ p \in ParserStates
    BY <2>1, <2>3, GoesGoes
  <2>5. (l.ok \/ i.ok) \in BOOLEAN
    BY <2>1, StateFacts
  <2> QED BY <2>2, <2>4, <2>5
<1>2. \A f : \A l \in ParserStates : B(f, l) = IF l \in Stop THEN out[l] ELSE f[nxt[l]]
  <2> HIDE DEF P, b, close
  <2> QED BY DEF At
<1>3. \A f : C(f) <=> Loops(f, ParserStates, Stop, out, nxt)
  <2> HIDE DEF Stop, out, nxt, B
  <2> QED BY <1>2, Zenon DEF Loops
<1>4. parseArrayIndexProfile(s) =
        IF At(s, {")"}) THEN Invalid(report(ignoreToken(s))) ELSE list[Invalid(s)]
  BY Zenon DEF parseArrayIndexProfile
<1>5. list = CHOOSE f : C(f)
  BY Zenon
<1>6. \A l \in ParserStates : l \in Stop => Goes(l, out[l])
  <2> SUFFICES ASSUME NEW l \in ParserStates PROVE Goes(l, out[l])
    BY Zenon
  <2> DEFINE p == P(l)
             r == b(l)
             c == requireToken(p, ")")
             d == [IF c.ok THEN c ELSE seekCloseParen(c) EXCEPT !.ok = r]
  <2>1. Goes(l, p) /\ p \in ParserStates /\ r \in BOOLEAN
    BY <1>1
  <2>2. out[l] = d
    OBVIOUS
  <2> HIDE DEF P, b, out, p, r
  <2>3. Goes(p, d)
    BY <2>1, closeGoes
  <2> HIDE DEF d
  <2> QED BY <2>1, <2>2, <2>3, GoesGoes
<1>7. \A l \in ParserStates : l \notin Stop => Moves(l, nxt[l])
  <2> SUFFICES ASSUME NEW l \in ParserStates, l \notin Stop PROVE Moves(l, nxt[l])
    OBVIOUS
  <2> DEFINE p == P(l)
             r == b(l)
             n == ignoreToken(p)
             m == [n EXCEPT !.ok = r]
  <2>1. Goes(l, p) /\ p \in ParserStates /\ r \in BOOLEAN
    BY <1>1
  <2>2. Code(p.pos) # EOT
    BY SeparatorFacts
  <2>3. nxt[l] = m
    OBVIOUS
  <2> HIDE DEF P, b, nxt, Stop, p, r
  <2>4. Moves(p, n) /\ Goes(p, n) /\ n \in ParserStates
    BY <2>1, <2>2, StepsGo
  <2> HIDE DEF n
  <2>5. Goes(n, m)
    BY <2>1, <2>4, StandsFacts
  <2> HIDE DEF m
  <2>6. Moves(p, m) /\ Goes(p, m)
    BY <2>1, <2>4, <2>5, GoesGoes
  <2>7. Moves(l, m)
    BY <2>1, <2>6, GoesGoes
  <2> QED BY <2>3, <2>7
<1> HIDE DEF Stop, out, nxt, P, I, b, B, list, close
<1>8. /\ \E f : Loops(f, ParserStates, Stop, out, nxt)
      /\ \A f : Loops(f, ParserStates, Stop, out, nxt) =>
           \A x \in ParserStates : Goes(x, f[x])
  BY <1>6, <1>7, StateLoop
<1>9. Loops(list, ParserStates, Stop, out, nxt)
  <2>1. C(CHOOSE f : C(f))
    BY <1>3, <1>8, Zenon
  <2>2. C(list)
    BY <1>5, <2>1, Zenon
  <2> QED BY <1>3, <2>2
<1>10. Goes(s, list[Invalid(s)])
  <2>1. Goes(s, Invalid(s)) /\ Invalid(s) \in ParserStates
    BY StandsFacts DEF Goes
  <2>2. Goes(Invalid(s), list[Invalid(s)])
    BY <1>8, <1>9, <2>1
  <2> QED BY <2>1, <2>2, GoesGoes
<1>11. Goes(s, Invalid(report(ignoreToken(s))))
  <2> DEFINE t == report(ignoreToken(s))
  <2>1. Goes(s, t) /\ t \in ParserStates
    BY StepsGo
  <2> HIDE DEF t
  <2>2. Goes(t, Invalid(t))
    BY <2>1, StandsFacts
  <2>3. Goes(s, Invalid(t))
    BY <2>1, <2>2, GoesGoes
  <2> QED BY <2>3 DEF t
<1> QED BY <1>4, <1>10, <1>11

\* An array type.
LEMMA parseArrayTypeDeclGoes ==
  ASSUME Text, NEW s \in ParserStates
  PROVE  Goes(s, parseArrayTypeDecl(s))
<1> DEFINE i == ignoreToken(ignoreToken(s))
           p == parseArrayIndexProfile(i)
           q == Phrase(p, <<"of", "NAME">>)
           t == IF p.ok THEN q ELSE p
           u == OrSeekSemi(t)
           j == ignoreToken(s)
<1>1. parseArrayTypeDecl(s) = IF nextTokenIs(s, {"("}) THEN u ELSE Invalid(j)
  BY DEF parseArrayTypeDecl, Then
<1>2. Goes(s, i) /\ i \in ParserStates /\ Goes(s, j) /\ j \in ParserStates
  BY StepsGo
<1> HIDE DEF i, j
<1>3. Goes(i, p)
  BY <1>2, parseArrayIndexProfileGoes
<1> HIDE DEF p
<1>4. Goes(s, p) /\ p \in ParserStates
  BY <1>2, <1>3, GoesGoes
<1>5. Goes(p, q) /\ Goes(p, p)
  BY <1>4, GrammarItems, PhraseGoes, GoesOn DEF Reads
<1> HIDE DEF q
<1>6. Goes(p, t)
  BY <1>5
<1> HIDE DEF t
<1>7. Goes(s, t) /\ t \in ParserStates
  BY <1>4, <1>6, GoesGoes
<1>8. Goes(t, u)
  BY <1>7, OrSeekGoes
<1> HIDE DEF u
<1>9. Goes(s, u)
  BY <1>7, <1>8, GoesGoes
<1>10. Goes(j, Invalid(j))
  BY <1>2, StandsFacts
<1>11. Goes(s, Invalid(j))
  BY <1>2, <1>10, GoesGoes
<1> QED BY <1>1, <1>9, <1>11

\* A routine that stops at a semicolon or at the end unless it has moved, and
\* the semicolon behind it.
LEMMA SemiGoes ==
  ASSUME Text, NEW s \in ParserStates, NEW t, Goes(s, t),
         Moves(s, t) \/ Code(t.pos) \in {Semi, EOT}
  PROVE  /\ Goes(s, requireToken(t, Semi)) /\ requireToken(t, Semi) \in ParserStates
         /\ Moves(s, requireToken(t, Semi)) \/ Code(requireToken(t, Semi).pos) = EOT
<1> DEFINE u == requireToken(t, Semi)
<1>1. t \in ParserStates
  BY DEF Goes
<1>2. TakesToken(t, u, {Semi})
  BY <1>1, TokenGoes
<1> HIDE DEF u
<1>3. Goes(t, u)
  BY <1>2 DEF TakesToken
<1>4. Goes(s, u) /\ u \in ParserStates /\ (Moves(s, t) \/ Moves(t, u) => Moves(s, u))
  BY <1>3, GoesGoes
<1>5. Code(t.pos) = Semi => Moves(t, u)
  BY <1>2, SeparatorFacts DEF TakesToken
<1>6. Code(t.pos) = EOT => u.pos = t.pos
  BY <1>2, SeparatorFacts DEF TakesToken
<1> QED BY <1>4, <1>5, <1>6 DEF u

\* The components of a record.
LEMMA parseRecordTypeDeclGoes ==
  ASSUME Text, NEW s \in ParserStates
  PROVE  Goes(s, parseRecordTypeDecl(s))
<1> DEFINE component(l) == IF At(l, {"null"}) THEN ignoreToken(l)
                           ELSE PhraseToSemi(l, <<"IDENTIFIER", ":", "NAME">>)
           list[l \in ParserStates] ==
             LET t == requireToken(component(l), Semi)
             IN  IF At(t, {"end", EOT}) THEN Phrase(t, <<"end", "record">>) ELSE list[t]
           P(l) == requireToken(component(l), Semi)
           B(f, l) == IF At(P(l), {"end", EOT}) THEN Phrase(P(l), <<"end", "record">>) ELSE f[P(l)]
           C(f) == f = [l \in ParserStates |-> B(f, l)]
           Stop == {l \in ParserStates : At(P(l), {"end", EOT})}
           out == [l \in ParserStates |-> Phrase(P(l), <<"end", "record">>)]
           nxt == [l \in ParserStates |-> P(l)]
           i == ignoreToken(s)
           j == ignoreToken(ignoreToken(s))
<1>1. \A l \in ParserStates :
        Goes(l, P(l)) /\ P(l) \in ParserStates /\ (Moves(l, P(l)) \/ Code(P(l).pos) = EOT)
  <2> SUFFICES ASSUME NEW l \in ParserStates
               PROVE  /\ Goes(l, P(l)) /\ P(l) \in ParserStates
                      /\ Moves(l, P(l)) \/ Code(P(l).pos) = EOT
    OBVIOUS
  <2> DEFINE n == ignoreToken(l)
             q == PhraseToSemi(l, <<"IDENTIFIER", ":", "NAME">>)
             c == component(l)
  <2>1. c = IF At(l, {"null"}) THEN n ELSE q
    OBVIOUS
  <2>2. Goes(l, n) /\ (At(l, {"null"}) => Moves(l, n))
    BY StepsGo DEF At, EOT
  <2>3. Goes(l, q) /\ (q.ok => Moves(l, q)) /\ (~q.ok => Code(q.pos) \in {Semi, EOT})
    BY PhraseToSemiGoes, GrammarItems DEF Reads
  <2> HIDE DEF n, q, component
  <2>4. Goes(l, c) /\ (Moves(l, c) \/ Code(c.pos) \in {Semi, EOT})
    BY <2>1, <2>2, <2>3
  <2>5. P(l) = requireToken(c, Semi)
    OBVIOUS
  <2> HIDE DEF c, P
  <2> QED BY <2>4, <2>5, SemiGoes
<1>2. \A f : \A l \in ParserStates : B(f, l) = IF l \in Stop THEN out[l] ELSE f[nxt[l]]
  <2> HIDE DEF P
  <2> QED OBVIOUS
<1>3. \A f : C(f) <=> Loops(f, ParserStates, Stop, out, nxt)
  <2> HIDE DEF Stop, out, nxt, B
  <2> QED BY <1>2, Zenon DEF Loops
<1>4. parseRecordTypeDecl(s) =
        IF At(s, {"null"}) /\ nextTokenIs(s, {"record"}) THEN Valid(j) ELSE list[i]
  BY Zenon DEF parseRecordTypeDecl
<1>5. list = CHOOSE f : C(f)
  BY Zenon
<1>6. \A l \in ParserStates : l \in Stop => Goes(l, out[l])
  <2> SUFFICES ASSUME NEW l \in ParserStates PROVE Goes(l, out[l])
    BY Zenon
  <2> DEFINE p == P(l)
             e == Phrase(p, <<"end", "record">>)
  <2>1. Goes(l, p) /\ p \in ParserStates
    BY <1>1
  <2>2. out[l] = e
    OBVIOUS
  <2> HIDE DEF P, out, p
  <2>3. Goes(p, e)
    BY <2>1, PhraseGoes, GrammarItems DEF Reads
  <2> HIDE DEF e
  <2> QED BY <2>1, <2>2, <2>3, GoesGoes
<1>7. \A l \in ParserStates : l \notin Stop => Moves(l, nxt[l])
  <2> SUFFICES ASSUME NEW l \in ParserStates, l \notin Stop PROVE Moves(l, nxt[l])
    OBVIOUS
  <2>1. ~At(P(l), {"end", EOT}) /\ nxt[l] = P(l)
    OBVIOUS
  <2> HIDE DEF P, nxt, Stop
  <2> QED BY <1>1, <2>1 DEF At
<1> HIDE DEF Stop, out, nxt, P, B, list, component
<1>8. /\ \E f : Loops(f, ParserStates, Stop, out, nxt)
      /\ \A f : Loops(f, ParserStates, Stop, out, nxt) =>
           \A x \in ParserStates : Goes(x, f[x])
  BY <1>6, <1>7, StateLoop
<1>9. Loops(list, ParserStates, Stop, out, nxt)
  <2>1. C(CHOOSE f : C(f))
    BY <1>3, <1>8, Zenon
  <2>2. C(list)
    BY <1>5, <2>1, Zenon
  <2> QED BY <1>3, <2>2
<1>10. Goes(s, i) /\ i \in ParserStates /\ Goes(s, j) /\ j \in ParserStates
  BY StepsGo
<1> HIDE DEF i, j
<1>11. Goes(i, list[i])
  BY <1>8, <1>9, <1>10
<1>12. Goes(s, list[i])
  BY <1>10, <1>11, GoesGoes
<1>13. Goes(j, Valid(j))
  BY <1>10, StandsFacts
<1>14. Goes(s, Valid(j))
  BY <1>10, <1>13, GoesGoes
<1> QED BY <1>4, <1>12, <1>14

\* A type declaration.
LEMMA parseTypeGoes ==
  ASSUME Text, NEW s \in ParserStates
  PROVE  Goes(s, parseType(s)) /\ (Code(s.pos) = "type" => Moves(s, parseType(s)))
<1> DEFINE t == Phrase(s, <<"type", "IDENTIFIER">>)
           r == requireToken(t, "is")
           i == ignoreToken(r)
           e == parseEnumerationList(i)
           d == CASE At(r, {"("}) -> Valid(e)
                  [] At(r, {"range"}) -> parseIntegerRange(r)
                  [] At(r, {"mod"}) -> parseModularInteger(r)
                  [] At(r, {"array"}) -> parseArrayTypeDecl(r)
                  [] At(r, {"record", "null"}) -> parseRecordTypeDecl(r)
                  [] At(r, {"access"}) -> parseAccessTypeDecl(r)
                  [] At(r, {"limited", "private"}) -> parsePrivateTypeDecl(r)
                  [] OTHER -> OrSeekSemi(Invalid(report(r)))
<1>1. parseType(s) \in {t, r, d}
  <2>1. parseType(s) = IF t.ok THEN IF At(t, {Semi}) THEN t ELSE IF r.ok THEN d ELSE r ELSE t
    BY Zenon DEF parseType, Then
  <2> HIDE DEF t, r, d
  <2> QED BY <2>1
<1>2. Goes(s, t) /\ (Code(s.pos) = "type" => Moves(s, t))
  <2>1. <<"type", "IDENTIFIER">>[1] = "type" /\ "type" \notin {"IDENTIFIER", "NAME", "EXPR"}
    OBVIOUS
  <2> QED BY <2>1, PhraseGoes, GrammarItems DEF Reads
<1>3. t \in ParserStates
  BY <1>2 DEF Goes
<1> HIDE DEF t
<1>4. Goes(t, r) /\ Goes(t, t)
  BY <1>3, TokenGoes, GoesOn DEF TakesToken
<1>5. r \in ParserStates
  BY <1>4 DEF Goes
<1> HIDE DEF r
<1>6. Goes(r, d)
  <2>1. Goes(r, i) /\ i \in ParserStates
    BY <1>5, StepsGo
  <2> HIDE DEF i
  <2>2. Goes(i, e)
    BY <2>1, parseEnumerationListGoes
  <2> HIDE DEF e
  <2>3. Goes(r, e) /\ e \in ParserStates
    BY <1>5, <2>1, <2>2, GoesGoes
  <2>4. Goes(e, Valid(e))
    BY <2>3, StandsFacts
  <2>5. Goes(r, Valid(e))
    BY <1>5, <2>3, <2>4, GoesGoes
  <2>6. Goes(r, OrSeekSemi(Invalid(report(r))))
    <3> DEFINE u == report(r)
               v == Invalid(u)
    <3>1. Goes(r, u) /\ u \in ParserStates
      BY <1>5, StepsGo
    <3> HIDE DEF u
    <3>2. Goes(u, v)
      BY <3>1, StandsFacts
    <3> HIDE DEF v
    <3>3. Goes(r, v) /\ v \in ParserStates
      BY <1>5, <3>1, <3>2, GoesGoes
    <3>4. Goes(v, OrSeekSemi(v))
      BY <3>3, OrSeekGoes
    <3>5. Goes(r, OrSeekSemi(v))
      BY <1>5, <3>3, <3>4, GoesGoes
    <3> QED BY <3>5 DEF u, v
  <2>7. /\ Goes(r, parseIntegerRange(r)) /\ Goes(r, parseModularInteger(r))
        /\ Goes(r, parseArrayTypeDecl(r)) /\ Goes(r, parseRecordTypeDecl(r))
        /\ Goes(r, parseAccessTypeDecl(r)) /\ Goes(r, parsePrivateTypeDecl(r))
    BY <1>5, SimpleTypesGo, parseArrayTypeDeclGoes, parseRecordTypeDeclGoes
  <2> QED BY <2>5, <2>6, <2>7
<1> HIDE DEF d
<1>7. Goes(t, d)
  BY <1>3, <1>4, <1>6, GoesGoes
<1>8. /\ Goes(s, t) /\ Goes(s, r) /\ Goes(s, d)
      /\ Moves(s, t) => Moves(s, r) /\ Moves(s, d)
  BY <1>2, <1>4, <1>7, GoesGoes
<1> QED BY <1>1, <1>2, <1>8

\* A subtype declaration.
LEMMA parseSubtypeGoes ==
  ASSUME Text, NEW s \in ParserStates
  PROVE  Goes(s, parseSubtype(s)) /\ (Code(s.pos) = "subtype" => Moves(s, parseSubtype(s)))
<1> DEFINE t == Phrase(s, <<"subtype", "IDENTIFIER", "is", "NAME">>)
           c == Phrase(t, <<"range", "EXPR", "..", "EXPR">>)
           u == IF t.ok THEN IF At(t, {Semi}) THEN t ELSE c ELSE t
           v == OrSeekSemi(u)
<1>1. parseSubtype(s) = v
  BY Zenon DEF parseSubtype, Then
<1>2. Goes(s, t) /\ (Code(s.pos) = "subtype" => Moves(s, t))
  <2>1. /\ <<"subtype", "IDENTIFIER", "is", "NAME">>[1] = "subtype"
        /\ "subtype" \notin {"IDENTIFIER", "NAME", "EXPR"}
    OBVIOUS
  <2> QED BY <2>1, PhraseGoes, GrammarItems DEF Reads
<1>3. t \in ParserStates
  BY <1>2 DEF Goes
<1> HIDE DEF t
<1>4. Goes(t, t) /\ Goes(t, c)
  BY <1>3, PhraseGoes, GrammarItems, GoesOn DEF Reads
<1> HIDE DEF c
<1>5. Goes(t, u)
  BY <1>4
<1>6. u \in ParserStates
  BY <1>5 DEF Goes
<1> HIDE DEF u
<1>7. Goes(u, v)
  BY <1>6, OrSeekGoes
<1> HIDE DEF v
<1>8. Goes(t, v)
  BY <1>3, <1>5, <1>7, GoesGoes
<1> QED BY <1>1, <1>2, <1>8, GoesGoes

\* The type of an object, with a constraint perhaps.
LEMMA parseSubtypeIndicationGoes ==
  ASSUME Text, NEW s \in ParserStates
  PROVE  Goes(s, parseSubtypeIndication(s))
<1> DEFINE t == parseName(s)
           i == ignoreToken(t)
           r == parseRange(i)
<1>1. parseSubtypeIndication(s) = IF t.ok THEN IF At(t, {"range"}) THEN r ELSE t ELSE t
  BY Zenon DEF parseSubtypeIndication, Then
<1>2. Goes(s, t) /\ t \in ParserStates
  BY parseNameGoes DEF Reads, Goes
<1> HIDE DEF t
<1>3. Goes(t, i) /\ i \in ParserStates
  BY <1>2, StepsGo
<1> HIDE DEF i
<1>4. Goes(i, r)
  BY <1>3, SimpleTypesGo
<1> HIDE DEF r
<1>5. Goes(t, r)
  BY <1>2, <1>3, <1>4, GoesGoes
<1>6. Goes(s, r)
  BY <1>2, <1>5, GoesGoes
<1> QED BY <1>1, <1>2, <1>6

\* The declaration of an object.
LEMMA parseObjectDeclarationGoes ==
  ASSUME Text, NEW s \in ParserStates
  PROVE  /\ Goes(s, parseObjectDeclaration(s))
         /\ Code(s.pos) \in Ident => Moves(s, parseObjectDeclaration(s))
<1> DEFINE p == Phrase(s, <<"IDENTIFIER", ":">>)
           t == parseSubtypeIndication(p)
           i == ignoreToken(t)
           v == CASE At(t, {"renames"}) -> parseName(i)
                  [] At(t, {":="}) -> parseExpr(i)
                  [] OTHER -> t
           w == IF t.ok THEN v ELSE t
           k == seekTokens(w, {Semi})
           o == IF w.ok THEN w ELSE Invalid(k)
           c == seekAndConsumeToken(p, Semi)
<1>1. parseObjectDeclaration(s) = IF p.ok THEN o ELSE Invalid(c)
  BY Zenon DEF parseObjectDeclaration, Then
<1>2. Goes(s, p) /\ (Code(s.pos) \in Ident => Moves(s, p))
  <2>1. <<"IDENTIFIER", ":">>[1] = "IDENTIFIER"
    OBVIOUS
  <2> QED BY <2>1, PhraseGoes, GrammarItems DEF Reads
<1>3. p \in ParserStates
  BY <1>2 DEF Goes
<1> HIDE DEF p
<1>4. Goes(p, t)
  BY <1>3, parseSubtypeIndicationGoes
<1>5. t \in ParserStates
  BY <1>4 DEF Goes
<1> HIDE DEF t
<1>6. Goes(t, i) /\ i \in ParserStates
  BY <1>5, StepsGo
<1> HIDE DEF i
<1>7. Goes(i, parseName(i)) /\ Goes(i, parseExpr(i))
  BY <1>6, parseNameGoes, parseExprGoes DEF Reads
<1>8. Goes(t, parseName(i)) /\ Goes(t, parseExpr(i)) /\ Goes(t, t)
  BY <1>5, <1>6, <1>7, GoesGoes, GoesOn
<1>9. Goes(t, v)
  BY <1>8
<1> HIDE DEF v
<1>10. Goes(t, w)
  BY <1>8, <1>9
<1> HIDE DEF w
<1>11. Goes(p, w) /\ w \in ParserStates
  BY <1>3, <1>4, <1>10, GoesGoes
<1>12. Goes(w, k)
  BY <1>11, seekGoes
<1>13. k \in ParserStates
  BY <1>12 DEF Goes
<1> HIDE DEF k
<1>14. Goes(k, Invalid(k))
  BY <1>13, StandsFacts
<1>15. Goes(w, Invalid(k)) /\ Goes(w, w)
  BY <1>11, <1>12, <1>14, GoesGoes, GoesOn
<1>16. Goes(w, o)
  BY <1>15
<1> HIDE DEF o
<1>17. Goes(p, o)
  BY <1>3, <1>11, <1>16, GoesGoes
<1>18. Goes(p, c)
  BY <1>3, seekAndConsumeGoes
<1>19. c \in ParserStates
  BY <1>18 DEF Goes
<1> HIDE DEF c
<1>20. Goes(c, Invalid(c))
  BY <1>19, StandsFacts
<1>21. Goes(p, Invalid(c))
  BY <1>3, <1>18, <1>20, GoesGoes
<1>22. /\ Goes(s, o) /\ Goes(s, Invalid(c))
       /\ Moves(s, p) => Moves(s, o) /\ Moves(s, Invalid(c))
  BY <1>2, <1>17, <1>21, GoesGoes
<1> QED BY <1>1, <1>2, <1>22

\* A pragma among declarations.
LEMMA parseDeclarationPragmaGoes ==
  ASSUME Text, NEW s \in ParserStates
  PROVE  /\ Goes(s, parseDeclarationPragma(s))
         /\ Code(s.pos) = "pragma" => Moves(s, parseDeclarationPragma(s))
<1> DEFINE t == Phrase(s, <<"pragma", "IDENTIFIER">>)
           u == Phrase(t, <<"(", "IDENTIFIER", Comma, "IDENTIFIER", Comma, "EXPR", ")">>)
           c == seekCloseParen(u)
<1>1. parseDeclarationPragma(s) \in {t, u, c, report(t)}
  <2> DEFINE v == IF u.ok \/ ~At(t, {"("}) THEN u ELSE c
  <2>1. parsePragmaImport(t) = v
    BY Zenon DEF parsePragmaImport
  <2>2. parseDeclarationPragma(s) = CASE ~t.ok -> t
                                      [] nextTokenIs(s, {"Import"}) -> parsePragmaImport(t)
                                      [] OTHER -> report(t)
    BY Zenon DEF parseDeclarationPragma
  <2>3. v \in {u, c}
    OBVIOUS
  <2> HIDE DEF t, u, c, v
  <2> QED BY <2>1, <2>2, <2>3
<1>2. Goes(s, t) /\ (Code(s.pos) = "pragma" => Moves(s, t))
  <2>1. /\ <<"pragma", "IDENTIFIER">>[1] = "pragma"
        /\ "pragma" \notin {"IDENTIFIER", "NAME", "EXPR"}
    OBVIOUS
  <2> QED BY <2>1, PhraseGoes, GrammarItems DEF Reads
<1>3. t \in ParserStates
  BY <1>2 DEF Goes
<1> HIDE DEF t
<1>4. Goes(t, u) /\ Goes(t, t) /\ Goes(t, report(t))
  BY <1>3, PhraseGoes, GrammarItems, GoesOn, StandsFacts DEF Reads
<1>5. u \in ParserStates
  BY <1>4 DEF Goes
<1> HIDE DEF u
<1>6. Goes(u, c)
  BY <1>5, seekCloseParenGoes
<1> HIDE DEF c
<1>7. Goes(t, c)
  BY <1>3, <1>4, <1>6, GoesGoes
<1>8. /\ Goes(s, u) /\ Goes(s, c) /\ Goes(s, report(t))
      /\ Moves(s, t) => Moves(s, u) /\ Moves(s, c) /\ Moves(s, report(t))
  BY <1>2, <1>4, <1>7, GoesGoes
<1> QED BY <1>1, <1>2, <1>8

\* Any declaration, down to the next semicolon where it is none.
LEMMA parseDeclarationGoes ==
  ASSUME Text, NEW s \in ParserStates, NEW accepted \in BOOLEAN
  PROVE  /\ Goes(s, parseDeclaration(s, accepted))
         /\ \/ Moves(s, parseDeclaration(s, accepted))
            \/ Code(parseDeclaration(s, accepted).pos) \in {Semi, EOT}
<1> DEFINE d == parseDeclaration(s, accepted)
           u == Phrase(s, <<"use", "NAME">>)
           r == report(s)
           k == seekTokens(r, {Semi})
<1>1. \/ d = parseObjectDeclaration(s) /\ Code(s.pos) \in Ident
      \/ d = parseSubroutineDeclaration(s, accepted) /\ Code(s.pos) \in {"function", "procedure"}
      \/ d = u /\ Code(s.pos) = "use"
      \/ d = parseType(s) /\ Code(s.pos) = "type"
      \/ d = parseSubtype(s) /\ Code(s.pos) = "subtype"
      \/ d = Invalid(k)
  BY DEF parseDeclaration, parseUseDeclaration, At
<1>2. Goes(s, u) /\ (Code(s.pos) = "use" => Moves(s, u))
  <2>1. <<"use", "NAME">>[1] = "use" /\ "use" \notin {"IDENTIFIER", "NAME", "EXPR"}
    OBVIOUS
  <2> QED BY <2>1, PhraseGoes, GrammarItems DEF Reads
<1>3. Goes(s, r) /\ r \in ParserStates
  BY StepsGo
<1> HIDE DEF u, r
<1>4. Goes(r, k) /\ Code(k.pos) \in {Semi, EOT}
  BY <1>3, seekGoes
<1>5. Goes(s, k) /\ k \in ParserStates
  BY <1>3, <1>4, GoesGoes
<1> HIDE DEF k
<1>6. Goes(k, Invalid(k)) /\ Invalid(k).pos = k.pos
  BY <1>5, StandsFacts
<1>7. Goes(s, Invalid(k))
  BY <1>5, <1>6, GoesGoes
<1> HIDE DEF d
<1>8. CASE d = Invalid(k)
  BY <1>4, <1>6, <1>7, <1>8 DEF d
<1>9. CASE d # Invalid(k)
  <2>1. Moves(s, d)
    BY <1>1, <1>2, <1>9, parseObjectDeclarationGoes, parseSubroutineDeclarationGoes, parseTypeGoes,
       parseSubtypeGoes
  <2> QED BY <2>1 DEF d, Moves
<1> QED BY <1>8, <1>9

-----------------------------------------------------------------------------
(* Statements.                                                                 *)

\* The tag behind an end costs at most a token.
LEMMA CheckTagGoes ==
  ASSUME Text, NEW s \in ParserStates, NEW tag
  PROVE  Goes(s, Valid(CheckTag(s, tag)))
<1> DEFINE c == CheckTag(s, tag)
<1>1. c \in {report(ignoreToken(s)), ignoreToken(s), report(s), s}
  BY DEF CheckTag
<1>2. Goes(s, c)
  BY <1>1, StepsGo, GoesOn
<1>3. c \in ParserStates
  BY <1>2 DEF Goes
<1> HIDE DEF c
<1>4. Goes(c, Valid(c))
  BY <1>3, StandsFacts
<1>5. Goes(s, Valid(c))
  BY <1>2, <1>4, GoesGoes
<1> QED BY <1>5 DEF c

\* The end tags of constructs and of loops.
LEMMA parseEndTagGoes ==
  ASSUME Text, NEW s \in ParserStates, NEW tag
  PROVE  Reads(s, parseEndTag(s, tag)) /\ Reads(s, parseLoopEndTag(s, tag))
<1>1. Reads(s, parseEndTag(s, tag))
  <2> DEFINE t == requireToken(s, "end")
             c == Valid(CheckTag(t, tag))
  <2>1. parseEndTag(s, tag) = IF t.ok THEN c ELSE t
    BY Zenon DEF parseEndTag, Then
  <2>2. TakesToken(s, t, {"end"})
    BY TokenGoes
  <2> HIDE DEF t
  <2>3. Goes(s, t) /\ t \in ParserStates /\ (t.ok => Moves(s, t))
    BY <2>2 DEF TakesToken, Goes, EOT
  <2>4. Goes(t, c)
    BY <2>3, CheckTagGoes
  <2> HIDE DEF c
  <2>5. Goes(s, c) /\ (t.ok => Moves(s, c))
    BY <2>3, <2>4, GoesGoes
  <2> QED BY <2>1, <2>3, <2>5 DEF Reads
<1>2. Reads(s, parseLoopEndTag(s, tag))
  <2> DEFINE t == Phrase(s, <<"end", "loop">>)
             c == Valid(CheckTag(t, tag))
  <2>1. parseLoopEndTag(s, tag) = IF t.ok THEN c ELSE t
    BY Zenon DEF parseLoopEndTag, Then
  <2>2. Reads(s, t)
    BY PhraseGoes, GrammarItems
  <2> HIDE DEF t
  <2>3. Goes(s, t) /\ t \in ParserStates /\ (t.ok => Moves(s, t))
    BY <2>2 DEF Reads, Goes
  <2>4. Goes(t, c)
    BY <2>3, CheckTagGoes
  <2> HIDE DEF c
  <2>5. Goes(s, c) /\ (t.ok => Moves(s, c))
    BY <2>3, <2>4, GoesGoes
  <2> QED BY <2>1, <2>3, <2>5 DEF Reads
<1> QED BY <1>1, <1>2

\* Return, exit and raise statements.
LEMMA JumpsGo ==
  ASSUME Text, NEW s \in ParserStates
  PROVE  /\ Goes(s, parseReturnStmt(s)) /\ Goes(s, parseExitStmt(s))
         /\ Goes(s, parseRaiseStmt(s))
<1>1. Goes(s, parseReturnStmt(s))
  <2>1. Goes(s, PhraseToSemi(s, <<"return", "EXPR">>)) /\ Goes(s, ignoreToken(s))
    BY PhraseToSemiGoes, GrammarItems, StepsGo DEF Reads
  <2> QED BY <2>1 DEF parseReturnStmt
<1>2. Goes(s, parseExitStmt(s))
  <2> DEFINE t == IF nextTokenIs(s, Ident) THEN ignoreToken(ignoreToken(s)) ELSE ignoreToken(s)
             u == PhraseToSemi(t, <<"when", "EXPR">>)
  <2>1. parseExitStmt(s) = IF At(t, {"when"}) THEN u ELSE t
    BY Zenon DEF parseExitStmt
  <2>2. Goes(s, t)
    BY StepsGo
  <2>3. t \in ParserStates
    BY <2>2 DEF Goes
  <2> HIDE DEF t
  <2>4. Goes(t, u)
    BY <2>3, PhraseToSemiGoes, GrammarItems DEF Reads
  <2> HIDE DEF u
  <2>5. Goes(s, u)
    BY <2>2, <2>4, GoesGoes
  <2> QED BY <2>1, <2>2, <2>5
<1>3. Goes(s, parseRaiseStmt(s))
  <2> DEFINE t == Phrase(s, <<"raise", "NAME">>)
             w == Phrase(t, <<"with", "EXPR">>)
             u == IF t.ok THEN IF At(t, {"with"}) THEN w ELSE t ELSE t
  <2>1. parseRaiseStmt(s) = OrSeekSemi(u)
    BY Zenon DEF parseRaiseStmt, Then
  <2>2. Goes(s, t)
    BY PhraseGoes, GrammarItems DEF Reads
  <2>3. t \in ParserStates
    BY <2>2 DEF Goes
  <2> HIDE DEF t
  <2>4. Goes(t, w)
    BY <2>3, PhraseGoes, GrammarItems DEF Reads
  <2> HIDE DEF w
  <2>5. Goes(s, w)
    BY <2>2, <2>4, GoesGoes
  <2>6. Goes(s, u)
    BY <2>2, <2>5
  <2>7. u \in ParserStates
    BY <2>6 DEF Goes
  <2> HIDE DEF u
  <2>8. Goes(u, OrSeekSemi(u))
    BY <2>7, OrSeekGoes
  <2> QED BY <2>1, <2>6, <2>8, GoesGoes
<1> QED BY <1>1, <1>2, <1>3

\* A pragma among statements.
LEMMA parsePragmaStmtGoes ==
  ASSUME Text, NEW s \in ParserStates
  PROVE  Goes(s, parsePragmaStmt(s))
<1>1. ASSUME NEW p \in ParserStates PROVE Goes(p, parsePragmaAssert(p))
  <2> DEFINE c == Phrase(p, <<"(", "EXPR">>)
             m == Phrase(c, <<Comma, "EXPR">>)
             n == IF c.ok THEN IF At(c, {Comma}) THEN m ELSE c ELSE c
             r == requireToken(n, ")")
             t == IF n.ok THEN r ELSE n
  <2>1. parsePragmaAssert(p) \in {seekSemi(t), t, seekTokens(t, {")"})}
    <3>1. parsePragmaAssert(p) = CASE ~At(p, {"("}) -> seekSemi(t)
                                   [] t.ok -> t
                                   [] OTHER -> seekTokens(t, {")"})
      BY Zenon DEF parsePragmaAssert, Then
    <3> HIDE DEF t
    <3> QED BY <3>1
  <2>2. Goes(p, c)
    BY PhraseGoes, GrammarItems DEF Reads
  <2>3. c \in ParserStates
    BY <2>2 DEF Goes
  <2> HIDE DEF c
  <2>4. Goes(c, m)
    BY <2>3, PhraseGoes, GrammarItems DEF Reads
  <2> HIDE DEF m
  <2>5. Goes(p, m)
    BY <2>2, <2>4, GoesGoes
  <2>6. Goes(p, n)
    BY <2>2, <2>5
  <2>7. n \in ParserStates
    BY <2>6 DEF Goes
  <2> HIDE DEF n
  <2>8. Goes(n, r)
    BY <2>7, TokenGoes DEF TakesToken
  <2> HIDE DEF r
  <2>9. Goes(p, r)
    BY <2>6, <2>8, GoesGoes
  <2>10. Goes(p, t)
    BY <2>6, <2>9
  <2>11. t \in ParserStates
    BY <2>10 DEF Goes
  <2> HIDE DEF t
  <2>12. Goes(t, seekSemi(t)) /\ Goes(t, seekTokens(t, {")"}))
    BY <2>11, seekSemiGoes, seekGoes
  <2>13. Goes(p, seekSemi(t)) /\ Goes(p, seekTokens(t, {")"}))
    BY <2>10, <2>12, GoesGoes
  <2> QED BY <2>1, <2>10, <2>13
<1> DEFINE t == Phrase(s, <<"pragma", "IDENTIFIER">>)
           a == parsePragmaAssert(t)
           r == report(t)
<1>2. parsePragmaStmt(s) \in {seekSemi(t), a, seekSemi(r)}
  <2>1. parsePragmaStmt(s) = CASE ~t.ok -> seekSemi(t)
                               [] nextTokenIs(s, {"Assert"}) -> a
                               [] OTHER -> seekSemi(r)
    BY Zenon DEF parsePragmaStmt
  <2> HIDE DEF t, a, r
  <2> QED BY <2>1
<1>3. Goes(s, t)
  BY PhraseGoes, GrammarItems DEF Reads
<1>4. t \in ParserStates
  BY <1>3 DEF Goes
<1> HIDE DEF t
<1>5. Goes(t, a) /\ Goes(t, r) /\ r \in ParserStates /\ Goes(t, seekSemi(t))
  BY <1>1, <1>4, StepsGo, seekSemiGoes
<1> HIDE DEF a, r
<1>6. Goes(r, seekSemi(r))
  BY <1>5, seekSemiGoes
<1>7. Goes(t, seekSemi(r))
  BY <1>4, <1>5, <1>6, GoesGoes
<1>8. Goes(s, a) /\ Goes(s, seekSemi(t)) /\ Goes(s, seekSemi(r))
  BY <1>3, <1>5, <1>7, GoesGoes
<1> QED BY <1>2, <1>8

\* A statement may be tagged.
LEMMA UntaggedGoes ==
  ASSUME Text, NEW s \in ParserStates
  PROVE  Goes(s, Untagged(s)) /\ Tag(s) \in Ident \cup {NoTag}
<1>1. Goes(s, Untagged(s))
  BY StepsGo, GoesOn DEF Untagged
<1>2. Tag(s) \in Ident \cup {NoTag}
  BY AtFacts DEF Tag, taggedStmtFollows
<1> QED BY <1>1, <1>2

\* A statement without statements of its own.
LEMMA parseSimpleStatementGoes ==
  ASSUME Text, NEW s \in ParserStates
  PROVE  Goes(s, parseSimpleStatement(s))
<1> DEFINE u == Untagged(s)
           r == report(u)
           n == parseName(s)
           i == ignoreToken(n)
           e == parseExpr(i)
           a == IF n.ok THEN e ELSE n
<1>1. parseSimpleStatement(s) \in
        {parseReturnStmt(s), parseExitStmt(s), parseRaiseStmt(s), parsePragmaStmt(s),
         ignoreToken(s), seekSemi(r), OrSeekSemi(a), n}
  <2>1. parseAssignmentStmt(s) = OrSeekSemi(a)
    BY Zenon DEF parseAssignmentStmt, Then
  <2> HIDE DEF a
  <2> QED BY <2>1 DEF parseSimpleStatement
<1>2. /\ Goes(s, parseReturnStmt(s)) /\ Goes(s, parseExitStmt(s)) /\ Goes(s, parseRaiseStmt(s))
      /\ Goes(s, parsePragmaStmt(s)) /\ Goes(s, ignoreToken(s))
  BY JumpsGo, parsePragmaStmtGoes, StepsGo
<1>3. Goes(s, n) /\ n \in ParserStates
  BY parseNameGoes DEF Reads, Goes
<1> HIDE DEF n
<1>4. Goes(s, seekSemi(r))
  <2>1. Goes(s, u)
    BY UntaggedGoes
  <2>2. u \in ParserStates
    BY <2>1 DEF Goes
  <2> HIDE DEF u
  <2>3. Goes(u, r) /\ r \in ParserStates
    BY <2>2, StepsGo
  <2> HIDE DEF r
  <2>4. Goes(r, seekSemi(r))
    BY <2>3, seekSemiGoes
  <2>5. Goes(u, seekSemi(r))
    BY <2>2, <2>3, <2>4, GoesGoes
  <2> QED BY <2>1, <2>5, GoesGoes
<1>5. Goes(s, OrSeekSemi(a))
  <2>1. Goes(n, i) /\ i \in ParserStates
    BY <1>3, StepsGo
  <2> HIDE DEF i
  <2>2. Goes(i, e)
    BY <2>1, parseExprGoes DEF Reads
  <2> HIDE DEF e
  <2>3. Goes(n, e)
    BY <1>3, <2>1, <2>2, GoesGoes
  <2>4. Goes(s, e)
    BY <1>3, <2>3, GoesGoes
  <2>5. Goes(s, a)
    BY <1>3, <2>4
  <2>6. a \in ParserStates
    BY <2>5 DEF Goes
  <2> HIDE DEF a
  <2>7. Goes(a, OrSeekSemi(a))
    BY <2>6, OrSeekGoes
  <2> QED BY <2>5, <2>7, GoesGoes
<1> HIDE DEF u, r, a
<1> QED BY <1>1, <1>2, <1>3, <1>4, <1>5

\* The semicolon behind a statement is found wherever there is one.
LEMMA parseSemiGoes ==
  ASSUME Text, NEW s \in ParserStates, NEW t, Goes(s, t)
  PROVE  /\ Goes(s, parseSemi(t))
         /\ Code(s.pos) # EOT => Moves(s, parseSemi(t))
<1> DEFINE u == requireToken(t, Semi)
           v == seekAndConsumeToken(u, Semi)
<1>1. parseSemi(t) = IF u.ok THEN u ELSE v
  BY Zenon DEF parseSemi
<1>2. t \in ParserStates /\ s.pos =< t.pos
  BY DEF Goes
<1>3. TakesToken(t, u, {Semi})
  BY <1>2, TokenGoes
<1> HIDE DEF u
<1>4. Goes(t, u) /\ u \in ParserStates /\ (u.ok => Moves(t, u)) /\ (~u.ok => u.pos = t.pos)
  BY <1>3, SeparatorFacts DEF TakesToken, Goes
<1>5. Goes(u, v) /\ (Code(u.pos) # EOT => Moves(u, v))
  BY <1>4, seekAndConsumeGoes
<1> HIDE DEF v
<1>6. Goes(t, v) /\ (Moves(u, v) => Moves(t, v))
  BY <1>2, <1>4, <1>5, GoesGoes
<1>7. /\ Goes(s, u) /\ (Moves(t, u) => Moves(s, u))
      /\ Goes(s, v) /\ (Moves(t, v) => Moves(s, v)) /\ (Moves(s, t) => Moves(s, v))
  BY <1>4, <1>6, GoesGoes
<1>8. Code(s.pos) # EOT /\ Code(t.pos) = EOT => Moves(s, t)
  <2>1. s.pos \in Nat /\ t.pos \in Nat
    BY <1>2, StateFacts
  <2> QED BY <1>2, <2>1 DEF Moves
<1> QED BY <1>1, <1>4, <1>5, <1>6, <1>7, <1>8

\* The header of a loop.
LEMMA parseLoopHeaderGoes ==
  ASSUME Text, NEW s \in ParserStates
  PROVE  /\ Goes(s, parseLoopHeader(s))
         /\ parseLoopHeader(s).ok => Moves(s, parseLoopHeader(s))
<1> DEFINE i == Valid(ignoreToken(s))
           w == Phrase(s, <<"while", "EXPR", "loop">>)
           f == Phrase(s, <<"for", "IDENTIFIER", "in">>)
           g == IF At(f, {"reverse"}) THEN ignoreToken(f) ELSE f
           d == parseDSTDefinition(g, FALSE)
           h == IF f.ok THEN d ELSE f
           l == requireToken(h, "loop")
           x == IF h.ok THEN l ELSE h
<1>1. parseLoopHeader(s) = CASE At(s, {"loop"}) -> i [] At(s, {"while"}) -> w [] OTHER -> x
  BY Zenon DEF parseLoopHeader, Then
<1>2. Goes(s, i) /\ (At(s, {"loop"}) => Moves(s, i))
  <2> DEFINE t == ignoreToken(s)
  <2>1. Goes(s, t) /\ t \in ParserStates /\ (At(s, {"loop"}) => Moves(s, t))
    BY StepsGo DEF At, EOT
  <2> HIDE DEF t
  <2>2. Goes(t, Valid(t))
    BY <2>1, StandsFacts
  <2>3. Goes(s, Valid(t)) /\ (Moves(s, t) => Moves(s, Valid(t)))
    BY <2>1, <2>2, GoesGoes
  <2> QED BY <2>1, <2>3 DEF t
<1>3. Reads(s, w) /\ Reads(s, f)
  BY PhraseGoes, GrammarItems
<1>4. Goes(s, w) /\ (w.ok => Moves(s, w))
  BY <1>3 DEF Reads
<1>5. Goes(s, f) /\ f \in ParserStates /\ (f.ok => Moves(s, f))
  BY <1>3 DEF Reads, Goes
<1> HIDE DEF f, i, w
<1>6. Goes(f, g)
  BY <1>5, StepsGo, GoesOn
<1>7. g \in ParserStates
  BY <1>6 DEF Goes
<1> HIDE DEF g
<1>8. Goes(g, d)
  BY <1>7, parseDSTDefinitionGoes
<1> HIDE DEF d
<1>9. Goes(f, d)
  BY <1>5, <1>6, <1>8, GoesGoes
<1>10. Goes(s, d) /\ (f.ok => Moves(s, d))
  BY <1>5, <1>9, GoesGoes
<1>11. Goes(s, h) /\ (f.ok => Moves(s, h)) /\ (h.ok => f.ok)
  BY <1>5, <1>10
<1>12. h \in ParserStates
  BY <1>11 DEF Goes
<1> HIDE DEF h
<1>13. Goes(h, l)
  BY <1>12, TokenGoes DEF TakesToken
<1> HIDE DEF l
<1>14. Goes(s, l) /\ (Moves(s, h) => Moves(s, l))
  BY <1>11, <1>13, GoesGoes
<1>15. Goes(s, x) /\ (x.ok => Moves(s, x))
  BY <1>11, <1>14
<1> HIDE DEF x
<1> QED BY <1>1, <1>2, <1>4, <1>15

\* The choices of a handler, however the list ends.
LEMMA parseChoicesGoes ==
  ASSUME Text, NEW s \in ParserStates
  PROVE  Goes(s, parseChoices(s))
<1> DEFINE names[l \in ParserStates] ==
             LET t == parseName(l)
                 bar == t.ok /\ At(t, {"|"})
             IN  CASE bar /\ ~nextTokenIs(t, {"others"}) -> names[ignoreToken(t)]
                   [] bar /\ nextTokenIs(t, {"others"}) ->
                        Invalid(report(ignoreToken(ignoreToken(t))))
                   [] OTHER -> t
           P(l) == parseName(l)
           bars(l) == P(l).ok /\ At(P(l), {"|"})
           B(f, l) == CASE bars(l) /\ ~nextTokenIs(P(l), {"others"}) -> f[ignoreToken(P(l))]
                        [] bars(l) /\ nextTokenIs(P(l), {"others"}) ->
                             Invalid(report(ignoreToken(ignoreToken(P(l)))))
                        [] OTHER -> P(l)
           C(f) == f = [l \in ParserStates |-> B(f, l)]
           Stop == {l \in ParserStates : ~(bars(l) /\ ~nextTokenIs(P(l), {"others"}))}
           out == [l \in ParserStates |->
                     IF bars(l) THEN Invalid(report(ignoreToken(ignoreToken(P(l))))) ELSE P(l)]
           nxt == [l \in ParserStates |-> ignoreToken(P(l))]
           i == Valid(ignoreToken(s))
           c == IF At(s, {"others"}) THEN i ELSE names[s]
           r == requireToken(c, "=>")
<1>1. \A l \in ParserStates : Goes(l, P(l)) /\ P(l) \in ParserStates
  BY parseNameGoes DEF Reads, Goes
<1>2. \A f : \A l \in ParserStates : B(f, l) = IF l \in Stop THEN out[l] ELSE f[nxt[l]]
  <2> HIDE DEF P, bars
  <2> QED OBVIOUS
<1>3. \A f : C(f) <=> Loops(f, ParserStates, Stop, out, nxt)
  <2> HIDE DEF Stop, out, nxt, B
  <2> QED BY <1>2, Zenon DEF Loops
<1>4. parseChoices(s) = IF c.ok THEN r ELSE c
  BY Zenon DEF parseChoices, Then
<1>5. names = CHOOSE f : C(f)
  BY Zenon
<1>6. \A l \in ParserStates : l \in Stop => Goes(l, out[l])
  <2> SUFFICES ASSUME NEW l \in ParserStates PROVE Goes(l, out[l])
    BY Zenon
  <2> DEFINE p == P(l)
             u == ignoreToken(ignoreToken(p))
             v == report(u)
             w == Invalid(v)
  <2>1. Goes(l, p) /\ p \in ParserStates
    BY <1>1
  <2>2. out[l] \in {p, w}
    OBVIOUS
  <2> HIDE DEF P, out, p
  <2>3. Goes(p, u) /\ u \in ParserStates
    BY <2>1, StepsGo
  <2> HIDE DEF u
  <2>4. Goes(u, v) /\ v \in ParserStates
    BY <2>3, StepsGo
  <2> HIDE DEF v
  <2>5. Goes(v, w)
    BY <2>4, StandsFacts
  <2> HIDE DEF w
  <2>6. Goes(u, w)
    BY <2>3, <2>4, <2>5, GoesGoes
  <2>7. Goes(p, w)
    BY <2>1, <2>3, <2>6, GoesGoes
  <2>8. Goes(l, w)
    BY <2>1, <2>7, GoesGoes
  <2> QED BY <2>1, <2>2, <2>8
<1>7. \A l \in ParserStates : l \notin Stop => Moves(l, nxt[l])
  <2> SUFFICES ASSUME NEW l \in ParserStates, l \notin Stop PROVE Moves(l, nxt[l])
    OBVIOUS
  <2> DEFINE p == P(l)
             n == ignoreToken(p)
  <2>1. Goes(l, p) /\ p \in ParserStates
    BY <1>1
  <2>2. At(p, {"|"})
    <3> HIDE DEF P
    <3> QED OBVIOUS
  <2>3. nxt[l] = n
    OBVIOUS
  <2> HIDE DEF P, bars, nxt, Stop, p
  <2>4. Moves(p, n) /\ Goes(p, n)
    BY <2>1, <2>2, StepsGo DEF At, EOT
  <2> HIDE DEF n
  <2> QED BY <2>1, <2>3, <2>4, GoesGoes
<1> HIDE DEF Stop, out, nxt, P, bars, B, names
<1>8. /\ \E f : Loops(f, ParserStates, Stop, out, nxt)
      /\ \A f : Loops(f, ParserStates, Stop, out, nxt) =>
           \A x \in ParserStates : Goes(x, f[x])
  BY <1>6, <1>7, StateLoop
<1>9. Loops(names, ParserStates, Stop, out, nxt)
  <2>1. C(CHOOSE f : C(f))
    BY <1>3, <1>8, Zenon
  <2>2. C(names)
    BY <1>5, <2>1, Zenon
  <2> QED BY <1>3, <2>2
<1>10. Goes(s, names[s])
  BY <1>8, <1>9
<1>11. Goes(s, i)
  <2> DEFINE t == ignoreToken(s)
  <2>1. Goes(s, t) /\ t \in ParserStates
    BY StepsGo
  <2> HIDE DEF t
  <2>2. Goes(t, Valid(t))
    BY <2>1, StandsFacts
  <2>3. Goes(s, Valid(t))
    BY <2>1, <2>2, GoesGoes
  <2> QED BY <2>3 DEF t
<1> HIDE DEF i
<1>12. Goes(s, c)
  BY <1>10, <1>11
<1>13. c \in ParserStates
  BY <1>12 DEF Goes
<1> HIDE DEF c
<1>14. Goes(c, r)
  BY <1>13, TokenGoes DEF TakesToken
<1> HIDE DEF r
<1>15. Goes(s, r)
  BY <1>12, <1>14, GoesGoes
<1> QED BY <1>4, <1>12, <1>15

-----------------------------------------------------------------------------
(* The routines under way: the contexts they have opened, and their work.      *)

\* A row more is appended to a concatenation.
LEMMA FlattenAppend ==
  ASSUME NEW S, NEW seqs \in Seq(Seq(S)), NEW x \in Seq(S)
  PROVE  FlattenSeq(Append(seqs, x)) = FlattenSeq(seqs) \o x
<1> DEFINE L == Len(seqs)
           a == Append(seqs, x)
           f == CHOOSE h : IsFlat(seqs, h)
           g == CHOOSE h : IsFlat(a, h)
<1>1. /\ a \in Seq(Seq(S)) /\ Len(a) = L + 1 /\ L \in Nat /\ a[L + 1] = x
      /\ \A i \in 1..L : a[i] = seqs[i] /\ seqs[i] \in Seq(S)
  OBVIOUS
<1>2. FlattenSeq(a) = g[Len(a)]
  <2>1. Len(a) # 0
    BY <1>1
  <2> HIDE DEF a
  <2> QED BY <2>1, Zenon DEF FlattenSeq, IsFlat
<1>3. L # 0 => FlattenSeq(seqs) = f[L]
  BY Zenon DEF FlattenSeq, IsFlat
<1>4. L = 0 => FlattenSeq(seqs) = <<>>
  BY DEF FlattenSeq
<1> HIDE DEF a
<1>5. IsFlat(seqs, f) /\ IsFlat(a, g)
  BY <1>1, FlatExists, Zenon
<1> HIDE DEF f, g
<1>6. \A i \in 1..L : f[i] = IF i = 1 THEN seqs[i] ELSE f[i - 1] \o seqs[i]
  BY <1>5, Zenon DEF IsFlat
<1>7. \A i \in 1..(L + 1) : g[i] = IF i = 1 THEN a[i] ELSE g[i - 1] \o a[i]
  BY <1>1, <1>5, Zenon DEF IsFlat
<1> DEFINE T == {n \in Nat : n + 1 =< L => f[n + 1] = g[n + 1]}
<1>8. 0 \in T
  <2>1. 1 =< L => f[1] = seqs[1] /\ g[1] = a[1] /\ a[1] = seqs[1]
    BY <1>1, <1>6, <1>7
  <2> QED BY <2>1
<1>9. ASSUME NEW n \in Nat, n \in T PROVE n + 1 \in T
  <2> SUFFICES ASSUME (n + 1) + 1 =< L PROVE f[(n + 1) + 1] = g[(n + 1) + 1]
    OBVIOUS
  <2> DEFINE m == n + 1
  <2>1. m \in Nat /\ m + 1 \in 1..L /\ (m + 1) - 1 = m /\ m + 1 \in 1..(L + 1) /\ m + 1 # 1
    BY <1>1
  <2>2. f[m] = g[m]
    BY <1>1, <1>9
  <2> HIDE DEF m
  <2>3. f[m + 1] = f[m] \o seqs[m + 1]
    BY <1>6, <2>1
  <2>4. g[m + 1] = g[m] \o a[m + 1]
    BY <1>7, <2>1
  <2>5. a[m + 1] = seqs[m + 1]
    BY <1>1, <2>1
  <2>6. f[m + 1] = g[m + 1]
    BY <2>2, <2>3, <2>4, <2>5
  <2> QED BY <2>6 DEF m
<1>10. CASE L = 0
  <2>1. g[1] = x
    BY <1>1, <1>7, <1>10
  <2>2. <<>> \o x = x
    OBVIOUS
  <2>3. Len(a) = 1
    BY <1>1, <1>10
  <2> QED BY <1>2, <1>4, <1>10, <2>1, <2>2, <2>3 DEF a
<1>11. CASE L # 0
  <2>1. L - 1 \in Nat /\ (L - 1) + 1 = L /\ (L + 1) - 1 = L /\ L + 1 \in 1..(L + 1) /\ L + 1 # 1
    BY <1>1, <1>11
  <2>2. L - 1 \in T
    <3> HIDE DEF T
    <3> QED BY <1>8, <1>9, <2>1, SetInduction
  <2>3. f[L] = g[L]
    BY <1>1, <2>1, <2>2
  <2>4. g[L + 1] = g[L] \o a[L + 1]
    BY <1>7, <2>1
  <2> QED BY <1>1, <1>2, <1>3, <1>11, <2>3, <2>4 DEF a
<1> QED BY <1>10, <1>11

\* The contexts that the routines in c have opened.
Opens(c) == FlattenSeq([i \in DOMAIN c |-> ContextsOf(c[i].kind)])

\* Which contexts that is.
LEMMA ContextsFacts ==
  /\ \A kind \in Kinds : ContextsOf(kind) \in Seq(Contexts)
  /\ \A kind \in PackageParts : ContextsOf(kind) = <<"package">>
  /\ ContextsOf("declarations") = <<"definition", "subroutine body">>
  /\ ContextsOf("statements") = <<"definition", "subroutine body">>
  /\ ContextsOf("definition end") = <<"definition">>
  /\ ContextsOf("declare") = <<"block">> /\ ContextsOf("block") = <<"block">>
  /\ ContextsOf("handler") = <<"handler">> /\ ContextsOf("loop") = <<"loop">>
  /\ \A kind \in {"context", "top level", "block end", "exception", "if", "else"} :
       ContextsOf(kind) = <<>>
<1>1. \A kind \in PackageParts : ContextsOf(kind) = <<"package">>
  BY DEF ContextsOf, PackageParts
<1>2. /\ ContextsOf("declarations") = <<"definition", "subroutine body">>
      /\ ContextsOf("statements") = <<"definition", "subroutine body">>
  BY DEF ContextsOf, PackageParts
<1>3. ContextsOf("definition end") = <<"definition">>
  BY DEF ContextsOf, PackageParts
<1>4. ContextsOf("declare") = <<"block">> /\ ContextsOf("block") = <<"block">>
  BY DEF ContextsOf, PackageParts
<1>5. ContextsOf("handler") = <<"handler">>
  BY DEF ContextsOf, PackageParts
<1>6. ContextsOf("loop") = <<"loop">>
  BY DEF ContextsOf, PackageParts
<1>7. \A kind \in {"context", "top level", "block end", "exception", "if", "else"} :
        ContextsOf(kind) = <<>>
  BY DEF ContextsOf, PackageParts
<1>8. \A kind \in Kinds : ContextsOf(kind) \in Seq(Contexts)
  <2>1. /\ <<"package">> \in Seq(Contexts) /\ <<"definition", "subroutine body">> \in Seq(Contexts)
        /\ <<"definition">> \in Seq(Contexts) /\ <<"block">> \in Seq(Contexts)
        /\ <<"handler">> \in Seq(Contexts) /\ <<"loop">> \in Seq(Contexts)
        /\ <<>> \in Seq(Contexts)
    BY DEF Contexts
  <2>2. \A kind \in Kinds :
          \/ kind \in PackageParts
          \/ kind \in {"declarations", "statements", "definition end", "declare", "block",
                       "handler", "loop"}
          \/ kind \in {"context", "top level", "block end", "exception", "if", "else"}
    BY DEF Kinds, StatementParts
  <2> QED BY <1>1, <1>2, <1>3, <1>4, <1>5, <1>6, <1>7, <2>1, <2>2
<1> QED BY <1>1, <1>2, <1>3, <1>4, <1>5, <1>6, <1>7, <1>8

\* One routine more.
LEMMA OpensFacts ==
  /\ Opens(<<>>) = <<>>
  /\ \A c \in Seq(Routines), r \in Routines :
       Opens(Append(c, r)) = Opens(c) \o ContextsOf(r.kind)
<1>1. Opens(<<>>) = <<>>
  BY DEF Opens, FlattenSeq
<1>2. ASSUME NEW c \in Seq(Routines), NEW r \in Routines
      PROVE  Opens(Append(c, r)) = Opens(c) \o ContextsOf(r.kind)
  <2> DEFINE rows == [i \in DOMAIN c |-> ContextsOf(c[i].kind)]
             all == [i \in DOMAIN Append(c, r) |-> ContextsOf(Append(c, r)[i].kind)]
             x == ContextsOf(r.kind)
  <2>1. /\ DOMAIN c = 1..Len(c) /\ Len(c) \in Nat
        /\ DOMAIN Append(c, r) = 1..(Len(c) + 1)
        /\ Append(c, r)[Len(c) + 1] = r
        /\ \A i \in 1..Len(c) : Append(c, r)[i] = c[i] /\ c[i] \in Routines
    OBVIOUS
  <2>2. x \in Seq(Contexts) /\ \A i \in 1..Len(c) : ContextsOf(c[i].kind) \in Seq(Contexts)
    BY <2>1, ContextsFacts DEF Routines
  <2>3. rows \in Seq(Seq(Contexts)) /\ Len(rows) = Len(c) /\ DOMAIN rows = 1..Len(c)
    BY <2>1, <2>2, SegmentIsSeq
  <2>4. all = Append(rows, x)
    <3> DEFINE more == Append(rows, x)
    <3> HIDE DEF rows, x
    <3>1. /\ more \in Seq(Seq(Contexts)) /\ Len(more) = Len(c) + 1 /\ more[Len(c) + 1] = x
          /\ \A i \in 1..Len(c) : more[i] = rows[i]
      BY <2>2, <2>3
    <3>2. DOMAIN more = 1..(Len(c) + 1)
      BY <3>1
    <3>3. more = [i \in 1..(Len(c) + 1) |-> more[i]]
      <4> HIDE DEF more
      <4> QED BY <3>1, SeqIsSegment
    <3>4. \A i \in 1..(Len(c) + 1) : more[i] = ContextsOf(Append(c, r)[i].kind)
      <4>1. \A i \in 1..Len(c) : rows[i] = ContextsOf(c[i].kind)
        BY <2>1 DEF rows
      <4>2. x = ContextsOf(Append(c, r)[Len(c) + 1].kind)
        BY <2>1 DEF x
      <4>3. \A i \in 1..(Len(c) + 1) : i \in 1..Len(c) \/ i = Len(c) + 1
        BY <2>1
      <4>4. \A i \in 1..Len(c) : ContextsOf(Append(c, r)[i].kind) = ContextsOf(c[i].kind)
        BY <2>1
      <4> HIDE DEF more
      <4> QED BY <3>1, <4>1, <4>2, <4>3, <4>4, Zenon
    <3> HIDE DEF more
    <3> QED BY <2>1, <3>3, <3>4, Zenon DEF more
  <2> HIDE DEF rows, x
  <2>5. FlattenSeq(Append(rows, x)) = FlattenSeq(rows) \o x
    BY <2>2, <2>3, FlattenAppend DEF x
  <2> QED BY <2>4, <2>5, Zenon DEF Opens, rows, x
<1> QED BY <1>1, <1>2

\* The work of the routines in c.
WorkOf(c) ==
  LET sum[i \in 0..Len(c)] == IF i = 0 THEN 0 ELSE sum[i - 1] + Load(c[i])
  IN  sum[Len(c)]

\* The function that adds the loads up.
IsSum(c, f) == f = [i \in 0..Len(c) |-> IF i = 0 THEN 0 ELSE f[i - 1] + Load(c[i])]

\* The weight of each routine.
LEMMA WeightFacts ==
  /\ Weight("declarations") = 4 /\ Weight("declare") = 4
  /\ Weight("statements") = 3 /\ Weight("block") = 3 /\ Weight("handler") = 3
  /\ Weight("context") = 2 /\ Weight("definition end") = 2 /\ Weight("block end") = 2
  /\ Weight("exception") = 2 /\ Weight("top level") = 1
  /\ Weight("spec") = 1 /\ Weight("private part") = 1
  /\ \A kind \in Kinds : Weight(kind) \in Nat /\ Weight(kind) > 0
<1>1. Weight("declarations") = 4 /\ Weight("declare") = 4
  BY DEF Weight
<1>2. Weight("statements") = 3 /\ Weight("block") = 3 /\ Weight("handler") = 3
  BY DEF Weight
<1>3. /\ Weight("context") = 2 /\ Weight("definition end") = 2 /\ Weight("block end") = 2
      /\ Weight("exception") = 2
  BY DEF Weight
<1>4. Weight("top level") = 1 /\ Weight("spec") = 1 /\ Weight("private part") = 1
  BY DEF Weight
<1>5. ASSUME NEW kind \in Kinds PROVE Weight(kind) \in Nat /\ Weight(kind) > 0
  <2>1. kind \in {"declarations", "declare"} => Weight(kind) = 4
    BY <1>1
  <2>2. kind \in {"statements", "block", "handler"} => Weight(kind) = 3
    BY <1>2
  <2>3. kind \in {"context", "definition end", "block end", "exception"} => Weight(kind) = 2
    BY <1>3
  <2>4. /\ kind \notin {"declarations", "declare"}
        /\ kind \notin {"statements", "block", "handler"}
        /\ kind \notin {"context", "definition end", "block end", "exception"}
        => Weight(kind) = 1
    BY DEF Weight
  <2>5. Weight(kind) \in {1, 2, 3, 4}
    BY <2>1, <2>2, <2>3, <2>4
  <2>6. \A w \in {1, 2, 3, 4} : w \in Nat /\ w > 0
    OBVIOUS
  <2> QED BY <2>5, <2>6, Zenon
<1> QED BY <1>1, <1>2, <1>3, <1>4, <1>5

\* A routine gets lighter as it goes from one part to the next.
LEMMA Lighter ==
  /\ Weight("block") < Weight("declare") /\ Weight("block end") < Weight("block")
  /\ Weight("statements") < Weight("declarations")
  /\ Weight("definition end") < Weight("declarations")
  /\ Weight("definition end") < Weight("statements")
  /\ Weight("exception") < Weight("handler") /\ Weight("top level") < Weight("context")
<1>1. 3 < 4 /\ 2 < 3 /\ 2 < 4 /\ 1 < 2
  OBVIOUS
<1> QED BY <1>1, WeightFacts, Zenon

\* A routine always has work to do.
LEMMA LoadFacts ==
  ASSUME NEW r \in Routines
  PROVE  /\ Load(r) \in Nat /\ Load(r) > 0 /\ Weight(r.kind) =< Load(r)
         /\ ~r.first => Load(r) = Weight(r.kind)
         /\ r.first => Load(r) = Weight(r.kind) + 1
<1>1. r.kind \in Kinds /\ r.first \in BOOLEAN
  BY DEF Routines
<1> DEFINE w == Weight(r.kind)
<1>2. w \in Nat /\ w > 0
  BY <1>1, WeightFacts
<1>3. Load(r) = IF r.first THEN w + 1 ELSE w
  BY DEF Load
<1> HIDE DEF w
<1>4. /\ Load(r) \in Nat /\ Load(r) > 0 /\ w =< Load(r)
      /\ ~r.first => Load(r) = w
      /\ r.first => Load(r) = w + 1
  BY <1>1, <1>2, <1>3
<1> QED BY <1>4 DEF w

\* The loads can be added up.
LEMMA SumExists ==
  ASSUME NEW c \in Seq(Routines)
  PROVE  \E f : IsSum(c, f)
<1> DEFINE L == Len(c)
           Upto(n, f) == \A i \in 0..n : f[i] = IF i = 0 THEN 0 ELSE f[i - 1] + Load(c[i])
           T == {n \in Nat : \E f : f = [i \in 0..n |-> f[i]] /\ Upto(n, f)}
<1>1. L \in Nat
  OBVIOUS
<1>2. 0 \in T
  <2> DEFINE f == [i \in 0..0 |-> 0]
  <2>1. f = [i \in 0..0 |-> f[i]] /\ Upto(0, f)
    OBVIOUS
  <2> HIDE DEF f
  <2> QED BY <2>1
<1>3. ASSUME NEW n \in Nat, n \in T PROVE n + 1 \in T
  <2>1. PICK f : f = [i \in 0..n |-> f[i]] /\ Upto(n, f)
    BY <1>3
  <2> DEFINE more == f[n] + Load(c[n + 1])
             g == [i \in 0..(n + 1) |-> IF i = n + 1 THEN more ELSE f[i]]
  <2> HIDE DEF more
  <2>2. /\ g = [i \in 0..(n + 1) |-> g[i]] /\ g[n + 1] = more
        /\ \A i \in 0..n : g[i] = f[i]
    OBVIOUS
  <2> HIDE DEF g
  <2>3. ASSUME NEW i \in 0..(n + 1)
        PROVE  g[i] = IF i = 0 THEN 0 ELSE g[i - 1] + Load(c[i])
    <3>1. CASE i = n + 1
      <4>1. i # 0 /\ i - 1 = n /\ n \in 0..n
        BY <3>1
      <4> QED BY <2>2, <3>1, <4>1 DEF more
    <3>2. CASE i # n + 1
      <4>1. i \in 0..n /\ (i # 0 => i - 1 \in 0..n)
        BY <3>2
      <4>2. f[i] = IF i = 0 THEN 0 ELSE f[i - 1] + Load(c[i])
        BY <2>1, <4>1
      <4> QED BY <2>2, <4>1, <4>2
    <3> QED BY <3>1, <3>2
  <2>4. n + 1 \in Nat
    OBVIOUS
  <2> QED BY <2>2, <2>3, <2>4
<1>4. L \in T
  <2> HIDE DEF T
  <2> QED BY <1>1, <1>2, <1>3, SetInduction
<1>5. PICK f : f = [i \in 0..L |-> f[i]] /\ Upto(L, f)
  BY <1>4
<1>6. f = [i \in 0..Len(c) |-> IF i = 0 THEN 0 ELSE f[i - 1] + Load(c[i])]
  BY <1>5
<1> QED BY <1>6 DEF IsSum

\* The sum that CHOOSE finds.
LEMMA WorkIsSum ==
  ASSUME NEW c \in Seq(Routines)
  PROVE  \E f : /\ WorkOf(c) = f[Len(c)] /\ f[0] = 0
                /\ \A i \in 1..Len(c) : f[i] = f[i - 1] + Load(c[i])
<1> DEFINE f == CHOOSE h : IsSum(c, h)
<1>1. WorkOf(c) = f[Len(c)]
  BY Zenon DEF WorkOf, IsSum
<1>2. IsSum(c, f)
  BY SumExists, Zenon
<1> HIDE DEF f
<1>3. \A i \in 0..Len(c) : f[i] = IF i = 0 THEN 0 ELSE f[i - 1] + Load(c[i])
  BY <1>2, Zenon DEF IsSum
<1>4. 0 \in 0..Len(c) /\ \A i \in 1..Len(c) : i \in 0..Len(c) /\ i # 0
  OBVIOUS
<1>5. f[0] = 0 /\ \A i \in 1..Len(c) : f[i] = f[i - 1] + Load(c[i])
  BY <1>3, <1>4
<1> QED BY <1>1, <1>5

\* No routine has no work, and one more adds its own.
LEMMA WorkFacts ==
  /\ WorkOf(<<>>) = 0
  /\ \A c \in Seq(Routines) : WorkOf(c) \in Nat
  /\ \A c \in Seq(Routines), r \in Routines : WorkOf(Append(c, r)) = WorkOf(c) + Load(r)
  /\ Work = WorkOf(ctl)
<1>1. WorkOf(<<>>) = 0
  <2>1. <<>> \in Seq(Routines) /\ Len(<<>>) = 0
    OBVIOUS
  <2> QED BY <2>1, WorkIsSum
<1>2. ASSUME NEW c \in Seq(Routines) PROVE WorkOf(c) \in Nat
  <2>1. PICK f : /\ WorkOf(c) = f[Len(c)] /\ f[0] = 0
                 /\ \A i \in 1..Len(c) : f[i] = f[i - 1] + Load(c[i])
    BY WorkIsSum
  <2> DEFINE T == {n \in Nat : n =< Len(c) => f[n] \in Nat}
  <2>2. 0 \in T
    BY <2>1
  <2>3. ASSUME NEW n \in Nat, n \in T PROVE n + 1 \in T
    <3> SUFFICES ASSUME n + 1 =< Len(c) PROVE f[n + 1] \in Nat
      OBVIOUS
    <3>1. n + 1 \in 1..Len(c) /\ (n + 1) - 1 = n /\ f[n] \in Nat /\ c[n + 1] \in Routines
      BY <2>3
    <3>2. Load(c[n + 1]) \in Nat
      BY <3>1, LoadFacts
    <3> QED BY <2>1, <3>1, <3>2
  <2>4. Len(c) \in T /\ Len(c) \in Nat
    <3> HIDE DEF T
    <3>1. Len(c) \in Nat
      OBVIOUS
    <3> QED BY <2>2, <2>3, <3>1, SetInduction
  <2> QED BY <2>1, <2>4
<1>3. ASSUME NEW c \in Seq(Routines), NEW r \in Routines
      PROVE  WorkOf(Append(c, r)) = WorkOf(c) + Load(r)
  <2> DEFINE d == Append(c, r)
  <2>1. /\ d \in Seq(Routines) /\ Len(d) = Len(c) + 1 /\ Len(c) \in Nat /\ d[Len(c) + 1] = r
        /\ \A i \in 1..Len(c) : d[i] = c[i]
    OBVIOUS
  <2> HIDE DEF d
  <2>2. PICK f : /\ WorkOf(c) = f[Len(c)] /\ f[0] = 0
                 /\ \A i \in 1..Len(c) : f[i] = f[i - 1] + Load(c[i])
    BY WorkIsSum
  <2>3. PICK g : /\ WorkOf(d) = g[Len(d)] /\ g[0] = 0
                 /\ \A i \in 1..Len(d) : g[i] = g[i - 1] + Load(d[i])
    BY <2>1, WorkIsSum
  <2> DEFINE T == {n \in Nat : n =< Len(c) => f[n] = g[n]}
  <2>4. 0 \in T
    BY <2>2, <2>3
  <2>5. ASSUME NEW n \in Nat, n \in T PROVE n + 1 \in T
    <3> SUFFICES ASSUME n + 1 =< Len(c) PROVE f[n + 1] = g[n + 1]
      OBVIOUS
    <3>1. /\ n + 1 \in 1..Len(c) /\ n + 1 \in 1..Len(d) /\ (n + 1) - 1 = n /\ f[n] = g[n]
          /\ d[n + 1] = c[n + 1]
      BY <2>1, <2>5
    <3> QED BY <2>2, <2>3, <3>1
  <2>6. Len(c) \in T
    <3> HIDE DEF T
    <3> QED BY <2>1, <2>4, <2>5, SetInduction
  <2>7. f[Len(c)] = g[Len(c)]
    BY <2>1, <2>6
  <2>8. g[Len(c) + 1] = g[Len(c)] + Load(r)
    <3>1. Len(c) + 1 \in 1..Len(d) /\ (Len(c) + 1) - 1 = Len(c)
      BY <2>1
    <3> QED BY <2>1, <2>3, <3>1
  <2> QED BY <2>1, <2>2, <2>3, <2>7, <2>8 DEF d
<1>4. Work = WorkOf(ctl)
  BY Zenon DEF Work, WorkOf
<1> QED BY <1>1, <1>2, <1>3, <1>4

-----------------------------------------------------------------------------
(* The invariant: a parser state that fits the routines under way.             *)

Definitions == {"declarations", "statements", "definition end"}

\* Where a routine can be: a compilation unit holds packages, a package body
\* holds subroutine bodies, and these hold everything else.
Placed(n, kind) ==
  /\ kind \in {"context", "top level"} <=> n = 1
  /\ kind \in PackageParts <=> n = 2
  /\ kind \in Definitions <=> n = 3
Shaped(c) == c \in Seq(Routines) /\ \A i \in 1..Len(c) : Placed(i, c[i].kind)

\* The client's contexts are those of the routines, and the body of a
\* subroutine has left its tag on the stack.
Fits(s, c) ==
  /\ s \in ParserStates /\ Shaped(c) /\ s.open = Opens(c)
  /\ Len(c) > 2 => Len(s.tags) > 0

IInv == Text /\ Fits(st, ctl)

\* What kinds there are.
LEMMA KindFacts ==
  /\ PackageParts \subseteq Kinds /\ StatementParts \subseteq Kinds /\ Definitions \subseteq Kinds
  /\ \A kind \in {"context", "top level", "declarations", "definition end", "declare",
                  "block end", "exception", "statements", "block", "handler", "if", "else",
                  "loop", "spec", "private part", "body"} : kind \in Kinds
  /\ \A n \in Nat \ {0, 1, 2, 3} :
       \A kind \in {"declare", "block end", "exception", "block", "handler", "if", "else", "loop"} :
         Placed(n, kind)
  /\ Placed(1, "context") /\ Placed(1, "top level")
  /\ \A kind \in PackageParts : Placed(2, kind)
  /\ \A kind \in Definitions : Placed(3, kind)
<1>1. PackageParts \subseteq Kinds /\ StatementParts \subseteq Kinds /\ Definitions \subseteq Kinds
  BY DEF Kinds, Definitions, StatementParts
<1>2. \A kind \in {"context", "top level", "declarations", "definition end", "declare",
                   "block end", "exception", "statements", "block", "handler", "if", "else",
                   "loop", "spec", "private part", "body"} : kind \in Kinds
  BY DEF Kinds, StatementParts, PackageParts
<1>3. \A n \in Nat \ {0, 1, 2, 3} :
        \A kind \in {"declare", "block end", "exception", "block", "handler", "if", "else",
                     "loop"} : Placed(n, kind)
  BY DEF Placed, PackageParts, Definitions
<1>4. Placed(1, "context") /\ Placed(1, "top level")
  BY DEF Placed, PackageParts, Definitions
<1>5. \A kind \in PackageParts : Placed(2, kind)
  <2>1. \A kind \in PackageParts :
          kind \notin {"context", "top level"} /\ kind \notin Definitions
    BY DEF PackageParts, Definitions
  <2>2. ~(2 = 1) /\ ~(2 = 3)
    OBVIOUS
  <2> QED BY <2>1, <2>2, Zenon DEF Placed
<1>6. \A kind \in Definitions : Placed(3, kind)
  <2>1. \A kind \in Definitions :
          kind \notin {"context", "top level"} /\ kind \notin PackageParts
    BY DEF PackageParts, Definitions
  <2>2. ~(3 = 1) /\ ~(3 = 2)
    OBVIOUS
  <2> QED BY <2>1, <2>2, Zenon DEF Placed
<1> QED BY <1>1, <1>2, <1>3, <1>4, <1>5, <1>6

\* And where a routine is when its kind is known.
LEMMA PlaceFacts ==
  ASSUME NEW n \in Nat \ {0}, NEW kind, Placed(n, kind)
  PROVE  /\ kind \in {"context", "top level"} => n = 1
         /\ kind \in PackageParts => n = 2
         /\ kind \in Definitions => n = 3
         /\ kind \in {"declare", "block end", "exception", "block", "handler", "if", "else", "loop"}
            => n \in Nat \ {0, 1, 2, 3}
BY DEF Placed, PackageParts, Definitions

\* The same, with the number of routines below it.
LEMMA PlacedAbove ==
  ASSUME NEW n \in Nat, NEW kind, Placed(n + 1, kind)
  PROVE  /\ kind \in {"context", "top level"} => n = 0
         /\ kind \in PackageParts => n = 1
         /\ kind \in Definitions => n = 2
         /\ kind \in {"declare", "block end", "exception", "block", "handler", "if", "else", "loop"}
            => n > 2 /\ n + 1 \in Nat \ {0, 1, 2, 3} /\ n + 2 \in Nat \ {0, 1, 2, 3}
<1>1. n + 1 \in Nat \ {0}
  OBVIOUS
<1>2. /\ kind \in {"context", "top level"} => n + 1 = 1
      /\ kind \in PackageParts => n + 1 = 2
      /\ kind \in Definitions => n + 1 = 3
      /\ kind \in {"declare", "block end", "exception", "block", "handler", "if", "else", "loop"}
         => n + 1 \in Nat \ {0, 1, 2, 3}
  BY <1>1, PlaceFacts
<1>3. n + 1 = 1 => n = 0
  OBVIOUS
<1>4. n + 1 = 2 => n = 1
  OBVIOUS
<1>5. n + 1 = 3 => n = 2
  OBVIOUS
<1>6. n + 1 \in Nat \ {0, 1, 2, 3} => n > 2 /\ n + 2 \in Nat \ {0, 1, 2, 3}
  OBVIOUS
<1> QED BY <1>2, <1>3, <1>4, <1>5, <1>6, Zenon

\* A stack of routines and one on top of it.
LEMMA ShapedAppend ==
  ASSUME NEW c \in Seq(Routines), NEW r \in Routines
  PROVE  Shaped(Append(c, r)) <=> Shaped(c) /\ Placed(Len(c) + 1, r.kind)
<1> DEFINE d == Append(c, r)
<1>1. /\ d \in Seq(Routines) /\ Len(d) = Len(c) + 1 /\ Len(c) \in Nat /\ d[Len(c) + 1] = r
      /\ \A i \in 1..Len(c) : d[i] = c[i]
  OBVIOUS
<1> HIDE DEF d
<1>2. \A i \in 1..Len(d) : i \in 1..Len(c) \/ i = Len(c) + 1
  BY <1>1
<1>3. \A i \in 1..Len(c) : i \in 1..Len(d)
  BY <1>1
<1>4. Len(c) + 1 \in 1..Len(d)
  BY <1>1
<1>5. Shaped(d) <=> Shaped(c) /\ Placed(Len(c) + 1, r.kind)
  BY <1>1, <1>2, <1>3, <1>4, Zenon DEF Shaped
<1> QED BY <1>5 DEF d

\* The invariant, routine by routine.
LEMMA FitsAppend ==
  ASSUME NEW s, NEW c \in Seq(Routines), NEW r \in Routines
  PROVE  Fits(s, Append(c, r)) <=>
           /\ s \in ParserStates /\ Shaped(c) /\ Placed(Len(c) + 1, r.kind)
           /\ s.open = Opens(c) \o ContextsOf(r.kind)
           /\ Len(c) + 1 > 2 => Len(s.tags) > 0
<1> DEFINE d == Append(c, r)
<1>1. Len(d) = Len(c) + 1
  OBVIOUS
<1>2. Opens(d) = Opens(c) \o ContextsOf(r.kind)
  BY OpensFacts
<1>3. Shaped(d) <=> Shaped(c) /\ Placed(Len(c) + 1, r.kind)
  BY ShapedAppend
<1> HIDE DEF d
<1>4. Fits(s, d) <=> /\ s \in ParserStates /\ Shaped(c) /\ Placed(Len(c) + 1, r.kind)
                     /\ s.open = Opens(c) \o ContextsOf(r.kind)
                     /\ Len(c) + 1 > 2 => Len(s.tags) > 0
  BY <1>1, <1>2, <1>3, Zenon DEF Fits
<1> QED BY <1>4 DEF d

\* A stack that is not empty has a top, on top of the rest.
LEMMA TopFacts ==
  ASSUME NEW c \in Seq(Routines), c # <<>>
  PROVE  /\ Front(c) \in Seq(Routines) /\ Last(c) \in Routines
         /\ c = Append(Front(c), Last(c))
<1> DEFINE f == Front(c)
           r == Last(c)
           d == Append(f, r)
<1>1. Len(c) \in Nat /\ Len(c) > 0
  OBVIOUS
<1>2. f \in Seq(Routines) /\ Len(f) = Len(c) - 1 /\ \A i \in 1..(Len(c) - 1) : f[i] = c[i]
  BY <1>1, FrontFacts
<1>3. r = c[Len(c)] /\ r \in Routines
  BY <1>1 DEF Last
<1> HIDE DEF f, r
<1>4. /\ d \in Seq(Routines) /\ Len(d) = Len(c) /\ d[Len(c)] = r
      /\ \A i \in 1..(Len(c) - 1) : d[i] = f[i]
  BY <1>1, <1>2, <1>3
<1> HIDE DEF d
<1>5. \A i \in 1..Len(c) : i \in 1..(Len(c) - 1) \/ i = Len(c)
  BY <1>1
<1>6. \A i \in 1..Len(c) : d[i] = c[i]
  BY <1>2, <1>3, <1>4, <1>5
<1>7. c = d
  <2>1. c = [i \in 1..Len(c) |-> c[i]] /\ d = [i \in 1..Len(c) |-> d[i]]
    BY <1>4, SeqIsSegment
  <2> QED BY <1>6, <2>1, Zenon
<1> QED BY <1>2, <1>3, <1>7 DEF d, f, r

\* t comes behind s, with the contexts in o open; and no tag is gone either.
Lands(s, t, o) == t \in ParserStates /\ s.pos =< t.pos /\ t.open = o
Comes(s, t, o) == Lands(s, t, o) /\ Len(s.tags) =< Len(t.tags)

\* A step from s and c to t and d: it keeps the invariant, and it progresses.
Advances(s, c, t, d) ==
  /\ Fits(t, d)
  /\ s.pos < t.pos \/ (s.pos = t.pos /\ WorkOf(d) < WorkOf(c))

\* The routines opened contexts.
LEMMA OpensType ==
  ASSUME NEW c \in Seq(Routines)
  PROVE  Opens(c) \in Seq(Contexts)
<1> DEFINE rows == [i \in DOMAIN c |-> ContextsOf(c[i].kind)]
<1>1. /\ DOMAIN c = 1..Len(c) /\ Len(c) \in Nat /\ \A i \in 1..Len(c) : c[i] \in Routines
  OBVIOUS
<1>2. \A i \in 1..Len(c) : ContextsOf(c[i].kind) \in Seq(Contexts)
  BY <1>1, ContextsFacts DEF Routines
<1>3. rows \in Seq(Seq(Contexts)) /\ Len(rows) = Len(c)
  BY <1>1, <1>2
<1>4. Opens(c) = FlattenSeq(rows)
  BY DEF Opens
<1> HIDE DEF rows
<1>5. Len(rows) = 0 => FlattenSeq(rows) = <<>>
  BY DEF FlattenSeq
<1>6. Len(rows) # 0 => FlattenSeq(rows) \in Seq(Contexts)
  BY <1>3, FlattenFacts
<1>7. <<>> \in Seq(Contexts)
  OBVIOUS
<1> QED BY <1>4, <1>5, <1>6, <1>7

\* What goes on comes, and what comes goes on.
LEMMA ComesFacts ==
  ASSUME Text, NEW s \in ParserStates, NEW t
  PROVE  /\ Goes(s, t) <=> Comes(s, t, s.open)
         /\ \A o : Comes(s, t, o) => Lands(s, t, o) /\ t \in ParserStates
         /\ \A o, u : Comes(s, t, o) /\ Goes(t, u) => Comes(s, u, o)
         /\ \A o, u : Lands(s, t, o) /\ Goes(t, u) => Lands(s, u, o)
         /\ \A u : Goes(s, t) /\ Comes(t, u, t.open) => Comes(s, u, s.open)
<1>1. Goes(s, t) <=> Comes(s, t, s.open)
  BY DEF Goes, Comes, Lands
<1>2. \A o : Comes(s, t, o) => Lands(s, t, o) /\ t \in ParserStates
  BY DEF Comes, Lands
<1>3. ASSUME NEW o, NEW u, Lands(s, t, o), Goes(t, u)
      PROVE  Lands(s, u, o) /\ (Comes(s, t, o) => Comes(s, u, o))
  <2>1. /\ s.pos \in Nat /\ Len(s.tags) \in Nat
    BY StateFacts
  <2>2. t \in ParserStates /\ u \in ParserStates
    BY <1>3 DEF Lands, Goes
  <2>3. t.pos \in Nat /\ Len(t.tags) \in Nat /\ u.pos \in Nat /\ Len(u.tags) \in Nat
    BY <2>2, StateFacts
  <2> QED BY <1>3, <2>1, <2>2, <2>3 DEF Comes, Lands, Goes
<1>4. ASSUME NEW u, Goes(s, t), Comes(t, u, t.open) PROVE Comes(s, u, s.open)
  <2>1. Goes(t, u) /\ t \in ParserStates /\ u \in ParserStates
    BY <1>4 DEF Goes, Comes, Lands
  <2>2. Goes(s, u)
    BY <1>4, <2>1, GoesGoes
  <2> QED BY <2>2 DEF Goes, Comes, Lands
<1> QED BY <1>1, <1>2, <1>3, <1>4 DEF Comes

\* A context is begun.
LEMMA BeginComes ==
  ASSUME Text, NEW s \in ParserStates, NEW o \in Seq(Contexts), NEW t, Comes(s, t, o),
         NEW context \in Contexts
  PROVE  /\ Comes(s, begin(t, context), o \o <<context>>) /\ begin(t, context).pos = t.pos
         /\ o \o <<context>> \in Seq(Contexts)
<1> DEFINE u == begin(t, context)
<1>1. t \in ParserStates /\ t.open = o /\ s.pos =< t.pos /\ Len(s.tags) =< Len(t.tags)
  BY DEF Comes, Lands
<1>2. Append(o, context) = o \o <<context>> /\ Append(o, context) \in Seq(Contexts)
  OBVIOUS
<1>3. u = [t EXCEPT !.open = Append(o, context)]
  BY <1>1 DEF begin
<1> HIDE DEF u
<1>4. /\ u \in ParserStates /\ u.pos = t.pos /\ u.tags = t.tags /\ u.open = Append(o, context)
  BY <1>1, <1>2, <1>3 DEF ParserStates
<1>5. Comes(s, u, o \o <<context>>) /\ u.pos = t.pos
  BY <1>1, <1>2, <1>4 DEF Comes, Lands
<1> QED BY <1>2, <1>5 DEF u

\* The innermost context is ended.
LEMMA EndComes ==
  ASSUME Text, NEW s \in ParserStates, NEW o \in Seq(Contexts), NEW context \in Contexts,
         NEW t, Comes(s, t, o \o <<context>>)
  PROVE  Comes(s, end(t, context), o) /\ end(t, context).pos = t.pos
<1> DEFINE u == end(t, context)
           p == o \o <<context>>
<1>1. t \in ParserStates /\ t.open = p /\ s.pos =< t.pos /\ Len(s.tags) =< Len(t.tags)
  BY DEF Comes, Lands
<1>2. /\ p \in Seq(Contexts) /\ Len(p) = Len(o) + 1 /\ Len(o) \in Nat /\ p[Len(p)] = context
      /\ \A i \in 1..Len(o) : p[i] = o[i]
  OBVIOUS
<1> HIDE DEF p
<1>3. p # <<>> /\ Last(p) = context
  BY <1>2 DEF Last
<1>4. Front(p) = o
  <2> DEFINE f == Front(p)
  <2>1. f \in Seq(Contexts) /\ Len(f) = Len(o) /\ \A i \in 1..Len(o) : f[i] = p[i]
    BY <1>2, FrontFacts
  <2> HIDE DEF f
  <2>2. f = [i \in 1..Len(o) |-> f[i]] /\ o = [i \in 1..Len(o) |-> o[i]]
    BY <2>1, SeqIsSegment
  <2>3. \A i \in 1..Len(o) : f[i] = o[i]
    BY <1>2, <2>1
  <2>4. f = o
    BY <2>2, <2>3, Zenon
  <2> QED BY <2>4 DEF f
<1>5. u = [t EXCEPT !.open = o]
  BY <1>1, <1>3, <1>4 DEF end
<1> HIDE DEF u
<1>6. u \in ParserStates /\ u.pos = t.pos /\ u.tags = t.tags /\ u.open = o
  BY <1>1, <1>5 DEF ParserStates
<1>7. Comes(s, u, o) /\ u.pos = t.pos
  BY <1>1, <1>6 DEF Comes, Lands
<1> QED BY <1>7 DEF u

\* The routine on top is over.
LEMMA PopAdvances ==
  ASSUME Text, NEW s \in ParserStates, NEW f \in Seq(Routines), NEW r \in Routines,
         Fits(s, Append(f, r)), NEW t, Lands(s, t, Opens(f)),
         Len(f) =< 2 \/ Len(s.tags) =< Len(t.tags)
  PROVE  Advances(s, Append(f, r), t, f)
<1>1. /\ Shaped(f) /\ Placed(Len(f) + 1, r.kind) /\ Len(f) \in Nat
      /\ Len(f) + 1 > 2 => Len(s.tags) > 0
  BY FitsAppend
<1>2. t \in ParserStates /\ t.open = Opens(f) /\ s.pos =< t.pos
  BY DEF Lands
<1>3. s.pos \in Nat /\ t.pos \in Nat /\ Len(s.tags) \in Nat /\ Len(t.tags) \in Nat
  BY <1>2, StateFacts
<1>4. Len(f) > 2 => Len(t.tags) > 0
  BY <1>1, <1>3
<1>5. Fits(t, f)
  BY <1>1, <1>2, <1>4 DEF Fits
<1>6. WorkOf(Append(f, r)) = WorkOf(f) + Load(r) /\ WorkOf(f) \in Nat
  BY WorkFacts
<1>7. Load(r) \in Nat /\ Load(r) > 0
  BY LoadFacts
<1>8. WorkOf(f) < WorkOf(Append(f, r))
  BY <1>6, <1>7
<1> QED BY <1>2, <1>3, <1>5, <1>8 DEF Advances

\* It goes on as another.
LEMMA ReplaceAdvances ==
  ASSUME Text, NEW s \in ParserStates, NEW f \in Seq(Routines), NEW r \in Routines,
         Fits(s, Append(f, r)), NEW q \in Routines, Placed(Len(f) + 1, q.kind),
         NEW t, Comes(s, t, Opens(f) \o ContextsOf(q.kind)),
         s.pos < t.pos \/ Load(q) < Load(r)
  PROVE  Advances(s, Append(f, r), t, Append(f, q))
<1>1. /\ Shaped(f) /\ Len(f) \in Nat
      /\ Len(f) + 1 > 2 => Len(s.tags) > 0
  BY FitsAppend
<1>2. /\ t \in ParserStates /\ t.open = Opens(f) \o ContextsOf(q.kind) /\ s.pos =< t.pos
      /\ Len(s.tags) =< Len(t.tags)
  BY DEF Lands, Comes
<1>3. s.pos \in Nat /\ t.pos \in Nat /\ Len(s.tags) \in Nat /\ Len(t.tags) \in Nat
  BY <1>2, StateFacts
<1>4. Len(f) + 1 > 2 => Len(t.tags) > 0
  BY <1>1, <1>2, <1>3
<1>5. Fits(t, Append(f, q))
  BY <1>1, <1>2, <1>4, FitsAppend
<1>6. /\ WorkOf(Append(f, r)) = WorkOf(f) + Load(r) /\ WorkOf(f) \in Nat
      /\ WorkOf(Append(f, q)) = WorkOf(f) + Load(q)
  BY WorkFacts
<1>7. Load(r) \in Nat /\ Load(q) \in Nat
  BY LoadFacts
<1>8. Load(q) < Load(r) => WorkOf(Append(f, q)) < WorkOf(Append(f, r))
  BY <1>6, <1>7
<1> QED BY <1>2, <1>3, <1>5, <1>8 DEF Advances

\* It calls another: q is what remains of it.
LEMMA CallAdvances ==
  ASSUME Text, NEW s \in ParserStates, NEW f \in Seq(Routines), NEW r \in Routines,
         Fits(s, Append(f, r)), NEW q \in Routines, Placed(Len(f) + 1, q.kind),
         NEW p \in Routines, Placed(Len(f) + 2, p.kind),
         NEW t, Comes(s, t, (Opens(f) \o ContextsOf(q.kind)) \o ContextsOf(p.kind)),
         s.pos < t.pos, Len(s.tags) > 0 \/ Len(f) = 0 \/ Len(t.tags) > 0
  PROVE  Advances(s, Append(f, r), t, Append(Append(f, q), p))
<1> DEFINE d == Append(f, q)
<1>1. /\ Shaped(f) /\ Len(f) \in Nat
      /\ Len(f) + 1 > 2 => Len(s.tags) > 0
  BY FitsAppend
<1>2. /\ t \in ParserStates /\ s.pos =< t.pos /\ Len(s.tags) =< Len(t.tags)
      /\ t.open = (Opens(f) \o ContextsOf(q.kind)) \o ContextsOf(p.kind)
  BY DEF Lands, Comes
<1>3. s.pos \in Nat /\ t.pos \in Nat /\ Len(s.tags) \in Nat /\ Len(t.tags) \in Nat
  BY <1>2, StateFacts
<1>4. d \in Seq(Routines) /\ Len(d) = Len(f) + 1
  OBVIOUS
<1>5. Opens(d) = Opens(f) \o ContextsOf(q.kind)
  BY OpensFacts
<1>6. Shaped(d)
  BY <1>1, ShapedAppend
<1> HIDE DEF d
<1>7. Len(d) + 1 > 2 => Len(t.tags) > 0
  BY <1>1, <1>2, <1>3, <1>4
<1>8. Placed(Len(d) + 1, p.kind)
  <2>1. Len(d) + 1 = Len(f) + 2
    BY <1>1, <1>4
  <2> QED BY <2>1
<1>9. Fits(t, Append(d, p))
  BY <1>2, <1>4, <1>5, <1>6, <1>7, <1>8, FitsAppend
<1> QED BY <1>9 DEF Advances, d

-----------------------------------------------------------------------------
(* What a step of the parser can do to the routines under way.                 *)

Forward == UNCHANGED input /\ Advances(st, ctl, st', ctl')

\* The routine on top, and those below it.
LEMMA Situation ==
  ASSUME IInv, ctl # <<>>
  PROVE  /\ Text /\ st \in ParserStates /\ st.pos \in Nat
         /\ Front(ctl) \in Seq(Routines) /\ Len(Front(ctl)) \in Nat
         /\ Top \in Routines /\ ctl = Append(Front(ctl), Top) /\ Fits(st, Append(Front(ctl), Top))
         /\ Placed(Len(Front(ctl)) + 1, Top.kind)
         /\ Opens(Front(ctl)) \in Seq(Contexts)
         /\ st.open = Opens(Front(ctl)) \o ContextsOf(Top.kind)
         /\ Len(Front(ctl)) + 1 > 2 => Len(st.tags) > 0
<1> DEFINE f == Front(ctl)
<1>1. Text /\ Fits(st, ctl)
  BY DEF IInv
<1>2. st \in ParserStates /\ ctl \in Seq(Routines)
  BY <1>1 DEF Fits, Shaped
<1>3. f \in Seq(Routines) /\ Top \in Routines /\ ctl = Append(f, Top)
  BY <1>2, TopFacts DEF Top
<1> HIDE DEF f
<1>4. Len(f) \in Nat
  BY <1>3
<1>5. Fits(st, Append(f, Top))
  BY <1>1, <1>3
<1>6. /\ Placed(Len(f) + 1, Top.kind) /\ st.open = Opens(f) \o ContextsOf(Top.kind)
      /\ Len(f) + 1 > 2 => Len(st.tags) > 0
  BY <1>3, <1>5, FitsAppend
<1>7. Opens(f) \in Seq(Contexts)
  BY <1>3, OpensType
<1>8. st.pos \in Nat
  BY <1>1, <1>2, StateFacts
<1> QED BY <1>1, <1>2, <1>3, <1>4, <1>5, <1>6, <1>7, <1>8 DEF f

\* A step that leads forward.
LEMMA StepForward ==
  ASSUME NEW t, NEW d, Step(t, d), Advances(st, ctl, t, d)
  PROVE  Forward
BY DEF Step, Forward

\* The routine on top is over.
LEMMA PopForward ==
  ASSUME IInv, ctl # <<>>, NEW t, Step(t, Front(ctl)), Lands(st, t, Opens(Front(ctl))),
         Len(Front(ctl)) =< 2 \/ Len(st.tags) =< Len(t.tags)
  PROVE  Forward
<1> DEFINE f == Front(ctl)
<1>1. /\ Text /\ st \in ParserStates /\ f \in Seq(Routines) /\ Top \in Routines
      /\ ctl = Append(f, Top) /\ Fits(st, Append(f, Top))
  BY Situation
<1>2. Step(t, f) /\ Lands(st, t, Opens(f)) /\ (Len(f) =< 2 \/ Len(st.tags) =< Len(t.tags))
  OBVIOUS
<1> HIDE DEF f
<1>3. Advances(st, Append(f, Top), t, f)
  BY <1>1, <1>2, PopAdvances
<1> QED BY <1>1, <1>2, <1>3, StepForward

\* A statement inside a statement is over.
LEMMA ReturnForward ==
  ASSUME IInv, ctl # <<>>, NEW t, Return(t), Comes(st, t, Opens(Front(ctl)))
  PROVE  Forward
<1> DEFINE u == parseSemi(t)
<1>1. Text /\ st \in ParserStates
  BY Situation
<1>2. t \in ParserStates
  BY DEF Comes, Lands
<1>3. Goes(t, t)
  BY <1>1, <1>2, StandsFacts, GoesOn
<1>4. Goes(t, u)
  BY <1>1, <1>2, <1>3, parseSemiGoes
<1>5. Step(u, Front(ctl))
  BY DEF Return
<1> HIDE DEF u
<1>6. Comes(st, u, Opens(Front(ctl)))
  BY <1>1, <1>4, ComesFacts
<1>7. Lands(st, u, Opens(Front(ctl))) /\ Len(st.tags) =< Len(u.tags)
  BY <1>6 DEF Comes
<1> QED BY <1>5, <1>7, PopForward

\* The routine on top goes on as another.
LEMMA ReplaceForward ==
  ASSUME IInv, ctl # <<>>, NEW q \in Routines, Placed(Len(Front(ctl)) + 1, q.kind),
         NEW t, Step(t, Replaced(q)), Comes(st, t, Opens(Front(ctl)) \o ContextsOf(q.kind)),
         st.pos < t.pos \/ Load(q) < Load(Top)
  PROVE  Forward
<1> DEFINE f == Front(ctl)
<1>1. /\ Text /\ st \in ParserStates /\ f \in Seq(Routines) /\ Top \in Routines
      /\ ctl = Append(f, Top) /\ Fits(st, Append(f, Top))
  BY Situation
<1>2. /\ Placed(Len(f) + 1, q.kind) /\ Comes(st, t, Opens(f) \o ContextsOf(q.kind))
      /\ Step(t, Append(f, q))
  BY DEF Replaced
<1> HIDE DEF f
<1>3. Advances(st, Append(f, Top), t, Append(f, q))
  BY <1>1, <1>2, ReplaceAdvances
<1> QED BY <1>1, <1>2, <1>3, StepForward

\* Its next part.
LEMMA ProceedForward ==
  ASSUME IInv, ctl # <<>>, NEW kind \in Kinds, Placed(Len(Front(ctl)) + 1, kind),
         NEW t, Step(t, Proceed(kind)), Comes(st, t, Opens(Front(ctl)) \o ContextsOf(kind)),
         st.pos < t.pos \/ Weight(kind) < Weight(Top.kind)
  PROVE  Forward
<1> DEFINE q == [Top EXCEPT !.kind = kind, !.first = FALSE]
<1>1. Top \in Routines
  BY Situation
<1>2. q \in Routines /\ q.kind = kind /\ ~q.first
  BY <1>1 DEF Routines
<1>3. Step(t, Replaced(q))
  BY DEF Proceed
<1> HIDE DEF q
<1>4. Weight(kind) < Weight(Top.kind) => Load(q) < Load(Top)
  <2>1. Load(q) = Weight(kind)
    BY <1>2, LoadFacts
  <2>2. Weight(Top.kind) =< Load(Top) /\ Load(Top) \in Nat
    BY <1>1, LoadFacts
  <2>3. Weight(Top.kind) \in Nat /\ Weight(kind) \in Nat
    BY <1>1, WeightFacts DEF Routines
  <2> QED BY <2>1, <2>2, <2>3
<1> QED BY <1>2, <1>3, <1>4, ReplaceForward

\* What remains of a routine that is no longer in its first iteration.
LEMMA AgainFacts ==
  ASSUME IInv, ctl # <<>>
  PROVE  \E q \in Routines :
           /\ Again = Replaced(q) /\ q.kind = Top.kind /\ ~q.first
           /\ Top.first => Load(q) < Load(Top)
<1> DEFINE q == [Top EXCEPT !.first = FALSE]
<1>1. Top \in Routines
  BY Situation
<1>2. q \in Routines /\ q.kind = Top.kind /\ ~q.first
  BY <1>1 DEF Routines
<1>3. Again = Replaced(q)
  BY DEF Again
<1> HIDE DEF q
<1>4. Top.first => Load(q) < Load(Top)
  <2>1. Load(q) = Weight(Top.kind)
    BY <1>2, LoadFacts
  <2>2. Top.first => Load(Top) = Weight(Top.kind) + 1
    BY <1>1, LoadFacts
  <2>3. Weight(Top.kind) \in Nat
    BY <1>1, WeightFacts DEF Routines
  <2> QED BY <2>1, <2>2, <2>3
<1> QED BY <1>2, <1>3, <1>4

\* Another iteration.
LEMMA AgainForward ==
  ASSUME IInv, ctl # <<>>, NEW t, Step(t, Again), Goes(st, t), Moves(st, t) \/ Top.first
  PROVE  Forward
<1>1. PICK q \in Routines : /\ Again = Replaced(q) /\ q.kind = Top.kind
                            /\ Top.first => Load(q) < Load(Top)
  BY AgainFacts
<1>2. /\ Text /\ st \in ParserStates /\ Placed(Len(Front(ctl)) + 1, Top.kind)
      /\ st.open = Opens(Front(ctl)) \o ContextsOf(Top.kind)
  BY Situation
<1>3. Comes(st, t, st.open)
  BY <1>2, ComesFacts
<1>4. Comes(st, t, Opens(Front(ctl)) \o ContextsOf(q.kind))
  BY <1>1, <1>2, <1>3
<1>5. Placed(Len(Front(ctl)) + 1, q.kind) /\ Step(t, Replaced(q))
  BY <1>1, <1>2
<1>6. st.pos < t.pos \/ Load(q) < Load(Top)
  BY <1>1 DEF Moves
<1> QED BY <1>4, <1>5, <1>6, ReplaceForward

\* Another iteration of a routine that has no first one.
LEMMA StayForward ==
  ASSUME IInv, ctl # <<>>, NEW t, Step(t, ctl), Moves(st, t)
  PROVE  Forward
<1>1. /\ Text /\ st \in ParserStates /\ Placed(Len(Front(ctl)) + 1, Top.kind)
      /\ st.open = Opens(Front(ctl)) \o ContextsOf(Top.kind)
      /\ Top \in Routines /\ ctl = Append(Front(ctl), Top)
  BY Situation
<1>2. Goes(st, t) /\ st.pos < t.pos
  BY DEF Moves
<1>3. Comes(st, t, st.open)
  BY <1>1, <1>2, ComesFacts
<1>4. Comes(st, t, Opens(Front(ctl)) \o ContextsOf(Top.kind))
  BY <1>1, <1>3
<1>5. Step(t, Replaced(Top))
  BY <1>1 DEF Replaced
<1> QED BY <1>1, <1>2, <1>4, <1>5, ReplaceForward

\* A statement begins inside a sequence of statements.
LEMMA CallForward ==
  ASSUME IInv, ctl # <<>>, Len(Front(ctl)) + 1 > 2,
         NEW p \in Routines, Placed(Len(Front(ctl)) + 2, p.kind),
         NEW t, Step(t, Call(p)), Comes(st, t, st.open \o ContextsOf(p.kind)), st.pos < t.pos
  PROVE  Forward
<1> DEFINE f == Front(ctl)
<1>1. /\ Text /\ st \in ParserStates /\ f \in Seq(Routines) /\ Top \in Routines
      /\ ctl = Append(f, Top) /\ Fits(st, Append(f, Top)) /\ Placed(Len(f) + 1, Top.kind)
      /\ st.open = Opens(f) \o ContextsOf(Top.kind) /\ Len(st.tags) > 0
  BY Situation
<1>2. PICK q \in Routines : Again = Replaced(q) /\ q.kind = Top.kind
  BY AgainFacts
<1>3. Step(t, Append(Append(f, q), p)) /\ Placed(Len(f) + 2, p.kind)
  BY <1>2 DEF Call, Replaced
<1> HIDE DEF f
<1>4. Comes(st, t, (Opens(f) \o ContextsOf(q.kind)) \o ContextsOf(p.kind))
  BY <1>1, <1>2
<1>5. Placed(Len(f) + 1, q.kind)
  BY <1>1, <1>2
<1>6. Advances(st, Append(f, Top), t, Append(Append(f, q), p))
  BY <1>1, <1>3, <1>4, <1>5, CallAdvances
<1> QED BY <1>1, <1>3, <1>6, StepForward

\* A package begins, or a subroutine body in one.
LEMMA PushForward ==
  ASSUME IInv, ctl # <<>>, NEW p \in Routines, Placed(Len(Front(ctl)) + 2, p.kind),
         NEW t, Step(t, Append(ctl, p)), Comes(st, t, st.open \o ContextsOf(p.kind)),
         st.pos < t.pos, Len(Front(ctl)) = 0 \/ Len(t.tags) > 0
  PROVE  Forward
<1> DEFINE f == Front(ctl)
<1>1. /\ Text /\ st \in ParserStates /\ f \in Seq(Routines) /\ Top \in Routines
      /\ ctl = Append(f, Top) /\ Fits(st, Append(f, Top)) /\ Placed(Len(f) + 1, Top.kind)
      /\ st.open = Opens(f) \o ContextsOf(Top.kind)
  BY Situation
<1>2. Placed(Len(f) + 2, p.kind) /\ (Len(f) = 0 \/ Len(t.tags) > 0)
  OBVIOUS
<1> HIDE DEF f
<1>3. Step(t, Append(Append(f, Top), p))
  BY <1>1
<1>4. Comes(st, t, (Opens(f) \o ContextsOf(Top.kind)) \o ContextsOf(p.kind))
  BY <1>1
<1>5. Advances(st, Append(f, Top), t, Append(Append(f, Top), p))
  BY <1>1, <1>2, <1>3, <1>4, CallAdvances
<1> QED BY <1>1, <1>3, <1>5, StepForward

-----------------------------------------------------------------------------
(* Statements.                                                                 *)

\* What is known where a statement is parsed.
LEMMA ParsingFacts ==
  ASSUME IInv, Parsing
  PROVE  /\ ctl # <<>> /\ Top.kind \in StatementParts
         /\ Len(Front(ctl)) + 1 > 2 /\ Len(Front(ctl)) + 2 \in Nat \ {0, 1, 2, 3}
         /\ Code(st.pos) # EOT \/ Top.first
<1>1. ctl # <<>> /\ Top.kind \in StatementParts /\ (Top.first \/ ~At(st, Terminators(Top.kind)))
  BY DEF Parsing, Running
<1> DEFINE n == Len(Front(ctl))
<1>2. n \in Nat /\ Placed(n + 1, Top.kind)
  BY <1>1, Situation
<1> HIDE DEF n
<1>3. Top.kind \in Definitions \/ Top.kind \in {"block", "handler", "if", "else", "loop"}
  BY <1>1 DEF StatementParts, Definitions
<1>4. n + 1 = 3 \/ n + 1 \in Nat \ {0, 1, 2, 3}
  <2>1. n + 1 \in Nat \ {0}
    BY <1>2
  <2> QED BY <1>2, <1>3, <2>1, PlaceFacts
<1>5. n + 1 > 2 /\ n + 2 \in Nat \ {0, 1, 2, 3}
  BY <1>2, <1>4
<1>6. EOT \in Terminators(Top.kind)
  BY DEF Terminators
<1>7. Code(st.pos) # EOT \/ Top.first
  BY <1>1, <1>6 DEF At
<1> QED BY <1>1, <1>5, <1>7 DEF n

\* A new routine.
LEMMA RoutineFacts ==
  ASSUME NEW kind \in Kinds, NEW tag \in Ident \cup {NoTag}, NEW first \in BOOLEAN
  PROVE  /\ Routine(kind, tag, first) \in Routines /\ Routine(kind, tag, first).kind = kind
         /\ \A b \in BOOLEAN :
              /\ [Routine(kind, tag, first) EXCEPT !.others = b] \in Routines
              /\ [Routine(kind, tag, first) EXCEPT !.others = b].kind = kind
BY DEF Routine, Routines

\* A simple statement: it moves on, unless at the end of the file.
LEMMA parseStatementForward == ASSUME IInv, parseStatement PROVE Forward
<1> DEFINE t == parseSimpleStatement(st)
           u == parseSemi(t)
<1>1. Parsing /\ Step(u, Again)
  BY DEF parseStatement
<1>2. ctl # <<>> /\ (Code(st.pos) # EOT \/ Top.first)
  BY <1>1, ParsingFacts
<1>3. Text /\ st \in ParserStates
  BY <1>2, Situation
<1>4. Goes(st, t)
  BY <1>3, parseSimpleStatementGoes
<1> HIDE DEF t
<1>5. Goes(st, u) /\ (Code(st.pos) # EOT => Moves(st, u))
  BY <1>3, <1>4, parseSemiGoes
<1> HIDE DEF u
<1> QED BY <1>1, <1>2, <1>5, AgainForward

\* An if statement, or what is left of it.
LEMMA beginIfStmtForward == ASSUME IInv, beginIfStmt PROVE Forward
<1> DEFINE t == Phrase(st, <<"if", "EXPR", "then">>)
           u == parseSemi(seekEndIf(t))
           p == Routine("if", NoTag, TRUE)
<1>1. /\ Parsing /\ Code(st.pos) = "if"
      /\ \/ t.ok /\ Step(t, Call(p))
         \/ ~t.ok /\ Step(u, Again)
  BY AtFacts DEF beginIfStmt
<1>2. /\ ctl # <<>> /\ Len(Front(ctl)) + 1 > 2 /\ Len(Front(ctl)) + 2 \in Nat \ {0, 1, 2, 3}
  BY <1>1, ParsingFacts
<1>3. Text /\ st \in ParserStates
  BY <1>2, Situation
<1>4. Moves(st, t)
  <2>1. <<"if", "EXPR", "then">>[1] = "if"
    OBVIOUS
  <2>2. "if" \notin {"IDENTIFIER", "NAME", "EXPR"}
    OBVIOUS
  <2> QED BY <1>1, <1>3, <2>1, <2>2, GrammarItems, PhraseGoes
<1>5. p \in Routines /\ p.kind = "if"
  BY RoutineFacts, KindFacts
<1> HIDE DEF t, p
<1>6. Goes(st, t) /\ st.pos < t.pos /\ t \in ParserStates
  BY <1>4 DEF Moves, Goes
<1>7. CASE t.ok /\ Step(t, Call(p))
  <2>1. ContextsOf(p.kind) = <<>> /\ st.open \in Seq(Contexts)
    BY <1>3, <1>5, ContextsFacts, StateFacts
  <2>2. st.open \o <<>> = st.open
    BY <2>1
  <2>3. Comes(st, t, st.open)
    BY <1>3, <1>6, ComesFacts
  <2>4. Comes(st, t, st.open \o ContextsOf(p.kind))
    BY <2>1, <2>2, <2>3
  <2>5. Placed(Len(Front(ctl)) + 2, p.kind)
    BY <1>2, <1>5, KindFacts
  <2> QED BY <1>2, <1>5, <1>6, <1>7, <2>4, <2>5, CallForward
<1>8. CASE ~t.ok /\ Step(u, Again)
  <2> DEFINE v == seekEndIf(t)
  <2>1. Goes(t, v)
    BY <1>3, <1>6, seekEndIfGoes
  <2> HIDE DEF v
  <2>2. Goes(st, v)
    BY <1>3, <1>6, <2>1, GoesGoes
  <2>3. Goes(st, parseSemi(v)) /\ Moves(st, parseSemi(v))
    <3>1. Code(st.pos) # EOT
      BY <1>1 DEF EOT
    <3> QED BY <1>3, <2>2, <3>1, parseSemiGoes
  <2>4. Step(parseSemi(v), Again)
    BY <1>8 DEF v
  <2> QED BY <1>2, <2>3, <2>4, AgainForward
<1> QED BY <1>1, <1>7, <1>8

\* Nothing is appended.
LEMMA NothingMore ==
  ASSUME NEW S, NEW s \in Seq(S)
  PROVE  s \o <<>> = s
OBVIOUS

\* Two are one and another.
LEMMA PairIsTwo ==
  ASSUME NEW S, NEW a \in S, NEW b \in S
  PROVE  <<a, b>> = <<a>> \o <<b>>
<1> DEFINE c == <<a>> \o <<b>>
           d == <<a, b>>
<1>1. c \in Seq(S) /\ Len(c) = 2 /\ c[1] = a /\ c[2] = b
  OBVIOUS
<1>2. d \in Seq(S) /\ Len(d) = 2 /\ d[1] = a /\ d[2] = b
  OBVIOUS
<1> HIDE DEF c, d
<1>3. c = [i \in 1..2 |-> c[i]] /\ d = [i \in 1..2 |-> d[i]]
  BY <1>1, <1>2, SeqIsSegment
<1>4. \A i \in 1..2 : c[i] = d[i]
  <2>1. \A i \in 1..2 : i = 1 \/ i = 2
    OBVIOUS
  <2> QED BY <1>1, <1>2, <2>1
<1>5. c = d
  BY <1>3, <1>4, Zenon
<1> QED BY <1>5 DEF c, d

\* A part of an if statement without contexts of its own.
LEMMA PartFacts ==
  ASSUME IInv, ctl # <<>>, Top.kind \in {"if", "else", "block end", "exception"}
  PROVE  /\ st.open = Opens(Front(ctl)) /\ Len(Front(ctl)) + 1 \in Nat \ {0, 1, 2, 3}
         /\ \A t : Goes(st, t) => Comes(st, t, Opens(Front(ctl)))
         /\ \A kind \in {"if", "else", "block end", "exception", "handler"} :
              Placed(Len(Front(ctl)) + 1, kind)
         /\ Opens(Front(ctl)) \o <<>> = Opens(Front(ctl))
<1> DEFINE n == Len(Front(ctl))
           o == Opens(Front(ctl))
<1>1. /\ Text /\ st \in ParserStates /\ n \in Nat /\ Placed(n + 1, Top.kind)
      /\ o \in Seq(Contexts) /\ st.open = o \o ContextsOf(Top.kind)
  BY Situation
<1> HIDE DEF n, o
<1>2. ContextsOf(Top.kind) = <<>>
  BY ContextsFacts
<1>3. st.open = o /\ o \o <<>> = o
  <2>1. o \o <<>> = o
    BY <1>1, NothingMore
  <2> QED BY <1>1, <1>2, <2>1
<1>4. n + 1 \in Nat \ {0, 1, 2, 3}
  BY <1>1, PlacedAbove, Zenon
<1>5. ASSUME NEW t, Goes(st, t) PROVE Comes(st, t, o)
  <2>1. Comes(st, t, st.open)
    BY <1>1, <1>5, ComesFacts
  <2> QED BY <1>3, <2>1
<1>6. \A kind \in {"if", "else", "block end", "exception", "handler"} : Placed(n + 1, kind)
  BY <1>4, KindFacts
<1> QED BY <1>3, <1>4, <1>5, <1>6 DEF n, o

\* The next part of an if statement, where a token has been read.
LEMMA NextPart ==
  ASSUME IInv, ctl # <<>>, Top.kind \in {"if", "else"}, NEW kind \in {"if", "else"},
         NEW t, Moves(st, t), Step(t, Replaced(Routine(kind, NoTag, TRUE)))
  PROVE  Forward
<1> DEFINE q == Routine(kind, NoTag, TRUE)
<1>1. kind \in Kinds /\ NoTag \in Ident \cup {NoTag}
  BY KindFacts
<1>2. q \in Routines /\ q.kind = kind
  BY <1>1, RoutineFacts
<1>3. Step(t, Replaced(q))
  OBVIOUS
<1> HIDE DEF q
<1>4. Goes(st, t) /\ st.pos < t.pos
  BY DEF Moves
<1>5. Comes(st, t, Opens(Front(ctl))) /\ Placed(Len(Front(ctl)) + 1, q.kind)
  BY <1>2, <1>4, PartFacts
<1>6. ContextsOf(q.kind) = <<>>
  BY <1>2, ContextsFacts
<1>7. Comes(st, t, Opens(Front(ctl)) \o ContextsOf(q.kind))
  <2>1. Opens(Front(ctl)) \o <<>> = Opens(Front(ctl))
    BY PartFacts
  <2> QED BY <1>5, <1>6, <2>1
<1> QED BY <1>2, <1>3, <1>4, <1>5, <1>7, ReplaceForward

\* The statements of an if or elsif part are over.
LEMMA endThenPartForward == ASSUME IInv, endThenPart PROVE Forward
<1>1. PICK accepted \in BOOLEAN :
        LET s == verdict(st, accepted, "if")
            t == Phrase(s, <<"elsif", "EXPR", "then">>)
        IN  CASE ~s.ok -> Return(seekEndIf(s))
              [] s.ok /\ At(s, {"elsif"}) ->
                   IF t.ok THEN Step(t, Replaced(Routine("if", NoTag, TRUE)))
                           ELSE Return(seekEndIf(t))
              [] s.ok /\ At(s, {"else"}) ->
                   Step(ignoreToken(s), Replaced(Routine("else", NoTag, TRUE)))
              [] OTHER -> Return(Phrase(s, <<"end", "if">>))
  BY Zenon DEF endThenPart
<1> DEFINE s == verdict(st, accepted, "if")
           t == Phrase(s, <<"elsif", "EXPR", "then">>)
           e == Phrase(s, <<"end", "if">>)
<1>2. \/ Return(seekEndIf(s))
      \/ t.ok /\ Step(t, Replaced(Routine("if", NoTag, TRUE)))
      \/ Return(seekEndIf(t))
      \/ Code(s.pos) = "else" /\ Step(ignoreToken(s), Replaced(Routine("else", NoTag, TRUE)))
      \/ Return(e)
  BY <1>1, AtFacts
<1>3. ctl # <<>> /\ Top.kind = "if"
  BY DEF endThenPart, Parsed, Running
<1>4. Text /\ st \in ParserStates
  BY <1>3, Situation
<1>5. Goes(st, s)
  BY <1>4, RefuseGoes DEF Refusals
<1> HIDE DEF s
<1>6. s \in ParserStates
  BY <1>5 DEF Goes
<1>7. Reads(s, t) /\ Reads(s, e)
  BY <1>4, <1>6, GrammarItems, PhraseGoes
<1> HIDE DEF t, e
<1>8. Goes(s, t) /\ Goes(s, e) /\ (t.ok => Moves(s, t))
  BY <1>7, ReadsFacts
<1>9. Goes(st, t) /\ Goes(st, e) /\ t \in ParserStates /\ (t.ok => Moves(st, t))
  BY <1>4, <1>5, <1>8, GoesGoes
<1>10. Goes(st, seekEndIf(s)) /\ Goes(st, seekEndIf(t))
  <2>1. Goes(s, seekEndIf(s)) /\ Goes(t, seekEndIf(t))
    BY <1>4, <1>6, <1>9, seekEndIfGoes
  <2> QED BY <1>4, <1>5, <1>9, <2>1, GoesGoes
<1>11. \A u : Goes(st, u) => Comes(st, u, Opens(Front(ctl)))
  BY <1>3, PartFacts
<1>12. CASE Return(seekEndIf(s))
  BY <1>3, <1>10, <1>11, <1>12, ReturnForward
<1>13. CASE t.ok /\ Step(t, Replaced(Routine("if", NoTag, TRUE)))
  BY <1>3, <1>9, <1>13, NextPart
<1>14. CASE Return(seekEndIf(t))
  BY <1>3, <1>10, <1>11, <1>14, ReturnForward
<1>15. CASE Code(s.pos) = "else" /\ Step(ignoreToken(s), Replaced(Routine("else", NoTag, TRUE)))
  <2> DEFINE u == ignoreToken(s)
  <2>1. Moves(s, u)
    BY <1>4, <1>6, <1>15, ignoreGoes DEF EOT
  <2>2. Step(u, Replaced(Routine("else", NoTag, TRUE)))
    BY <1>15
  <2> HIDE DEF u
  <2>3. Moves(st, u)
    <3>1. Goes(s, u)
      BY <2>1 DEF Moves
    <3> QED BY <1>4, <1>5, <2>1, <3>1, GoesGoes
  <2> QED BY <1>3, <2>2, <2>3, NextPart
<1>16. CASE Return(e)
  BY <1>3, <1>9, <1>11, <1>16, ReturnForward
<1> QED BY <1>2, <1>12, <1>13, <1>14, <1>15, <1>16

\* The statements of an else part are over.
LEMMA endElsePartForward == ASSUME IInv, endElsePart PROVE Forward
<1> DEFINE e == Phrase(st, <<"end", "if">>)
<1>1. ctl # <<>> /\ Top.kind = "else" /\ Return(e)
  BY DEF endElsePart, Parsed, Running
<1>2. Text /\ st \in ParserStates
  BY <1>1, Situation
<1>3. Reads(st, e)
  BY <1>2, GrammarItems, PhraseGoes
<1> HIDE DEF e
<1>4. Comes(st, e, Opens(Front(ctl)))
  BY <1>1, <1>3, ReadsFacts, PartFacts
<1> QED BY <1>1, <1>4, ReturnForward

\* Where a statement without its tag stands, one stands with it.
LEMMA UntaggedMoves ==
  ASSUME Text, NEW s \in ParserStates, Code(Untagged(s).pos) # EOT
  PROVE  Code(s.pos) # EOT
<1>1. CASE Tag(s) = NoTag
  BY <1>1 DEF Untagged
<1>2. CASE Tag(s) # NoTag
  <2>1. Code(s.pos) \in Ident
    BY <1>2 DEF Tag, taggedStmtFollows, At
  <2> QED BY <2>1, IdentFacts
<1> QED BY <1>1, <1>2

\* A loop, or what is left of it.
LEMMA beginLoopForward == ASSUME IInv, beginLoop PROVE Forward
<1> DEFINE s == Untagged(st)
           t == parseLoopHeader(s)
           b == begin(t, "loop")
           p == Routine("loop", Tag(st), TRUE)
           x == seekEndLoop(refuse(t, "loop"), NoTag)
<1>1. /\ Parsing /\ Code(s.pos) \in {"while", "for", "loop"}
      /\ \/ t.ok /\ Step(b, Call(p))
         \/ ~t.ok /\ Step(parseSemi(x), Again)
  BY AtFacts DEF beginLoop
<1>2. /\ ctl # <<>> /\ Len(Front(ctl)) + 1 > 2 /\ Len(Front(ctl)) + 2 \in Nat \ {0, 1, 2, 3}
  BY <1>1, ParsingFacts
<1>3. Text /\ st \in ParserStates /\ st.open \in Seq(Contexts)
  BY <1>2, Situation, StateFacts
<1>4. Goes(st, s) /\ Tag(st) \in Ident \cup {NoTag}
  BY <1>3, UntaggedGoes
<1>5. Code(st.pos) # EOT
  <2>1. Code(s.pos) # EOT
    BY <1>1 DEF EOT
  <2> QED BY <1>3, <2>1, UntaggedMoves
<1>6. p \in Routines /\ p.kind = "loop"
  BY <1>4, RoutineFacts, KindFacts
<1> HIDE DEF s, p
<1>7. s \in ParserStates
  BY <1>4 DEF Goes
<1>8. Goes(s, t) /\ (t.ok => Moves(s, t))
  BY <1>3, <1>7, parseLoopHeaderGoes
<1> HIDE DEF t
<1>9. Goes(st, t) /\ t \in ParserStates /\ (t.ok => Moves(st, t))
  BY <1>3, <1>4, <1>8, GoesGoes
<1>10. CASE t.ok /\ Step(b, Call(p))
  <2>1. Comes(st, t, st.open)
    BY <1>3, <1>9, ComesFacts
  <2>2. Comes(st, b, st.open \o <<"loop">>) /\ b.pos = t.pos
    <3>1. "loop" \in Contexts
      BY DEF Contexts
    <3> QED BY <1>3, <2>1, <3>1, BeginComes
  <2>3. ContextsOf(p.kind) = <<"loop">>
    BY <1>6, ContextsFacts
  <2>4. Comes(st, b, st.open \o ContextsOf(p.kind))
    BY <2>2, <2>3
  <2>5. st.pos < b.pos
    BY <1>9, <1>10, <2>2 DEF Moves
  <2>6. Placed(Len(Front(ctl)) + 2, p.kind)
    BY <1>2, <1>6, KindFacts
  <2> HIDE DEF b
  <2> QED BY <1>2, <1>6, <1>10, <2>4, <2>5, <2>6, CallForward
<1>11. CASE ~t.ok /\ Step(parseSemi(x), Again)
  <2> DEFINE r == refuse(t, "loop")
  <2>1. Goes(t, r)
    BY <1>3, <1>9, RefuseGoes DEF Refusals
  <2> HIDE DEF r
  <2>2. Goes(st, r) /\ r \in ParserStates
    BY <1>3, <1>9, <2>1, GoesGoes
  <2>3. Goes(r, x)
    <3>1. Goes(r, seekEndLoop(r, NoTag))
      BY <1>3, <2>2, seekEndLoopGoes
    <3> QED BY <3>1 DEF r
  <2> HIDE DEF x
  <2>4. Goes(st, x)
    BY <1>3, <2>2, <2>3, GoesGoes
  <2>5. Goes(st, parseSemi(x)) /\ Moves(st, parseSemi(x))
    BY <1>3, <1>5, <2>4, parseSemiGoes
  <2> QED BY <1>2, <1>11, <2>5, AgainForward
<1> QED BY <1>1, <1>10, <1>11

\* What is known where a construct with a context of its own ends.
LEMMA ContextEnds ==
  ASSUME IInv, ctl # <<>>, NEW context \in Contexts, ContextsOf(Top.kind) = <<context>>,
         NEW t, Goes(st, t)
  PROVE  Comes(st, end(t, context), Opens(Front(ctl))) /\ end(t, context).pos = t.pos
<1> DEFINE o == Opens(Front(ctl))
<1>1. /\ Text /\ st \in ParserStates /\ o \in Seq(Contexts)
      /\ st.open = o \o ContextsOf(Top.kind)
  BY Situation
<1> HIDE DEF o
<1>2. Comes(st, t, st.open)
  BY <1>1, ComesFacts
<1>3. Comes(st, t, o \o <<context>>)
  BY <1>1, <1>2
<1>4. Comes(st, end(t, context), o) /\ end(t, context).pos = t.pos
  BY <1>1, <1>3, EndComes
<1> QED BY <1>4 DEF o

\* The statements of a loop are over.
LEMMA endLoopForward == ASSUME IInv, endLoop PROVE Forward
<1> DEFINE t == parseLoopEndTag(st, Top.tag)
           x == IF t.ok THEN t ELSE seekEndLoop(t, Top.tag)
<1>1. ctl # <<>> /\ Top.kind = "loop" /\ Return(end(x, "loop"))
  BY DEF endLoop, Parsed, Running
<1>2. Text /\ st \in ParserStates
  BY <1>1, Situation
<1>3. Goes(st, t)
  BY <1>2, parseEndTagGoes, ReadsFacts
<1> HIDE DEF t
<1>4. Goes(st, x)
  <2>1. t \in ParserStates
    BY <1>3 DEF Goes
  <2>2. Goes(t, seekEndLoop(t, Top.tag))
    BY <1>2, <2>1, seekEndLoopGoes
  <2>3. Goes(st, seekEndLoop(t, Top.tag))
    BY <1>2, <1>3, <2>2, GoesGoes
  <2> QED BY <1>3, <2>3
<1> HIDE DEF x
<1>5. Comes(st, end(x, "loop"), Opens(Front(ctl)))
  <2>1. ContextsOf(Top.kind) = <<"loop">> /\ "loop" \in Contexts
    BY <1>1, ContextsFacts DEF Contexts
  <2> QED BY <1>1, <1>4, <2>1, ContextEnds
<1> QED BY <1>1, <1>5, ReturnForward

\* A block begins.
LEMMA parseBlockStmtForward == ASSUME IInv, parseBlockStmt PROVE Forward
<1> DEFINE s == Untagged(st)
           t == ignoreToken(s)
           b == begin(t, "block")
           kind == IF At(s, {"declare"}) THEN "declare" ELSE "block"
           p == Routine(kind, Tag(st), FALSE)
<1>1. Parsing /\ Code(s.pos) \in {"declare", "begin"} /\ Step(b, Call(p))
  BY AtFacts DEF parseBlockStmt
<1>2. /\ ctl # <<>> /\ Len(Front(ctl)) + 1 > 2 /\ Len(Front(ctl)) + 2 \in Nat \ {0, 1, 2, 3}
  BY <1>1, ParsingFacts
<1>3. Text /\ st \in ParserStates /\ st.open \in Seq(Contexts)
  BY <1>2, Situation, StateFacts
<1>4. Goes(st, s) /\ Tag(st) \in Ident \cup {NoTag}
  BY <1>3, UntaggedGoes
<1>5. kind \in {"declare", "block"}
  OBVIOUS
<1> HIDE DEF kind
<1>6. p \in Routines /\ p.kind = kind
  <2>1. kind \in Kinds /\ FALSE \in BOOLEAN
    BY <1>5, KindFacts
  <2> QED BY <1>4, <2>1, RoutineFacts
<1> HIDE DEF s, p
<1>7. s \in ParserStates
  BY <1>4 DEF Goes
<1>8. Moves(s, t)
  BY <1>1, <1>3, <1>7, ignoreGoes DEF EOT
<1> HIDE DEF t
<1>9. Goes(s, t)
  BY <1>8 DEF Moves
<1>10. Goes(st, t) /\ Moves(st, t) /\ t \in ParserStates
  BY <1>3, <1>4, <1>8, <1>9, GoesGoes
<1>11. Comes(st, t, st.open)
  BY <1>3, <1>10, ComesFacts
<1>12. Comes(st, b, st.open \o <<"block">>) /\ b.pos = t.pos
  <2>1. "block" \in Contexts
    BY DEF Contexts
  <2> QED BY <1>3, <1>11, <2>1, BeginComes
<1> HIDE DEF b
<1>13. ContextsOf(p.kind) = <<"block">>
  BY <1>5, <1>6, ContextsFacts
<1>14. Comes(st, b, st.open \o ContextsOf(p.kind))
  BY <1>12, <1>13
<1>15. st.pos < b.pos
  BY <1>10, <1>12 DEF Moves
<1>16. Placed(Len(Front(ctl)) + 2, p.kind)
  BY <1>2, <1>5, <1>6, KindFacts
<1> QED BY <1>1, <1>2, <1>6, <1>14, <1>15, <1>16, CallForward

\* Where a routine stands that is not one of a package or a subroutine body.
LEMMA InnerPlaces ==
  ASSUME IInv, ctl # <<>>,
         Top.kind \in {"declare", "block end", "exception", "block", "handler", "if", "else", "loop"},
         NEW kind \in {"declare", "block end", "exception", "block", "handler"}
  PROVE  Placed(Len(Front(ctl)) + 1, kind)
<1> DEFINE n == Len(Front(ctl))
<1>1. n \in Nat /\ Placed(n + 1, Top.kind)
  BY Situation
<1> HIDE DEF n
<1>2. n + 1 \in Nat \ {0, 1, 2, 3}
  BY <1>1, PlacedAbove, Zenon
<1>3. Placed(n + 1, kind)
  BY <1>2, KindFacts
<1> QED BY <1>3 DEF n

\* The declarative part of a block is over.
LEMMA endDeclarePartForward == ASSUME IInv, endDeclarePart PROVE Forward
<1> DEFINE t == requireToken(st, "begin")
           e == end(t, "block")
           x == seekAndConsumeEndTag(e, Top.tag)
<1>1. /\ ctl # <<>> /\ Top.kind = "declare"
      /\ \/ t.ok /\ Step(t, Proceed("block"))
         \/ ~t.ok /\ Return(x)
  BY DEF endDeclarePart, Running
<1>2. Text /\ st \in ParserStates /\ st.open = Opens(Front(ctl)) \o ContextsOf(Top.kind)
  BY <1>1, Situation
<1>3. Goes(st, t)
  BY <1>2, TokenGoes DEF TakesToken
<1> HIDE DEF t
<1>4. ContextsOf("declare") = <<"block">> /\ ContextsOf("block") = <<"block">>
  BY ContextsFacts
<1>5. CASE t.ok /\ Step(t, Proceed("block"))
  <2>1. "block" \in Kinds /\ Placed(Len(Front(ctl)) + 1, "block")
    BY <1>1, KindFacts, InnerPlaces
  <2>2. Comes(st, t, st.open)
    BY <1>2, <1>3, ComesFacts
  <2>3. Comes(st, t, Opens(Front(ctl)) \o ContextsOf("block"))
    BY <1>1, <1>2, <1>4, <2>2
  <2>4. Weight("block") < Weight(Top.kind)
    BY <1>1, Lighter
  <2> QED BY <1>1, <1>5, <2>1, <2>3, <2>4, ProceedForward
<1>6. CASE ~t.ok /\ Return(x)
  <2>1. Comes(st, e, Opens(Front(ctl)))
    <3>1. "block" \in Contexts /\ ContextsOf(Top.kind) = <<"block">>
      BY <1>1, <1>4 DEF Contexts
    <3> QED BY <1>1, <1>3, <3>1, ContextEnds
  <2> HIDE DEF e
  <2>2. e \in ParserStates
    BY <2>1 DEF Comes, Lands
  <2>3. Goes(e, x)
    BY <1>2, <2>2, seekEndTagGoes
  <2> HIDE DEF x
  <2>4. Comes(st, x, Opens(Front(ctl)))
    BY <1>2, <2>1, <2>3, ComesFacts
  <2> QED BY <1>1, <1>6, <2>4, ReturnForward
<1> QED BY <1>1, <1>5, <1>6

\* The statements of a block or a subroutine are over, its handlers come next.
LEMMA endStatementsForward ==
  ASSUME IInv, NEW kind, NEW context \in Contexts, NEW after \in Kinds,
         endStatements(kind, context, after),
         ContextsOf(kind) = ContextsOf(after) \o <<context>>, Weight(after) < Weight(kind),
         Placed(Len(Front(ctl)) + 1, after), Len(Front(ctl)) + 1 > 2
  PROVE  Forward
<1> DEFINE o == Opens(Front(ctl))
           a == ContextsOf(after)
           t == end(st, context)
           u == ignoreToken(t)
           p == Routine("exception", NoTag, FALSE)
           q == [Top EXCEPT !.kind = after, !.first = FALSE]
           n == Len(Front(ctl))
<1>1. /\ ctl # <<>> /\ Top.kind = kind
      /\ \/ Code(t.pos) = "exception" /\ Step(u, Append(Proceed(after), p))
         \/ Step(t, Proceed(after))
  BY AtFacts DEF endStatements, Parsed, Running
<1>2. /\ Text /\ st \in ParserStates /\ o \in Seq(Contexts) /\ Top \in Routines
      /\ st.open = o \o ContextsOf(Top.kind) /\ Fits(st, Append(Front(ctl), Top))
      /\ ctl = Append(Front(ctl), Top) /\ Front(ctl) \in Seq(Routines) /\ n \in Nat
      /\ n + 1 > 2 => Len(st.tags) > 0
  BY <1>1, Situation
<1>3. a \in Seq(Contexts) /\ ContextsOf(kind) = a \o <<context>> /\ o \o a \in Seq(Contexts)
  <2>1. a \in Seq(Contexts)
    BY ContextsFacts
  <2> HIDE DEF a
  <2>2. o \o a \in Seq(Contexts)
    BY <1>2, <2>1
  <2> QED BY <2>1, <2>2 DEF a
<1>4. Placed(n + 1, after) /\ n + 1 > 2
  OBVIOUS
<1>5. q \in Routines /\ q.kind = after
  BY <1>2 DEF Routines
<1>6. p \in Routines /\ p.kind = "exception"
  <2>1. "exception" \in Kinds /\ NoTag \in Ident \cup {NoTag}
    BY KindFacts
  <2> QED BY <2>1, RoutineFacts
<1> HIDE DEF o, a, n
<1>7. st.open = (o \o a) \o <<context>>
  <2>1. o \o (a \o <<context>>) = (o \o a) \o <<context>>
    BY <1>2, <1>3
  <2> QED BY <1>1, <1>2, <1>3, <2>1
<1>8. Comes(st, t, o \o a) /\ t.pos = st.pos
  <2>1. Comes(st, st, st.open)
    BY <1>2, StandsFacts, GoesOn, ComesFacts
  <2>2. Comes(st, st, (o \o a) \o <<context>>)
    BY <1>7, <2>1
  <2> QED BY <1>2, <1>3, <2>2, EndComes
<1>9. CASE Step(t, Proceed(after))
  <2> HIDE DEF t
  <2>1. Comes(st, t, Opens(Front(ctl)) \o ContextsOf(after))
    BY <1>8 DEF o, a
  <2>2. Weight(after) < Weight(Top.kind)
    BY <1>1
  <2> QED BY <1>1, <1>9, <2>1, <2>2, ProceedForward
<1>10. CASE Code(t.pos) = "exception" /\ Step(u, Append(Proceed(after), p))
  <2>1. Step(u, Append(Append(Front(ctl), q), p))
    BY <1>10 DEF Proceed, Replaced
  <2>2. Code(t.pos) # EOT
    BY <1>10 DEF EOT
  <2> HIDE DEF t, p, q
  <2>3. t \in ParserStates
    BY <1>8 DEF Comes, Lands
  <2>4. Moves(t, u)
    BY <1>2, <2>2, <2>3, ignoreGoes
  <2> HIDE DEF u
  <2>5. Goes(t, u) /\ st.pos < u.pos
    BY <1>8, <2>4 DEF Moves
  <2>6. Comes(st, u, o \o a)
    BY <1>2, <1>8, <2>5, ComesFacts
  <2>7. ContextsOf(p.kind) = <<>> /\ ContextsOf(q.kind) = a
    BY <1>5, <1>6, ContextsFacts DEF a
  <2>8. Comes(st, u, (o \o ContextsOf(q.kind)) \o ContextsOf(p.kind))
    <3>1. (o \o a) \o <<>> = o \o a
      BY <1>3, NothingMore
    <3> QED BY <2>6, <2>7, <3>1
  <2>9. Placed(n + 1, q.kind) /\ Placed(n + 2, p.kind)
    <3>1. n + 2 \in Nat \ {0, 1, 2, 3}
      BY <1>2, <1>4
    <3> QED BY <1>4, <1>5, <1>6, <3>1, KindFacts
  <2>10. Advances(st, Append(Front(ctl), Top), u, Append(Append(Front(ctl), q), p))
    BY <1>2, <1>4, <1>5, <1>6, <2>5, <2>8, <2>9, CallAdvances DEF o, n
  <2> QED BY <1>2, <2>1, <2>10, StepForward
<1> QED BY <1>1, <1>9, <1>10

\* The statements of a block are over.
LEMMA endBlockStmtForward == ASSUME IInv, endBlockStmt PROVE Forward
<1>1. ctl # <<>> /\ Top.kind = "block" /\ endStatements("block", "block", "block end")
  BY DEF endBlockStmt, endStatements, Parsed, Running
<1>2. Placed(Len(Front(ctl)) + 1, "block end")
  BY <1>1, InnerPlaces
<1>3. Len(Front(ctl)) + 1 > 2
  <2>1. Len(Front(ctl)) \in Nat /\ Placed(Len(Front(ctl)) + 1, Top.kind)
    BY <1>1, Situation
  <2>2. Len(Front(ctl)) > 2
    BY <1>1, <2>1, PlacedAbove, Zenon
  <2> QED BY <2>1, <2>2
<1>4. ContextsOf("block") = ContextsOf("block end") \o <<"block">>
  <2>1. <<"block">> = <<>> \o <<"block">>
    OBVIOUS
  <2>2. ContextsOf("block") = <<"block">> /\ ContextsOf("block end") = <<>>
    BY ContextsFacts
  <2> QED BY <2>1, <2>2
<1>5. Weight("block end") < Weight("block")
  BY Lighter
<1>6. "block" \in Contexts /\ "block end" \in Kinds
  BY KindFacts DEF Contexts
<1> QED BY <1>1, <1>2, <1>3, <1>4, <1>5, <1>6, endStatementsForward

\* The statements of a subroutine are over.
LEMMA endSubroutineBodyForward == ASSUME IInv, endSubroutineBody PROVE Forward
<1>1. /\ ctl # <<>> /\ Top.kind = "statements"
      /\ endStatements("statements", "subroutine body", "definition end")
  BY DEF endSubroutineBody, endStatements, Parsed, Running
<1>2. Len(Front(ctl)) = 2
  <2>1. Len(Front(ctl)) \in Nat /\ Placed(Len(Front(ctl)) + 1, Top.kind)
    BY <1>1, Situation
  <2>2. Top.kind \in Definitions
    BY <1>1 DEF Definitions
  <2> QED BY <2>1, <2>2, PlacedAbove, Zenon
<1>3. Len(Front(ctl)) + 1 > 2 /\ Len(Front(ctl)) + 1 = 3
  BY <1>2
<1>4. Placed(Len(Front(ctl)) + 1, "definition end")
  BY <1>3, KindFacts DEF Definitions
<1>5. ContextsOf("statements") = ContextsOf("definition end") \o <<"subroutine body">>
  <2>1. <<"definition", "subroutine body">> = <<"definition">> \o <<"subroutine body">>
    <3>1. "definition" \in Contexts /\ "subroutine body" \in Contexts
      BY DEF Contexts
    <3> QED BY <3>1, PairIsTwo, Zenon
  <2>2. /\ ContextsOf("statements") = <<"definition", "subroutine body">>
        /\ ContextsOf("definition end") = <<"definition">>
    BY ContextsFacts
  <2> QED BY <2>1, <2>2
<1>6. Weight("definition end") < Weight("statements")
  BY Lighter
<1>7. "subroutine body" \in Contexts /\ "definition end" \in Kinds
  BY KindFacts DEF Contexts
<1> QED BY <1>1, <1>3, <1>4, <1>5, <1>6, <1>7, endStatementsForward

\* A block is over.
LEMMA parseBlockEndForward == ASSUME IInv, parseBlockEnd PROVE Forward
<1> DEFINE t == parseEndTag(st, Top.tag)
           x == IF t.ok THEN t ELSE seekAndConsumeEndTag(t, Top.tag)
<1>1. ctl # <<>> /\ Top.kind = "block end" /\ Return(x)
  BY DEF parseBlockEnd, Running
<1>2. Text /\ st \in ParserStates
  BY <1>1, Situation
<1>3. Goes(st, t)
  BY <1>2, parseEndTagGoes, ReadsFacts
<1> HIDE DEF t
<1>4. Goes(st, x)
  <2>1. t \in ParserStates
    BY <1>3 DEF Goes
  <2>2. Goes(t, seekAndConsumeEndTag(t, Top.tag))
    BY <1>2, <2>1, seekEndTagGoes
  <2>3. Goes(st, seekAndConsumeEndTag(t, Top.tag))
    BY <1>2, <1>3, <2>2, GoesGoes
  <2> QED BY <1>3, <2>3
<1> HIDE DEF x
<1>5. Comes(st, x, Opens(Front(ctl)))
  BY <1>1, <1>4, PartFacts
<1> QED BY <1>1, <1>5, ReturnForward

-----------------------------------------------------------------------------
(* Handlers.                                                                   *)

\* A handler begins, or the handlers are given up.
LEMMA beginHandlerStmtForward == ASSUME IInv, beginHandlerStmt PROVE Forward
<1> DEFINE w == requireToken(st, "when")
           t == IF w.ok /\ Top.others THEN Invalid(report(w)) ELSE Then(w, parseChoices)
           q == [Routine("handler", NoTag, TRUE) EXCEPT !.others = At(w, {"others"})]
<1>1. PICK accepted \in BOOLEAN :
        LET s == verdict(t, t.ok /\ accepted, "handler")
        IN  IF s.ok THEN Step(begin(s, "handler"), Replaced(q))
                    ELSE Step(seekTokens(s, {"end"}), Front(ctl))
  BY Zenon DEF beginHandlerStmt
<1> DEFINE s == verdict(t, t.ok /\ accepted, "handler")
           b == begin(s, "handler")
           x == seekTokens(s, {"end"})
<1>2. \/ s.ok /\ Step(b, Replaced(q))
      \/ ~s.ok /\ Step(x, Front(ctl))
  BY <1>1
<1>3. ctl # <<>> /\ Top.kind = "exception"
  BY DEF beginHandlerStmt, Running
<1>4. Text /\ st \in ParserStates /\ st.open = Opens(Front(ctl)) /\ st.open \in Seq(Contexts)
  BY <1>3, Situation, PartFacts
<1>5. Goes(st, w) /\ (w.ok => Moves(st, w))
  BY <1>4, TokenGoes DEF TakesToken, EOT
<1>6. q \in Routines /\ q.kind = "handler"
  <2>1. "handler" \in Kinds /\ NoTag \in Ident \cup {NoTag}
    BY KindFacts
  <2>2. At(w, {"others"}) \in BOOLEAN
    BY DEF At
  <2> QED BY <2>1, <2>2, RoutineFacts
<1> HIDE DEF w, q
<1>7. w \in ParserStates /\ Goes(w, w)
  <2>1. w \in ParserStates
    BY <1>5 DEF Goes
  <2> QED BY <1>4, <2>1, StandsFacts, GoesOn
<1>8. Goes(w, t) /\ (t.ok => w.ok)
  <2>1. Goes(w, parseChoices(w))
    BY <1>4, <1>7, parseChoicesGoes
  <2>2. Goes(w, report(w)) /\ report(w) \in ParserStates
    BY <1>4, <1>7, StandsFacts DEF Goes
  <2>3. Goes(report(w), Invalid(report(w))) /\ ~Invalid(report(w)).ok
    BY <1>4, <2>2, StandsFacts
  <2>4. Goes(w, Invalid(report(w)))
    BY <1>4, <1>7, <2>2, <2>3, GoesGoes
  <2>5. Then(w, parseChoices) = IF w.ok THEN parseChoices(w) ELSE w
    BY Zenon DEF Then
  <2>6. CASE w.ok /\ Top.others
    BY <2>3, <2>4, <2>6
  <2>7. CASE ~(w.ok /\ Top.others) /\ w.ok
    BY <2>1, <2>5, <2>7
  <2>8. CASE ~w.ok
    BY <1>7, <2>5, <2>8
  <2> QED BY <2>6, <2>7, <2>8
<1>9. t \in ParserStates
  BY <1>8 DEF Goes
<1> HIDE DEF t
<1>10. Goes(t, s) /\ (s.ok => t.ok)
  <2> DEFINE a == t.ok /\ accepted
  <2>1. t.ok \in BOOLEAN
    BY <1>4, <1>9, StateFacts
  <2>2. a \in BOOLEAN
    BY <2>1
  <2>3. a => t.ok
    OBVIOUS
  <2> HIDE DEF a
  <2>4. Goes(t, verdict(t, a, "handler")) /\ verdict(t, a, "handler").ok = a
    BY <1>4, <1>9, <2>2, RefuseGoes DEF Refusals
  <2>5. s = verdict(t, a, "handler")
    BY DEF a
  <2> HIDE DEF s
  <2> QED BY <2>3, <2>4, <2>5
<1> HIDE DEF s
<1>11. Goes(w, s) /\ s \in ParserStates
  BY <1>4, <1>7, <1>8, <1>10, GoesGoes
<1>12. Goes(st, s) /\ (s.ok => Moves(st, s))
  BY <1>4, <1>5, <1>8, <1>10, <1>11, GoesGoes
<1>13. CASE s.ok /\ Step(b, Replaced(q))
  <2>1. Comes(st, s, st.open)
    BY <1>4, <1>12, ComesFacts
  <2>2. Comes(st, b, st.open \o <<"handler">>) /\ b.pos = s.pos
    <3>1. "handler" \in Contexts
      BY DEF Contexts
    <3> QED BY <1>4, <2>1, <3>1, BeginComes
  <2> HIDE DEF b
  <2>3. Comes(st, b, Opens(Front(ctl)) \o ContextsOf(q.kind))
    BY <1>4, <1>6, <2>2, ContextsFacts
  <2>4. st.pos < b.pos
    BY <1>12, <1>13, <2>2 DEF Moves
  <2>5. Placed(Len(Front(ctl)) + 1, q.kind)
    BY <1>3, <1>6, InnerPlaces
  <2> QED BY <1>3, <1>6, <1>13, <2>3, <2>4, <2>5, ReplaceForward
<1>14. CASE ~s.ok /\ Step(x, Front(ctl))
  <2>1. Goes(s, x)
    BY <1>4, <1>11, seekGoes
  <2> HIDE DEF x
  <2>2. Goes(st, x)
    BY <1>4, <1>12, <2>1, GoesGoes
  <2>3. Comes(st, x, Opens(Front(ctl)))
    BY <1>3, <2>2, PartFacts
  <2>4. Lands(st, x, Opens(Front(ctl))) /\ Len(st.tags) =< Len(x.tags)
    BY <2>3 DEF Comes
  <2> QED BY <1>3, <1>14, <2>4, PopForward
<1> QED BY <1>2, <1>13, <1>14

\* A handler is over.
LEMMA endHandlerStmtForward == ASSUME IInv, endHandlerStmt PROVE Forward
<1> DEFINE e == end(st, "handler")
<1>1. /\ ctl # <<>> /\ Top.kind = "handler"
      /\ Step(e, Proceed("exception")) \/ Step(e, Front(ctl))
  BY DEF endHandlerStmt, Parsed, Running
<1>2. Text /\ st \in ParserStates /\ Opens(Front(ctl)) \in Seq(Contexts)
  BY <1>1, Situation
<1>3. Comes(st, e, Opens(Front(ctl)))
  <2>1. "handler" \in Contexts /\ ContextsOf(Top.kind) = <<"handler">>
    BY <1>1, ContextsFacts DEF Contexts
  <2>2. Goes(st, st)
    BY <1>2, StandsFacts, GoesOn
  <2> QED BY <1>1, <2>1, <2>2, ContextEnds
<1> HIDE DEF e
<1>4. CASE Step(e, Proceed("exception"))
  <2>1. "exception" \in Kinds /\ Placed(Len(Front(ctl)) + 1, "exception")
    BY <1>1, KindFacts, InnerPlaces
  <2>2. Comes(st, e, Opens(Front(ctl)) \o ContextsOf("exception"))
    <3>1. ContextsOf("exception") = <<>> /\ Opens(Front(ctl)) \o <<>> = Opens(Front(ctl))
      BY <1>2, ContextsFacts, NothingMore
    <3> QED BY <1>3, <3>1
  <2>3. Weight("exception") < Weight(Top.kind)
    BY <1>1, Lighter
  <2> QED BY <1>1, <1>4, <2>1, <2>2, <2>3, ProceedForward
<1>5. CASE Step(e, Front(ctl))
  <2>1. Lands(st, e, Opens(Front(ctl))) /\ Len(st.tags) =< Len(e.tags)
    BY <1>3 DEF Comes
  <2> QED BY <1>1, <1>5, <2>1, PopForward
<1> QED BY <1>1, <1>4, <1>5

-----------------------------------------------------------------------------
(* Subroutine bodies.                                                          *)

\* One declaration of a declarative part.
LEMMA parseDeclarationItemForward == ASSUME IInv, parseDeclarationItem PROVE Forward
<1>1. PICK accepted \in BOOLEAN : Step(requireToken(parseDeclaration(st, accepted), Semi), ctl)
  BY DEF parseDeclarationItem
<1>2. ctl # <<>> /\ Code(st.pos) # EOT
  BY AtFacts DEF parseDeclarationItem, Running
<1>3. Text /\ st \in ParserStates /\ st.pos \in Nat
  BY <1>2, Situation
<1> DEFINE t == parseDeclaration(st, accepted)
           u == requireToken(t, Semi)
<1>4. Goes(st, t) /\ (Moves(st, t) \/ Code(t.pos) \in {Semi, EOT})
  BY <1>3, parseDeclarationGoes
<1> HIDE DEF t
<1>5. /\ Goes(st, u) /\ u \in ParserStates
      /\ Moves(st, u) \/ Code(u.pos) = EOT
  BY <1>3, <1>4, SemiGoes
<1>6. Step(u, ctl)
  BY <1>1 DEF t
<1> HIDE DEF u
<1>7. Moves(st, u)
  <2>1. u.pos \in Nat
    BY <1>3, <1>5, StateFacts
  <2>2. Code(u.pos) = EOT => u.pos # st.pos
    BY <1>2
  <2>3. u.pos # st.pos => Moves(st, u)
    BY <1>3, <1>5, <2>1 DEF Moves, Goes
  <2> QED BY <1>5, <2>2, <2>3
<1> QED BY <1>2, <1>6, <1>7, StayForward

\* Where the routine of a subroutine body stands.
LEMMA DefinitionFacts ==
  ASSUME IInv, ctl # <<>>, Top.kind \in Definitions
  PROVE  /\ Len(Front(ctl)) = 2
         /\ \A kind \in Definitions : Placed(Len(Front(ctl)) + 1, kind)
<1> DEFINE n == Len(Front(ctl))
<1>1. n \in Nat /\ Placed(n + 1, Top.kind)
  BY Situation
<1> HIDE DEF n
<1>2. n = 2
  BY <1>1, PlacedAbove, Zenon
<1>3. n + 1 = 3
  BY <1>2
<1>4. \A kind \in Definitions : Placed(n + 1, kind)
  BY <1>3, KindFacts
<1> QED BY <1>2, <1>4 DEF n

\* The declarations of a subroutine are over.
LEMMA endDeclarationsForward == ASSUME IInv, endDeclarations PROVE Forward
<1> DEFINE e == end(report(st), "subroutine body")
           t == requireToken(st, "begin")
           o == Opens(Front(ctl))
<1>1. /\ ctl # <<>> /\ Top.kind = "declarations"
      /\ \/ Step(e, Proceed("definition end"))
         \/ Step(t, Proceed("statements"))
  BY DEF endDeclarations, Running
<1>2. /\ Text /\ st \in ParserStates /\ o \in Seq(Contexts)
      /\ st.open = o \o ContextsOf(Top.kind)
  BY <1>1, Situation
<1> HIDE DEF o
<1>3. \A kind \in Definitions : Placed(Len(Front(ctl)) + 1, kind)
  BY <1>1, DefinitionFacts DEF Definitions
<1>4. /\ ContextsOf("declarations") = <<"definition", "subroutine body">>
      /\ ContextsOf("statements") = <<"definition", "subroutine body">>
      /\ ContextsOf("definition end") = <<"definition">>
  BY ContextsFacts
<1>5. CASE Step(e, Proceed("definition end"))
  <2> DEFINE r == report(st)
             d == <<"definition">>
             b == <<"subroutine body">>
  <2>1. "definition" \in Contexts /\ "subroutine body" \in Contexts
    BY DEF Contexts
  <2>2. <<"definition", "subroutine body">> = d \o b
    BY <2>1, PairIsTwo, Zenon
  <2>3. d \in Seq(Contexts) /\ b \in Seq(Contexts)
    BY DEF Contexts
  <2>4. Goes(st, r)
    BY <1>2, StandsFacts
  <2> HIDE DEF d, b, r
  <2>5. st.open = (o \o d) \o b
    <3>1. o \o (d \o b) = (o \o d) \o b
      BY <1>2, <2>3
    <3> QED BY <1>1, <1>2, <1>4, <2>2, <3>1
  <2>6. o \o d \in Seq(Contexts)
    BY <1>2, <2>3
  <2>7. Comes(st, r, st.open)
    BY <1>2, <2>4, ComesFacts
  <2>8. Comes(st, r, (o \o d) \o <<"subroutine body">>)
    BY <2>5, <2>7 DEF b
  <2>9. Comes(st, e, o \o d)
    BY <1>2, <2>1, <2>6, <2>8, EndComes DEF r
  <2>10. Comes(st, e, Opens(Front(ctl)) \o ContextsOf("definition end"))
    BY <1>4, <2>9 DEF o, d
  <2> HIDE DEF e
  <2>11. "definition end" \in Kinds /\ Placed(Len(Front(ctl)) + 1, "definition end")
    BY <1>3, KindFacts DEF Definitions
  <2>12. Weight("definition end") < Weight(Top.kind)
    BY <1>1, Lighter
  <2> QED BY <1>1, <1>5, <2>10, <2>11, <2>12, ProceedForward
<1>6. CASE Step(t, Proceed("statements"))
  <2>1. Goes(st, t)
    BY <1>2, TokenGoes DEF TakesToken
  <2> HIDE DEF t
  <2>2. Comes(st, t, st.open)
    BY <1>2, <2>1, ComesFacts
  <2>3. Comes(st, t, Opens(Front(ctl)) \o ContextsOf("statements"))
    BY <1>1, <1>2, <1>4, <2>2 DEF o
  <2>4. "statements" \in Kinds /\ Placed(Len(Front(ctl)) + 1, "statements")
    BY <1>3, KindFacts DEF Definitions
  <2>5. Weight("statements") < Weight(Top.kind)
    BY <1>1, Lighter
  <2> QED BY <1>1, <1>6, <2>3, <2>4, <2>5, ProceedForward
<1> QED BY <1>1, <1>5, <1>6

\* A tag is taken from the stack.
LEMMA PopTag ==
  ASSUME Text, NEW s \in ParserStates
  PROVE  LET t == [s EXCEPT !.tags = Front(@)]
         IN  t \in ParserStates /\ t.pos = s.pos /\ t.open = s.open
<1>1. s.tags \in Seq(Ident) /\ Len(s.tags) \in Nat
  BY StateFacts
<1>2. Front(s.tags) \in Seq(Ident)
  <2>1. CASE Len(s.tags) > 0
    BY <1>1, <2>1, FrontFacts
  <2>2. CASE Len(s.tags) = 0
    <3>1. Front(s.tags) = SubSeq(s.tags, 1, Len(s.tags) - 1)
      BY DEF Front
    <3>2. 1 \in Int /\ Len(s.tags) - 1 \in Int /\ \A i \in 1..(Len(s.tags) - 1) : s.tags[i] \in Ident
      BY <1>1, <2>2
    <3>3. SubSeq(s.tags, 1, Len(s.tags) - 1) \in Seq(Ident)
      BY <1>1, <3>2, SubSeqProperties
    <3> QED BY <3>1, <3>3
  <2> QED BY <1>1, <2>1, <2>2
<1> DEFINE f == Front(s.tags)
<1> HIDE DEF f
<1>3. f \in Seq(Ident)
  BY <1>2 DEF f
<1>4. [s EXCEPT !.tags = Front(@)] = [s EXCEPT !.tags = f]
  BY DEF f
<1>5. LET t == [s EXCEPT !.tags = f]
      IN  t \in ParserStates /\ t.pos = s.pos /\ t.open = s.open
  BY <1>3 DEF ParserStates
<1> QED BY <1>4, <1>5

\* A subroutine body is over: its end tag is taken from the stack.
LEMMA endSubroutineDefinitionForward == ASSUME IInv, endSubroutineDefinition PROVE Forward
<1> DEFINE s == [st EXCEPT !.tags = Front(@)]
           t == parseEndTag(s, Last(st.tags))
           e == end(t, "definition")
           u == requireToken(e, Semi)
           o == Opens(Front(ctl))
<1>1. ctl # <<>> /\ Top.kind = "definition end" /\ Step(u, Front(ctl))
  BY DEF endSubroutineDefinition, Running
<1>2. /\ Text /\ st \in ParserStates /\ o \in Seq(Contexts) /\ st.pos \in Nat
      /\ st.open = o \o ContextsOf(Top.kind)
  BY <1>1, Situation
<1>3. Len(Front(ctl)) = 2 /\ ContextsOf(Top.kind) = <<"definition">>
  BY <1>1, DefinitionFacts, ContextsFacts DEF Definitions
<1> HIDE DEF o
<1>4. s \in ParserStates /\ s.pos = st.pos /\ s.open = o \o <<"definition">>
  BY <1>2, <1>3, PopTag
<1> HIDE DEF s
<1>5. Goes(s, t)
  BY <1>2, <1>4, parseEndTagGoes, ReadsFacts
<1> HIDE DEF t
<1>6. Comes(s, t, o \o <<"definition">>)
  <2>1. Comes(s, t, s.open)
    BY <1>2, <1>4, <1>5, ComesFacts
  <2> QED BY <1>4, <2>1
<1>7. Comes(s, e, o)
  <2>1. "definition" \in Contexts
    BY DEF Contexts
  <2> QED BY <1>2, <1>4, <1>6, <2>1, EndComes
<1> HIDE DEF e
<1>8. e \in ParserStates
  BY <1>7 DEF Comes, Lands
<1>9. Goes(e, u)
  BY <1>2, <1>8, TokenGoes DEF TakesToken
<1> HIDE DEF u
<1>10. Comes(s, u, o)
  BY <1>2, <1>4, <1>7, <1>9, ComesFacts
<1>11. Lands(st, u, Opens(Front(ctl)))
  BY <1>4, <1>10 DEF Comes, Lands, o
<1>12. Len(Front(ctl)) =< 2
  BY <1>3
<1> QED BY <1>1, <1>11, <1>12, PopForward

-----------------------------------------------------------------------------
(* Packages and compilation units.                                             *)

\* Where the routine of a package or of a compilation unit stands.
LEMMA OuterPlaces ==
  ASSUME IInv, ctl # <<>>
  PROVE  /\ Top.kind \in {"context", "top level"} => Len(Front(ctl)) = 0
         /\ Top.kind \in PackageParts => Len(Front(ctl)) = 1
<1> DEFINE n == Len(Front(ctl))
<1>1. n \in Nat /\ Placed(n + 1, Top.kind)
  BY Situation
<1> HIDE DEF n
<1>2. /\ Top.kind \in {"context", "top level"} => n = 0
      /\ Top.kind \in PackageParts => n = 1
  BY <1>1, PlacedAbove, Zenon
<1> QED BY <1>2 DEF n

\* A package begins, or what is left of it is skipped.
LEMMA parsePackageForward == ASSUME IInv, parsePackage PROVE Forward
<1> DEFINE isBody == nextTokenIs(st, {"body"})
           p == IF isBody THEN ignoreToken(ignoreToken(st)) ELSE ignoreToken(st)
           name == Code(p.pos)
           n == parseIdentifier(p)
           is == Then(n, LAMBDA t : requireToken(t, "is"))
           kind == IF isBody THEN "body" ELSE "spec"
           q == Routine(kind, name, FALSE)
<1>1. PICK accepted \in BOOLEAN :
        LET s == IF is.ok THEN verdict(is, accepted, "package") ELSE is
        IN  CASE ~n.ok -> Step(n, ctl)
              [] s.ok -> Step(begin(s, "package"), Append(ctl, q))
              [] OTHER -> Step(reduceToken(seekAndConsumeEndTag(s, name), Semi), ctl)
  BY Zenon DEF parsePackage
<1> DEFINE s == IF is.ok THEN verdict(is, accepted, "package") ELSE is
           b == begin(s, "package")
           x == seekAndConsumeEndTag(s, name)
<1>2. \/ Step(n, ctl)
      \/ n.ok /\ Step(b, Append(ctl, q))
      \/ Step(reduceToken(x, Semi), ctl)
  <2>1. (CASE ~n.ok -> Step(n, ctl)
           [] s.ok -> Step(b, Append(ctl, q))
           [] OTHER -> Step(reduceToken(x, Semi), ctl))
    BY <1>1, Zenon
  <2>2. is = IF n.ok THEN requireToken(n, "is") ELSE n
    BY Zenon DEF Then
  <2>3. s.ok => n.ok
    <3> HIDE DEF n
    <3> QED BY <2>2
  <2> HIDE DEF s, n, b, q, x
  <2> QED BY <2>1, <2>3
<1>3. ctl # <<>> /\ Top.kind = "top level" /\ Code(st.pos) = "package"
  BY AtFacts DEF parsePackage, Running
<1>4. Text /\ st \in ParserStates /\ st.open \in Seq(Contexts)
  BY <1>3, Situation, StateFacts
<1>5. Moves(st, p)
  <2>1. Code(st.pos) # EOT
    BY <1>3 DEF EOT
  <2> QED BY <1>4, <2>1, StepsGo
<1>6. kind \in {"body", "spec"}
  OBVIOUS
<1> HIDE DEF p, kind, isBody
<1>7. Goes(st, p) /\ p \in ParserStates
  BY <1>5 DEF Moves, Goes
<1>8. Goes(p, n) /\ (n.ok <=> name \in Ident)
  BY <1>4, <1>7, TokenGoes DEF TakesToken
<1> HIDE DEF n, name
<1>9. Moves(st, n) /\ Goes(st, n) /\ n \in ParserStates
  BY <1>4, <1>5, <1>7, <1>8, GoesGoes
<1>10. Goes(n, is)
  <2>1. is = IF n.ok THEN requireToken(n, "is") ELSE n
    BY Zenon DEF Then
  <2>2. Goes(n, requireToken(n, "is"))
    BY <1>4, <1>9, TokenGoes DEF TakesToken
  <2>3. Goes(n, n)
    BY <1>4, <1>9, StandsFacts, GoesOn
  <2> QED BY <2>1, <2>2, <2>3
<1> HIDE DEF is
<1>11. is \in ParserStates
  BY <1>10 DEF Goes
<1>12. Goes(is, s)
  <2>1. Goes(is, is)
    BY <1>4, <1>11, StandsFacts, GoesOn
  <2>2. Goes(is, verdict(is, accepted, "package"))
    BY <1>4, <1>11, RefuseGoes DEF Refusals
  <2> QED BY <2>1, <2>2
<1> HIDE DEF s
<1>13. Goes(n, s) /\ s \in ParserStates
  BY <1>4, <1>9, <1>10, <1>12, GoesGoes
<1>14. Goes(st, s) /\ Moves(st, s)
  BY <1>4, <1>9, <1>13, GoesGoes
<1>15. CASE Step(n, ctl)
  BY <1>3, <1>9, <1>15, StayForward
<1>16. CASE n.ok /\ Step(b, Append(ctl, q))
  <2>1. q \in Routines /\ q.kind = kind
    <3>1. kind \in Kinds /\ name \in Ident \cup {NoTag} /\ FALSE \in BOOLEAN
      BY <1>6, <1>8, <1>16, KindFacts
    <3> QED BY <3>1, RoutineFacts
  <2> HIDE DEF q
  <2>2. Comes(st, s, st.open)
    BY <1>4, <1>14, ComesFacts
  <2>3. Comes(st, b, st.open \o <<"package">>) /\ b.pos = s.pos
    <3>1. "package" \in Contexts
      BY DEF Contexts
    <3> QED BY <1>4, <2>2, <3>1, BeginComes
  <2> HIDE DEF b
  <2>4. q.kind \in PackageParts
    BY <1>6, <2>1 DEF PackageParts
  <2>5. Comes(st, b, st.open \o ContextsOf(q.kind))
    BY <2>3, <2>4, ContextsFacts
  <2>6. st.pos < b.pos
    BY <1>14, <2>3 DEF Moves
  <2>7. Len(Front(ctl)) = 0
    BY <1>3, OuterPlaces
  <2>8. Placed(Len(Front(ctl)) + 2, q.kind)
    <3>1. Len(Front(ctl)) + 2 = 2
      BY <2>7
    <3> QED BY <2>4, <3>1, KindFacts
  <2> QED BY <1>3, <1>16, <2>1, <2>5, <2>6, <2>7, <2>8, PushForward
<1>17. CASE Step(reduceToken(x, Semi), ctl)
  <2>1. Goes(s, x)
    BY <1>4, <1>13, seekEndTagGoes
  <2> DEFINE u == reduceToken(x, Semi)
  <2>2. Step(u, ctl)
    BY <1>17
  <2> HIDE DEF x
  <2>3. Moves(st, x) /\ Goes(st, x) /\ x \in ParserStates
    BY <1>4, <1>14, <2>1, GoesGoes
  <2>4. Goes(x, u)
    BY <1>4, <2>3, TokenGoes DEF TakesToken
  <2> HIDE DEF u
  <2>5. Moves(st, u)
    BY <1>4, <2>3, <2>4, GoesGoes
  <2> QED BY <1>3, <2>2, <2>5, StayForward
<1> QED BY <1>2, <1>15, <1>16, <1>17

\* A declaration that begins at something else than a semicolon moves on.
LEMMA DeclarationMoves ==
  ASSUME Text, NEW s \in ParserStates, NEW accepted \in BOOLEAN, Code(s.pos) \notin {Semi, EOT}
  PROVE  Moves(s, parseDeclaration(s, accepted))
<1> DEFINE t == parseDeclaration(s, accepted)
<1>1. Goes(s, t) /\ (Moves(s, t) \/ Code(t.pos) \in {Semi, EOT})
  BY parseDeclarationGoes
<1> HIDE DEF t
<1>2. s.pos \in Nat
  BY StateFacts
<1>3. t \in ParserStates
  BY <1>1 DEF Goes
<1>4. t.pos \in Nat
  BY <1>3, StateFacts
<1>5. Code(t.pos) \in {Semi, EOT} => t.pos # s.pos
  OBVIOUS
<1>6. t.pos # s.pos => Moves(s, t)
  BY <1>1, <1>2, <1>4 DEF Moves, Goes
<1>7. Moves(s, t)
  BY <1>1, <1>5, <1>6
<1> QED BY <1>7 DEF t

\* What the words that begin an item of a package are not.
LEMMA ItemWords ==
  \A code \in {"function", "procedure", "use", "type", "subtype", "pragma"} :
    code \notin {Semi, EOT}
BY DEF Semi, EOT

\* A declaration of a package specification.
LEMMA parseBasicDeclarativeItemForward == ASSUME IInv, parseBasicDeclarativeItem PROVE Forward
<1>1. PICK accepted \in BOOLEAN :
        LET t == OrSeek(parseDeclaration(st, accepted),
                        {"function", "procedure", "type", Semi, "end"})
        IN  Step(requireToken(t, Semi), ctl)
  BY DEF parseBasicDeclarativeItem
<1> DEFINE d == parseDeclaration(st, accepted)
           t == OrSeek(d, {"function", "procedure", "type", Semi, "end"})
           u == requireToken(t, Semi)
<1>2. Step(u, ctl)
  BY <1>1
<1>3. ctl # <<>> /\ Code(st.pos) \in {"function", "procedure", "type", "subtype"}
  BY AtFacts DEF parseBasicDeclarativeItem, Running
<1>4. Text /\ st \in ParserStates
  BY <1>3, Situation
<1>5. Moves(st, d)
  <2>1. Code(st.pos) \notin {Semi, EOT}
    BY <1>3, ItemWords
  <2> QED BY <1>4, <2>1, DeclarationMoves
<1> HIDE DEF d
<1>6. Goes(st, d) /\ d \in ParserStates
  BY <1>5 DEF Moves, Goes
<1>7. Goes(d, t)
  BY <1>4, <1>6, OrSeekGoes
<1> HIDE DEF t
<1>8. Moves(st, t) /\ Goes(st, t) /\ t \in ParserStates
  BY <1>4, <1>5, <1>6, <1>7, GoesGoes
<1>9. Goes(t, u)
  BY <1>4, <1>8, TokenGoes DEF TakesToken
<1> HIDE DEF u
<1>10. Moves(st, u)
  BY <1>4, <1>8, <1>9, GoesGoes
<1> QED BY <1>2, <1>3, <1>10, StayForward

\* An item of a package body that has no body itself.
LEMMA parseBodyItemForward == ASSUME IInv, parseBodyItem PROVE Forward
<1> DEFINE t == IF At(st, {"pragma"}) THEN parseDeclarationPragma(st)
                                      ELSE parseDeclaration(st, TRUE)
           u == requireToken(t, Semi)
<1>1. Step(u, ctl)
  BY DEF parseBodyItem
<1>2. ctl # <<>> /\ Code(st.pos) \in {"use", "type", "subtype", "pragma"}
  BY AtFacts DEF parseBodyItem, Running, BodyItems
<1>3. Text /\ st \in ParserStates
  BY <1>2, Situation
<1>4. Moves(st, t)
  <2>1. CASE At(st, {"pragma"})
    <3>1. Code(st.pos) = "pragma"
      BY <2>1, AtFacts
    <3> QED BY <1>3, <2>1, <3>1, parseDeclarationPragmaGoes
  <2>2. CASE ~At(st, {"pragma"})
    <3>1. Code(st.pos) \notin {Semi, EOT}
      BY <1>2, ItemWords
    <3>2. TRUE \in BOOLEAN
      OBVIOUS
    <3>3. Moves(st, parseDeclaration(st, TRUE))
      BY <1>3, <3>1, <3>2, DeclarationMoves
    <3> QED BY <2>2, <3>3
  <2> QED BY <2>1, <2>2
<1> HIDE DEF t
<1>5. Goes(st, t) /\ t \in ParserStates
  BY <1>4 DEF Moves, Goes
<1>6. Goes(t, u)
  BY <1>3, <1>5, TokenGoes DEF TakesToken
<1> HIDE DEF u
<1>7. Moves(st, u)
  BY <1>3, <1>4, <1>5, <1>6, GoesGoes
<1> QED BY <1>1, <1>2, <1>7, StayForward

\* What is left of a subroutine that the client refused.
LEMMA SkipLands ==
  ASSUME Text, NEW s \in ParserStates, NEW u \in skipDefinition(s)
  PROVE  Lands(s, u, s.open) /\ u \in ParserStates
<1> DEFINE t == seekTokens(s, {Semi, "is"})
           v == [t EXCEPT !.tags = IF @ = <<>> THEN @ ELSE Front(@)]
<1>1. u = t \/ \E tag : u = seekAndConsumeEndTag(v, tag)
  BY DEF skipDefinition
<1>2. Goes(s, t)
  BY seekGoes
<1> DEFINE w == [t EXCEPT !.tags = Front(@)]
<1>3. v = t \/ v = w
  <2>1. t \in ParserStates
    BY <1>2 DEF Goes
  <2> HIDE DEF t
  <2>2. CASE t.tags = <<>>
    <3>1. v = [t EXCEPT !.tags = t.tags]
      BY <2>2
    <3>2. [t EXCEPT !.tags = t.tags] = t
      BY <2>1 DEF ParserStates
    <3> QED BY <3>1, <3>2
  <2>3. CASE t.tags # <<>>
    BY <2>3
  <2> QED BY <2>2, <2>3
<1> HIDE DEF t
<1>4. t \in ParserStates
  BY <1>2 DEF Goes
<1>5. w \in ParserStates /\ w.pos = t.pos /\ w.open = t.open
  BY <1>4, PopTag
<1> HIDE DEF w
<1>6. v \in ParserStates /\ v.pos = t.pos /\ v.open = t.open
  <2> HIDE DEF v
  <2> QED BY <1>3, <1>4, <1>5
<1> HIDE DEF v
<1>7. Lands(s, t, s.open) /\ Lands(s, v, s.open)
  BY <1>2, <1>4, <1>6 DEF Goes, Lands
<1>8. ASSUME NEW tag PROVE Lands(s, seekAndConsumeEndTag(v, tag), s.open)
  <2>1. Goes(v, seekAndConsumeEndTag(v, tag))
    BY <1>6, seekEndTagGoes
  <2> QED BY <1>7, <2>1, ComesFacts
<1>9. Lands(s, u, s.open)
  BY <1>1, <1>7, <1>8
<1> QED BY <1>9 DEF Lands

\* In a package body no tag is needed: a step that moves on leads forward.
LEMMA BodyForward ==
  ASSUME IInv, ctl # <<>>, Top.kind \in PackageParts, NEW t, Step(t, ctl),
         Lands(st, t, st.open), st.pos < t.pos
  PROVE  Forward
<1> DEFINE f == Front(ctl)
<1>1. /\ Text /\ f \in Seq(Routines) /\ Top \in Routines /\ ctl = Append(f, Top)
      /\ Fits(st, Append(f, Top))
  BY Situation
<1>2. Len(f) = 1
  BY OuterPlaces
<1> HIDE DEF f
<1>3. ~(Len(f) + 1 > 2)
  BY <1>2
<1>4. t \in ParserStates /\ t.open = st.open
  BY DEF Lands
<1>5. Fits(t, Append(f, Top))
  <2>1. /\ Shaped(f) /\ Placed(Len(f) + 1, Top.kind)
        /\ st.open = Opens(f) \o ContextsOf(Top.kind)
    BY <1>1, FitsAppend
  <2> QED BY <1>1, <1>3, <1>4, <2>1, FitsAppend
<1>6. Fits(t, ctl)
  BY <1>1, <1>5
<1>7. Advances(st, ctl, t, ctl)
  BY <1>6 DEF Advances
<1> QED BY <1>7, StepForward

\* A subroutine in a package body: a declaration, a body, or one that is skipped.
LEMMA parseDeclOrDefinitionForward == ASSUME IInv, parseDeclOrDefinition PROVE Forward
<1>1. PICK accepted \in BOOLEAN :
        LET s == parseSubroutineDeclaration(st, accepted)
            context == begin(begin(ignoreToken(s), "definition"), "subroutine body")
            noBody == IF At(st, {"function"}) /\ ~At(s, {Semi}) THEN report(s) ELSE s
        IN  CASE ~s.ok -> \E t \in skipDefinition(s) : Step(requireToken(t, Semi), ctl)
              [] s.ok /\ At(s, {"is"}) ->
                   Step(context, Append(ctl, Routine("declarations", Code(st.pos + 1), FALSE)))
              [] OTHER -> Step(requireToken(noBody, Semi), ctl)
  BY Zenon DEF parseDeclOrDefinition
<1> DEFINE s == parseSubroutineDeclaration(st, accepted)
           a == ignoreToken(s)
           b == begin(a, "definition")
           c == begin(b, "subroutine body")
           n == IF At(st, {"function"}) /\ ~At(s, {Semi}) THEN report(s) ELSE s
           q == Routine("declarations", Code(st.pos + 1), FALSE)
<1>2. \/ \E t \in skipDefinition(s) : Step(requireToken(t, Semi), ctl)
      \/ s.ok /\ Code(s.pos) = "is" /\ Step(c, Append(ctl, q))
      \/ Step(requireToken(n, Semi), ctl)
  <2>1. (CASE ~s.ok -> \E t \in skipDefinition(s) : Step(requireToken(t, Semi), ctl)
           [] s.ok /\ At(s, {"is"}) -> Step(c, Append(ctl, q))
           [] OTHER -> Step(requireToken(n, Semi), ctl))
    BY <1>1, Zenon
  <2>2. At(s, {"is"}) => Code(s.pos) = "is"
    BY AtFacts
  <2> HIDE DEF s, n, c, q
  <2> QED BY <2>1, <2>2
<1>3. ctl # <<>> /\ Top.kind = "body" /\ Code(st.pos) \in {"function", "procedure"}
  BY AtFacts DEF parseDeclOrDefinition, Running
<1>4. Text /\ st \in ParserStates /\ st.open \in Seq(Contexts)
  BY <1>3, Situation, StateFacts
<1>5. Declares(st, s) /\ Moves(st, s)
  BY <1>3, <1>4, parseSubroutineDeclarationGoes
<1> HIDE DEF s
<1>6. Goes(st, s) /\ s \in ParserStates /\ st.pos < s.pos
  BY <1>5 DEF Declares, Moves, Goes
<1>7. Top.kind \in PackageParts
  BY <1>3 DEF PackageParts
<1>8. ASSUME NEW t, Goes(s, t), Step(t, ctl) PROVE Forward
  <2>1. Goes(st, t) /\ Moves(st, t)
    BY <1>4, <1>5, <1>6, <1>8, GoesGoes
  <2> QED BY <1>3, <1>8, <2>1, StayForward
<1>9. CASE \E t \in skipDefinition(s) : Step(requireToken(t, Semi), ctl)
  <2>1. PICK t \in skipDefinition(s) : Step(requireToken(t, Semi), ctl)
    BY <1>9
  <2> DEFINE u == requireToken(t, Semi)
  <2>2. Lands(s, t, s.open) /\ t \in ParserStates
    BY <1>4, <1>6, SkipLands
  <2>3. Goes(t, u)
    BY <1>4, <2>2, TokenGoes DEF TakesToken
  <2>4. Step(u, ctl)
    BY <2>1
  <2> HIDE DEF u
  <2>5. Lands(s, u, s.open)
    BY <1>4, <1>6, <2>2, <2>3, ComesFacts
  <2>6. Lands(st, u, st.open) /\ st.pos < u.pos
    <3>1. st.pos \in Nat /\ s.pos \in Nat
      BY <1>4, <1>6, StateFacts
    <3>2. u \in ParserStates /\ s.pos =< u.pos /\ u.open = s.open /\ s.open = st.open
      BY <1>6, <2>5 DEF Lands, Goes
    <3>3. u.pos \in Nat
      BY <1>4, <3>2, StateFacts
    <3>4. st.pos < u.pos /\ st.pos =< u.pos
      BY <1>6, <3>1, <3>2, <3>3
    <3> QED BY <3>2, <3>4 DEF Lands
  <2> QED BY <1>3, <1>7, <2>4, <2>6, BodyForward
<1>10. CASE s.ok /\ Code(s.pos) = "is" /\ Step(c, Append(ctl, q))
  <2>1. Code(st.pos + 1) \in Ident /\ Len(st.tags) < Len(s.tags)
    BY <1>5, <1>10 DEF Declares
  <2>2. q \in Routines /\ q.kind = "declarations"
    <3>1. "declarations" \in Kinds /\ FALSE \in BOOLEAN /\ Code(st.pos + 1) \in Ident \cup {NoTag}
      BY <2>1, KindFacts
    <3> QED BY <3>1, RoutineFacts
  <2> HIDE DEF q
  <2>3. Goes(s, a)
    BY <1>4, <1>6, ignoreGoes
  <2> HIDE DEF a
  <2>4. Goes(st, a) /\ Moves(st, a)
    BY <1>4, <1>5, <1>6, <2>3, GoesGoes
  <2>5. "definition" \in Contexts /\ "subroutine body" \in Contexts
    BY DEF Contexts
  <2>6. Comes(st, a, st.open) /\ Comes(s, a, s.open)
    BY <1>4, <1>6, <2>3, <2>4, ComesFacts
  <2>7. /\ Comes(st, b, st.open \o <<"definition">>) /\ b.pos = a.pos
        /\ st.open \o <<"definition">> \in Seq(Contexts)
    BY <1>4, <2>5, <2>6, BeginComes
  <2>8. Comes(s, b, s.open \o <<"definition">>) /\ s.open \o <<"definition">> \in Seq(Contexts)
    <3>1. s.open \in Seq(Contexts)
      BY <1>4, <1>6, StateFacts
    <3> QED BY <1>4, <1>6, <2>5, <2>6, <3>1, BeginComes
  <2> HIDE DEF b
  <2>9. /\ Comes(st, c, (st.open \o <<"definition">>) \o <<"subroutine body">>) /\ c.pos = b.pos
    <3> DEFINE o == st.open \o <<"definition">>
    <3>1. Text /\ st \in ParserStates /\ o \in Seq(Contexts) /\ Comes(st, b, o)
      BY <1>4, <2>7
    <3> HIDE DEF o
    <3>2. Comes(st, c, o \o <<"subroutine body">>) /\ c.pos = b.pos
      BY <2>5, <3>1, BeginComes
    <3> QED BY <3>2 DEF o
  <2>10. Comes(s, c, (s.open \o <<"definition">>) \o <<"subroutine body">>)
    <3> DEFINE o == s.open \o <<"definition">>
    <3>1. Text /\ s \in ParserStates /\ o \in Seq(Contexts) /\ Comes(s, b, o)
      BY <1>4, <1>6, <2>8
    <3> HIDE DEF o
    <3>2. Comes(s, c, o \o <<"subroutine body">>)
      BY <2>5, <3>1, BeginComes
    <3> QED BY <3>2 DEF o
  <2> HIDE DEF c
  <2>11. Len(c.tags) > 0
    <3>1. Len(s.tags) =< Len(c.tags)
      BY <2>10 DEF Comes
    <3>2. c \in ParserStates
      BY <2>10 DEF Comes, Lands
    <3>3. Len(st.tags) \in Nat /\ Len(s.tags) \in Nat /\ Len(c.tags) \in Nat
      BY <1>4, <1>6, <3>2, StateFacts
    <3> QED BY <2>1, <3>1, <3>3
  <2>12. st.pos < c.pos
    BY <2>4, <2>7, <2>9 DEF Moves
  <2>13. Comes(st, c, st.open \o ContextsOf(q.kind))
    <3> DEFINE o == st.open
               d == <<"definition">>
               e == <<"subroutine body">>
    <3>1. <<"definition", "subroutine body">> = d \o e
      BY <2>5, PairIsTwo, Zenon
    <3>2. d \in Seq(Contexts) /\ e \in Seq(Contexts) /\ o \in Seq(Contexts)
      <4>1. <<"definition">> \in Seq(Contexts) /\ <<"subroutine body">> \in Seq(Contexts)
        BY DEF Contexts
      <4> QED BY <1>4, <4>1
    <3>3. Comes(st, c, (o \o d) \o e)
      BY <2>9
    <3>4. ContextsOf(q.kind) = d \o e
      <4>1. ContextsOf("declarations") = <<"definition", "subroutine body">>
        BY ContextsFacts
      <4> HIDE DEF d, e
      <4> QED BY <2>2, <3>1, <4>1
    <3> HIDE DEF o, d, e
    <3>5. (o \o d) \o e = o \o (d \o e)
      BY <3>2
    <3> QED BY <3>3, <3>4, <3>5 DEF o
  <2>14. Placed(Len(Front(ctl)) + 2, q.kind)
    <3>1. Len(Front(ctl)) = 1
      BY <1>3, <1>7, OuterPlaces
    <3>2. Len(Front(ctl)) + 2 = 3
      BY <3>1
    <3> QED BY <2>2, <3>2, KindFacts DEF Definitions
  <2> QED BY <1>3, <1>10, <2>2, <2>11, <2>12, <2>13, <2>14, PushForward
<1>11. CASE Step(requireToken(n, Semi), ctl)
  <2> DEFINE u == requireToken(n, Semi)
  <2>1. Goes(s, n)
    <3>1. Goes(s, report(s)) /\ Goes(s, s)
      BY <1>4, <1>6, StandsFacts, GoesOn
    <3> QED BY <3>1
  <2>2. Step(u, ctl)
    BY <1>11
  <2> HIDE DEF n
  <2>3. n \in ParserStates
    BY <2>1 DEF Goes
  <2>4. Goes(n, u)
    BY <1>4, <2>3, TokenGoes DEF TakesToken
  <2> HIDE DEF u
  <2>5. Goes(s, u)
    BY <1>4, <1>6, <2>1, <2>4, GoesGoes
  <2> QED BY <1>8, <2>2, <2>5
<1> QED BY <1>2, <1>9, <1>10, <1>11

\* The private part of a package begins.
LEMMA beginPackagePrivatePartForward == ASSUME IInv, beginPackagePrivatePart PROVE Forward
<1> DEFINE t == ignoreToken(st)
<1>1. /\ ctl # <<>> /\ Top.kind = "spec" /\ Code(st.pos) = "private"
      /\ Step(t, Proceed("private part"))
  BY AtFacts DEF beginPackagePrivatePart, Running
<1>2. Text /\ st \in ParserStates /\ st.open = Opens(Front(ctl)) \o ContextsOf(Top.kind)
  BY <1>1, Situation
<1>3. Moves(st, t)
  BY <1>1, <1>2, ignoreGoes DEF EOT
<1> HIDE DEF t
<1>4. Goes(st, t) /\ st.pos < t.pos
  BY <1>3 DEF Moves
<1>5. Comes(st, t, st.open)
  BY <1>2, <1>4, ComesFacts
<1>6. ContextsOf(Top.kind) = <<"package">> /\ ContextsOf("private part") = <<"package">>
  <2>1. Top.kind \in PackageParts /\ "private part" \in PackageParts
    BY <1>1 DEF PackageParts
  <2> QED BY <2>1, ContextsFacts
<1>7. Comes(st, t, Opens(Front(ctl)) \o ContextsOf("private part"))
  BY <1>2, <1>5, <1>6
<1>8. "private part" \in Kinds /\ Placed(Len(Front(ctl)) + 1, "private part")
  <2>1. Top.kind \in PackageParts /\ "private part" \in PackageParts
    BY <1>1 DEF PackageParts
  <2>2. Len(Front(ctl)) = 1
    BY <1>1, <2>1, OuterPlaces
  <2>3. Len(Front(ctl)) + 1 = 2
    BY <2>2
  <2> QED BY <2>1, <2>3, KindFacts
<1> QED BY <1>1, <1>4, <1>7, <1>8, ProceedForward

\* A package is over.
LEMMA endPackageForward == ASSUME IInv, endPackage PROVE Forward
<1> DEFINE e == end(st, "package")
           t == parseEndTag(e, Top.tag)
           u == requireToken(t, Semi)
           v == seekTokens(t, {"package", "procedure", "function"})
           o == Opens(Front(ctl))
<1>1. /\ ctl # <<>> /\ Top.kind \in PackageParts
      /\ Step(u, Front(ctl)) \/ Step(v, Front(ctl))
  BY DEF endPackage, Running, PackageParts
<1>2. Text /\ st \in ParserStates
  BY <1>1, Situation
<1>3. Comes(st, e, o)
  <2>1. "package" \in Contexts /\ ContextsOf(Top.kind) = <<"package">>
    BY <1>1, ContextsFacts DEF Contexts
  <2>2. Goes(st, st)
    BY <1>2, StandsFacts, GoesOn
  <2> QED BY <1>1, <2>1, <2>2, ContextEnds
<1> HIDE DEF e, o
<1>4. e \in ParserStates
  BY <1>3 DEF Comes, Lands
<1>5. Goes(e, t)
  BY <1>2, <1>4, parseEndTagGoes, ReadsFacts
<1> HIDE DEF t
<1>6. t \in ParserStates
  BY <1>5 DEF Goes
<1>7. Goes(t, u) /\ Goes(t, v)
  BY <1>2, <1>6, TokenGoes, seekGoes DEF TakesToken
<1> HIDE DEF u, v
<1>8. Goes(e, u) /\ Goes(e, v)
  BY <1>2, <1>4, <1>5, <1>7, GoesGoes
<1>9. Comes(st, u, o) /\ Comes(st, v, o)
  BY <1>2, <1>3, <1>8, ComesFacts
<1>10. /\ Lands(st, u, Opens(Front(ctl))) /\ Len(st.tags) =< Len(u.tags)
       /\ Lands(st, v, Opens(Front(ctl))) /\ Len(st.tags) =< Len(v.tags)
  BY <1>9 DEF Comes, o
<1> QED BY <1>1, <1>10, PopForward

\* A with clause, or the end of them.
LEMMA parseContextForward == ASSUME IInv, parseContext PROVE Forward
<1> DEFINE t == parseWithClause(st)
<1>1. /\ ctl # <<>> /\ Top.kind = "context"
      /\ \/ Code(st.pos) = "with" /\ Step(t, ctl)
         \/ Step(st, Proceed("top level"))
  BY AtFacts DEF parseContext, Running
<1>2. /\ Text /\ st \in ParserStates /\ st.open = Opens(Front(ctl)) \o ContextsOf(Top.kind)
  BY <1>1, Situation
<1>3. CASE Code(st.pos) = "with" /\ Step(t, ctl)
  <2>1. <<"with", "IDENTIFIER", Semi>>[1] = "with"
    OBVIOUS
  <2>2. "with" \notin {"IDENTIFIER", "NAME", "EXPR"}
    OBVIOUS
  <2>3. Moves(st, t)
    BY <1>2, <1>3, <2>1, <2>2, GrammarItems, PhraseToSemiGoes DEF parseWithClause
  <2> QED BY <1>1, <1>3, <2>3, StayForward
<1>4. CASE Step(st, Proceed("top level"))
  <2>1. Comes(st, st, st.open)
    BY <1>2, StandsFacts, GoesOn, ComesFacts
  <2>2. ContextsOf("top level") = <<>> /\ ContextsOf(Top.kind) = <<>>
    BY <1>1, ContextsFacts
  <2>3. Comes(st, st, Opens(Front(ctl)) \o ContextsOf("top level"))
    BY <1>2, <2>1, <2>2
  <2>4. "top level" \in Kinds /\ Placed(Len(Front(ctl)) + 1, "top level")
    <3>1. Len(Front(ctl)) = 0
      BY <1>1, OuterPlaces
    <3>2. Len(Front(ctl)) + 1 = 1
      BY <3>1
    <3> QED BY <3>2, KindFacts
  <2>5. Weight("top level") < Weight(Top.kind)
    BY <1>1, Lighter
  <2> QED BY <1>1, <1>4, <2>3, <2>4, <2>5, ProceedForward
<1> QED BY <1>1, <1>3, <1>4

\* The compilation unit is over.
LEMMA parseTopLevelEndForward == ASSUME IInv, parseTopLevelEnd PROVE Forward
<1> DEFINE t == IF At(st, {EOT}) THEN st ELSE report(st)
           f == Front(ctl)
<1>1. ctl # <<>> /\ Top.kind = "top level" /\ Step(t, <<>>)
  BY DEF parseTopLevelEnd, Running
<1>2. /\ Text /\ st \in ParserStates /\ f \in Seq(Routines)
      /\ st.open = Opens(f) \o ContextsOf(Top.kind)
  BY <1>1, Situation
<1>3. Len(f) = 0
  BY <1>1, OuterPlaces
<1> HIDE DEF f
<1>4. f = <<>>
  BY <1>2, <1>3
<1>5. Opens(f) = <<>> /\ ContextsOf(Top.kind) = <<>>
  BY <1>1, <1>4, OpensFacts, ContextsFacts
<1>6. st.open = <<>>
  <2>1. <<>> \o <<>> = <<>>
    OBVIOUS
  <2> QED BY <1>2, <1>5, <2>1
<1>7. Goes(st, t)
  BY <1>2, StandsFacts, GoesOn
<1> HIDE DEF t
<1>8. Lands(st, t, Opens(f)) /\ Len(st.tags) =< Len(t.tags)
  BY <1>5, <1>6, <1>7 DEF Goes, Lands
<1>9. Step(t, Front(ctl)) /\ Lands(st, t, Opens(Front(ctl)))
  BY <1>1, <1>4, <1>8 DEF f
<1> QED BY <1>1, <1>8, <1>9, PopForward

-----------------------------------------------------------------------------
(* The theorems.                                                               *)

\* Every action keeps the invariant and progresses.
LEMMA NextForward ==
  ASSUME IInv, Next
  PROVE  Forward \/ UNCHANGED vars
<1>1. CASE parseStatement
  BY <1>1, parseStatementForward
<1>2. CASE beginIfStmt
  BY <1>2, beginIfStmtForward
<1>3. CASE endThenPart
  BY <1>3, endThenPartForward
<1>4. CASE endElsePart
  BY <1>4, endElsePartForward
<1>5. CASE beginLoop
  BY <1>5, beginLoopForward
<1>6. CASE endLoop
  BY <1>6, endLoopForward
<1>7. CASE parseBlockStmt
  BY <1>7, parseBlockStmtForward
<1>8. CASE endDeclarePart
  BY <1>8, endDeclarePartForward
<1>9. CASE endBlockStmt
  BY <1>9, endBlockStmtForward
<1>10. CASE parseBlockEnd
  BY <1>10, parseBlockEndForward
<1>11. CASE beginHandlerStmt
  BY <1>11, beginHandlerStmtForward
<1>12. CASE endHandlerStmt
  BY <1>12, endHandlerStmtForward
<1>13. CASE parseDeclarationItem
  BY <1>13, parseDeclarationItemForward
<1>14. CASE endDeclarations
  BY <1>14, endDeclarationsForward
<1>15. CASE endSubroutineBody
  BY <1>15, endSubroutineBodyForward
<1>16. CASE endSubroutineDefinition
  BY <1>16, endSubroutineDefinitionForward
<1>17. CASE parsePackage
  BY <1>17, parsePackageForward
<1>18. CASE parseBasicDeclarativeItem
  BY <1>18, parseBasicDeclarativeItemForward
<1>19. CASE parseBodyItem
  BY <1>19, parseBodyItemForward
<1>20. CASE parseDeclOrDefinition
  BY <1>20, parseDeclOrDefinitionForward
<1>21. CASE beginPackagePrivatePart
  BY <1>21, beginPackagePrivatePartForward
<1>22. CASE endPackage
  BY <1>22, endPackageForward
<1>23. CASE parseContext
  BY <1>23, parseContextForward
<1>24. CASE parseTopLevelEnd
  BY <1>24, parseTopLevelEndForward
<1>25. CASE Finished
  BY <1>25 DEF Finished
<1> QED
  BY <1>1, <1>2, <1>3, <1>4, <1>5, <1>6, <1>7, <1>8, <1>9, <1>10, <1>11, <1>12, <1>13, <1>14,
     <1>15, <1>16, <1>17, <1>18, <1>19, <1>20, <1>21, <1>22, <1>23, <1>24, <1>25 DEF Next

\* A parser that has not begun fits its only routine.
LEMMA InitFits == ASSUME Init PROVE IInv
<1> DEFINE r == Routine("context", NoTag, FALSE)
<1>1. input \in WellFormed \cup Malformed /\ ctl = <<r>>
  BY DEF Init
<1>2. Text
  BY <1>1, ParserAssumption DEF Text
<1>3. st \in ParserStates /\ st.open = <<>>
  <2>1. 1 \in Positions
    BY <1>2, CodeFacts
  <2> QED BY <2>1 DEF Init, ParserStates
<1>4. r \in Routines /\ r.kind = "context"
  <2>1. "context" \in Kinds /\ NoTag \in Ident \cup {NoTag} /\ FALSE \in BOOLEAN
    BY KindFacts
  <2> QED BY <2>1, RoutineFacts
<1> HIDE DEF r
<1>5. <<r>> = Append(<<>>, r) /\ <<>> \in Seq(Routines) /\ Len(<<>>) = 0
  BY <1>4
<1>6. Shaped(<<>>) /\ Placed(Len(<<>>) + 1, r.kind)
  <2>1. Len(<<>>) + 1 = 1 /\ 1..Len(<<>>) = {}
    OBVIOUS
  <2> QED BY <1>4, <1>5, <2>1, KindFacts DEF Shaped
<1>7. st.open = Opens(<<>>) \o ContextsOf(r.kind)
  <2>1. <<>> \o <<>> = <<>>
    OBVIOUS
  <2> QED BY <1>3, <1>4, <2>1, OpensFacts, ContextsFacts
<1>8. ~(Len(<<>>) + 1 > 2)
  OBVIOUS
<1>9. Fits(st, Append(<<>>, r))
  BY <1>3, <1>4, <1>5, <1>6, <1>7, <1>8, FitsAppend
<1> QED BY <1>1, <1>2, <1>5, <1>9 DEF IInv

\* The inductive invariant: whatever the text and whatever the client refuses,
\* the parser state fits the routines under way.
THEOREM StateFits == Spec => []IInv
<1>1. Init => IInv
  BY InitFits
<1>2. IInv /\ [Next]_vars => IInv'
  <2> SUFFICES ASSUME IInv, [Next]_vars PROVE IInv'
    OBVIOUS
  <2>1. CASE Next /\ Forward
    <3>1. Text /\ input' = input /\ Fits(st', ctl')
      BY <2>1 DEF Forward, Advances, IInv
    <3>2. Text'
      BY <3>1 DEF Text
    <3>3. ParserStates' = ParserStates
      BY <3>1 DEF ParserStates, Positions
    <3>4. Fits(st, ctl)'
      BY <3>1, <3>3, Zenon DEF Fits
    <3> QED BY <3>2, <3>4 DEF IInv
  <2>2. CASE UNCHANGED vars
    BY <2>2 DEF vars, IInv, Text, Fits, Positions, ParserStates
  <2> QED BY <2>1, <2>2, NextForward
<1> QED BY <1>1, <1>2, PTL DEF Spec

\* The parser is where the text is, whatever it reads: its position, the stack
\* of end tags and the client's contexts, and the routines under way.
THEOREM TypeCorrect == Spec => []TypeOK
<1>1. IInv => TypeOK
  BY DEF IInv, Fits, Shaped, TypeOK
<1> QED BY <1>1, StateFits, PTL

\* The client's begin and end callbacks are nested like the constructs of the
\* source text, on every path of the parser, error paths included.
THEOREM CallsNest == Spec => []ClientCallsNest
<1>1. IInv => ClientCallsNest
  BY Zenon DEF IInv, Fits, Opens, ClientCallsNest
<1> QED BY <1>1, StateFits, PTL

\* The parser never pops an empty stack of end tags at the end of a subroutine
\* body: the declaration that led into the body has pushed its name.
THEOREM TagsSuffice == Spec => []EndTagAtHand
<1>1. IInv => EndTagAtHand
  <2>1. ASSUME IInv, ctl # <<>>, Top.kind \in Definitions PROVE st.tags # <<>>
    <3>1. Len(Front(ctl)) = 2
      BY <2>1, DefinitionFacts
    <3>2. Len(Front(ctl)) + 1 > 2
      BY <3>1
    <3>3. Len(st.tags) > 0
      BY <2>1, <3>2, Situation
    <3> QED BY <3>3
  <2> QED BY <2>1 DEF EndTagAtHand, Running, Definitions
<1> QED BY <1>1, StateFits, PTL

\* Every step moves on in the text or lessens the work of the routines under
\* way, so that the parser ends for every text.
THEOREM StepsProgress == Spec => EveryStepProgresses
<1>1. ASSUME IInv, Next
      PROVE  \/ st'.pos > st.pos \/ (st'.pos = st.pos /\ Work' < Work)
             \/ UNCHANGED vars
  <2>1. CASE Forward
    <3>1. Work = WorkOf(ctl) /\ Work' = WorkOf(ctl')
      BY WorkFacts, Zenon DEF Work, WorkOf
    <3>2. st.pos < st'.pos \/ (st.pos = st'.pos /\ WorkOf(ctl') < WorkOf(ctl))
      BY <2>1 DEF Forward, Advances
    <3>3. st \in ParserStates /\ Text /\ st' \in ParserStates
      BY <1>1, <2>1 DEF Forward, Advances, IInv, Fits
    <3>4. st.pos \in Nat /\ st'.pos \in Nat
      BY <3>3, StateFacts
    <3> QED BY <3>1, <3>2, <3>4
  <2> QED BY <1>1, <2>1, NextForward
<1>2. IInv /\ [Next]_vars =>
        [st'.pos > st.pos \/ (st'.pos = st.pos /\ Work' < Work)]_vars
  BY <1>1
<1> QED BY <1>2, StateFits, PTL DEF Spec, EveryStepProgresses
=============================================================================
