----------------------------- MODULE Aggregates -----------------------------
(***************************************************************************)
(* Aggregates, from their parentheses to the components they store.         *)
(*                                                                          *)
(* The parser announces the components of an aggregate one by one           *)
(* (ParseExpr.cpp), the type checker collects them on a stack of            *)
(* aggregates and checks the finished one against the type its context      *)
(* expects (CheckAgg.cpp, AggExpr.{h,cpp}), and the code generator stores   *)
(* the components into a destination (CodeGenAgg.cpp, BoundsEmitter.cpp).   *)
(*                                                                          *)
(* An expression is abstracted to its type: scalar, composite, or the       *)
(* diamond that takes any.  The source of a stored component is named by    *)
(* its place in the aggregate: <<"pos", i>>, <<"key", j>> (the j-th key     *)
(* list) or <<"others">>.  Index values are integers; the loops the code    *)
(* generator writes count modulo 2^Width, as the machine integers do.       *)
(***************************************************************************)
EXTENDS Integers, Sequences, FiniteSets, SequencesExt

CONSTANTS
  Width,       \* width in bits of the index type
  DirectName,  \* what an identifier denotes as a direct name: [is, value]
  Family,      \* inputs by family: [nodes, keyLists, contexts, parts], where
               \* parts bounds the components given between the parentheses
  Enumeration, \* character |-> the enumeration types with a literal for it
  InlineLimit, \* choices up to this length are emitted without a loop
  MaxDepth     \* bound: nesting of aggregates

NoExpr == "null"
Expr == {"scalar", "composite", "<>"}

ASSUME AggregateAssumption ==
  /\ Width \in Nat \ {0} /\ InlineLimit \in Nat /\ MaxDepth \in Nat \ {0}
  /\ \A f \in DOMAIN Family : Family[f].nodes \subseteq Expr \cup {"type", "invalid"}

VARIABLES
  family,    \* the member of Family the run draws its inputs from
  open,      \* activations of parseAggregate: [seenKeyed, count]
  held,      \* the node a nested aggregate has returned to its parent
  aggStack,  \* TypeCheck::aggregateStack
  parts,     \* components parsed, bounded by the family's parts
  reported,  \* a diagnostic has been reported
  agg,       \* the finished expression: an aggregate or a string literal
  phase,     \* parse, built, dropped, rejected, resolved, emitted, raised, assert
  context,   \* the type the context expects
  type,      \* the type resolution gives the expression
  dest,      \* the destination: [size, lo, hi]
  stores     \* the stores of components: a sequence of [at, from]

vars == <<family, open, held, aggStack, parts, reported, agg, phase, context,
          type, dest, stores>>

Empty == [pos |-> <<>>, keyed |-> <<>>, others |-> NoExpr]
NoType == [kind |-> "none"]
NoDest == [size |-> 0, lo |-> 1, hi |-> 0]

-----------------------------------------------------------------------------
(***************************************************************************)
(* Keys.  A key is [is, lo, hi, name]: a range, an expression (lo = hi), an *)
(* identifier whose meaning waits for the context, or a type.  `how` tells  *)
(* a literal from another static expression and from a run-time value.      *)
(***************************************************************************)

IsStatic(k) == k.how # "dynamic"
NumKeys(a) == Len(FlattenSeq([i \in DOMAIN a.keyed |-> a.keyed[i].keys]))

\* The keys of an aggregate in order, each with the place of its list.
Keys(a) ==
  FlattenSeq([i \in DOMAIN a.keyed |->
    [j \in DOMAIN a.keyed[i].keys |-> [key |-> a.keyed[i].keys[j], list |-> i]]])

\* Length and emptiness of a range; module StaticRanges has the arithmetic.
Length(lo, hi) == IF hi < lo THEN 0 ELSE hi - lo + 1

numComponents(a) ==
  FoldLeft(LAMBDA n, k : n + (IF k.key.is = "range"
                              THEN Length(k.key.lo, k.key.hi) ELSE 1),
           Len(a.pos), Keys(a))

isPurelyPositional(a) == a.keyed = <<>>
isPurelyKeyed(a) == a.pos = <<>>
hasOthers(a) == a.others # NoExpr

\* std::sort with compareKeysS or compareKeysU: by lower bound.
SortedKeys(ks) == SortSeq(ks, LAMBDA x, y : x.key.lo < y.key.lo)

-----------------------------------------------------------------------------
(***************************************************************************)
(* Parsing, and the bottom-up callbacks.                                    *)
(***************************************************************************)

MaxParts == Family[family].parts
Parsing == phase = "parse" /\ open # <<>>
Top == Last(aggStack)
WithTop(a) == Append(Front(aggStack), a)
Parsed(keyed) ==
  Append(Front(open), [seenKeyed |-> Last(open).seenKeyed \/ keyed,
                       count |-> Last(open).count + 1])

beginAggregate ==
  /\ phase = "parse" /\ held = NoExpr /\ Len(open) < MaxDepth
  /\ open # <<>> => parts < MaxParts
  /\ aggStack' = Append(aggStack, Empty)
  /\ open' = Append(open, [seenKeyed |-> FALSE, count |-> 0])
  /\ UNCHANGED <<family, held, parts, reported, agg, phase, context, type, dest,
                 stores>>

\* A positional component is accepted: what is not an expression is reported,
\* and takes its place as a null pointer.
acceptPositionalAggregateComponent(node) ==
  /\ aggStack' = WithTop([Top EXCEPT !.pos =
                   Append(@, IF node = "type" THEN NoExpr ELSE node)])
  /\ reported' = (reported \/ node = "type")
  /\ open' = Parsed(FALSE)
  /\ UNCHANGED phase

\* A positional component behind a keyed one: parseAggregate returns an invalid
\* node and makes no call of endAggregate.
positionalFollowingKeyed ==
  /\ open' = Front(open)
  /\ reported' = TRUE
  /\ IF Len(open) = 1 THEN phase' = "dropped" ELSE phase' = phase
  /\ UNCHANGED aggStack

\* A component that does not parse: the arrow that must follow a key is missing
\* too, and the component counts as keyed.
invalidComponent ==
  /\ open' = Parsed(TRUE)
  /\ reported' = TRUE
  /\ UNCHANGED <<aggStack, phase>>

Component(node) ==
  \/ node = "invalid" /\ invalidComponent
  \/ node # "invalid" /\ Last(open).seenKeyed /\ positionalFollowingKeyed
  \/ node # "invalid" /\ ~Last(open).seenKeyed /\ acceptPositionalAggregateComponent(node)

\* The node held is what a nested parseAggregate has returned; a dropped one is
\* invalid.
PositionalComponent ==
  /\ Parsing /\ (held # NoExpr \/ parts < MaxParts)
  /\ \E node \in (IF held = NoExpr THEN Family[family].nodes ELSE {held}) :
       Component(node)
  /\ held' = IF Len(open') < Len(open) /\ Len(open) > 1 THEN "invalid" ELSE NoExpr
  /\ parts' = IF held = NoExpr THEN parts + 1 ELSE parts
  /\ UNCHANGED <<family, agg, context, type, dest, stores>>

\* A list of keys and its expression.  Keys that are not discrete types or
\* expressions have been dropped by acceptAggregateKey.
acceptKeyedAggregateComponent(keys, node) ==
  LET valid == SelectSeq(keys, LAMBDA k : k.is # "bad")
      bad == Len(valid) < Len(keys) \/ node \in {"type", "invalid"}
  IN /\ aggStack' = IF node \in Expr /\ valid # <<>>
                    THEN WithTop([Top EXCEPT !.keyed =
                           Append(@, [keys |-> valid, expr |-> node])])
                    ELSE aggStack
     /\ reported' = (reported \/ bad)

KeyedComponent ==
  /\ Parsing /\ held = NoExpr /\ parts < MaxParts
  /\ \E keys \in Family[family].keyLists, node \in Family[family].nodes :
       acceptKeyedAggregateComponent(keys, node)
  /\ open' = Parsed(TRUE)
  /\ parts' = parts + 1
  /\ UNCHANGED <<family, held, agg, phase, context, type, dest, stores>>

\* endAggregate: the top of the stack is the result unless it is empty.
endAggregate(stack, reports) ==
  LET top == Last(stack)
      valid == top # Empty
  IN /\ aggStack' = Front(stack)
     /\ open' = Front(open)
     /\ reported' = reports
     /\ IF Len(open) = 1
        THEN /\ agg' = IF valid THEN top ELSE agg
             /\ phase' = IF valid THEN "built" ELSE "dropped"
             /\ held' = NoExpr
        ELSE /\ held' = IF valid THEN "composite" ELSE "invalid"
             /\ UNCHANGED <<agg, phase>>

\* A single expression in parentheses is no aggregate (aggregateFollows).
Closing ==
  /\ Parsing /\ held = NoExpr
  /\ Last(open).count > 1 \/ Last(open).seenKeyed
  /\ endAggregate(aggStack, reported)
  /\ UNCHANGED <<family, parts, context, type, dest, stores>>

\* `others' ends the aggregate.  An expression that is a type leaves it unset.
acceptAggregateOthers ==
  /\ Parsing /\ held = NoExpr /\ parts < MaxParts
  /\ \E node \in Family[family].nodes :
       endAggregate(IF node \in Expr THEN WithTop([Top EXCEPT !.others = node])
                    ELSE aggStack,
                    reported \/ node \notin Expr)
  /\ parts' = parts + 1
  /\ UNCHANGED <<family, context, type, dest, stores>>

\* A string literal keeps the enumeration types all its characters belong to.
StringTypes(chars) ==
  IF chars = <<>> THEN {}
  ELSE {t \in UNION Range(Enumeration) :
          \A i \in DOMAIN chars : t \in Enumeration[chars[i]]}

acceptStringLiteral ==
  /\ phase = "parse" /\ open = <<>> /\ aggStack = <<>> /\ parts = 0
  /\ \E n \in 0..MaxParts : \E chars \in [1..n -> DOMAIN Enumeration] :
       agg' = [chars |-> chars, types |-> StringTypes(chars)]
  /\ phase' = "built"
  /\ UNCHANGED <<family, open, held, aggStack, parts, reported, context, type,
                 dest, stores>>

-----------------------------------------------------------------------------
(***************************************************************************)
(* Resolution against the expected type.  A check answers "ok", the          *)
(* diagnostic it reports, or "assert" where an assertion of the code fails.  *)
(* An array type is [kind, constraint, lo, hi, comp]: lo and hi constrain    *)
(* the index statically, at run time ("dynamic"), or they are those of the   *)
(* index subtype of an unconstrained array ("none").                         *)
(***************************************************************************)

Refuse(condition, diagnostic) == IF condition THEN diagnostic ELSE "ok"
AndThen(first, second) == IF first = "ok" THEN second ELSE first

\* The first failure of a sequence of checks, and the failure of a sequence all
\* of whose members are tried.
FirstFailure(checks) == FoldLeft(AndThen, "ok", checks)
AnyFailure(checks) ==
  IF "assert" \in Range(checks) THEN "assert" ELSE FirstFailure(checks)

\* checkExprInContext for a component; a null pointer fails an assertion.
checkComponent(e, t) ==
  AndThen(Refuse(e = NoExpr, "assert"), Refuse(e \notin {"<>", t}, "INCOMPATIBLE_TYPES"))

\* A direct name as a key: an object's value is known at run time only.
AsDirectName(k) ==
  IF k.is # "id" THEN k
  ELSE [k EXCEPT !.is = DirectName[k.name].is, !.how = "dynamic",
                 !.lo = DirectName[k.name].value, !.hi = DirectName[k.name].value]
convertAggregateIdentifiers(a) ==
  [a EXCEPT !.keyed = [i \in DOMAIN @ |->
    [@[i] EXCEPT !.keys = [j \in DOMAIN @ |-> AsDirectName(@[j])]]]]

\* resolveIntegerLiteral: a literal outside a static constraint is refused; any
\* other static expression passes, for the conversion around it is static too.
resolveIntegerLiteral(v, k, c) ==
  Refuse(k.how = "literal" /\ c.constraint # "dynamic" /\ v \notin c.lo .. c.hi,
         "VALUE_NOT_IN_RANGE")
resolveKey(k, c) ==
  AndThen(Refuse(k.is = "type", "assert"),
    AndThen(resolveIntegerLiteral(k.lo, k, c), resolveIntegerLiteral(k.hi, k, c)))

checkArrayComponentKeys(l, c) ==
  AndThen(FirstFailure([j \in DOMAIN l.keys |-> resolveKey(l.keys[j], c)]),
          checkComponent(l.expr, c.comp))

checkOthers(a, c) ==
  AndThen(IF hasOthers(a) THEN checkComponent(a.others, c.comp) ELSE "ok",
          Refuse(hasOthers(a) /\ c.constraint = "none", "OTHERS_IN_UNCONSTRAINED_CONTEXT"))

resolvePositionalAggExpr(a, c) ==
  AndThen(AnyFailure([i \in DOMAIN a.pos |-> checkComponent(a.pos[i], c.comp)]),
    AndThen(checkOthers(a, c),
      IF c.constraint # "static" THEN "ok"
      ELSE AndThen(Refuse(Length(c.lo, c.hi) < numComponents(a), "TOO_MANY_ELEMENTS"),
                   Refuse(Length(c.lo, c.hi) > numComponents(a) /\ ~hasOthers(a),
                          "TOO_FEW_ELEMENTS"))))

\* Mutant: the upper bound is off by one.
positionalTypeInclusive(a, c) ==
  IF c.constraint # "none" THEN c
  ELSE [c EXCEPT !.constraint = "static", !.hi = c.lo + Len(a.pos)]

\* The constraint S'First .. S'Val(L - 1); evaluated statically, Val adds First.
positionalType(a, c) ==
  IF c.constraint # "none" THEN c
  ELSE [c EXCEPT !.constraint = "static", !.hi = c.lo + Len(a.pos) - 1]

ensureStaticKeys(ks) ==
  FirstFailure([i \in DOMAIN ks |->
    AndThen(Refuse(ks[i].key.how = "dynamic", "DYNAMIC_CHOICE_NOT_UNIQUE"),
            Refuse(ks[i].key.hi < ks[i].key.lo, "NULL_CHOICE_NOT_UNIQUE"))])

\* Mutant: a key may begin where its neighbour ends.
distinctTouching(ks, requireContinuity) ==
  LET s == SortedKeys(ks)
  IN FirstFailure([i \in 1 .. Len(s) - 1 |->
       AndThen(Refuse(s[i + 1].key.lo < s[i].key.hi, "DUPLICATED_AGGREGATE_COMPONENT"),
               Refuse(requireContinuity /\ s[i].key.hi # s[i + 1].key.lo - 1,
                      "DISCONTINUOUS_CHOICE"))])

\* Neighbours in the order of their lower bounds.
ensureDistinctKeys(ks, requireContinuity) ==
  LET s == SortedKeys(ks)
  IN FirstFailure([i \in 1 .. Len(s) - 1 |->
       AndThen(Refuse(s[i + 1].key.lo <= s[i].key.hi, "DUPLICATED_AGGREGATE_COMPONENT"),
               Refuse(requireContinuity /\ s[i].key.hi # s[i + 1].key.lo - 1,
                      "DISCONTINUOUS_CHOICE"))])

checkMultiplyKeyedAgg(a, c) ==
  AndThen(AndThen(ensureStaticKeys(Keys(a)), ensureDistinctKeys(Keys(a), ~hasOthers(a))),
          checkOthers(a, c))

resolveKeyedAggExpr(a, c) ==
  AndThen(AnyFailure([i \in DOMAIN a.keyed |-> checkArrayComponentKeys(a.keyed[i], c)]),
          IF NumKeys(a) = 1 /\ ~hasOthers(a) THEN "ok" ELSE checkMultiplyKeyedAgg(a, c))

\* In an unconstrained context the keys give the bounds: those of the single
\* key, or of the first and the last in order.
keyedType(a, c) ==
  LET s == SortedKeys(Keys(a))
  IN IF c.constraint # "none" THEN c
     ELSE [c EXCEPT !.constraint = IF IsStatic(s[1].key) THEN "static" ELSE "dynamic",
                    !.lo = s[1].key.lo, !.hi = Last(s).key.hi]

resolveArray(a, c) ==
  AndThen(Refuse(~isPurelyPositional(a) /\ ~isPurelyKeyed(a), "MIXED_ARRAY_AGGREGATE"),
    AndThen(Refuse(\E k \in Range(Keys(a)) : k.key.is = "nothing", "NAME_NOT_VISIBLE"),
      IF isPurelyPositional(a) THEN resolvePositionalAggExpr(a, c)
                               ELSE resolveKeyedAggExpr(a, c)))

\* Records are [kind, names, types]; a component is its position in both.
ComponentNamed(c, name) == {i \in DOMAIN c.names : c.names[i] = name}
Selected(a, c) == UNION {ComponentNamed(c, k.key.name) : k \in Range(Keys(a))}
Needed(a, c) == (DOMAIN c.names \ 1 .. Len(a.pos)) \ Selected(a, c)

checkAggregateSize(a, c) ==
  LET n == Len(a.pos) + NumKeys(a)
  IN AndThen(Refuse(n > Len(c.names), "TOO_MANY_ELEMENTS"),
             Refuse(n < Len(c.names) /\ ~hasOthers(a), "TOO_FEW_ELEMENTS"))

checkPositionalComponents(a, c) ==
  AnyFailure([i \in DOMAIN a.pos |-> checkComponent(a.pos[i], c.types[i])])

\* Mutant: selectors are not compared with each other.
keysNamedOnly(a, c) ==
  FirstFailure([i \in DOMAIN Keys(a) |->
    Refuse(ComponentNamed(c, Keys(a)[i].key.name) = {}, "INVALID_RECORD_SELECTOR")])

\* Each key names a component, none that an earlier key or a position covers.
checkKeyConsistency(a, c) ==
  LET name(i) == Keys(a)[i].key.name
  IN FirstFailure([i \in DOMAIN Keys(a) |->
       AndThen(Refuse(ComponentNamed(c, name(i)) = {}, "INVALID_RECORD_SELECTOR"),
         AndThen(Refuse(ComponentNamed(c, name(i)) \cap 1 .. Len(a.pos) # {},
                        "COMPONENT_COVERED_POSITIONALLY"),
                 Refuse(\E j \in 1 .. i - 1 : name(j) = name(i),
                        "DUPLICATED_AGGREGATE_COMPONENT")))])

\* The components that share an expression have one type, which it fits.
SharedExpr(e, components, c) ==
  LET types == {c.types[i] : i \in components}
  IN AndThen(Refuse(Cardinality(types) > 1, "INCONSISTENT_RECORD_COMPONENT_SELECTORS"),
             Refuse(e # "<>" /\ types \cap {e} # types, "INCOMPATIBLE_TYPES"))
checkKeyTypes(a, c) ==
  FirstFailure([i \in DOMAIN a.keyed |->
    SharedExpr(a.keyed[i].expr,
               UNION {ComponentNamed(c, k.name) : k \in Range(a.keyed[i].keys)}, c)])
checkOthersComponents(a, c) ==
  IF hasOthers(a) THEN SharedExpr(a.others, Needed(a, c), c) ELSE "ok"

resolveRecord(a, c) ==
  AndThen(Refuse(\E k \in Range(Keys(a)) : k.key.is # "id", "INVALID_RECORD_SELECTOR"),
    AndThen(checkAggregateSize(a, c),
      AndThen(checkPositionalComponents(a, c),
        AndThen(checkKeyConsistency(a, c),
          AndThen(checkKeyTypes(a, c), checkOthersComponents(a, c))))))

\* String literals.  A constraint known only at run time has no static length.
IsString(e) == "chars" \in DOMAIN e
StringFits(e, c) == Len(e.chars) - 1 <= (c.hi - c.lo) % 2^Width
resolveStringLiteral(e, c) ==
  AndThen(Refuse(c.kind # "array", "INCOMPATIBLE_TYPES"),
  AndThen(Refuse(c.comp \notin UNION Range(Enumeration), "INCOMPATIBLE_TYPES"),
  AndThen(Refuse(c.constraint = "none" /\ e.chars = <<>>, "assert"),
  AndThen(Refuse(c.constraint = "none" /\ ~StringFits(e, c), "TOO_MANY_ELEMENTS"),
  AndThen(Refuse(c.comp \notin e.types, "STRING_COMPONENTS_DO_NOT_SATISFY"),
  AndThen(Refuse(c.constraint = "dynamic", "assert"),
          Refuse(c.constraint = "static" /\ Length(c.lo, c.hi) # Len(e.chars),
                 "WRONG_NUMBER_OF_ELEMENTS")))))))
stringType(e, c) ==
  IF c.constraint # "none" THEN c
  ELSE [c EXCEPT !.constraint = "static", !.hi = c.lo + Len(e.chars) - 1]

\* checkExprInContext, for aggregates and string literals.
Resolution(e, c) ==
  CASE IsString(e) -> resolveStringLiteral(e, c)
    [] ~IsString(e) /\ c.kind = "array" -> resolveArray(e, c)
    [] ~IsString(e) /\ c.kind = "record" -> resolveRecord(e, c)
    [] OTHER -> "INVALID_CONTEXT_FOR_AGGREGATE"
ResolvedType(e, c) ==
  CASE IsString(e) -> stringType(e, c)
    [] c.kind = "record" -> c
    [] isPurelyPositional(e) -> positionalType(e, c)
    [] OTHER -> keyedType(e, c)

Resolve ==
  /\ phase = "built"
  /\ \E c \in Family[family].contexts :
     \E e \in {IF ~IsString(agg) /\ c.kind = "array"
               THEN convertAggregateIdentifiers(agg) ELSE agg} :
     \E verdict \in {Resolution(e, c)} :
       /\ context' = c
       /\ agg' = e
       /\ type' = IF verdict = "ok" THEN ResolvedType(e, c) ELSE type
       /\ phase' = CASE verdict = "ok" -> "resolved"
                     [] verdict = "assert" -> "assert"
                     [] OTHER -> "rejected"
       /\ reported' = (reported \/ verdict \notin {"ok", "assert"})
  /\ UNCHANGED <<family, open, held, aggStack, parts, dest, stores>>

-----------------------------------------------------------------------------
(***************************************************************************)
(* Emission.  Code is generated only for a unit without diagnostics.         *)
(***************************************************************************)

\* Index arithmetic, and the lengths that computeBoundLength widens it to.
Wrap(n) == n % 2^Width
WrapLength(n) == n % 2^(Width + 1)
Store(at, source) == [at |-> at, from |-> source]

\* The loop of emitOthers: from start up to the sentinel, less the bias.
emitLoop(start, end, bias, source) ==
  [i \in 1 .. Wrap(end - start) |-> Store(Wrap(start - bias + i - 1), source)]

\* Short choices are emitted inline, longer ones by the loop.
emitDiscreteComponent(k, bias) ==
  LET n == Length(k.key.lo, k.key.hi)
      source == <<"key", k.list>>
  IN IF n <= InlineLimit
     THEN [i \in 1 .. n |-> Store(Wrap(k.key.lo - bias + i - 1), source)]
     ELSE emitLoop(k.key.lo, k.key.lo + Wrap(n), bias, source)

fillInOthers(a, lo, hi) ==
  LET s == SortedKeys(Keys(a))
      others == <<"others">>
      leading == emitLoop(lo, s[1].key.lo, lo, others)
      hole(i) == emitLoop(s[i].key.hi + 1, s[i + 1].key.lo, lo, others)
      trailing == emitLoop(Last(s).key.hi + 1, hi + 1, lo, others)
  IN IF ~hasOthers(a) THEN <<>>
     ELSE leading \o FlattenSeq([i \in 1 .. Len(s) - 1 |-> hole(i)]) \o trailing

emitStaticKeyedAgg(a, lo, hi) ==
  FlattenSeq([i \in DOMAIN Keys(a) |-> emitDiscreteComponent(Keys(a)[i], lo)])
    \o fillInOthers(a, lo, hi)

\* The number of components given to emitOthers is the size of a vector that
\* nothing is added to: it is always zero.
emitPositionalOthers(numEmitted, lo, hi) ==
  LET first == IF numEmitted = 0 THEN <<Store(0, <<"others">>)>> ELSE <<>>
      from == IF numEmitted = 0 THEN 1 ELSE numEmitted
  IN first \o emitLoop(from, Wrap(hi - lo) + 1, 0, <<"others">>)
emitPositionalAgg(a, lo, hi) ==
  [i \in DOMAIN a.pos |-> Store(i - 1, <<"pos", i>>)]
    \o (IF hasOthers(a) THEN emitPositionalOthers(0, lo, hi) ELSE <<>>)

\* A key that is known at run time only is the single one.  The loop over a
\* range compares with its length as an unsigned number.
emitDynamicKeyedAgg(k) ==
  LET n == IF k.is = "range" THEN WrapLength(k.hi - k.lo + 1) ELSE 1
  IN [i \in 1 .. n |-> Store(i - 1, <<"key", 1>>)]

\* Evaluating a key converts it to the index type, with a range check; the
\* bounds of a static range are constants and are not evaluated.
Evaluated(a) == {k.key : k \in {k \in Range(Keys(a)) : k.key.is = "expr" \/ ~IsStatic(k.key)}}
ChecksFail(a, c) ==
  \E k \in Evaluated(a) : {k.lo, k.hi} \ (c.lo .. c.hi) # {}

\* RecordEmitter: positions, keys, then what is left.
emitRecord(a, c) ==
  LET keyed == FlattenSeq([i \in DOMAIN Keys(a) |->
                 SetToSeq({Store(j, <<"key", Keys(a)[i].list>>) :
                             j \in ComponentNamed(c, Keys(a)[i].key.name)})])
      others == SetToSeq({Store(i, <<"others">>) : i \in Needed(a, c)})
  IN [i \in DOMAIN a.pos |-> Store(i, <<"pos", i>>)] \o keyed
       \o (IF hasOthers(a) THEN others ELSE <<>>)

FirstKey(a) == a.keyed[1].keys[1]
Emission(e, c, t) ==
  CASE IsString(e) -> [i \in DOMAIN e.chars |-> Store(i - 1, <<"char", i>>)]
    [] ~IsString(e) /\ c.kind = "record" -> emitRecord(e, c)
    [] ~IsString(e) /\ c.kind = "array" /\ isPurelyPositional(e)
         -> emitPositionalAgg(e, t.lo, t.hi)
    [] OTHER -> IF IsStatic(FirstKey(e)) THEN emitStaticKeyedAgg(e, t.lo, t.hi)
                                         ELSE emitDynamicKeyedAgg(FirstKey(e))

\* The object takes the destination of its static type, or the temporary that
\* allocArray sizes by the bounds; an allocator sizes the destination by the
\* type in either case.  The bounds are those the emission returns.
RangeKeyed(e) ==
  ~IsString(e) /\ e.keyed # <<>> /\ ~IsStatic(FirstKey(e)) /\ FirstKey(e).is = "range"
Destination(e, c, t, target) ==
  IF c.kind = "record" THEN [size |-> Len(c.names), lo |-> 1, hi |-> Len(c.names)]
  ELSE IF RangeKeyed(e) /\ target = "object"
       THEN [size |-> IF c.constraint = "static" THEN Length(t.lo, t.hi)
                      ELSE WrapLength(FirstKey(e).hi - FirstKey(e).lo + 1),
             lo |-> FirstKey(e).lo, hi |-> FirstKey(e).hi]
       ELSE [size |-> IF t.constraint = "static" THEN Length(t.lo, t.hi)
                      ELSE WrapLength(t.hi - t.lo + 1),
             lo |-> t.lo, hi |-> t.hi]

\* synthAggregateBounds needs static bounds for a positional aggregate.
BoundsAssert(e, c, t) ==
  ~IsString(e) /\ c.kind = "array" /\ isPurelyPositional(e) /\ t.constraint # "static"

Emit ==
  /\ phase = "resolved" /\ ~reported
  /\ \E target \in {"object", "allocator"} :
       IF BoundsAssert(agg, context, type)
       THEN phase' = "assert" /\ UNCHANGED <<dest, stores>>
       ELSE IF ~IsString(agg) /\ context.kind = "array" /\ ChecksFail(agg, context)
       THEN phase' = "raised" /\ UNCHANGED <<dest, stores>>
       ELSE /\ phase' = "emitted"
            /\ dest' = Destination(agg, context, type, target)
            /\ stores' = Emission(agg, context, type)
  /\ UNCHANGED <<family, open, held, aggStack, parts, reported, agg, context, type>>

-----------------------------------------------------------------------------

Init ==
  /\ family \in DOMAIN Family
  /\ open = <<>> /\ held = NoExpr /\ aggStack = <<>> /\ parts = 0
  /\ reported = FALSE /\ agg = Empty /\ phase = "parse"
  /\ context = NoType /\ type = NoType /\ dest = NoDest /\ stores = <<>>

Next ==
  \/ beginAggregate
  \/ PositionalComponent
  \/ KeyedComponent
  \/ acceptAggregateOthers
  \/ Closing
  \/ acceptStringLiteral
  \/ Resolve
  \/ Emit

Spec == Init /\ [][Next]_vars
-----------------------------------------------------------------------------
(***************************************************************************)
(* Properties.                                                              *)
(***************************************************************************)

\* The stores into a component, in order.
StoresAt(i) == SelectSeq(stores, LAMBDA w : w.at = i)
StoredOnce(i, source) == StoresAt(i) = <<Store(i, source)>>

\* The generated code is about a keyed aggregate of an array whose keys are
\* static, lie within its bounds, and do not span the whole index type.
StaticKeyed ==
  /\ phase = "emitted" /\ ~IsString(agg) /\ context.kind = "array" /\ agg.keyed # <<>>
  /\ \A k \in Range(Keys(agg)) :
       /\ IsStatic(k.key) /\ Length(k.key.lo, k.key.hi) < 2^Width
       /\ k.key.lo .. k.key.hi \subseteq dest.lo .. dest.hi

\* CodeGenAgg.cpp, fillInOthers and emitDiscreteComponent: the component of each
\* index that a key covers is stored once, from that key's expression, every
\* other one of the array once from `others' if there is one, and nothing is
\* stored outside, whatever the order in which the source gives the keys.
KeyedComponentsStoredOnce ==
  StaticKeyed =>
    /\ \A i \in dest.lo .. dest.hi :
         LET covering == {k \in Range(Keys(agg)) : i \in k.key.lo .. k.key.hi}
         IN IF covering # {} THEN \E k \in covering : StoredOnce(i - dest.lo, <<"key", k.list>>)
            ELSE IF hasOthers(agg) THEN StoredOnce(i - dest.lo, <<"others">>)
            ELSE StoresAt(i - dest.lo) = <<>>
    /\ \A w \in Range(stores) : w.at < dest.size

\* CheckAgg.cpp, RecordAggChecker: an aggregate accepted for a record stores each
\* component once, from an expression of the component's type, although sizes,
\* positions, selectors and `others' are checked one after the other.
ExprFrom(source) ==
  CASE source[1] = "pos" -> agg.pos[source[2]]
    [] source[1] = "key" -> agg.keyed[source[2]].expr
    [] OTHER -> agg.others
RecordComponentsStoredOnce ==
  phase = "emitted" /\ context.kind = "record" =>
    /\ Len(stores) = dest.size
    /\ \A i \in 1 .. dest.size :
         \E w \in Range(stores) :
            w.at = i /\ ExprFrom(w.from) \in {"<>", context.types[i]}

\* CheckAgg.cpp, the subtypes made for an unconstrained context: the bounds have
\* as many indices as the aggregate or the string stores components, and the
\* stores fill the destination from its first component to its last.
UnconstrainedBoundsFit ==
  phase = "emitted" /\ context.kind = "array" /\ context.constraint = "none"
    /\ dest.hi >= dest.lo - 1 /\ Length(dest.lo, dest.hi) < 2^Width =>
    /\ dest.size = Length(dest.lo, dest.hi)
    /\ Len(stores) = dest.size
    /\ {w.at : w \in Range(stores)} = 0 .. dest.size - 1

\* CodeGenAgg.cpp:651, "If there were no positional components emitted, emit a
\* single others expression": the components given by position keep their values.
PositionalComponentsKept ==
  phase = "emitted" /\ ~IsString(agg) /\ context.kind = "array" =>
    \A i \in DOMAIN agg.pos : StoredOnce(i - 1, <<"pos", i>>)
=============================================================================
