------------------------------ MODULE Overloads ------------------------------
(***************************************************************************)
(* The resolution of overloaded names: CheckCall.cpp and SubroutineCall.cpp *)
(* with the parts of CheckName.cpp, CheckExpr.cpp, TypeCheck.cpp, Expr.cpp  *)
(* and Ast.cpp they use.  The parser delivers an expression bottom up, one *)
(* callback per operand or name; calls keep every declaration that may be   *)
(* meant.  When the expression is complete, its context decides top down.   *)
(*                                                                         *)
(* The reference is the set of all meanings of an expression, each of them *)
(* one choice of declarations that makes the whole of it well typed.        *)
(*                                                                         *)
(* Aggregates, strings, allocators, attributes and private types are left   *)
(* out, and literals are in range: Aggregates and StaticRanges are about    *)
(* them.                                                                    *)
(***************************************************************************)
EXTENDS Integers, Sequences, FiniteSets

CONSTANTS Types,    \* type -> its class, root, constraint, target, index, components
          Programs  \* what an expression may be written with

\* An object or a formal parameter has a name, a type and may be a variable.
\* A subroutine has a name and parameters with key, type and mode; a function
\* has a return type; "primitive" marks the operators of root_integer.
VARIABLES program,  \* the declarations in scope
          stack,    \* the operands delivered so far: source and node
          outcome,  \* "open", "accepted", "rejected" or "asserts"
          source,   \* the expression that outcome is about
          context,  \* the type or classification it was checked against
          result    \* the resolved tree

vars == <<program, stack, outcome, source, context, result>>

Universal == "universal_integer"
NoType    == "none"
NoContext == "nothing"

Class(t) == IF t \in DOMAIN Types THEN Types[t].class ELSE t
Root(t)  == IF t \in DOMAIN Types THEN Types[t].root ELSE t

---------------------------------------------------------------------------
(* Trees.  keys[i] is "" if argument i is positional.                        *)

Node(kind, what, type, args) ==
  [kind |-> kind, what |-> what, type |-> type, args |-> args,
   decls |-> {}, keys |-> <<>>]

Named(name) == [name |-> name]
Nothing     == Named("")

\* What a routine of the checker returns instead of a node.
Rejected == Node("rejected", Nothing, NoType, <<>>)
Asserts  == Node("asserts", Nothing, NoType, <<>>)
Bad(n)   == n \in {Rejected, Asserts}

hasType(n)         == n.type # NoType
hasResolvedType(n) == n.type \notin {NoType, Universal}
isAmbiguous(n)     == Cardinality(n.decls) > 1

\* The first node of a loop that stops at the first bad one.
FirstBad(nodes) ==
  LET bad == {i \in DOMAIN nodes : Bad(nodes[i])}
  IN  nodes[CHOOSE i \in bad : \A j \in bad : i <= j]
SomeBad(nodes) == \E i \in DOMAIN nodes : Bad(nodes[i])

\* What a loop that goes on behind a bad node comes to.
WorstOf(nodes) ==
  IF \E i \in DOMAIN nodes : nodes[i] = Asserts THEN Asserts ELSE Rejected

---------------------------------------------------------------------------
(* Types.                                                                   *)

\* isUniversalTypeOf looks at its argument only, so that universal_integer
\* covers, and is covered by, every type.
covers(a, b) == a = b \/ Universal \in {a, b} \/ Root(a) = Root(b)

memberOf(t, class) ==
  CASE class = "integer"  -> Class(t) = "integer" \/ t = Universal
    [] class = "discrete" -> Class(t) \in {"integer", "enum"}
    [] OTHER              -> Class(t) = class

conversionRequired(s, t) ==
  /\ s # t
  /\ \/ s = Universal
     \/ t # Root(s) /\ ~(Root(s) = Root(t) /\ ~Types[t].constrained)

convertIfNeeded(n, t) ==
  IF conversionRequired(n.type, t) THEN Node("implicit convert", Nothing, t, <<n>>) ELSE n

\* Access types do not point at themselves here, so the walk has a last type.
Targets[t \in DOMAIN Types] ==
  IF Class(t) # "access" THEN <<>> ELSE <<Types[t].target>> \o Targets[Types[t].target]

Dereferenced(n) == Node("implicit deref", Nothing, Types[n.type].target, <<n>>)
RECURSIVE DereferencedUntil(_, _)
DereferencedUntil(n, good) ==
  IF n.type \in good THEN n ELSE DereferencedUntil(Dereferenced(n), good)

\* The node, dereferenced as often as it takes to have a type of the set.
implicitlyDereference(n, good) ==
  DereferencedUntil(Dereferenced(n), good)

getCoveringDereference(t, good) ==
  t \in DOMAIN Types /\ \E i \in DOMAIN Targets[t] : Targets[t][i] \in good

Covered(context_) == {t \in DOMAIN Types : covers(t, context_)}
OfClass(class)    == {t \in DOMAIN Types : memberOf(t, class)}

---------------------------------------------------------------------------
(* Nodes as names and as variables.                                         *)

denotesName(n) ==
  \/ n.kind \in {"ref", "select", "index", "convert", "implicit convert", "deref", "implicit deref"}
  \/ n.kind = "call" /\ (isAmbiguous(n) \/ ~n.what.operator)

RECURSIVE isMutable(_)
isMutable(n) ==
  \/ n.kind = "ref" /\ n.what.variable
  \/ n.kind \in {"select", "index", "deref", "implicit deref"} /\ isMutable(n.args[1])

checkExprAndDereferenceInContext(n, t) ==
  IF covers(n.type, t) THEN convertIfNeeded(n, t)
  ELSE IF getCoveringDereference(n.type, Covered(t)) /\ denotesName(n)
       THEN convertIfNeeded(implicitlyDereference(n, Covered(t)), t)
       ELSE Rejected

---------------------------------------------------------------------------
(* Calls.                                                                   *)

Arity(d) == Len(d.params)
keepSubroutinesWithArity(decls, n) == {d \in decls : Arity(d) = n}

KeywordIndices(d, key) == {i \in 1..Arity(d) : d.params[i].key = key}
Positional(keys) == {i \in DOMAIN keys : keys[i] = ""}

\* The parameter that argument i goes to.
Target(d, keys, i) ==
  IF keys[i] = "" THEN i ELSE CHOOSE p \in KeywordIndices(d, keys[i]) : TRUE

routineAcceptsKeywords(d, keys) ==
  \A i \in DOMAIN keys \ Positional(keys) :
    \E p \in KeywordIndices(d, keys[i]) : p > Cardinality(Positional(keys))

DuplicateKeywords(keys) ==
  \E i, j \in DOMAIN keys \ Positional(keys) : i # j /\ keys[i] = keys[j]

\* Mutant: keyed arguments stay in the order they are written in.
propagateInSourceOrder(d, args, keys) == args

\* The arguments in the order of the parameters.
propagateKeyedArguments(d, args, keys) ==
  [p \in 1..Arity(d) |-> args[CHOOSE i \in DOMAIN args : Target(d, keys, i) = p]]

UnresolvedCall(decls, args, keys) ==
  [Node("call", Nothing, NoType, args) EXCEPT !.decls = decls, !.keys = keys]

ResolvedCall(d, args) ==
  [Node("call", d, d.ret, args) EXCEPT !.decls = {d}]

makeSubroutineCall(decls, args, keys) ==
  IF Cardinality(decls) = 1
  THEN LET d == CHOOSE d \in decls : TRUE
       IN  ResolvedCall(d, propagateKeyedArguments(d, args, keys))
  ELSE UnresolvedCall(decls, args, keys)

\* Mutant: an overloaded argument must suit in all of its interpretations.
everyInterpretationApplicable(n, t) ==
  CASE hasResolvedType(n) -> covers(n.type, t)
    [] n.type = Universal -> Class(t) = "integer"
    [] n.kind = "null"    -> Class(t) = "access"
    [] n.kind = "call"    -> \A d \in n.decls : covers(d.ret, t)
    [] OTHER              -> FALSE

\* Whether an argument may be meant for a parameter of the type.  Only calls
\* are expected among the arguments without a type (see Unprepared).
checkApplicableArgument(n, t) ==
  CASE hasResolvedType(n) -> covers(n.type, t)
    [] n.type = Universal -> Class(t) = "integer"
    [] n.kind = "null"    -> Class(t) = "access"
    [] n.kind = "call"    -> \E d \in n.decls : covers(d.ret, t)
    [] OTHER              -> FALSE

routineAcceptsArgs(d, args, keys) ==
  \A i \in DOMAIN args : checkApplicableArgument(args[i], d.params[Target(d, keys, i)].type)

\* An argument without a type that is not a call reaches a cast to a call,
\* unless an argument before it has already ruled the declaration out.
BadCast(d, args, keys) ==
  \E i \in DOMAIN args :
    /\ ~hasType(args[i]) /\ args[i].kind \notin {"null", "call"}
    /\ \A j \in 1..i - 1 :
         checkApplicableArgument(args[j], d.params[Target(d, keys, j)].type)

resolvePreferredOperator(decls) == {d \in decls : d.primitive}

resolvePreferredConnective(decls) ==
  IF Cardinality(decls) = 1 THEN decls ELSE resolvePreferredOperator(decls)

RECURSIVE checkExprInContext(_, _)

checkSubroutineArgument(n, param) ==
  IF param.mode # "in" /\ ~isMutable(n) THEN Rejected ELSE checkExprInContext(n, param.type)

\* A call whose connective has just been resolved: its arguments are checked
\* to the end, and converted.
checkSubroutineCallArguments(d, args) ==
  LET checked == [p \in DOMAIN args |-> checkSubroutineArgument(args[p], d.params[p])]
  IN  IF SomeBad(checked) THEN WorstOf(checked)
      ELSE ResolvedCall(d, [p \in DOMAIN args |-> convertIfNeeded(checked[p], d.params[p].type)])

resolveConnective(n, d) ==
  IF DuplicateKeywords(n.keys) THEN Asserts
  ELSE checkSubroutineCallArguments(d, propagateKeyedArguments(d, n.args, n.keys))

ResolveAmong(n, decls) ==
  LET preferred == resolvePreferredConnective(decls)
  IN  IF preferred = {} THEN Rejected ELSE resolveConnective(n, CHOOSE d \in preferred : TRUE)

\* resolveFunctionCall with a target type, ...
resolveFunctionCall(n, t) ==
  IF ~isAmbiguous(n) THEN checkExprAndDereferenceInContext(n, t)
  ELSE LET call == ResolveAmong(n, {d \in n.decls : covers(d.ret, t)})
       IN  IF Bad(call) THEN call ELSE convertIfNeeded(call, t)

\* ... with a classification, ...
resolveFunctionCallInClass(n, class) ==
  IF ~isAmbiguous(n) THEN IF memberOf(n.type, class) THEN n ELSE Rejected
  ELSE ResolveAmong(n, {d \in n.decls : memberOf(d.ret, class)})

\* ... and as the prefix of a selected component.
resolveFunctionCallForSelector(n, selector, t) ==
  LET decls == {d \in n.decls : /\ Class(d.ret) = "record"
                                /\ selector \in DOMAIN Types[d.ret].components
                                /\ covers(Types[d.ret].components[selector], t)}
  IN  IF Cardinality(decls) # 1 THEN Rejected ELSE resolveConnective(n, CHOOSE d \in decls : TRUE)

resolveSelectedExpr(n, t) ==
  IF hasResolvedType(n) THEN checkExprAndDereferenceInContext(n, t)
  ELSE IF n.args[1].kind # "call" THEN Asserts
  ELSE LET prefix == resolveFunctionCallForSelector(n.args[1], n.what.name, t)
       IN  IF Bad(prefix) THEN prefix
           ELSE convertIfNeeded(Node("select", n.what, Types[prefix.type].components[n.what.name],
                                     <<prefix>>), t)

checkExprInContext(n, t) ==
  CASE n.kind = "call"    -> resolveFunctionCall(n, t)
    [] n.kind = "literal" -> IF Class(t) = "integer" THEN [n EXCEPT !.type = t] ELSE Rejected
    [] n.kind = "null"    -> IF Class(t) = "access" THEN [n EXCEPT !.type = t] ELSE Rejected
    [] n.kind = "select"  -> resolveSelectedExpr(n, t)
    [] OTHER              -> IF hasResolvedType(n) THEN checkExprAndDereferenceInContext(n, t)
                             ELSE Asserts

RootInteger == CHOOSE t \in DOMAIN Types : t = "root_integer"

checkExprInClass(n, class) ==
  CASE n.kind = "call"    -> resolveFunctionCallInClass(n, class)
    [] n.kind = "literal" -> IF memberOf(RootInteger, class)
                             THEN [n EXCEPT !.type = RootInteger] ELSE Rejected
    [] OTHER              -> IF ~hasType(n) THEN Asserts
                             ELSE IF memberOf(n.type, class) THEN n ELSE Rejected

---------------------------------------------------------------------------
(* The checks of a call when it is met.                                     *)

\* One candidate: all that can be wrong is reported here.
checkSubroutineCall(d, args, keys) ==
  LET numPositional == Cardinality(Positional(keys))
      KeyedOK(i) == /\ \E p \in KeywordIndices(d, keys[i]) : p > numPositional
                    /\ \A j \in 1..i - 1 : keys[j] # keys[i]
      checked == [i \in DOMAIN args |->
                    IF keys[i] # "" /\ ~KeyedOK(i) THEN Rejected
                    ELSE checkSubroutineArgument(args[i], d.params[Target(d, keys, i)])]
  IN  IF SomeBad(checked) THEN FirstBad(checked)
      ELSE makeSubroutineCall({d},
             [i \in DOMAIN args |-> convertIfNeeded(checked[i], d.params[Target(d, keys, i)].type)],
             keys)

\* Several: those that cannot be meant are dropped, and the call waits for its
\* context if more than one is left.
acceptSubroutineCall(decls, args, keys) ==
  IF Cardinality(decls) = 1 THEN checkSubroutineCall(CHOOSE d \in decls : TRUE, args, keys)
  ELSE LET keyed == {d \in decls : routineAcceptsKeywords(d, keys)}
           left  == {d \in keyed : routineAcceptsArgs(d, args, keys)}
       IN  CASE \E d \in keyed : BadCast(d, args, keys) -> Asserts
             [] left = {}                    -> Rejected
             [] Cardinality(left) = 1        -> checkSubroutineCall(CHOOSE d \in left : TRUE, args, keys)
             [] \E d \in left : d.procedure  -> Rejected
             [] OTHER                        -> makeSubroutineCall(left, args, keys)

Indexed(prefix, index) ==
  Node("index", Nothing, IF hasType(prefix) THEN Types[prefix.type].component ELSE NoType,
       <<prefix, index>>)

\* Arrays have one index.
acceptIndexedArray(prefix, index) ==
  IF ~hasResolvedType(prefix) THEN Indexed(prefix, index)
  ELSE LET isArray == Class(prefix.type) = "array"
           array == IF isArray \/ ~getCoveringDereference(prefix.type, OfClass("array"))
                    THEN prefix ELSE implicitlyDereference(prefix, OfClass("array"))
       IN  IF Class(array.type) # "array" THEN Rejected
           ELSE LET i == checkExprInContext(index, Types[array.type].index)
                IN  IF Bad(i) THEN i ELSE Indexed(array, i)

\* A name of functions with one positional argument may also be a call without
\* arguments, indexed; that is only looked at if no function has one parameter.
acceptSubroutineApplication(decls, args, keys) ==
  LET suited == keepSubroutinesWithArity(decls, Len(args))
      interps == {d \in decls : ~d.procedure /\ Arity(d) = 0 /\ Class(d.ret) = "array"}
  IN  IF suited # {} THEN acceptSubroutineCall(suited, args, keys)
      ELSE IF interps # {} /\ keys = <<"">>
           THEN acceptIndexedArray(makeSubroutineCall(interps, <<>>, <<>>), args[1])
           ELSE Rejected

finishSubroutineRef(decls) ==
  LET nullary == keepSubroutinesWithArity(decls, 0)
  IN  IF nullary = {} \/ (Cardinality(nullary) > 1 /\ \E d \in nullary : d.procedure)
      THEN Rejected ELSE makeSubroutineCall(nullary, <<>>, <<>>)

processSelectedComponent(prefix, name) ==
  IF ~hasResolvedType(prefix) THEN Node("select", Named(name), NoType, <<prefix>>)
  ELSE LET isRecord == Class(prefix.type) = "record"
           record == IF isRecord \/ ~getCoveringDereference(prefix.type, OfClass("record"))
                     THEN prefix ELSE implicitlyDereference(prefix, OfClass("record"))
       IN  IF Class(record.type) # "record" \/ name \notin DOMAIN Types[record.type].components
           THEN Rejected
           ELSE Node("select", Named(name), Types[record.type].components[name], <<record>>)

convertExpr(n, t) ==
  IF /\ hasType(n)
     /\ \/ covers(n.type, t)
        \/ Class(n.type) = "integer" /\ Class(t) = "integer"
        \/ Class(n.type) = "access" /\ Class(t) = "access"
  THEN Node("convert", Nothing, t, <<n>>) ELSE Rejected

dereferenceExpr(n) ==
  LET prefix == checkExprInClass(n, "access")
  IN  IF Bad(prefix) THEN prefix ELSE Node("deref", Nothing, Types[prefix.type].target, <<prefix>>)

qualifyExpr(n, t) ==
  LET operand == checkExprInContext(n, t)
  IN  IF Bad(operand) THEN operand ELSE Node("qualify", Nothing, t, <<operand>>)

---------------------------------------------------------------------------
(* All meanings of an expression.  A meaning is a tree like a resolved node, *)
(* without conversions and dereferences that are not written.               *)

Source(op, name, keys, args) == [op |-> op, name |-> name, keys |-> keys, args |-> args]
Meaning(kind, what, type, args) == [kind |-> kind, what |-> what, type |-> type, args |-> args]
AnyAccess == "null"

IsName(m) ==
  \/ m.kind \in {"ref", "select", "index", "convert", "deref"}
  \/ m.kind = "call" /\ ~m.what.operator

\* The types a meaning can have, through implicit dereferences if deref.
Views(m, deref) ==
  {m.type} \cup (IF deref /\ IsName(m) /\ m.type \in DOMAIN Types
                 THEN {Targets[m.type][i] : i \in DOMAIN Targets[m.type]} ELSE {})

Fits(m, t, deref) ==
  \/ m.type = Universal /\ Class(t) = "integer"
  \/ m.type = AnyAccess /\ Class(t) = "access"
  \/ \E v \in Views(m, deref) : v \in DOMAIN Types /\ Root(v) = Root(t)

\* Argument i goes to parameter to[i].
Assignments(d, keys) ==
  {to \in [DOMAIN keys -> 1..Arity(d)] :
     /\ \A i, j \in DOMAIN keys : to[i] = to[j] => i = j
     /\ \A i \in DOMAIN keys : IF keys[i] = "" THEN to[i] = i ELSE d.params[to[i]].key = keys[i]}

RECURSIVE Meanings(_, _)
CallsOf(d, keys, operands, deref) ==
  UNION {{Meaning("call", d, d.ret, f) :
            f \in {f \in [1..Arity(d) -> UNION {operands[i] : i \in DOMAIN operands}] :
                     \A i \in DOMAIN to : /\ f[to[i]] \in operands[i]
                                         /\ Fits(f[to[i]], d.params[to[i]].type, deref)}} :
         to \in Assignments(d, keys)}
CallMeanings(s, deref) ==
  UNION {UNION {CallsOf(d, s.keys, operands, deref) :
                  d \in {d \in program.decls : d.name = s.name /\ Arity(d) = Len(s.args)}} :
         operands \in {[i \in DOMAIN s.args |-> Meanings(s.args[i], deref)]}}

IndexMeanings(prefixes, indices, deref) ==
  {Meaning("index", Nothing, Types[p[2]].component, <<p[1], i>>) :
     p \in {<<m, v>> \in prefixes \X DOMAIN Types : v \in Views(m, deref) /\ Class(v) = "array"},
     i \in indices}

Meanings(s, deref) ==
  LET Operand == Meanings(s.args[1], deref)
  IN CASE s.op = "literal" -> {Meaning("literal", Nothing, Universal, <<>>)}
       [] s.op = "null"    -> {Meaning("null", Nothing, AnyAccess, <<>>)}
       [] s.op = "ref"     -> {Meaning("ref", s.name, s.name.type, <<>>)}
       [] s.op = "call"    ->
            CallMeanings(s, deref) \cup
            (IF s.keys = <<"">>
             THEN {m \in IndexMeanings(Meanings(Source("call", s.name, <<>>, <<>>), deref),
                                        Operand, deref) :
                     \E v \in Views(m.args[1], deref) : /\ Class(v) = "array"
                                                       /\ Fits(m.args[2], Types[v].index, deref)}
             ELSE {})
       [] s.op = "index"   ->
            {m \in IndexMeanings(Operand, Meanings(s.args[2], deref), deref) :
               \E v \in Views(m.args[1], deref) : /\ Class(v) = "array"
                                                 /\ Fits(m.args[2], Types[v].index, deref)}
       [] s.op = "select"  ->
            {Meaning("select", Named(s.name), Types[p[2]].components[s.name], <<p[1]>>) :
               p \in {<<m, v>> \in Operand \X DOMAIN Types :
                        /\ v \in Views(m, deref) /\ Class(v) = "record"
                        /\ s.name \in DOMAIN Types[v].components}}
       [] s.op = "deref"   ->
            {Meaning("deref", Nothing, Types[m.type].target, <<m>>) :
               m \in {m \in Operand : Class(m.type) = "access"}}
       [] s.op = "qualify" ->
            {Meaning("qualify", Nothing, s.name, <<m>>) : m \in {m \in Operand : Fits(m, s.name, deref)}}
       [] s.op = "convert" -> \* the operand has to be clear without a context
            {Meaning("convert", Nothing, s.name, <<m>>) :
               m \in {m \in Operand : /\ Cardinality(Meanings(s.args[1], FALSE)) <= 1 /\ m.kind # "null"
                                      /\ \/ Fits(m, s.name, FALSE)
                                         \/ Class(m.type) = Class(s.name)
                                            /\ Class(m.type) \in {"integer", "access"}}}

InContext(m, c, deref) ==
  CASE c \in DOMAIN Types -> Fits(m, c, deref)
    [] c = "statement"    -> m.kind = "call" /\ m.what.procedure
    [] OTHER              -> memberOf(IF m.type = Universal THEN "root_integer" ELSE m.type, c)

MeaningsIn(s, c, deref) == {m \in Meanings(s, deref) : InContext(m, c, deref)}

\* A tree of nodes as a meaning.
RECURSIVE Strip(_)
Strip(n) ==
  IF n.kind \in {"implicit convert", "implicit deref"} THEN Strip(n.args[1])
  ELSE Meaning(n.kind, n.what,
               CASE n.kind = "literal" -> Universal [] n.kind = "null" -> AnyAccess [] OTHER -> n.type,
               [i \in DOMAIN n.args |-> Strip(n.args[i])])

---------------------------------------------------------------------------
(* The callbacks, in the order of the parser.                               *)

Init ==
  /\ program \in Programs
  /\ stack = <<>>
  /\ outcome = "open" /\ source = Source("", "", <<>>, <<>>) /\ context = NoContext /\ result = Rejected

RECURSIVE SizeOf(_)
SizeOf(s) ==
  1 + (IF Len(s.args) = 0 THEN 0 ELSE SizeOf(s.args[1]))
    + (IF Len(s.args) < 2 THEN 0 ELSE SizeOf(s.args[2]))
RECURSIVE Pending(_)
Pending(st) == IF st = <<>> THEN 0 ELSE SizeOf(Head(st).src) + Pending(Tail(st))

\* The last n operands, and what is below them.
Operands(n) == SubSeq(stack, Len(stack) - n + 1, Len(stack))
Below(n)    == SubSeq(stack, 1, Len(stack) - n)
Nodes(n)    == [i \in 1..n |-> Operands(n)[i].node]
Sources(n)  == [i \in 1..n |-> Operands(n)[i].src]

Finish(s, c, n) ==
  /\ source' = s /\ context' = c /\ result' = n
  /\ outcome' = IF Bad(n) THEN n.kind ELSE "accepted"

\* A callback that replaces the last n operands by a node, or ends it all.
Deliver(n, s, node) ==
  /\ outcome = "open" /\ Len(stack) >= n
  /\ Pending(stack) < program.size
  /\ IF Bad(node) THEN Finish(s, NoContext, node) /\ stack' = Below(n)
     ELSE /\ stack' = Append(Below(n), [src |-> s, node |-> node])
          /\ UNCHANGED <<outcome, source, context, result>>
  /\ UNCHANGED program

IsPrefix(s) == s.op \in {"ref", "call", "select", "index", "deref", "convert"}
Decls(name) == {d \in program.decls : d.name = name}
Functions  == {d.name : d \in {d \in program.decls : ~d.procedure}}
Procedures == {d.name : d \in {d \in program.decls : d.procedure}}
KeyLists(n) ==
  {keys \in [1..n -> program.keys \cup {""}] :
     \A i \in 2..n : keys[i] = "" => keys[i - 1] = ""}

acceptIntegerLiteral ==
  /\ program.literals
  /\ Deliver(0, Source("literal", "", <<>>, <<>>), Node("literal", Nothing, Universal, <<>>))
acceptNullExpr ==
  /\ program.nulls
  /\ Deliver(0, Source("null", "", <<>>, <<>>), Node("null", Nothing, NoType, <<>>))
acceptDirectName(o) ==
  Deliver(0, Source("ref", o, <<>>, <<>>), Node("ref", o, o.type, <<>>))
finishName(f) ==
  Deliver(0, Source("call", f, <<>>, <<>>), finishSubroutineRef(Decls(f)))
acceptApplication(f, n, keys) ==
  /\ Len(stack) >= n
  /\ Deliver(n, Source("call", f, keys, Sources(n)),
             acceptSubroutineApplication(Decls(f), Nodes(n), keys))
indexPrefix ==
  /\ Len(stack) >= 2 /\ IsPrefix(Sources(2)[1])
  /\ Deliver(2, Source("index", "", <<"", "">>, Sources(2)),
             acceptIndexedArray(Nodes(2)[1], Nodes(2)[2]))
acceptSelectedComponent(name) ==
  /\ stack # <<>> /\ IsPrefix(Sources(1)[1])
  /\ Deliver(1, Source("select", name, <<"">>, Sources(1)),
             processSelectedComponent(Nodes(1)[1], name))
acceptDereference ==
  /\ stack # <<>> /\ IsPrefix(Sources(1)[1])
  /\ Deliver(1, Source("deref", "", <<"">>, Sources(1)), dereferenceExpr(Nodes(1)[1]))
acceptQualifiedExpr(t) ==
  /\ stack # <<>>
  /\ Deliver(1, Source("qualify", t, <<"">>, Sources(1)), qualifyExpr(Nodes(1)[1], t))
acceptConversionExpr(t) ==
  /\ stack # <<>>
  /\ Deliver(1, Source("convert", t, <<"">>, Sources(1)), convertExpr(Nodes(1)[1], t))

\* The expression is complete: an initial value, an operand of a return, a
\* condition; or a bound, of which only the classification is known.
expressionInContext(t) ==
  /\ outcome = "open" /\ Len(stack) = 1
  /\ Finish(Sources(1)[1], t, checkExprInContext(Nodes(1)[1], t))
  /\ stack' = <<>> /\ UNCHANGED program
expressionInClass(class) ==
  /\ outcome = "open" /\ Len(stack) = 1
  /\ Finish(Sources(1)[1], class, checkExprInClass(Nodes(1)[1], class))
  /\ stack' = <<>> /\ UNCHANGED program

\* A statement: only procedures are looked up for its name.
acceptProcedureCall(q, keys) ==
  /\ outcome = "open" /\ Len(stack) = Len(keys)
  /\ LET n == Len(keys)
     IN  Finish(Source("call", q, keys, Sources(n)), "statement",
                IF n = 0 THEN finishSubroutineRef(Decls(q))
                ELSE acceptSubroutineApplication(Decls(q), Nodes(n), keys))
  /\ stack' = <<>> /\ UNCHANGED program

Next ==
  \/ acceptIntegerLiteral
  \/ acceptNullExpr
  \/ \E o \in program.objects : acceptDirectName(o)
  \/ \E f \in Functions : finishName(f)
  \/ \E f \in Functions, n \in 1..2 : \E keys \in KeyLists(n) : acceptApplication(f, n, keys)
  \/ program.indexing /\ indexPrefix
  \/ \E name \in program.selectors : acceptSelectedComponent(name)
  \/ program.dereferencing /\ acceptDereference
  \/ \E t \in program.qualifiers : acceptQualifiedExpr(t)
  \/ \E t \in program.conversions : acceptConversionExpr(t)
  \/ \E t \in program.contexts : expressionInContext(t)
  \/ \E c \in program.classes : expressionInClass(c)
  \/ \E q \in Procedures, n \in 0..2 : \E keys \in KeyLists(n) : acceptProcedureCall(q, keys)

Spec == Init /\ [][Next]_vars

---------------------------------------------------------------------------
(* Properties.                                                              *)

\* Every argument and index has its conversion, and only one.
RECURSIVE Converted(_)
Converted(n) ==
  /\ \A i \in DOMAIN n.args : Converted(n.args[i])
  /\ n.kind = "call" => \A p \in DOMAIN n.args :
                          ~conversionRequired(n.args[p].type, n.what.params[p].type)
  /\ n.kind = "implicit convert" => n.args[1].kind # "implicit convert"

\* Wherever two meanings differ first, the one is an operator of root_integer.
RECURSIVE Prefers(_, _)
Prefers(m, other) ==
  IF m.kind # other.kind \/ m.what # other.what THEN m.kind = "call" /\ m.what.primitive
  ELSE \A i \in DOMAIN m.args : m.args[i] # other.args[i] => Prefers(m.args[i], other.args[i])

\* Variables go to parameters that are written to.
RECURSIVE IsVariable(_)
IsVariable(m) ==
  \/ m.kind = "ref" /\ m.what.variable
  \/ m.kind \in {"select", "index", "deref"} /\ IsVariable(m.args[1])
RECURSIVE ModesAgree(_)
ModesAgree(m) ==
  /\ \A i \in DOMAIN m.args : ModesAgree(m.args[i])
  /\ m.kind = "call" =>
       \A p \in DOMAIN m.args : m.what.params[p].mode # "in" => IsVariable(m.args[p])

\* An accepted expression has the tree of one of its meanings in the context,
\* with every keyed argument at its parameter, modes respected and conversions
\* in place.  If it has meanings without implicit dereferences, it is one of
\* those, and the only one unless the preference for the operators of
\* root_integer decides: two passes that look at one level at a time never
\* settle on half of one meaning and half of another (CheckCall.cpp).
AcceptedIsTheMeaning ==
  outcome = "accepted" =>
    LET m == Strip(result)
        direct == MeaningsIn(source, context, FALSE)
    IN  /\ m \in MeaningsIn(source, context, TRUE)
        /\ direct # {} => m \in direct /\ \A other \in direct \ {m} : Prefers(m, other)
        /\ ModesAgree(m) /\ Converted(result)
        /\ context \in DOMAIN Types => ~conversionRequired(result.type, context)

\* Expressions the checker is not prepared for: a component, an element or a
\* target of an overloaded name, other than a component in the outermost place
\* of a type context; a parameter named twice; null without a type.
Arrays(f) ==
  {m \in Meanings(Source("call", f, <<>>, <<>>), FALSE) : Class(m.type) = "array"}
RECURSIVE OverloadedPrefix(_)
OverloadedPrefix(s) ==
  \/ s.op \in {"select", "index", "deref"} /\ Cardinality(Meanings(s.args[1], FALSE)) > 1
  \/ s.op = "call" /\ s.keys = <<"">> /\ Cardinality(Arrays(s.name)) > 1
  \/ \E i \in DOMAIN s.args : OverloadedPrefix(s.args[i])
RECURSIVE NamedTwice(_)
NamedTwice(s) == DuplicateKeywords(s.keys) \/ \E i \in DOMAIN s.args : NamedTwice(s.args[i])
Unprepared(s, c) ==
  \/ IF s.op = "select" /\ c \in DOMAIN Types THEN OverloadedPrefix(s.args[1]) ELSE OverloadedPrefix(s)
  \/ NamedTwice(s)
  \/ s.op = "null" /\ c \notin DOMAIN Types

\* An expression that is refused, in its context or before one is known, has no
\* meaning or several: filtering the declarations of a call by what one level of
\* arguments may return, and never going back, drops no declaration that is
\* meant (CheckCall.cpp, acceptSubroutineCall).  And no assertion fails for an
\* expression of the kind the checker is prepared for.
UnambiguousIsAccepted ==
  outcome \in {"rejected", "asserts"} /\ ~Unprepared(source, context) =>
    /\ outcome = "rejected"
    /\ \A c \in IF context = NoContext THEN DOMAIN Types ELSE {context} :
         LET direct == MeaningsIn(source, c, FALSE)
         IN  Cardinality(direct) = 1 => \E m \in direct : ~ModesAgree(m)
=============================================================================
