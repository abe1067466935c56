---------------------------- MODULE StaticRanges ----------------------------
(***************************************************************************)
(* Static expressions, the discrete types they bound, and the code that     *)
(* computes with those types at run time.                                   *)
(*                                                                          *)
(* Eval.cpp folds static expressions over integers of growing width;        *)
(* Range.cpp, Type.cpp and Decl.cpp turn the values into ranges and sizes   *)
(* of types; CodeGenExpr.cpp, CodeGenCall.cpp, CodeGenTypes.cpp and         *)
(* BoundsEmitter.cpp emit the conversions, operations and lengths that      *)
(* depend on them.  The machine below evaluates expressions on a stack and  *)
(* declares up to two types with the results.                               *)
(*                                                                          *)
(* The widths 1, 8, 16, 32 and 64 of the code are the members of Sizes; the *)
(* greatest stands for 64 bits, LengthWidth for 32.                         *)
(***************************************************************************)
EXTENDS Integers, Sequences, FiniteSets, SequencesExt, FiniteSetsExt

CONSTANTS
  Sizes,        \* the sizes of discrete types
  LengthWidth,  \* the width array lengths are emitted in
  Literals,     \* values of integer literals in the text
  Enumerations, \* numbers of literals of enumeration types
  Dynamic,      \* pairs of bounds that are known at run time only
  MaxSteps,     \* bound: steps of evaluation before each declaration
  MaxWidth,     \* bound: widths of folded values
  MaxPower      \* bound: the right operand of **

Word == Max(Sizes)

ASSUME RangeAssumption ==
  /\ Sizes \subseteq Nat \ {0} /\ IsFiniteSet(Sizes) /\ 1 \in Sizes /\ LengthWidth \in Sizes
  /\ Literals \subseteq Nat /\ Enumerations \subseteq Nat \ {0} /\ MaxWidth \in Nat /\ MaxPower \in Nat

VARIABLES
  operands,  \* the static expressions waiting for their context
  steps,     \* steps since the last declaration
  last,      \* the operation evaluated last: [op, x, y, r]
  types,     \* the discrete types declared
  phase      \* run, refused (a diagnostic) or assert

vars == <<operands, steps, last, types, phase>>

-----------------------------------------------------------------------------
(***************************************************************************)
(* llvm::APInt: w bits, the unsigned value b.                               *)
(***************************************************************************)

AP(w, n) == [w |-> w, b |-> n % 2^w]
Unsigned(x) == x.b
Signed(x) == IF x.b >= 2^(x.w - 1) THEN x.b - 2^x.w ELSE x.b
sextOrTrunc(x, w) == AP(w, Signed(x))
zextOrTrunc(x, w) == AP(w, x.b)
MinSignedBits(x) ==
  CHOOSE k \in 1 .. x.w : /\ -(2^(k - 1)) <= Signed(x) /\ Signed(x) < 2^(k - 1)
                          /\ k > 1 => ~(-(2^(k - 2)) <= Signed(x) /\ Signed(x) < 2^(k - 2))
ActiveBits(x) == CHOOSE k \in 0 .. x.w : x.b < 2^k /\ (k > 0 => x.b >= 2^(k - 1))

-----------------------------------------------------------------------------
(***************************************************************************)
(* Eval.cpp: the folding of static expressions.                             *)
(***************************************************************************)

\* A literal is parsed in the fewest bits and gets one more unless it is zero.
decimalLiteral(v) == AP(IF v = 0 THEN 1 ELSE CHOOSE k \in 1 .. v : 2^(k - 1) <= v /\ v < 2^k, v)
IntegerLiteral(v) ==
  LET value == decimalLiteral(v)
  IN IF v = 0 THEN value ELSE zextOrTrunc(value, value.w + 1)

zeroExtend(x) == zextOrTrunc(x, x.w + 1)
negate(x) == IF x.b = 2^(x.w - 1) THEN zeroExtend(x) ELSE AP(x.w, -x.b)
minimizeWidth(x) == zextOrTrunc(x, MinSignedBits(x))
Wider(x, y) == Max({x.w, y.w})

\* Mutant: sums wrap around.
addWrapping(x, y) == AP(Wider(x, y), Signed(x) + Signed(y))

addNonNegative(x, y) ==
  LET w == Wider(x, y)
      result == AP(w, Signed(x) + Signed(y))
  IN IF Signed(result) < Signed(x) THEN zeroExtend(result) ELSE result
subtractPositive(x, y) ==
  LET w == Wider(x, y)
      result == AP(w, Signed(x) - Signed(y))
  IN IF Signed(result) > Signed(x) THEN zeroExtend(result) ELSE result
add(x, y) == IF Signed(y) >= 0 THEN addNonNegative(x, y) ELSE subtractPositive(x, negate(y))

subtract(x, y) == add(x, negate(y))

multiply(x, y) == minimizeWidth(AP(2 * Wider(x, y), Signed(x) * Signed(y)))

\* The power is not negative; the code asserts it.
exponentiate(x, y) ==
  IF y.b = 0 THEN minimizeWidth(AP(x.w, 1))
  ELSE FoldLeft(LAMBDA result, i : multiply(result, x), x, [i \in 1 .. y.b - 1 |-> i])

staticDiscreteUnaryValue(op, x) == IF op = "NEG" THEN negate(x) ELSE x

staticDiscreteBinaryValue(op, x, y) ==
  CASE op = "ADD" -> add(x, y)
    [] op = "SUB" -> subtract(x, y)
    [] op = "MUL" -> multiply(x, y)
    [] op = "POW" -> exponentiate(x, y)

\* Division and remainders are never static.
StaticOps == {"ADD", "SUB", "MUL", "POW"}
RuntimeOps == {"MOD", "REM", "DIV"}

-----------------------------------------------------------------------------
(***************************************************************************)
(* Discrete types: [kind, signed, modulus, size, min, max, con].  min and    *)
(* max are the limits of the root type; con is the constraint [is, lo, hi],  *)
(* "none", "static" or "dynamic", the bounds of the last being those that    *)
(* the run-time computes.                                                    *)
(***************************************************************************)

getPreferredSize(bits) == Min({s \in Sizes : s >= bits})
Representable(bits) == bits <= Word
NoConstraint == [is |-> "none", lo |-> AP(1, 0), hi |-> AP(1, 0)]

\* The root of an integer type holds both bounds.
initBounds(signed, lo, hi) ==
  LET Bits(x) == IF signed THEN MinSignedBits(x) ELSE ActiveBits(x)
  IN Max({Bits(lo), Bits(hi)})
RootInteger(signed, size) ==
  [kind |-> "integer", signed |-> signed, modulus |-> 0, size |-> size,
   min |-> IF signed THEN AP(size, 2^(size - 1)) ELSE AP(size, 0),
   max |-> IF signed THEN AP(size, 2^(size - 1) - 1) ELSE AP(size, 2^size - 1),
   con |-> NoConstraint]

RootEnumeration(n) ==
  LET bits == CHOOSE k \in 0 .. n : 2^k >= n /\ (k > 0 => 2^(k - 1) < n)
      size == getPreferredSize(bits)
  IN [kind |-> "enumeration", signed |-> FALSE, modulus |-> 0, size |-> size,
      min |-> AP(size, 0), max |-> AP(size, n - 1), con |-> NoConstraint]

\* Range::checkAndAdjustLimits, with its assertion.
FitsType(x, t) == (IF t.signed THEN MinSignedBits(x) ELSE ActiveBits(x)) <= t.size
Adjusted(x, t) == IF t.signed THEN sextOrTrunc(x, t.size) ELSE zextOrTrunc(x, t.size)
Constrained(t, is, lo, hi) ==
  [t EXCEPT !.con = [is |-> is, lo |-> Adjusted(lo, t), hi |-> Adjusted(hi, t)]]

\* The number a value of type t stands for.
Number(x, t) == IF t.signed THEN Signed(x) ELSE Unsigned(x)

\* The bounds in force: those of a constraint, or the limits of the root.
Lower(t) == IF t.con.is = "none" THEN t.min ELSE t.con.lo
Upper(t) == IF t.con.is = "none" THEN t.max ELSE t.con.hi
IsStatic(t) == t.con.is # "dynamic"

\* Range::isNull, Range::contains (always by signed comparison) and length.
isNull(t) == t.con.is = "static" /\ Number(t.con.hi, t) < Number(t.con.lo, t)
RangeContains(t, v) ==
  /\ ~isNull(t) /\ MinSignedBits(v) <= t.size
  /\ LET candidate == Signed(sextOrTrunc(v, t.size))
     IN Signed(t.con.lo) <= candidate /\ candidate <= Signed(t.con.hi)

\* Range::length and DiscreteType::length, in 64 bits.
SignedWord(n) == Signed(AP(Word, n))
\* Mutant: the last element of a range of negative values is not counted.
ElementsBetween(lower, upper) ==
  IF lower < 0 /\ upper < 0 THEN ((-lower) - (-upper)) % 2^Word
  ELSE (((upper - lower) % 2^Word) + 1) % 2^Word
Elements(lower, upper) ==
  IF lower < 0
  THEN IF upper >= 0 THEN (upper + (-lower) + 1) % 2^Word
       ELSE ((-lower) - (-upper) + 1) % 2^Word
  ELSE (((upper - lower) % 2^Word) + 1) % 2^Word
length(t) ==
  LET lower == SignedWord(Number(Lower(t), t))
      upper == SignedWord(Number(Upper(t), t))
  IN IF isNull(t) \/ (t.con.is = "none" /\ upper < lower) THEN 0 ELSE Elements(lower, upper)

\* ArrayType::length, for a constrained index.
arrayLength(t) ==
  IF isNull(t) THEN 0 ELSE (AP(t.size, t.con.hi.b - t.con.lo.b).b + 1) % 2^Word

\* DiscreteType::contains of a type and of a value.  The first compares signed.
Limits(t) == IF t.con.is = "static" THEN [lo |-> t.con.lo, hi |-> t.con.hi]
             ELSE [lo |-> t.min, hi |-> t.max]
\* Mutant: a dynamic constraint is taken for the limits of its root.
containsByLimits(t, target) ==
  LET w == Max({t.size, target.size})
      At(x) == Signed(sextOrTrunc(x, w))
  IN IF t = target \/ isNull(target) THEN "is"
     ELSE IF At(Limits(t).lo) <= At(Limits(target).lo) /\ At(Limits(target).hi) <= At(Limits(t).hi)
     THEN "is" ELSE "not"
containsType(t, target) ==
  LET w == Max({t.size, target.size})
      At(x) == Signed(sextOrTrunc(x, w))
  IN CASE t = target -> "is"
       [] t # target /\ t.kind # target.kind -> "not"
       [] t # target /\ t.kind = target.kind /\ ~IsStatic(t) -> "maybe"
       [] t # target /\ t.kind = target.kind /\ IsStatic(t) /\ isNull(t) -> "not"
       [] OTHER -> IF isNull(target) THEN "is"
                   ELSE IF At(Limits(t).lo) <= At(Limits(target).lo)
                           /\ At(Limits(target).hi) <= At(Limits(t).hi)
                        THEN "is" ELSE "not"
containsValue(t, v) ==
  LET w == Max({t.size, v.w})
      At(x) == Number(IF t.signed THEN sextOrTrunc(x, w) ELSE zextOrTrunc(x, w), t)
  IN CASE t.con.is = "dynamic" -> "maybe"
       [] t.con.is = "static" -> IF RangeContains(t, v) THEN "is" ELSE "not"
       [] OTHER -> IF At(t.min) <= At(v) /\ At(v) <= At(t.max) THEN "is" ELSE "not"

\* IntegerType::baseContains, for the literals of a universal context.
rootContains(v) == MinSignedBits(v) <= Word

\* TypeCheck::resolveIntegerLiteral in the context of a type.
resolveIntegerLiteral(v, t) ==
  IF t.kind # "integer" \/ v.w > t.size THEN "refused"
  ELSE CASE containsValue(t, sextOrTrunc(v, t.size)) = "is" -> "literal"
         [] containsValue(t, sextOrTrunc(v, t.size)) = "not" -> "refused"
         [] OTHER -> "conversion"

-----------------------------------------------------------------------------
(***************************************************************************)
(* The emitted code.  Values are APInts of the width of their type.         *)
(***************************************************************************)

Extend(x, signed, w) == IF signed THEN sextOrTrunc(x, w) ELSE zextOrTrunc(x, w)

\* CodeGenTypes, getArrayWidth: the elements of an array with index type t.
getArrayWidth(t) ==
  LET wide(x) == Number(Extend(x, t.signed, t.size + 1), t)
  IN IF Number(Upper(t), t) < Number(Lower(t), t) THEN 0
     ELSE AP(t.size + 1, wide(Upper(t)) - wide(Lower(t)) + 1).b

\* BoundsEmitter::computeBoundLength: bounds are sign extended or truncated.
computeBoundLength(t) ==
  LET At(x) == sextOrTrunc(x, LengthWidth).b
  IN AP(LengthWidth, At(Upper(t)) - At(Lower(t)) + 1)

\* emitDiscreteRangeCheck: in the wider type, by the signedness of the target.
passesRangeCheck(x, s, t) ==
  LET w == Max({s.size, t.size})
      value == Extend(x, s.signed, w)
      bound(b) == Extend(b, t.signed, w)
  IN /\ Number(bound(Lower(t)), t) <= Number(value, t)
     /\ Number(value, t) <= Number(bound(Upper(t)), t)

\* emitDiscreteConversion: the converted value, or the exception.
Raised == [w |-> 0, b |-> 0]
emitDiscreteConversion(x, s, t) ==
  IF s = t THEN x
  ELSE IF t.modulus # 0
       THEN LET value == zextOrTrunc(x, t.size)
            IN IF t.modulus >= 2^t.size THEN value ELSE AP(t.size, value.b % t.modulus)
  ELSE IF containsType(t, s) = "is" /\ t.size >= s.size THEN Extend(x, t.signed, t.size)
  ELSE IF passesRangeCheck(x, s, t) THEN Extend(x, t.signed, t.size) ELSE Raised

\* SDiv and SRem truncate; the sign of a remainder is that of the dividend.
Quotient(m, n) ==
  LET Abs(k) == IF k < 0 THEN -k ELSE k
  IN IF (m < 0) = (n < 0) THEN Abs(m) \div Abs(n) ELSE -(Abs(m) \div Abs(n))
Remainder(m, n) == m - n * Quotient(m, n)

\* Mutant: the remainder keeps the sign of the dividend.
modAsRemainder(w, m, n) == AP(w, Remainder(m, n))

\* emitMod, for signed operands.
emitMod(w, m, n) ==
  LET rem == Remainder(m, n)
  IN IF (m < 0) = (n < 0) \/ rem = 0 THEN AP(w, rem) ELSE AP(w, n + rem)

\* The runtime's _comma_pow of w bits, and its call in 32 or 64 bits.
comma_pow(w, m, n) ==
  IF n = 0 THEN AP(w, 0)
  ELSE FoldLeft(LAMBDA res, i : AP(w, Signed(res) * m), AP(w, m), [i \in 1 .. n - 1 |-> i])
emitExponential(w, m, n) ==
  zextOrTrunc(comma_pow(IF w <= LengthWidth THEN LengthWidth ELSE Word, m, n), w)

\* emitPrimitiveCall on signed operands of w bits.
emitPrimitiveCall(op, w, m, n) ==
  CASE op = "POS" -> AP(w, m)
    [] op = "NEG" -> AP(w, -m)
    [] op = "ADD" -> AP(w, m + n)
    [] op = "SUB" -> AP(w, m - n)
    [] op = "MUL" -> AP(w, m * n)
    [] op = "DIV" -> AP(w, Quotient(m, n))
    [] op = "MOD" -> emitMod(w, m, n)
    [] op = "REM" -> AP(w, Remainder(m, n))
    [] op = "POW" -> emitExponential(w, m, n)

\* emitAttribute for Pos and Val.  Pos computes in 64 bits, Val in the type.
emitPos(x, t) ==
  AP(Word, Extend(x, t.signed, Word).b - Extend(Lower(t), t.signed, Word).b)
emitVal(x, t) == AP(t.size, zextOrTrunc(x, t.size).b + Lower(t).b)

-----------------------------------------------------------------------------
(***************************************************************************)
(* Actions.                                                                 *)
(***************************************************************************)

None == [op |-> "none"]
Running == phase = "run" /\ Len(types) < 2
Evaluating == Running /\ steps < MaxSteps[Len(types) + 1]

\* An operand stands in a context: that of root_integer, of Natural or of the
\* type declared, the operators of each taking operands of their own.  A literal
\* still waits for its context, and the result of Pos belongs to any.
Operand(x, in) == [ap |-> x, in |-> in]
Arg(i) == operands[i].ap

Contexts == {"root", "natural"} \cup
            (IF Len(types) = 1 /\ types[1].kind = "integer" THEN {"type"} ELSE {})
ContextWidth(context) ==
  CASE context = "root" -> Word
    [] context = "natural" -> LengthWidth
    [] context = "type" -> types[1].size

\* A literal that is the argument of a resolved call takes the width of the
\* parameter's type, and is refused where that is too narrow.
Belongs(o, context) ==
  \/ o.in \in {context, "universal"}
  \/ o.in = "literal" /\ o.ap.w <= ContextWidth(context)
InContext(o, context) ==
  IF o.in = "literal" THEN sextOrTrunc(o.ap, ContextWidth(context)) ELSE o.ap

Evaluated(op, x, y, r, in, rest) ==
  /\ r.w <= MaxWidth
  /\ last' = [op |-> op, x |-> x, y |-> y, r |-> r]
  /\ operands' = Append(rest, Operand(r, in))
  /\ steps' = steps + 1
  /\ UNCHANGED <<types, phase>>

acceptIntegerLiteral ==
  /\ Evaluating /\ Len(operands) < 2
  /\ \E v \in Literals : operands' = Append(operands, Operand(IntegerLiteral(v), "literal"))
  /\ steps' = steps + 1
  /\ last' = None
  /\ UNCHANGED <<types, phase>>

Unary ==
  /\ Evaluating /\ operands # <<>>
  /\ \E op \in {"NEG", "POS"}, context \in Contexts :
       /\ Belongs(Last(operands), context)
       /\ \E x \in {InContext(Last(operands), context)} :
            Evaluated(op, x, x, staticDiscreteUnaryValue(op, x), context, Front(operands))

\* The right operand of ** is a Natural.
RightContext(op, context) == IF op = "POW" THEN "natural" ELSE context
Resolved(op, context) ==
  Belongs(operands[1], context) /\ Belongs(operands[2], RightContext(op, context))
LeftArg(context) == InContext(operands[1], context)
RightArg(op, context) == InContext(operands[2], RightContext(op, context))

Binary ==
  /\ Evaluating /\ Len(operands) = 2
  /\ \E op \in StaticOps, context \in Contexts :
       /\ Resolved(op, context)
       /\ \E x \in {LeftArg(context)}, y \in {RightArg(op, context)} :
            /\ op = "POW" => Signed(y) \in 0 .. MaxPower
            /\ Evaluated(op, x, y, staticDiscreteBinaryValue(op, x, y), context, <<>>)

\* An operation that is left to the run time: its result is no static operand.
RuntimeBinary ==
  /\ Evaluating /\ Len(operands) = 2 /\ Arg(2).b # 0
  /\ \E op \in RuntimeOps, context \in Contexts :
       /\ Resolved(op, context)
       /\ last' = [op |-> op, x |-> LeftArg(context), y |-> RightArg(op, context), r |-> None]
  /\ operands' = <<>>
  /\ steps' = steps + 1
  /\ UNCHANGED <<types, phase>>

\* The attributes First and Last, Pos and Val of the type declared.  Those of
\* enumerations are not implemented, and a dynamic bound is not static.
staticDiscreteAttribExpr ==
  /\ Evaluating /\ Len(types) = 1 /\ IsStatic(types[1]) /\ Len(operands) < 2
  /\ types[1].kind = "integer"
  /\ \/ Evaluated("First", Lower(types[1]), Lower(types[1]), Lower(types[1]), "type", operands)
     \/ Evaluated("Last", Upper(types[1]), Upper(types[1]), Upper(types[1]), "type", operands)

\* Pos takes a value of the type; Val takes any, and leaves a literal as it is.
staticDiscreteFunctionAttribValue ==
  /\ Evaluating /\ Len(types) = 1 /\ IsStatic(types[1]) /\ operands # <<>>
  /\ types[1].kind = "integer"
  /\ \E o \in {Last(operands)}, lower \in {Lower(types[1])} :
       \/ /\ Belongs(o, "type")
          /\ \E x \in {InContext(o, "type")} :
               Evaluated("Pos", x, lower, subtract(x, lower), "universal", Front(operands))
       \/ /\ o.in = "literal" => rootContains(o.ap)
          /\ Evaluated("Val", o.ap, lower, add(o.ap, lower), "type", Front(operands))

\* What a declaration comes to: a type, a diagnostic or a failed assertion.
Declared(t, refused, failed) ==
  /\ operands' = <<>> /\ steps' = 0 /\ last' = None
  /\ phase' = IF refused THEN "refused" ELSE IF failed THEN "assert" ELSE "run"
  /\ types' = IF refused \/ failed THEN types ELSE Append(types, t)

\* A literal is refused where a resolved call needs it narrower.
literalRefused ==
  /\ Running
  /\ \E o \in Range(operands), context \in Contexts : o.in = "literal" /\ ~Belongs(o, context)
  /\ Declared(None, TRUE, FALSE)

\* The bounds of a type are of the integer class; exponents stay where they are.
Bounding == Running /\ \A o \in Range(operands) : o.in # "natural"
RootLiteralsFit == \A o \in Range(operands) : o.in = "literal" => rootContains(o.ap)

acceptIntegerTypeDecl ==
  /\ Bounding /\ Len(operands) = 2
  /\ \E bits \in {initBounds(TRUE, Arg(1), Arg(2))} :
       IF ~RootLiteralsFit \/ ~Representable(bits)
       THEN Declared(None, ~RootLiteralsFit, TRUE)
       ELSE Declared(Constrained(RootInteger(TRUE, getPreferredSize(bits)), "static",
                                 Arg(1), Arg(2)), FALSE, FALSE)

acceptModularTypeDecl ==
  /\ Bounding /\ Len(operands) = 1
  /\ \E positive \in {RootLiteralsFit /\ Signed(Arg(1)) > 0} :
     \E low \in {AP(Arg(1).w, 0)}, high \in {AP(Arg(1).w, Arg(1).b - 1)} :
     \E bits \in {initBounds(FALSE, low, high)} :
       IF ~positive \/ ~Representable(bits) THEN Declared(None, ~positive, TRUE)
       ELSE Declared([Constrained(RootInteger(FALSE, getPreferredSize(bits)), "static",
                                  low, high) EXCEPT !.modulus = Signed(Arg(1))],
                     FALSE, FALSE)

endEnumeration ==
  /\ Running /\ operands = <<>>
  /\ \E n \in Enumerations : Declared(RootEnumeration(n), FALSE, FALSE)

\* The bounds of a subtype: literals are resolved in the base, any other static
\* expression passes unchecked, and what the run time computes is checked.
BoundRefused(o, t) == o.in = "literal" /\ resolveIntegerLiteral(o.ap, t) = "refused"
acceptRangedSubtypeDecl ==
  /\ Running /\ Len(types) = 1 /\ types[1].con.is # "dynamic" /\ Len(operands) = 2
  /\ types[1].kind = "integer"
  /\ \A o \in Range(operands) : o.in \in {"literal", "universal", "type"}
  /\ \E t \in {types[1]} :
       Declared(Constrained(t, "static", Arg(1), Arg(2)),
                BoundRefused(operands[1], t) \/ BoundRefused(operands[2], t),
                ~FitsType(Arg(1), t) \/ ~FitsType(Arg(2), t))

acceptEnumSubtypeDecl ==
  /\ Running /\ Len(types) = 1 /\ types[1].kind = "enumeration" /\ operands = <<>>
  /\ \E lo, hi \in 0 .. types[1].max.b :
       Declared(Constrained(types[1], "static", AP(types[1].size, lo), AP(types[1].size, hi)),
                FALSE, FALSE)

acceptDynamicSubtypeDecl ==
  /\ Running /\ operands = <<>>
  /\ Len(types) = 1 /\ types[1].kind = "integer"
  /\ \E bounds \in Dynamic :
       /\ \A n \in {bounds[1], bounds[2]} :
            Number(Lower(types[1]), types[1]) <= n /\ n <= Number(Upper(types[1]), types[1])
       /\ Declared(Constrained(types[1], "dynamic", AP(types[1].size, bounds[1]),
                               AP(types[1].size, bounds[2])), FALSE, FALSE)

Init ==
  /\ operands = <<>> /\ steps = 0 /\ last = None /\ types = <<>> /\ phase = "run"

Next ==
  \/ acceptIntegerLiteral
  \/ Unary
  \/ Binary
  \/ RuntimeBinary
  \/ staticDiscreteAttribExpr
  \/ staticDiscreteFunctionAttribValue
  \/ literalRefused
  \/ acceptIntegerTypeDecl
  \/ acceptModularTypeDecl
  \/ endEnumeration
  \/ acceptRangedSubtypeDecl
  \/ acceptEnumSubtypeDecl
  \/ acceptDynamicSubtypeDecl

Spec == Init /\ [][Next]_vars
-----------------------------------------------------------------------------
(***************************************************************************)
(* Properties.                                                              *)
(***************************************************************************)

\* The values of the language, told without widths.
Power(m, n) == FoldLeft(LAMBDA r, i : r * m, 1, [i \in 1 .. n |-> i])
Modulo(m, n) == IF n > 0 THEN m % n ELSE -((-m) % (-n))
Exact(op, m, n) ==
  CASE op \in {"POS", "First", "Last"} -> m
    [] op = "NEG" -> -m
    [] op \in {"ADD", "Val"} -> m + n
    [] op \in {"SUB", "Pos"} -> m - n
    [] op = "MUL" -> m * n
    [] op = "POW" -> Power(m, n)
    [] op = "DIV" -> Quotient(m, n)
    [] op = "MOD" -> Modulo(m, n)
    [] op = "REM" -> Remainder(m, n)
ExactLast == Exact(last.op, Signed(last.x), Signed(last.y))

\* The sums below the values of the width they are computed in, like T'First - 1,
\* and the power x ** 0 of a zero or a minus one in a single bit, like (0 * 1) ** 0.
SumWidth == Wider(last.x, negate(last.y))
NegativeOverflow ==
  last.op \in {"ADD", "SUB", "Val", "Pos"} /\ ExactLast < -(2^(SumWidth - 1))
ZeroPower == last.op = "POW" /\ last.y.b = 0
BitPower == ZeroPower /\ last.x.w = 1
Folded == last # None /\ last.r # None

\* Eval.cpp, the folding of every sequence of operations whatever width each operand
\* got from its own history or from the type of the parameter: the value is exact,
\* save that a sum below the values of its width comes out above them, since add
\* extends its sign bit as one of the value, and that a power of one bit is minus one.
StaticOpsExact ==
  Folded => Signed(last.r) = CASE NegativeOverflow -> ExactLast + 2^SumWidth
                               [] BitPower -> -1
                               [] OTHER -> ExactLast

\* Eval.cpp:144, "Basic arithmetic operations which perform bit extensions on an
\* as-needed basis": no operation loses a bit of its value.  Not so for the sums and
\* powers above: as an invariant of MCStaticRanges this is violated.
OperationsExtend == Folded => Signed(last.r) = ExactLast

\* CodeGenCall.cpp, emitPrimitiveCall and emitAttribute: an operation that is
\* emitted, not folded, computes the same value in root_integer and in the type of
\* its attribute, where the value fits; ** 0 apart, which the run time takes for 0.
Fits(n, w) == -(2^(w - 1)) <= n /\ n < 2^(w - 1)
CompiledOpsAgree ==
  last # None /\ ~ZeroPower /\ last.op \notin {"First", "Last"}
    /\ Fits(Signed(last.x), Word) /\ Fits(Signed(last.y), Word) /\ Fits(ExactLast, Word) =>
    CASE last.op \in {"Pos", "Val"} ->
           types[1].signed /\ Fits(Signed(last.x), types[1].size) /\ Fits(ExactLast, types[1].size) =>
             IF last.op = "Pos" THEN Signed(emitPos(sextOrTrunc(last.x, types[1].size), types[1])) = ExactLast
             ELSE Signed(emitVal(sextOrTrunc(last.x, Word), types[1])) = ExactLast
      [] OTHER -> Signed(emitPrimitiveCall(last.op, Word, Signed(last.x), Signed(last.y))) = ExactLast

\* The values of a type.
Values(t) == {v \in {AP(t.size, n) : n \in 0 .. 2^t.size - 1} :
                Number(Lower(t), t) <= Number(v, t) /\ Number(v, t) <= Number(Upper(t), t)}

\* Range.cpp, Type.cpp, CodeGenTypes.cpp and BoundsEmitter.cpp compute the length
\* of an index type in five places: they agree with the number of its values.  The
\* emitted one takes unsigned bounds for signed ones unless they are wide enough,
\* is negative for null ranges, and array types ignore constraints on enumerations.
LengthsAgree ==
  \A t \in Range(types) : IsStatic(t) =>
    LET n == Cardinality(Values(t))
        adjacent == Number(Upper(t), t) >= Number(Lower(t), t) - 1
    IN /\ length(t) = n % 2^Word
       /\ t.con.is = "static" => arrayLength(t) = n % 2^Word
       /\ t.kind = "integer" => getArrayWidth(t) = n
       /\ adjacent /\ (t.signed \/ t.size >= LengthWidth) =>
            computeBoundLength(t).b = n % 2^LengthWidth

\* A literal that takes a static type is one of its values, also where the type
\* is modular; of a signed type it takes all.
LiteralsInRange ==
  \A t \in Range(types), v \in Literals :
    LET inside == Number(Lower(t), t) <= v /\ v <= Number(Upper(t), t)
        verdict == resolveIntegerLiteral(IntegerLiteral(v), t)
    IN /\ verdict = "literal" => inside
       /\ t.signed /\ IsStatic(t) => (inside <=> verdict = "literal")

\* CodeGenExpr.cpp, emitDiscreteConversion, and CheckExpr.cpp, resolveIntegerLiteral:
\* between signed types a conversion raises Constraint_Error for exactly the values
\* outside the target, and any other value survives; the check is left out when the
\* target contains the source.  And literals stay within their types.
ConversionsSound ==
  /\ LiteralsInRange
  /\ \A s, t \in Range(types) : s.signed /\ t.signed =>
       \A v \in Values(s) :
         \E r \in {emitDiscreteConversion(v, s, t)} :
           IF \E u \in Values(t) : Signed(u) = Signed(v)
           THEN r # Raised /\ Signed(r) = Signed(v)
           ELSE r = Raised
=============================================================================
