# A TLA+ model of the Comma compiler

Comma is a compiler for an Ada-like language. It is one sequential C++ program
that uses LLVM as its back end, together with a small C runtime that is linked
into every program it compiles. This directory holds TLA+ modules translated from
its source, TLC configurations that check them on small instances, and proofs
that TLAPS checks for every instance.

Nothing in the compiler runs concurrently. What is hard about it is of another
kind:

* state that is kept twice and must stay in step (the symbol table's entries and
  the per-identifier homonym lists; the recursion of the loader and its cycle
  table; the nesting of statements and the stack of subframes; declarative regions
  and scopes; the lexer's cache and the parser's saved tokens);
* protocols between distant pieces of code (who pushes and who pops an entry of
  the vstack; who adds and who removes a landing pad; which block already has a
  terminator; which declaration completes which);
* long sequences of legal calls (any nesting of statements, any order of scopes,
  declarations and use clauses);
* decisions taken in two passes (overloads are filtered bottom up and settled top
  down; an aggregate is collected, checked against its context and emitted);
* the same quantity computed in several places over machine integers (static
  folding and run-time arithmetic, five computations of a length, bounds checks);
* recovery: after an error the parser has to skip to the right place and leave its
  client in the right context, along dozens of early returns;
* failure in the middle of something (a file that does not load, check or write;
  an exception between a call and the use of its result).

## 1. Inventory

| Part | State | Operations | Talks to |
|---|---|---|---|
| Driver `tools/driver/driver.cpp` | options, the items' compilation units, IR and bitcode paths | `main`, `compileSourceItem`, `generateSourceItem`, `outputExec` | loader, parser, type checker, code generator, `llvm-ld` |
| Dependency loader `tools/driver/SourceManager.*`, `lib/parser/DepParser.cpp` | `PathTable`, `SourceTable`, `CycleTable`, each item's `dependents` | `getSourceItem`, `loadDependencies`, `loadSubDependencies`, `reportCycleDependencies`, `extractDependencies` | files, driver |
| Source text `lib/basic/TextProvider.cpp` | buffer, lazily built table of lines | `getSourceLocation`, `extract`, `close` | lexer, diagnostics |
| Lexer `lib/parser/Lexer.cpp` | position, token cache, stack of positions | `scan` and its routines, `beginExcursion`, `endExcursion`, `peek` | text, parser |
| Parser `lib/parser/` | current token, lookahead, end-tag stack | one routine per construct, error recovery by seeking | calls begin/accept/end methods of its client |
| Type checker `lib/typecheck/` | `Scope`, current package and declarative region, stencils, stack of aggregates, active loops | one callback per construct | AST, `Scope`, diagnostics |
| Symbol table `Scope.*`, `Homonym.h`, `Resolver.*` | stack and cache of entries; direct and imported declarations of every identifier | `push`, `pop`, `addDirectDecl`, `addImport`, `resolve` | shares homonyms with every other `Scope` of the process through the identifier pool |
| Overload resolution `CheckCall.cpp`, `SubroutineCall.cpp`, `CheckName.cpp` | candidate declarations and arguments of each call node | one callback per name or operand; resolution in a context | AST, `Scope` |
| AST `lib/ast/` | declarations with their completions, regions with observers, uniqued types, ranges | construction, rewriting for instances, static evaluation | everyone |
| Code generator `lib/codegen/` | work list of instances; per subroutine a `Frame` with its subframes and landing pads | one emitter per construct | LLVM, runtime |
| Exception runtime `lib/runtime/crt_exceptions.c` | exception objects | raise, reraise, personality, unhandled exception | the platform's unwinder, landing pads of compiled code |
| Variable stack runtime `lib/runtime/crt_vstack.c` | linked list of entries, `_comma_vstack` | push, pop, (alloc) | compiled functions that return unconstrained arrays |
| Runtime arithmetic, allocation `crt_math.c`, `crt_alloc.c` | none | power, allocation | compiled code |

What makes each part correct, in one sentence:

* loader: loading succeeds exactly for a root whose dependencies all exist, parse
  and form no cycle; the extracted list orders them for compilation;
* driver: a file is compiled after everything it needs, and success is reported
  only if everything asked for has been written;
* lexer and text: the tokens cut the text into maximal lexemes, looking ahead and
  going back change nothing, and a location always has the same line and column;
* parser: whatever the text and whatever the type checker refuses, it comes to an
  end, pairs the type checker's begin and end calls, accepts only properly bracketed
  text, and adds no errors of its own to a refusal;
* symbol table: leaving a scope restores exactly what was visible before;
* declarations: forward declarations and definitions pair up one to one, an
  accepted body completes its package, scopes and regions are entered and left
  together;
* overload resolution: an expression that is accepted has the meaning the
  resolver chose, and one with exactly one meaning is accepted;
* aggregates: every component of the destination is stored once, from the
  part of the aggregate that is meant for it;
* static evaluation: folding, emitted arithmetic and emitted checks agree with the
  integers and with each other;
* statement emission: whatever the nesting, each LLVM function is well formed,
  exceptions unwind to the lexically innermost handlers, and `exit` leaves the
  loop it names;
* exception runtime: two phases of unwinding, pads that match everything and
  pads that raise again add up to "the innermost covering handler";
* vstack: a caller finds its own result on top, and nobody frees data in use.

The parts not modelled are listed with their reasons in section 7 and, source by
source, in `PROJECT.json`, which also lists the hazards the properties are for.

## 2. Modules

| Module | Models | Kind |
|---|---|---|
| `SourceManager` | `SourceManager.cpp`, `DepParser.cpp` | component |
| `Driver` | `driver.cpp`; extends `SourceManager` | composition |
| `TextProvider` | `TextProvider.cpp` | operators |
| `TokenCursor` | a cursor over tokens that can be put down and taken up again | abstract specification |
| `Lexer` | `Lexer.cpp`, the token handling of `ParserBase.cpp`, over `TextProvider`; implements `TokenCursor` | composition |
| `TokenStream` | `ParserBase.cpp` and the seek routines of `Parser.cpp` and `ParseName.cpp` | operators |
| `Parser` | `Parser.cpp`, `ParseStmt.cpp`, ranges and indications of `ParseSubtype.cpp`, callbacks of `ParseClient.h` | component over `TokenStream` |
| `LexicalScope` | a stack of frames that bind names | abstract specification |
| `Scope` | `Scope.cpp`, `Homonym.h`, `Resolver.cpp`, direct names of `CheckName.cpp`; implements `LexicalScope` | component |
| `Declarations` | declaration callbacks of `TypeCheck.cpp`, `CheckPackage.cpp`, `CheckSubroutine.cpp` over `Decl.*`, `DeclRegion.*`, `Stencil.h` | component |
| `Overloads` | `CheckCall.cpp`, `SubroutineCall.cpp`, and the parts of `CheckName.cpp`, `CheckExpr.cpp`, `TypeCheck.cpp`, `Expr.cpp`, `Ast.cpp` they use | component and reference |
| `Aggregates` | `ParseExpr.cpp` (aggregates), `CheckAgg.cpp`, `AggExpr.*`, `CodeGenAgg.cpp`, `BoundsEmitter.cpp` | composition |
| `StaticRanges` | `Eval.cpp`, `Range.cpp`, the discrete types of `Type.cpp` and `Decl.cpp`, conversions, arithmetic and lengths of `CodeGenExpr.cpp`, `CodeGenCall.cpp`, `CodeGenTypes.cpp`, `BoundsEmitter.cpp`, `crt_math.c` | algorithms against the integers |
| `Frame` | `Frame.cpp` and the part of `llvm::IRBuilder` in use | operators |
| `CodeGenStmt` | `CodeGenStmt.cpp`, `HandlerEmitter.cpp`, `CodeGenRoutine.cpp`; the statement checks of `CheckStmt.cpp` as guards | component over `Frame` |
| `HandledSequences` | handlers of a program, innermost covering handler | operators |
| `ExceptionSemantics` | a raise as one step | abstract specification |
| `Exceptions` | `crt_exceptions.c`, the pads of `HandlerEmitter.cpp` and `CodeGen::emitEntry`, exinfos of `CommaRT.cpp`; implements `ExceptionSemantics` | component |
| `ValueStack` | a stack of values | abstract specification |
| `VStack` | `crt_vstack.c`; implements `ValueStack` | component |
| `VStackCalls` | vstack returns and calls of `CodeGenStmt.cpp`, `CodeGenCall.cpp`, `CodeGenExpr.cpp`, `CodeGenAgg.cpp` over `VStack` | composition |
| `OrderLemmas` | | lemmas on least and greatest numbers, induction, sequences, flattening and lists of a set's elements |
| `DriverProofs`, `ParserProofs`, `ScopeProofs`, `DeclarationsProofs`, `CodeGenProofs`, `ExceptionProofs`, `VStackProofs` | | theorems about `SourceManager` and `Driver`, `Parser`, `Scope`, `Declarations`, `CodeGenStmt`, `Exceptions`, `VStackCalls` |
| `MCDriver`, `MCLexer`, `MCParser`, `MCScope`, `MCDeclarations`, `MCOverloads`, `MCAggregates`, `MCStaticRanges`, `MCCodeGenStmt`, `MCExceptions`, `MCVStack` | | instances for TLC |

`PROJECT.json` maps every definition to the source lines it models. Operators
introduced by the comment "Mutant" or "A mutant" are not part of the model: each is
a plausible bug in the definition that follows it, and replacing the definition by
it makes TLC find a named property violated. `TypeOK` (`DriverTypeOK`,
`StackTypeOK`) documents the shape of a module's state; those of the loader, the
parser and the symbol table are proved, the others are not part of a run.

### SourceManager and Driver

The C++ recursion over with clauses is a stack of loop positions (`stack`), so
that every dependency visited is one step. `loadSub` is one iteration of
`loadSubDependencies`; `loadSubReturns` is its return, with the explicit
`CycleTable.remove`; an error return (`Fail`) unwinds all activations at once,
each `CycleEntry` destructor removing its item. A dependency name that cannot be
resolved leaves the dependents found before it, as the code does (`loadPartly`).
`extractDependencies` and `insertDependency` fill the ordered set with the move to
the end on every further occurrence. File contents are chosen in the initial state;
`DepParser` is the sequence of names it delivers, or its failure.

`Driver` adds one action per early return and effect of `compileSourceItem` and
`generateSourceItem`. Parsing and checking a file either fails or yields a unit
that declares what the file is named after, or does not. Code generation and the
linker succeed or fail.

### TextProvider and Lexer

A text is a sequence of characters and an offset counts from 0. The scanning
routines are operators from an offset to the token, the offset behind it and the
errors reported; the loops of the code are replaced by "the first offset at which"
over the text. What lies behind the NUL that ends the buffer is arbitrary
(`stray`). The lexer's cache, index and stack of positions and the parser's current
and saved tokens are variables; `nextToken`, `peekToken`, `beginExcursion`,
`endExcursion` and the queries of the line table (`Locate`, at the location of any
token) interleave in every order. A walk of the line table that leaves the buffer, and
an assertion about it, set `failed`; `extract` may be asked only of an open file.
`raw` and `stream` record the tokens scanned, for the refinement and for
`LexemesTileTheText`.

### TokenStream and Parser

The file is a sequence of token codes, chosen in the initial state, and a parser
state (`st`) holds the position in it, the result of the last routine (`ok`),
whether a syntax error was reported (`err`), what the client refused (`refused`),
`endTagStack` (`tags`) and the contexts that begin callbacks have opened and end
callbacks have not closed (`open`). Routines that do not recurse are operators from
parser states to parser states; an excursion is an operator that looks ahead and
returns no state, which `LookaheadIsTransparent` of `Lexer` justifies. Routines that
recurse are split at their loops: `ctl` is the C++ call stack, and each iteration is
one action, with the routine's trailing calls in the action that leaves the loop. So
`parseIfStmt` is `beginIfStmt`, `endThenPart` and `endElsePart`, `parseBlockStmt` and
`parseSubroutineBody` are a chain of declarative part, statements, handlers and end
tag.

The client is the type checker. It refuses a name that it does not know
(`Undeclared`), and may refuse a definition, a package, an exception choice or a
loop header whenever the code asks it.

What is left out: a name is one identifier (no selected components, attributes or
applications, so no "(" follows a name) and an expression is a name or `null`;
`Readable` restricts the files to such text. There are no literals and no operator
symbols, hence no conversion of literals.

The tag of a definition to be skipped is `endTagStack.top()` also if the stack is
empty (`Parser.cpp:769` and `:794`): the model then takes any tag.

### Scope

`entries`, `entryCache`, `directDecls` and `importDecls` are the fields of the
classes. `addDirectDecl`, `addImport`, `push`, `pop`, construction and destruction
are actions; the homonyms survive `Destroy`, because identifiers belong to the
process and the driver builds one `Scope` per file. Lookup (`checkDirectName`) is
an operator evaluated in every state. Entry tags are left out, which nothing
reads.

### Declarations

Syntax nodes live in a heap (`ast`) and refer to each other by number, 0 being the
null pointer. A frame of `scope` holds the declarations made directly in it: it is
the stack `LexicalScope` specifies and `Scope` implements, so use clauses need not
be repeated here. `region` and `package` are `declarativeRegion` and
`currentPackage`, `stencil` is whichever of the stencils is in use, `pending` the
declaration the parser holds until its body begins. Each callback is an action, with
its diagnostics counted in `errors` and the assertions it runs into collected in
`failed`; the checks of expressions inside a declaration are choices. The guards on
the kind of the region are the grammar's.

### Overloads

The first half is the reference: `Meanings` enumerates every choice of declarations
that makes an expression well typed, with and without the implicit dereferences of
selected components, indexed names and calls. The second half is the resolver:
callbacks push operands bottom up, a call keeps the declarations that its arguments
do not rule out, and `expressionInContext`, `expressionInClass` or
`acceptProcedureCall` settles the tree top down, with the preference for the
operators of `root_integer` and the conversions `convertIfNeeded` inserts. An
expression is source and node side by side, so that the two can be compared when
its outcome is known. `Unprepared` names the forms that the code is known not to
handle (section 6).

### Aggregates

One behaviour follows one aggregate or string literal: the parser's calls
(`beginAggregate`, `PositionalComponent`, `KeyedComponent`, `acceptAggregateOthers`,
`Closing`), with nested aggregates on `aggStack`; `Resolve` against the type of the
context; `Emit`, which computes destination bounds and the list of stores. An
expression is abstracted to scalar, composite or the diamond; a store names the
component of the source it comes from. The loops the generator writes count modulo
`2^Width`.

### StaticRanges

`llvm::APInt` is a pair of width and unsigned value, with the operations the code
uses. The machine evaluates static expressions on a stack of operands and declares
up to two types with the results. A literal has the fewest bits that hold it until it
is an argument of a resolved call; then it takes the width of the parameter: that of
`root_integer` where only literals decide, of the type declared where `First`, `Last`,
`Val` or the context do, of `Natural` on the right of `**` (`Contexts`, `InContext`). The widths 1, 8, 16, 32 and 64 of the code become
the members of `Sizes`. What the generator emits is given by operators over values
(`emitDiscreteConversion`, `emitPrimitiveCall`, `computeBoundLength`, the loop of
`crt_math.c`), which the properties apply to every value of every type reached.

### Frame and CodeGenStmt

`ir` records for every basic block whether it has a terminator, whether something
follows it, its successors, whether its PHI node is first, and which stack
pointers it restores. Values and instructions are not represented. `nest` is the
C++ call stack of the emitters. The tree being emitted is not an input: each step
chooses the next statement among those the parser and the type checker let
through, so that TLC covers all trees up to the bounds. Conditions are taken to
contain a call, the case in which the block changes under the emitter's hands.

The tag of a loop is the name of the basic block of its body, and `exit` looks the
loop up by that name, so names are part of the model. A block is named by a member of
`Tag`, by one of the compiler's own names (`BlockNames`), or has no name that matters;
names of the compiler with a point or a hyphen, such as `while.top`, cannot be spelled
as identifiers and are left out. Parameters are values of the same symbol table
(`Parameters`). `UniqueName` is LLVM's renaming: a name that is taken gets a number, and
the result, given by the constant `Suffixed`, may again spell an identifier. The reserved
words among the compiler's names cannot be tags (`TagAssumption`); `merge`, `alloa`,
`landingpad`, `lpad`, the numbered form of any of them and the names of parameters can.

`Unchecked` names two forms that reach the emitters although they are not
prepared for them: dead code inside a branch of an `if`, and a stack allocation
directly in the body of a `for` loop. The
run excludes both (`Unchecked = {}`); adding one to the configuration
reproduces what section 6 says about it.

### Exceptions

The platform's unwinder is modelled from how the runtime uses it: the search phase
asks the personality of each activation from the innermost outwards, the cleanup
phase unwinds to the activation that accepted. Call site tables and action records
are reduced to "the landing pad of the current call, and the list of exinfos with
the catch-all". A program is any sequence of calls, returns, entries into and exits
from handled sequences, and raises; handlers can raise, call and contain handled
sequences. The refinement maps an exception in flight to the state the program will
be in when it is handled, so the whole propagation is one abstract step.

### VStack and VStackCalls

Addresses are numbers and pointer arithmetic is modulo the address space: the
"entry" of the null stack pointer is `-offsetof(data)`, stored as the end of the
list and turned back into null by the last pop. `malloc` returns any address not in
use, reusing freed ones. `VStackCalls` has the two pushes of a returning function
and the four consumers as separate steps; calls nest, and an exception abandons
everything inside the innermost handled sequence without touching the vstack.

## 3. Runs

Passing runs:

| Run | States (about) | Shows |
|---|---|---|
| `driver` | 353,000 | `CycleTableIsChain`, `ReportIsCycle`: the cycle table is the chain of activations and reports are cycles. `LoadsExactlyWellFounded`: loading succeeds exactly for well-founded roots. `DependenciesCompiledFirst`, `SuccessMeansComplete`, `Exits`: files are compiled behind what they need, success is complete (and without `-fsyntax-only` everything asked for is written), the driver exits |
| `lexer` | 280,000 | `LookaheadIsTransparent` (refinement of `TokenCursor`): excursions and lookahead in any order leave the parser with the tokens of the file. `LinesAreRight`: lines, columns and extracted lines are right whatever was asked before. `StaysInText`: a file that ends with a newline is scanned within its bounds, and only closing a DOS file can leave them. `LexemesTileTheText`: an error-free file is cut into lexemes of the documented grammar and named forms of the scanner's own, and into maximal ones if the latter do not occur |
| `parser` | 387,000 | `ClientCallsNest`: the client's begin and end calls nest. `AcceptedMeansNested`: what is accepted is properly bracketed. `RecoveryIsSilent`: refusals cause no syntax errors, three recoveries apart (section 6). `EveryStepProgresses`: every step reads a token or lowers a measure |
| `scope` | 69,000 | `ImplementsLexicalScope`, `HomonymsMatchEntries`: the homonym lists implement lexical frames. `ImportsFollowEntries`: imports are visible while some scope has them and leave with it, operators of private types apart (section 6). `InnermostDeclarationWins`: lookup obeys hiding |
| `declarations` | 596,000 | `DefinitionsPair`: a definition and its forward declaration have one profile and point at each other. `AcceptedBodiesComplete`: an accepted package body completes every subroutine and type of its package. `ScopesFollowRegions`: frames and regions are entered and left together. `AssertionsHold`: no assertion of the checker fails before a diagnostic |
| `overloads` | 75,500 | `AcceptedIsTheMeaning`: an accepted tree is a meaning of its source, the only one or the preferred one, with conversions where they are needed and variables for `out` parameters. `UnambiguousIsAccepted`: an expression with one meaning is neither refused nor runs into an assertion |
| `aggregates` | 180,000 | `KeyedComponentsStoredOnce`, `RecordComponentsStoredOnce`: each component of the destination is stored once, from the key that covers it or from `others`. `UnconstrainedBoundsFit`: the bounds an unconstrained aggregate is given have room for exactly its components |
| `static_ranges` | 204,700 | `StaticOpsExact`: folding is exact, save for sums below the values of their width and powers of one bit, whose results are stated. `CompiledOpsAgree`: the emitted operations compute what folding does. `LengthsAgree`: the five computations of a length agree. `ConversionsSound`: conversions keep a value or raise, literals are in range |
| `codegen_stmt` | 766,000 | `FunctionVerifies`: the function passes LLVM's verifier. `LandingPadsAreLexical`: an exception unwinds to the lexically innermost handlers. `ExitLeavesItsLoop`: an `exit` without a tag leaves the innermost loop, and one with a tag leaves its loop exactly where the body of that loop kept the tag for its name |
| `exceptions` | 24,000 | `ImplementsSemantics` (refinement of `ExceptionSemantics`, so a raise never returns), `PropagationEnds` |
| `vstack` | 488,000 | `ImplementsStack` (refinement of `ValueStack`). `ResultsReachTheirCallers`: a caller finds its own result on top and what it holds a pointer to stays valid. `EntriesAccounted`: the list is intact, and every entry is owed to somebody or was abandoned by an exception |

One run expects a violation; it checks what a comment of the code says:

| Run | What happens |
|---|---|
| `aggregates_others` | `emitPositionalAgg` hands `emitOthers` the size of a vector that stays empty, so that `(1, 2, others => 0)` stores 0 over the components given by position (`CodeGenAgg.cpp:726`, the comment at `:651`) |

Bounds, and why they are enough for the cases of interest:

* `driver`: four units with up to two with clauses each, in any order and with
  repetition, the root under a second path, a name that does not exist, and one file
  that may not parse. Self-dependency, cycles of length two and three, cycles that
  do not contain the root, repeated clauses and diamonds all occur; the fourth unit
  gives a diamond whose bottom is shared, so that the "move to the end" rule matters
  twice. Four command lines cover the switches with and without code generation.
  The proofs remove the bounds for all properties but `Exits`.
* `lexer`: all files of up to three characters over an alphabet of nineteen, of up
  to five over the characters that start and end quotes and comments and over those
  of numbers, and seven longer ones that are also read with up to two nested
  excursions and with every order of location queries. Each scanning routine looks
  at most three characters ahead of where it decides.
* `parser`: five files that between them contain every declaration and statement
  form, each with and without names the client refuses, and with one such name in every
  single place that can take one, and every file that one edit
  makes of them (a token removed, one of eleven tokens inserted or put in place of
  another, the rest cut off). One edit reaches each error path; the grammar's own
  nesting brings the recoveries into packages, subroutines, blocks, handlers, loops
  and branches.
* `scope`: three nested scopes, so that a middle one is left while an outer one
  stays; a cache of one entry, so that it is empty, used and full
  (`EntryCacheSize`, 16 in the code); one identifier declared as two subroutines of
  the same type, one of another, a value and a component; two packages, one with a
  private type, one with an enumeration literal of the same name.
* `declarations`: two or three declarations of one of six families of kinds, two
  identifiers, one of which is also a unary operator, up to one parameter and two
  elements, in a package of the file and one of another file, with and without
  private part and body. The checker is followed up to its first diagnostic
  (`MaxErrors = 0`): nothing is generated for a file with errors. Three declarations
  are a forward declaration, what comes between, and the completion.
* `overloads`: six sets of declarations, each about one way of overloading
  (results, keyed arguments, operators of `root_integer`, records and access types,
  arrays, procedures with modes), and every expression of four or five operands and
  operators over them, in every context. That is three levels of calls, the depth at
  which a context has to travel through an overloaded call to another. Conversions
  are to integer and access types only (section 6).
* `aggregates`: up to three components with keys of every sort against an index
  type of three bits, where four components and a range over the whole index type
  both occur, and `InlineLimit` is 2 (8 in the code), so that short and long choices
  do; two levels of nesting.
* `static_ranges`: sizes of one to four bits stand for 1 to 64, three for the 32 of
  lengths; the literals reach past the greatest size, and folded values grow to seven
  bits (`MaxWidth`). Up to five steps of evaluation
  before the first and three before the second declaration give every sum, product
  and power that crosses a width.
* `codegen_stmt`: four statements, nested at most four deep, handlers with up to
  two choices. Every statement form occurs inside every other, in handlers, in
  loop bodies and behind terminators. There are two tags, which any number of loops and
  blocks may have: `n` names a parameter too, and `then1` is the name LLVM gives to the
  second block called `then`. The renaming of
  a loop by a parameter, by a numbered block and by an earlier tag all occur.
* `exceptions`: two activations with two handled sequences each: an exception
  raised in a handler, one that passes a pad of its own and one of its caller, and
  one that reaches `main` all occur. Handlers in an order that matters, one with
  two choices, and `others`. There is one user-defined exception and no
  `Program_Error` (section 6).
* `vstack`: three nested evaluations and one abandoned entry reach up to five
  entries at six addresses, with adjacent and distant blocks; the address space is
  128 so that the wrap below zero is visible.

The parser's run checks for deadlock: only a parser that is done may stand still.
Deadlock checking is off where the modelled program ends (the compiler exits, a
file is read, an expression is resolved, a function is finished, a program
terminates).

## 4. Fairness

The compiler is a sequential program: while it has a next step it takes it. So
`Driver!Spec` and `CodeGenStmt!Spec` have weak fairness of the whole
next-state relation and of nothing finer. In `Exceptions` the program may compute
for ever; only the steps of the runtime and of the pads (`Runtime`) are weakly
fair, because once an exception is raised nothing else runs. The other modules
state no liveness and no fairness. `Parser` needs no fairness for its termination:
`EveryStepProgresses` shows that each step reads a token or lowers `Work`, a natural
number, and the run finds no deadlock before the parser is done.

## 5. Proofs

Each theorem holds for every value of the constants that satisfies the assumptions
named in the module that declares them (`PathAssumption`, `BoundAssumption` and so
on, which TLC evaluates in the runs): any files, any number of statements,
activations, scopes or entries, any nesting. Further hypotheses are stated in the
theorem. Every component's proof has the same layout: lemmas about the operators, an
inductive invariant (`Inv`, for the parser `IInv`, for the loader `IInv`, `LoadInv` and
`ExtractInv`, for the driver `DriverInv`), a lemma for each action, the theorems.

| Theorem | States |
|---|---|
| `DriverProofs!LoaderInvariant`, `TypeCorrect`, `CycleTableCorrect`, `ReportCorrect`, `LoaderExact` | `TypeOK`, `CycleTableIsChain`, `ReportIsCycle`, `LoadsExactlyWellFounded` |
| `DriverProofs!DriverInvariant`, `CompiledInOrder`, `SuccessComplete` | `DependenciesCompiledFirst`, `SuccessMeansComplete` |
| `ParserProofs!StateFits`, `TypeCorrect`, `CallsNest`, `TagsSuffice`, `StepsProgress` | `TypeOK`, `ClientCallsNest`, `EndTagAtHand`, `EveryStepProgresses` |
| `ScopeProofs!Invariance`, `TypesRight`, `HomonymsMatch`, `ScopeRefinesFrames`, `LookupIsLexical`, `ImportsAreKept`, `ImportsFollow` | `TypeOK`, `HomonymsMatchEntries`, `ImplementsLexicalScope`, `InnermostDeclarationWins`, `ImportsFollowEntries` |
| `DeclarationsProofs!InvariantHolds`, `FramesAndRegionsAgree`, `ForwardDeclarationsPair`, `AcceptedPackagesComplete` | `ScopesFollowRegions`, `DefinitionsPair`, `AcceptedBodiesComplete` |
| `CodeGenProofs!Invariance`, `PadsFollowBlocks`, `ExitsFollowLoops`, `FunctionsVerify` | `LandingPadsAreLexical`; `ExitLeavesItsLoop`, for all tags, parameters and ways to make names unique; `FunctionVerifies` if the emitters are prepared for the subroutine's forms |
| `ExceptionProofs!Invariance`, `RuntimeRefinesSemantics` | raise routines never return; `ImplementsSemantics` if exinfos are faithful |
| `VStackProofs!Invariance`, `CallersFindResults`, `EntriesAreAccounted`, `ListRefinesStack` | `ResultsReachTheirCallers`, `EntriesAccounted`, `ImplementsStack` |

### Loader and driver

`IInv == TypeOK /\ CycleTableIsChain /\ DependentsAreNeeded /\ ReportIsCycle` is
inductive. `DependentsAreNeeded` (an item's dependents come from its own with
clauses, also when loading it stopped half way) connects the graph in memory, in
which the chain lives, with the files, about which the report speaks. The
interesting steps are `loadSubReturns`, where removing the top item from an ordered
set must be shown to shorten the chain by its last element, and `reportCycle`, where
a suffix of the chain is closed by the dependency just visited.

`LoadInv` says what loading has established: the dependents that the loops under
way have passed are *settled*, members of a set of loaded items that needs nothing
outside it and has no cycle. It does not say that every item with an empty list of
dependents is unloaded, and need not: `loadDependencies` skips an item when its list
is not empty, and a list that is not empty is complete. A failure implies that the
root reaches a cycle or a file that is not in order, so `LoadsExactlyWellFounded`
holds in both directions. `ExtractInv` follows the second recursion: an item precedes
each of its dependents in the ordered set unless a loop under way is still to move
that dependent to the end. When no loop is left the list is in order, and
`DriverInv` adds that the items behind the position of the compile loop are compiled
and written.

### Parser

The theorems are about any file of tokens (`ParserAssumption` says no more about the
files than that no name is followed by a parenthesis, and the proofs do not use that) and any
refusals.

Most of the work is to show of each routine that does not recurse that it `Goes` from
one parser state to a later one: it moves forward or stays, opens and closes no context of
the client and pops no tag. Some must do more: a routine that succeeds `Reads` a token,
and a subroutine declaration `Declares`: if the parser stands at the `is` behind an accepted
one, its tag is on the stack. The loops of the code (lists of parameters,
of literals, of indices and of components; nested parentheses, `if`s and loops in the seek
routines) are recursive functions over parser states or over places in the text and
nesting depths. `Loops` is their common form: `x` goes to `nxt[x]` until it is in
`Stop`. If a measure decreases from each `x` to the next (`Ends`), the function exists
(`LoopExists`), and what is good for the results and is passed on from each `x` to its
predecessor (`Keeps`) is good for all of it (`LoopReturns`). The measure is
the rest of the text. That the abandoned list of parameters, an unfinished record or an
array without parenthesis never hold up the parser in one place is decided here.

`IInv == Text /\ Fits(st, ctl)`. `Fits` says that the contexts the client has open are those
of the routines under way in their order, that the routines are stacked as the grammar allows
(`Placed`: packages lie in the compilation unit, bodies in package bodies, everything
else in them), and that some tag is left if a body is under way. The last two
belong together: a tag is popped where a body ends, or where a declaration that was refused is
skipped. If a body could be begun inside another body, two tags would be due, and a single
one would not be enough. But nested subroutines are parsed as declarations only, `Placed`
says so, and a declaration never pops. This is why `TagsSuffice` holds in spite of
tags that are left behind or taken in excess in package bodies (section 6). `EndTagAtHand`
itself is not part of a run.

`StepsProgress` takes the pair of position and `Work` as its measure. A step that ends
in front of the same token must replace a routine by a lighter one or by none
(`WorkFacts`, and the lemmas in the section "What a step of the parser can do"); `Work` is a
natural number. With the absence of deadlock, which the run checks, the parser comes to an end for
every file.

### Symbol table

`Inv` says that there is a chain of lists, one more than there are entries, that
leads from the lists in the homonyms to empty lists, and that between one list and
the next lie exactly the declarations of one entry. `push`, `pop` and `addDirectDecl`
lengthen, shorten and extend the chain. Only this order makes the removal in
`Entry::clear`, which takes the first occurrence of a declaration, remove the right
one. From the chain follow the two ways of stating that leaving a scope restores
what was visible: `HomonymsMatchEntries` and the refinement of `LexicalScope`. The
proof of `LookupIsLexical` then shows that a search that knows only the flat list
finds the first block of the chain, and stops collecting overloads where hiding
begins.

The lists of imports are no chain: `pop` clears the packages of an entry in the order
they came, and steps over the operators of private types, which pile up. What makes the
removals right there is that everything else is listed once. `ImportsKept` says so: no
package is imported by two entries, what the imported packages bring is in the lists,
everything else there is an operator of a private type, and all but these operators are
there at most once. It is inductive because a declaration has one place in one
region (`OwnerAssumption`: `addDecl` is called with a new declaration or with one that its
region does not list yet, and a package instance has its own copies, `Decl.cpp:1043`). A
clause therefore links nothing but private operators a second time, and clearing one
package touches nothing that another has brought. Without `OwnerAssumption` two
packages could share a declaration, which the first to leave would unlink for both.

### Declarations

`Inv` has three parts, because three different things make the callbacks work.

* `NodesInv` always holds, errors or not: the nodes are a well-founded tree by
  their regions (`Well`), a package and its private part and body refer to each other
  (`PackagesWhole`), subroutines are declared in parts of packages and
  in blocks (`RoutinesInParts`), and a definition has the kind and profile of its forward
  declaration and lies in or under its region (`DefinitionsAgree`). That a region has
  a smaller number than what it contains is what makes the walk outwards end.
* `ShapeInv` is the call stack of the parser, which no variable of the type checker
  holds. `Shape` lists the forms it can have (compilation unit, in it a part of a
  package, in it perhaps a subroutine, in each of the two perhaps a record), and for
  each the frames on `scope`, the region and the package; `StencilPlace` and `PendingPlace` say in which forms a
  stencil is in use and a declaration is waiting for its body. Without them nothing
  connects the push in one callback with the pops in another.
* `CleanInv` is what diagnostics take away: definitions point back at their forward
  declarations until `setDefiningDeclaration` runs into its assertion, and if nothing
  was reported definitions have bodies (`DefinitionsHaveBodies`, except the one
  still being read) and the packages already closed are complete
  (`PackagesComplete`).

Every callback changes a few fields of one or two nodes and adds nodes at the end.
`Stays`, `Keeps` and `Grows` name three degrees of "the rest is as it was", and the lemmas
that follow them carry each part of `Inv` over such a change once; the lemma of an
action only has to show which degree it has. The most delicate steps are
the ends of packages: `endPackageBody` only looks whether a declaration has some
definition, and completeness needs that the definition lies in the body being closed and
has itself got a body. `DefinitionsHaveBodies` says so, with the exception of a
definition whose body is about to begin, and `PendingPlace` rules that exception out when
the package ends. `IsFiniteSet(Dependency)` is assumed because the packages a file can
name in with clauses are listed in `ast` initially; a program has finitely many files.

### Statement emission

`Inv` gives every statement under way its subframe (`FramesFollow`, a strictly
increasing map from `nest` to `ir.frames`; handlers run in the subframe of their
block), says which merge block, landing pad and, where LLVM granted it, which name the subframe
has (`Matches`), that no two blocks have the same name (`NamesApart`), and that no other
subframe shares a block with that of a loop (`FramesSound`). Most of the proof is that the
emitters that write instructions and blocks leave all of this alone (`Grows`).
`ExitsFollowLoops` and `PadsFollowBlocks` need no hypothesis: where the body of a loop
kept its tag the search stops at that loop, and nowhere before it, and where the body
lost it the search goes astray. That the tag *is* kept does not hold (`ExitFindsItsLoop`,
section 6).

`FunctionsVerify` needs an invariant of its own, `Sequel`, about the graph of blocks. No
variable of the program holds what it speaks of, so `Verified` says that these exist:

* `dom`, which gives every block a set of blocks that all paths to it pass (`Graph`: an
  edge from `a` to `b` requires `dom[b] \subseteq dom[a] \cup {a}`, and a stack pointer is
  restored in `b` only if it was saved in a member of `dom[b] \cup {b}`). The entry blocks
  of the subframes on the stack are in `dom` of the block being filled (`Here`), and those
  below a subframe are enough for its merge block and landing pad (`FrameBounds`);
* `fill`, for every statement under way the blocks it has made and must still fill. They
  are empty and disjoint, each is filled once, and every other block that is not being filled has its
  terminator. `Slot` says for each form of statement which blocks these are: the merge
  block, for an `if` the next branch too, for a block with handlers the landing pad, for
  a handler the block of the next one until the catch-all has used it;
* `lev`, the subframe of every statement (`Link`).

The lemmas about `Leads` follow the builder within a subframe; `SanePush`, `SanePop`
and `PopAndMove` enter and leave one. At the end only the function's own blocks
wait, the prologue and epilogue fill them (`FinishComplete`), and `DominatorsHold`
shows by induction over the steps of `ReachableAvoiding` that `dom` means what it is meant to.
The hypothesis, `Prepared`, excludes the two forms with which the property fails
(section 6), dead code in an `if` and an allocation directly in the body of a `for`.

### Exceptions

`Inv` relates the two phases: the search has passed over activations without pads
only, so the cleanup phase meets no pad before its target, and in a pad the
selector is the exinfo if and only if some handler of that pad names it. In
particular no raise or reraise routine returns to the code behind its call. For the
refinement, a step of the unwinder must be a stutter: the abstract state of an
exception in flight is where it will be handled, and `AgreeSame`, `DecideSame` and
`SameMeaning` show that this does not depend on how far it has got. The hypothesis
`Faithful` says that a handler that names an exception with the exinfo of the raised
one covers the raised one. It holds when `registerException` is injective on the
program's exceptions; it fails for a program with a handler for one user-defined
exception that raises another (section 6), and there the refinement fails too.

### Variable stack

`Inv` says that the heap is one list (`IsList`: the sequence of addresses from the
bottom to the stack pointer, the wrapped "entry" of null below it), and where in that
sequence each evaluation under way has its data. An exception leaves entries behind,
after which a caller pops entries that are not its own; only the order of the
positions shows that what it frees is nobody else's. `ItemsPush` and `ItemsPop` turn
the walk along the pointers into steps of `ValueStack`.

### Induction, and what stays with TLC

The library's induction rules take an operator and cannot be used. `OrderLemmas`
proves instead that a set of naturals that contains 0 and successors contains every
natural (`SetInduction`), and that non-empty sets of naturals have a least element.
For a recursive function the set of arguments for which a fact holds is such a set.
A fold over a list is replaced by its run, the sequence of intermediate values
(`FoldRun` of `ScopeProofs`, `FlatExists` of `OrderLemmas`).

Only model-checked:

* liveness: `Exits`, `PropagationEnds`;
* `AssertionsHold` of `Declarations`: that no conflict meets the body's frame when the
  specification is introduced again depends on the order in which literals, operators and
  completions were listed, about which `Inv` of `DeclarationsProofs` says nothing;
* `AcceptedMeansNested` and `RecoveryIsSilent` of `Parser`: the first compares a parse with a
  second reading of the whole file, the second is about what follows the grammar, of which
  the model has examples and no definition;
* the properties of `Lexer`, `Aggregates` and `Overloads`. `Meanings` of `Overloads` is
  recursive over trees;
* the properties of `StaticRanges`: the provers know no facts about `2^n`, nor about
  remainders by a divisor that is not a number.

## 6. Behaviour noted while modelling, without a run

Where one of these would hide everything else, the property or the instance leaves
the case out and names it. Five of them contradict what a comment, an assertion or the
language reference says, and that claim is written down beside the property that holds:
`LinkedFilesAreWritten`, `ClosedFilesAreFinished`, `TokensAreLexemes`, `OperationsExtend`
and `ExitFindsItsLoop`. None of them is checked by a run; put in place of the properties
of `MCDriver.cfg`, `MCLexer.cfg`, `MCStaticRanges.cfg` and `MCCodeGenStmt.cfg`, TLC
shows each violated.

Driver, loader, symbol table:

* `driver.cpp:430` links whenever an entry point is given, also under
  `-fsyntax-only` (`driver.cpp:49`, "Only perform syntatic and semantic analysis."),
  with empty bitcode paths, although `:357` says "Ensure bitcode is generated in this
  case". `SuccessMeansComplete` promises written files only without that switch;
  `LinkedFilesAreWritten` is the promise of the comment.
* `driver.cpp:313` names bitcode files after the base name of the source, so two
  items of that base name in different directories overwrite each other's file.
  File names of outputs are not modelled.
* `DepParser.cpp:45` drops the result of `Twine::concat`, so that a with clause for
  `a.b` is a dependency on `a`.
* `Scope.cpp:113` imports the regions of private types and arrays, `Scope.cpp:134`
  clears only those of enumerations and integers: "=" and "/=" of an imported private
  type outlive the scope (`Scope.h:56`, "Moves the scope up one level and unlinks all
  declarations."), even into the next file. `ImportsFollowEntries` and the refinement
  name these operators.
* `Scope.cpp:109` does not walk into access types. After `use` their "=" and "/=" are not
  visible ("making all of the public exports indirectly visible", `Scope.h:71`); inside
  the package they are (`TypeCheck.cpp:807`). Package q of the `scope` run has such a type;
  `ImportsFollowEntries` is about what the walk does link.
* `Resolver.cpp:90` stops its search for duplicates at the first collected overload
  of another type. The model keeps candidates as a set.

Lexer and text:

* A comment that the end of the file cuts off, an unterminated string and a name that
  ends in `__` make the lexer read past the NUL (`Lexer.cpp:143`); `__` swallows the
  character behind it. `StaysInText` is about files that end with a newline.
* A file that ends in CR LF is closed by a walk that jumps over its last character and
  runs off the buffer (`TextProvider.cpp:173`), unless a location of its last line was
  looked up before, although every file is closed (`driver.cpp:393`) and `TextProvider.h:160`
  says that locations can still be extracted then. `StaysInText` names this
  as its exception, and `LinesAreRight` says nothing of what the walk leaves behind;
  `ClosedFilesAreFinished` is the promise of the comment.
* The scanner takes more than the grammar of `lexstruct.xml:230` and `:503`: a name may
  begin with `_` and hold `?` or `%`, a number may have several exponents (`1e5e5`), a
  fraction behind its exponent (`7E7.7`) and underscores behind the point.
  `LexemesTileTheText` allows exactly these forms (`Lax`) besides the grammar's;
  `TokensAreLexemes` is what the document says.
* A number in front of CR LF keeps the CR. Identifiers are folded to lower case, where
  `lexstruct.xml:238` calls them case sensitive.
* `close` on an empty file computes its last line from offset -1
  (`TextProvider.cpp:165`).
* `ParseExpr.cpp:324` and `:336` hold a reference into the current token across the
  call that replaces it.

Parser:

* `ParseStmt.cpp:290` and `:345`: a loop header that is refused is abandoned in front
  of its own `loop`, which `seekEndLoop` (`Parser.h:186`, "taking into account inner loop
  statmements") then counts as an inner loop. Without the exclusion in
  `RecoveryIsSilent` TLC shows `while u loop ... end loop` swallowing the rest of
  the file, and syntax errors in a file that has none.
* `ParseStmt.cpp:503`: a refused exception choice seeks the nearest `end`, which may
  be that of a statement inside the handler; the source has a FIXME.
* `ParseStmt.cpp:431` and `:440`: a refused argument of `pragma Assert` is followed by a
  search for the closing parenthesis, which is left to be parsed, so that `parseStatement`
  (`:74`) reports a missing semicolon. Of all the places for a refused name in the files
  of the `parser` run these two are the only ones that cause a syntax error outside loop
  headers and exception choices; `RecoveryIsSilent` names all three (`AssertsAccepted`).
* `Parser.cpp:769` and `:794`: `procedure is` in a package body. The declaration returns
  before it has pushed a tag, and the skipping of the body takes one from a stack that may be
  empty ("Inconsistent end tag stack!" in the next line).
* `Parser.cpp:671`: a subroutine declaration followed by `is` where no body is
  parsed (in a specification or a declarative part) leaves its tag on
  `endTagStack`, where the next end tag is compared with it.
* `Parser.cpp:116`: `seekAndConsumeEndTag` without a tag also consumes the token that
  follows `end`.
* `Parser.cpp:1092`: an array type without a parenthesis is dropped up to the next
  semicolon with no diagnostic, so that such text is accepted. `AcceptedMeansNested`
  leaves it out; without the exclusion TLC finds `type q is array is p` accepted.
* `Parser.cpp:98`: `seekEndTag` stops at the end of an inner block that has the tag of
  the subroutine being skipped; the files of the `parser` run have no such block.

Declarations:

* `endPackageBody` pops two regions, so behind a body whose package has a private
  part a further package body is refused as being at the wrong level.
* A second definition of a subroutine whose first declaration is a definition, and
  a second completion of a private type, are accepted; a definition that repeats the
  profile of the subroutine around it trips "Cannot reset base declaration!"
  (`Decl.cpp:277`). `DefinitionsPair` leaves this last state out.
* An incomplete type may be completed by another incomplete declaration
  (`TypeCheck.cpp:1114`), which `CheckPackage.cpp:163` then takes for complete. A public
  one can be completed neither in the private part nor, when there is one, in the
  body; a package body does not see the literals of a completed one.
* A duplicate enumeration literal marks the stencil invalid, which `endEnumeration`
  does not look at; a duplicate record component is reported and still added.
* `ensureExportConstraints` looks at the visible part only. The constructor of
  `ArrayDecl` takes the first index for every dimension (`Decl.cpp:870`).
* A definition in the private part of a subroutine declared in the visible part makes
  `beginPackageBody` trip "Inconsistent private type decl!".

Overload resolution (`Unprepared` names the forms that reach the run):

* `Type::isUniversalTypeOf` tests its argument and not itself (`Type.cpp:158`, where
  `Type.h:102` says "Returns true if this is a universal type which contains (or
  covers) the given type"): a literal can be converted to any type at all
  (`CheckExpr.cpp:502`).
* A keyword given twice trips "Duplicate keywords!" when several candidates are left
  (`SubroutineCall.cpp:84`). An indexed name with an overloaded prefix trips
  "Expression does not have a resolved type!" (`CheckExpr.cpp:143`).
  `checkApplicableArgument` casts an unresolved selected or indexed name to a function
  call (`CheckCall.cpp:138`). `null` where a class of types is expected asserts.
* `f.all` is refused when several overloads of `f` return access types, though the
  context could decide. A nullary function with an index is not considered once
  some overload has that many parameters (`CheckName.cpp:406`). Implicit dereferences
  are tried only when one candidate is left.
* `setArgument` replaces the argument before it looks for it among the keyed ones
  (`SubroutineCall.cpp:194`), which keep the old one. `checkScalarBound` tests `decl`
  where `prefixTy` is meant (`CheckAttrib.cpp:152`).
* Inside a package body a literal fits a private type completed as an integer only
  where the call is not overloaded. `f.all` is not a variable.

Aggregates:

* A range key over the whole index type with more than eight values stores nothing
  (`CodeGenAgg.cpp:788`). A dynamic null range with upper below lower - 1 overruns, and
  a null static context with `others` stores once.
* Positional aggregates in a dynamically constrained context trip assertions of
  `synthAggregateBounds`, string literals the one of `ArrayType::length`; the empty
  string is rejected or asserts.
* `parseAggregate` returns without `endAggregate` when a positional component follows a
  keyed one (`ParseClient.h:342`). A component that names a type is added as a null
  pointer (`CheckAgg.cpp:992`), a key that does trips "Key type not yet supported!".
* Static keys that are not literals are not range-checked; keyed aggregates are not
  compared with all of a constrained context (FIXME in the source).
* `computeTotalBoundLength` adds the lengths of the dimensions; `computeIsNull` compares
  signed also for unsigned types.

Static evaluation and ranges:

* A negative sum that overflows its width is zero-extended (`Eval.cpp:397`, comment at
  `:144`). Literals in calls have the width of the parameter's type, so that `-2 - 3` is
  -5, but `T'First - 1` of a type with range -128 .. 127 folds to 127, a sum of
  `root_integer` below `-2**63` to a positive number, and, since products are cut down
  to the fewest bits, `(-2)*1 - 1*1` to 1. In one bit (`(0*1) ** 0`, or a type with range
  -1 .. 0) `x ** 0` folds to -1, else to 1; at run time it is 0 (`crt_math.c:18`).
  `StaticOpsExact` states what the first two come to (`NegativeOverflow`, `BitPower`),
  and `OperationsExtend` is the promise of the comment; the last is left out of
  `CompiledOpsAgree`.
* `type T is range 0 .. 2**64` trips "Range too wide to represent!", computed bounds of
  a subtype outside its base trip "Bounds too wide!".
* `Range::contains` and `DiscreteType::contains` compare signed: every literal of a type
  `mod 2**8`, `2**16`, `2**32` or `2**64` is refused (comment at `CheckExpr.cpp:255`), and
  0 .. 127 "contains" 0 .. 200, so that a check is skipped (`CodeGenExpr.cpp:496`).
  `T'Last` of an unsigned type is folded as a signed number; modular arithmetic is not
  reduced; comparisons are signed. `ConversionsSound` is about signed types.
* `computeBoundLength` sign-extends narrow unsigned bounds, and is negative for null
  ranges whose bounds are not adjacent. `lowerArrayType` ignores constraints of
  enumeration index types, `Val` and division have no checks (FIXMEs in the source).
* Sizes can be 1, where `getSize` is documented as "8, 16, 32, or 64".

Code generator and runtime:

* Statements behind a `return` in a branch of an `if` reach the generator
  (`CheckStmt.cpp:135` against `:238`) and are emitted behind the terminator.
  `Unchecked = {"dead code in if"}` shows `FunctionVerifies` violated.
* LLVM renames a block whose name a parameter (`Frame.cpp:260`), a block of the compiler
  (`Frame.cpp:36`, `CodeGenStmt.cpp:248`) or an earlier statement has, and
  `findFirstNamedSubframe` compares the tag with the new name (`CodeGenStmt.cpp:473`,
  `Frame.h:215`), so that `exit` finds no subframe and the assertion at
  `CodeGenStmt.cpp:478` fails, or it leaves another statement. A single loop called `merge`,
  or like a parameter, is enough. `ExitLeavesItsLoop` says exactly when this happens;
  `ExitFindsItsLoop` is what the assertion claims.
* `Frame.cpp:67` inserts the save of the stack pointer at the beginning of the entry
  block. In a `for` loop that is in front of the PHI node of the loop parameter.
  `Unchecked = {"allocation in for"}` shows `FunctionVerifies` violated.
* `emitBlockStmt` and `emitIfStmt` branch to the merge block before they pop their
  subframe, so the restore of the stack pointer is skipped (`Frame.cpp:77`,
  `CodeGenStmt.cpp:231` and `:267`). Arrays allocated by the condition of a `while` loop
  belong to the enclosing subframe and pile up (`CodeGenStmt.cpp:321`).
* The case for user exceptions in `registerException` falls through: to the runtime they
  are all `Program_Error` (`CommaRT.cpp:339`). `Exceptions` has the fall through.
* An exception in an index expression leaves the indexed array on the vstack
  (`CodeGenExpr.cpp:171`); `EntriesAccounted` counts such entries as abandoned.
* `crt_exceptions.c:159` and `:826` read table values through types narrower than
  their encoding, and compare an unsigned index with zero. Exception objects are never
  freed by handlers (`crt_exceptions.c:901`).

## 7. Not modelled

* The parser's names and expressions beyond one identifier and aggregates;
  attributes, allocators, expanded names and private types in overload resolution;
  assignments and the lowering of types other than discrete and array types;
  name mangling; the work list of package instances; the decoding of DWARF tables:
  planned, see below.
* The syntax tree as such (constructors, accessors): the parts with state of their
  own are in the modules that use them. Uniquing of types is a folding set of LLVM,
  rewriting a map.
* Dumpers, visitors, tables of names, formatting of diagnostics and file access keep
  no state a property could be about. `crt_alloc.c` is one call of `malloc`;
  `_comma_vstack_alloc` and `forgetExcursion` have no caller.

## 8. Plan

Done, in the order of importance for what a Comma user relies on: loader and
driver, symbol table, statement emission, exceptions, vstack, parser, lexer,
declarations, aggregates, static ranges, overload resolution; proofs of loader,
driver, parser, symbol table, declarations, statement emission, exceptions and vstack.

Next theorems:

1. `Declarations`: `AssertionsHold`, by adding to `Inv` that the names in a region conflict
   only where one completes the other.
2. `Lexer`: the refinement of `TokenCursor`, for any text.
3. `Parser`: `AcceptedMeansNested`, with a grammar of brackets as an invariant of `ctl` and
   the text behind the position.

Next modules:

1. Names and expressions of the parser (`ParseName.cpp`, `ParseExpr.cpp`): selected
   components, applications and operator precedence, added to `Parser`; with them the
   excursions that decide between a call and a selected component.
2. `Overloads`: attributes, allocators, private types, and the ranges of discrete
   subtype definitions (`checkDSTRange`).
3. `Instances`: uniquing of types (`AstResource.cpp`), rewriting
   (`DeclRewriter.cpp`), and the work list of `CodeGen.cpp`. Properties: each
   instance is emitted once and the list runs empty.
4. The LEB128 decoding of `crt_exceptions.c` as functions over short inputs, against
   reference definitions.
