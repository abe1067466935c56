---------------------------- MODULE Declarations ----------------------------
(***************************************************************************)
(* The declaration callbacks of the type checker: packages, their private   *)
(* parts and bodies, types and their completions, subroutines and their     *)
(* definitions (TypeCheck.cpp, CheckPackage.cpp, CheckSubroutine.cpp over   *)
(* Decl.{h,cpp}, DeclRegion.{h,cpp} and Stencil.h).                         *)
(*                                                                          *)
(* Syntax nodes live in the heap `ast`; a node's number is its address and  *)
(* 0 is the null pointer.  The scope is the stack of frames that module     *)
(* LexicalScope specifies and module Scope implements; only what a frame    *)
(* contains directly matters here, so use clauses are left to Scope.  The   *)
(* parser makes the calls, so the guards on the region kind say where the   *)
(* grammar admits a declaration.                                            *)
(***************************************************************************)
EXTENDS Integers, Sequences, FiniteSets, SequencesExt

CONSTANTS
  Name,          \* identifiers of declarations, formals and literals
  PackageName,   \* identifiers of packages
  Dependency,    \* packages of other compilation units, PackageName members
  OperatorArity, \* arities of the identifiers that name operators
  Features,      \* kinds of declaration the run makes, a set of alternatives
  MaxDecls,      \* bound: declarations made, by alternative
  MaxParams,     \* bound: parameters of a subroutine
  MaxElems,      \* bound: literals or components of a type
  MaxErrors      \* bound: diagnostics, after which the run stops

Mode == {"default", "in", "out"}

ASSUME DeclarationAssumption ==
  /\ Dependency \subseteq PackageName /\ IsFiniteSet(Dependency)
  /\ DOMAIN OperatorArity \subseteq Name
  /\ MaxParams \in Nat /\ MaxElems \in Nat /\ MaxErrors \in Nat
  /\ \A f \in Features : MaxDecls[f] \in Nat

VARIABLES
  ast,        \* all nodes built so far
  scope,      \* frames, innermost first: [kind, decls]
  region,     \* TypeCheck::declarativeRegion
  package,    \* TypeCheck::currentPackage
  stencil,    \* enumStencil or routineStencil, whichever is in use
  pending,    \* the declaration node the parser holds while a body follows
  errors,     \* number of diagnostics
  failed,     \* assertions of the code that did not hold
  made,       \* number of declarations, bounded by MaxDecls
  features    \* the alternative of Features chosen

vars == <<ast, scope, region, package, stencil, pending, errors, failed, made,
          features>>

TypeKinds == {"Incomplete", "Private", "Enumeration", "Integer", "Array",
              "Record", "Access"}
RoutineKinds == {"Function", "Procedure", "EnumLiteral"}

NoSig == [params |-> <<>>, ret |-> 0]

\* A node with every link null: the fields of Decl, DeclRegion, SubroutineDecl,
\* PackageDecl and the type declarations.
Blank ==
  [kind |-> "none", name |-> "", region |-> 0, decls |-> <<>>,
   completion |-> 0, forward |-> 0, private |-> 0, body |-> 0, type |-> 0,
   subtype |-> FALSE, limited |-> FALSE, indefinite |-> FALSE, sig |-> NoSig,
   import |-> FALSE]

IdleStencil ==
  [of |-> "idle", name |-> "", valid |-> TRUE, elems |-> <<>>, ret |-> 0]

FrameOf(kind, decls) == [kind |-> kind, decls |-> decls]

Kind(d) == ast[d].kind
IsRoutine(d) == Kind(d) \in RoutineKinds
NextNode == Len(ast) + 1
-----------------------------------------------------------------------------
(* Types and profiles *)

\* PrimaryType::getRootType of the type a declaration introduces.
RootOf(heap, t) ==
  IF t # 0 /\ heap[t].subtype THEN heap[t].type ELSE t

\* SubroutineType::compareProfiles: parameter and return types by root.
SameProfile(heap, x, y) ==
  /\ (heap[x].kind = "Procedure") = (heap[y].kind = "Procedure")
  /\ Len(heap[x].sig.params) = Len(heap[y].sig.params)
  /\ \A i \in DOMAIN heap[x].sig.params :
        RootOf(heap, heap[x].sig.params[i].type)
          = RootOf(heap, heap[y].sig.params[i].type)
  /\ RootOf(heap, heap[x].sig.ret) = RootOf(heap, heap[y].sig.ret)

\* Scope::directDeclsConflict.
DirectDeclsConflict(heap, x, y) ==
  /\ heap[x].name = heap[y].name
  /\ ({heap[x].kind, heap[y].kind} \subseteq RoutineKinds) =>
        SameProfile(heap, x, y)

\* Scope::findConflictingDirectDecl in the innermost frame; 0 if there is none.
FindConflict(heap, frame, d) ==
  LET clashes == {x \in frame.decls : DirectDeclsConflict(heap, x, d)}
  IN  IF clashes = {} THEN 0 ELSE CHOOSE x \in clashes : TRUE

\* compatibleSubroutineDecls: the same (uniqued) type, the same modes, where
\* an unspecified mode is "in", and the same keywords.
compatibleSubroutineDecls(heap, x, y) ==
  /\ heap[x].name = heap[y].name /\ heap[x].kind = heap[y].kind
  /\ heap[x].sig.ret = heap[y].sig.ret
  /\ Len(heap[x].sig.params) = Len(heap[y].sig.params)
  /\ \A i \in DOMAIN heap[x].sig.params :
       LET p == heap[x].sig.params[i]
           q == heap[y].sig.params[i]
       IN  /\ p.type = q.type /\ p.name = q.name
           /\ (p.mode = "out") = (q.mode = "out")

\* The regions from r outwards (DeclRegion::getParent).
Enclosing(heap, r) ==
  LET outward[x \in 0..r] == IF x = 0 THEN {} ELSE {x} \cup outward[heap[x].region]
  IN  outward[r]

\* completionIsVisibleIn of an incomplete and of a private type declaration.
completionIsVisibleIn(t, r) ==
  /\ ast[t].completion # 0
  /\ ast[t].region \in Enclosing(ast, r)

\* ensureCompleteTypeDecl: the completion of an incomplete type if it is
\* visible here, 0 after a diagnostic otherwise.
ensureCompleteTypeDecl(t) ==
  IF Kind(t) # "Incomplete" THEN t
  ELSE IF completionIsVisibleIn(t, region) THEN ast[t].completion ELSE 0

\* resolveType: incomplete and private types are seen through, where allowed.
\* A completion that is itself incomplete or private is in no frame, so it has
\* no completion of its own and the recursion ends there.
resolveType(t) ==
  IF Kind(t) \in {"Incomplete", "Private"} /\ completionIsVisibleIn(t, region)
  THEN ast[t].completion
  ELSE t

\* The declarations a name denotes: the subroutines down to the first frame
\* that hides them, or the first other declaration (Resolver::resolve).
Denotes(n) ==
  LET here(i) == {d \in scope[i].decls : ast[d].name = n}
      opaque == {i \in DOMAIN scope : \E d \in here(i) : ~IsRoutine(d)}
      bound == {i \in DOMAIN scope : here(i) # {}}
  IN  IF bound = {} THEN {}
      ELSE LET first == CHOOSE i \in bound : \A j \in bound : i =< j
           IN  IF first \in opaque THEN here(first)
               ELSE UNION {here(i) : i \in
                      {k \in bound : \A j \in opaque : k < j}}

\* The types the source text can name here.
VisibleTypes ==
  {d \in UNION {f.decls : f \in Range(scope)} :
     Kind(d) \in TypeKinds /\ Denotes(ast[d].name) = {d}}
-----------------------------------------------------------------------------
(* Introducing declarations *)

\* A diagnostic, counted up to the bound.
Reported(n) == IF errors + n > MaxErrors THEN MaxErrors + 1 ELSE errors + n

AddToRegion(heap, r, d) ==
  IF r = 0 THEN heap ELSE [heap EXCEPT ![r].decls = Append(@, d)]

AddToFrame(frames, ds) == [frames EXCEPT ![1].decls = @ \cup ds]

\* IncompleteTypeDecl::isCompatibleCompletion.
incompleteCompatible(heap, t, d) ==
  /\ heap[t].completion = 0
  /\ \/ heap[t].region = heap[d].region
     \/ /\ heap[heap[d].region].kind = "Body"
        /\ heap[t].region = heap[heap[d].region].region

\* PrivateTypeDecl::isCompatibleCompletion.
privateCompatible(heap, t, d) ==
  /\ heap[heap[d].region].kind = "PrivatePart"
  /\ heap[heap[d].region].region = heap[t].region
  /\ ~heap[d].subtype

\* introduceTypeDeclaration(d) in region r, as the heap and the frames it
\* leaves and whether the declaration was accepted.
introduceTypeDeclaration(heap, frames, r, d) ==
  LET c == FindConflict(heap, Head(frames), d)
      completed == [heap EXCEPT ![c].completion = d]
  IN  IF c = 0
      THEN [ast |-> AddToRegion(heap, r, d), ok |-> TRUE,
            scope |-> AddToFrame(frames, {d})]
      ELSE IF heap[c].kind = "Incomplete" /\ incompleteCompatible(heap, c, d)
      THEN [ast |-> IF heap[c].region # r
                    THEN AddToRegion(completed, r, d) ELSE completed,
            ok |-> TRUE, scope |-> frames]
      ELSE IF heap[c].kind = "Private" /\ privateCompatible(heap, c, d)
      THEN [ast |-> AddToRegion(completed, r, d), ok |-> TRUE, scope |-> frames]
      ELSE [ast |-> heap, ok |-> FALSE, scope |-> frames]

\* introduceImplicitDecls: the literals a type declaration holds, each checked
\* against the frame.  Predefined operators clash with no name of the model.
ImplicitConflicts(heap, frames, d) ==
  {l \in Range(heap[d].decls) :
     /\ heap[l].kind = "EnumLiteral" /\ l \notin Head(frames).decls
     /\ FindConflict(heap, Head(frames), l) # 0}

introduceImplicitDecls(heap, frames, d) ==
  AddToFrame(frames, {l \in Range(heap[d].decls) :
                        heap[l].kind = "EnumLiteral"
                          /\ FindConflict(heap, Head(frames), l) = 0})

\* A new declaration is made, within the bound and the features of the run.
Making(feature) ==
  /\ feature \in features /\ errors =< MaxErrors /\ stencil.of = "idle"
  /\ pending = 0 /\ made < MaxDecls[features]
  /\ made' = made + 1 /\ UNCHANGED features

\* A type declaration, its implicit declarations included.
DeclareType(node) ==
  \E r \in {introduceTypeDeclaration(Append(ast, node), scope, region,
                                     NextNode)} :
    /\ ast' = r.ast
    /\ scope' = r.scope
    /\ errors' = Reported(IF r.ok THEN 0 ELSE 1)
    /\ UNCHANGED <<region, package, stencil, pending, failed>>

Refuse ==
  /\ errors' = Reported(1)
  /\ UNCHANGED <<ast, scope, region, package, stencil, pending, failed>>

\* Types are declared in specifications, bodies and subroutine blocks.
TypesAllowed ==
  region # 0 /\ Kind(region) \in {"Package", "PrivatePart", "Body", "Block"}
    /\ Head(scope).kind # "RECORD_SCOPE" /\ Len(scope) > 1

\* Constructors, one for each class of Decl.h; the region is the current one.
Node(kind, n) == [Blank EXCEPT !.kind = kind, !.name = n, !.region = region]

IncompleteNode(n) == Node("Incomplete", n)
PrivateNode(n, limited) == [Node("Private", n) EXCEPT !.limited = limited]
IntegerNode(n) == Node("Integer", n)
AccessNode(n, t) == [Node("Access", n) EXCEPT !.type = t]
RecordNode(n) == Node("Record", n)
ComponentNode(n, t) == [Node("Component", n) EXCEPT !.type = t]
ObjectNode(n, t) == [Node("Object", n) EXCEPT !.type = t]

\* An array is indefinite when its index ranges are not constrained.
ArrayNode(n, t, constrained) ==
  [Node("Array", n) EXCEPT !.type = t, !.indefinite = ~constrained]

\* A subtype declaration shares the root of the type it constrains.
SubtypeNode(n, t) ==
  [Node(Kind(t), n) EXCEPT !.subtype = TRUE, !.type = RootOf(ast, t)]

\* A type declaration holds its literals, each a function without parameters.
LiteralNode(n, e) ==
  [Blank EXCEPT !.kind = "EnumLiteral", !.name = n, !.region = e,
                !.sig = [params |-> <<>>, ret |-> e]]
EnumerationNode(n, literals) == [Node("Enumeration", n) EXCEPT !.decls = literals]

RoutineNode(kind, n, params, ret) ==
  [Node(kind, n) EXCEPT !.sig = [params |-> params, ret |-> ret]]
ParamNode(p, routine) ==
  [Blank EXCEPT !.kind = "Param", !.region = routine, !.name = p.name,
                !.type = p.type]
BlockNode(routine) ==
  [Blank EXCEPT !.kind = "Block", !.name = ast[routine].name, !.region = routine]

PackageNode(n) == [Blank EXCEPT !.kind = "Package", !.name = n]
PrivatePartNode == Node("PrivatePart", "")

\* A body is registered under the private part where there is one.
BodyNode(p) ==
  [Blank EXCEPT !.kind = "Body",
     !.region = IF ast[p].private # 0 THEN ast[p].private ELSE p]
-----------------------------------------------------------------------------
(* Type declarations *)

acceptIncompleteTypeDecl(n) ==
  /\ TypesAllowed /\ Making("incomplete")
  /\ DeclareType(IncompleteNode(n))

acceptPrivateTypeDecl(n, limited) ==
  /\ TypesAllowed /\ Making("private")
  /\ IF Kind(region) # "Package" THEN Refuse
     ELSE DeclareType(PrivateNode(n, limited))

\* Signed and modular types: the checks of the bounds either fail or pass.
acceptIntegerTypeDecl(n, rangeOK) ==
  /\ TypesAllowed /\ Making("integer")
  /\ IF ~rangeOK THEN Refuse ELSE DeclareType(IntegerNode(n))

\* acceptSubtypeDecl and acceptRangedSubtypeDecl: of discrete types, and
\* without a range of access types too.
acceptSubtypeDecl(n, t, ranged) ==
  /\ TypesAllowed /\ Making("subtype")
  /\ IF Kind(t) \in {"Integer", "Enumeration"} \/ (Kind(t) = "Access" /\ ~ranged)
     THEN DeclareType(SubtypeNode(n, t))
     ELSE Refuse

\* The indices must all be constrained, or none may be.
acceptArrayDecl(n, t, constrained) ==
  /\ TypesAllowed /\ Making("array")
  /\ \E c \in {ensureCompleteTypeDecl(t)} :
       IF constrained = BOOLEAN \/ c = 0 \/ (c # 0 /\ ast[c].indefinite)
       THEN Refuse
       ELSE DeclareType(ArrayNode(n, c, constrained = {TRUE}))

\* The designated type may be incomplete.
acceptAccessTypeDecl(n, t) ==
  /\ TypesAllowed /\ Making("access")
  /\ DeclareType(AccessNode(n, t))

beginEnumeration(n) ==
  /\ TypesAllowed /\ Making("enumeration")
  /\ stencil' = [stencil EXCEPT !.of = "Enumeration", !.name = n]
  /\ UNCHANGED <<ast, scope, region, package, pending, errors, failed>>

\* A literal that occurs twice, or has the name of the type, is dropped.
acceptEnumerationLiteral(n) ==
  /\ stencil.of = "Enumeration" /\ Len(stencil.elems) < MaxElems
  /\ errors =< MaxErrors
  /\ \E double \in {n \in Range(stencil.elems)} :
       IF double \/ n = stencil.name
       THEN /\ stencil' = [stencil EXCEPT !.valid = @ /\ ~double]
            /\ errors' = Reported(1)
       ELSE /\ stencil' = [stencil EXCEPT !.elems = Append(@, n)]
            /\ UNCHANGED errors
  /\ UNCHANGED <<ast, scope, region, package, pending, failed, made, features>>

\* The declaration and its literals; an empty enumeration is not built.
EnumerationNodes ==
  LET e == NextNode
      k == Len(stencil.elems)
  IN  [literals |-> [i \in 1..k |-> LiteralNode(stencil.elems[i], e)],
       decl |-> EnumerationNode(stencil.name, [i \in 1..k |-> e + i])]

endEnumeration ==
  /\ stencil.of = "Enumeration"
  /\ stencil' = IdleStencil
  /\ IF stencil.elems = <<>> THEN UNCHANGED <<ast, scope, errors>>
     ELSE \E n \in {EnumerationNodes} :
          \E r \in {introduceTypeDeclaration(Append(ast, n.decl), scope, region,
                                         NextNode)} :
          \E heap \in {r.ast \o n.literals} :
            /\ ast' = heap
            /\ scope' = IF r.ok THEN introduceImplicitDecls(heap, r.scope, NextNode)
                        ELSE r.scope
            /\ errors' = Reported(IF ~r.ok THEN 1
                 ELSE Cardinality(ImplicitConflicts(heap, r.scope, NextNode)))
  /\ UNCHANGED <<region, package, pending, failed, made, features>>

beginRecord(n) ==
  /\ TypesAllowed /\ Making("record")
  /\ ast' = Append(ast, RecordNode(n))
  /\ scope' = <<FrameOf("RECORD_SCOPE", {})>> \o scope
  /\ region' = NextNode
  /\ UNCHANGED <<package, stencil, pending, errors, failed>>

\* The component joins the record before the conflict is found.
acceptRecordComponent(n, t) ==
  /\ Head(scope).kind = "RECORD_SCOPE" /\ errors =< MaxErrors
  /\ Len(ast[region].decls) < MaxElems
  /\ \E c \in {ensureCompleteTypeDecl(t)} :
       IF c = 0 \/ (c # 0 /\ ast[c].indefinite)
       THEN errors' = Reported(1) /\ UNCHANGED <<ast, scope>>
       ELSE \E heap \in {AddToRegion(Append(ast, ComponentNode(n, c)), region,
                                 NextNode)} :
            /\ ast' = heap
            /\ IF FindConflict(heap, Head(scope), NextNode) = 0
               THEN scope' = AddToFrame(scope, {NextNode}) /\ UNCHANGED errors
               ELSE errors' = Reported(1) /\ UNCHANGED scope
  /\ UNCHANGED <<region, package, stencil, pending, failed, made, features>>

endRecord ==
  /\ Head(scope).kind = "RECORD_SCOPE"
  /\ \E r \in {introduceTypeDeclaration(ast, Tail(scope), ast[region].region,
                                        region)} :
       /\ ast' = r.ast
       /\ scope' = r.scope
       /\ errors' = Reported(IF r.ok THEN 0 ELSE 1)
  /\ region' = ast[region].region
  /\ UNCHANGED <<package, stencil, pending, failed, made, features>>
-----------------------------------------------------------------------------
(* Objects, of the declarative part of a subroutine *)

InBlock == region # 0 /\ Kind(region) = "Block"

DeclareObject(n, t) ==
  \E heap \in {Append(ast, ObjectNode(n, t))} :
    IF FindConflict(heap, Head(scope), NextNode) # 0 THEN Refuse
    ELSE /\ ast' = AddToRegion(heap, region, NextNode)
         /\ scope' = AddToFrame(scope, {NextNode})
         /\ UNCHANGED <<region, package, stencil, pending, errors, failed>>

\* init: no initialiser, one that checks in the context of the type, or one
\* that does not.
acceptObjectDeclaration(n, t, init) ==
  /\ InBlock /\ Making("object")
  /\ \E c \in {ensureCompleteTypeDecl(t)} :
       IF c = 0 THEN Refuse
       ELSE \E ty \in {resolveType(c)} :
            IF \/ init = "wrong"
               \/ init = "none" /\ (ast[ty].indefinite \/ ast[ty].limited)
            THEN Refuse
            ELSE DeclareObject(n, ty)

\* The type of a renaming is not resolved.
acceptRenamedObjectDeclaration(n, t, targetOK) ==
  /\ InBlock /\ Making("renaming")
  /\ \E c \in {ensureCompleteTypeDecl(t)} :
       IF c = 0 \/ ~targetOK THEN Refuse ELSE DeclareObject(n, c)
-----------------------------------------------------------------------------
(* Subroutines *)

beginSubroutineDeclaration(kind, n) ==
  /\ TypesAllowed /\ Making(kind)
  /\ kind = "Procedure" => n \notin DOMAIN OperatorArity
  /\ stencil' = [stencil EXCEPT !.of = kind, !.name = n]
  /\ UNCHANGED <<ast, scope, region, package, pending, errors, failed>>

\* Mutant: a formal may have the name of its subroutine.
formalClashIgnored(n) == \E i \in DOMAIN stencil.elems : stencil.elems[i].name = n

\* The name of a formal is taken by an earlier formal or by the subroutine.
formalClash(n) ==
  n = stencil.name \/ \E i \in DOMAIN stencil.elems : stencil.elems[i].name = n

acceptSubroutineParameter(n, t, mode) ==
  /\ stencil.of \in {"Function", "Procedure"} /\ stencil.ret = 0
  /\ Len(stencil.elems) < MaxParams /\ errors =< MaxErrors
  /\ \E c \in {ensureCompleteTypeDecl(t)} :
       IF c = 0 \/ (stencil.of = "Function" /\ mode = "out") \/ formalClash(n)
       THEN /\ stencil' = [stencil EXCEPT !.valid = FALSE]
            /\ errors' = Reported(1)
       ELSE /\ stencil' = [stencil EXCEPT !.elems =
                             Append(@, [name |-> n, type |-> c, mode |-> mode])]
            /\ UNCHANGED errors
  /\ UNCHANGED <<ast, scope, region, package, pending, failed, made, features>>

\* A null return type is the parser's, who has reported it.
acceptFunctionReturnType(t) ==
  /\ stencil.of = "Function" /\ stencil.ret = 0 /\ stencil.valid
  /\ \E c \in {IF t = 0 THEN 0 ELSE ensureCompleteTypeDecl(t)} :
       IF c = 0
       THEN /\ stencil' = [stencil EXCEPT !.valid = FALSE]
            /\ errors' = Reported(1)
       ELSE /\ stencil' = [stencil EXCEPT !.ret = c]
            /\ UNCHANGED errors
  /\ UNCHANGED <<ast, scope, region, package, pending, failed, made, features>>

ArityMismatch ==
  /\ stencil.of = "Function" /\ stencil.name \in DOMAIN OperatorArity
  /\ Len(stencil.elems) \notin OperatorArity[stencil.name]

\* Mutant: the definition does not point back to its forward declaration.
linkForwardOnly(heap, fwd, def) == [heap EXCEPT ![fwd].completion = def]

\* SubroutineDecl::setDefiningDeclaration: one tagged pointer is both links.
setDefiningDeclaration(heap, fwd, def) ==
  [heap EXCEPT ![fwd].completion = def, ![fwd].forward = 0,
               ![def].forward = fwd]

\* SubroutineDecl::hasDefiningDeclaration.
hasDefiningDeclaration(heap, d) == heap[d].completion # 0

\* The nodes once the declaration is built, and the verdict.
RoutineDeclared(heap, d, definitionFollows) ==
  LET c == FindConflict(heap, Head(scope), d)
      linked == setDefiningDeclaration(heap, c, d)
  IN  IF c = 0
      THEN [ast |-> AddToRegion(heap, region, d), ok |-> TRUE,
            scope |-> AddToFrame(scope, {d}), reset |-> FALSE]
      ELSE IF /\ heap[c].kind \in RoutineKinds /\ definitionFollows
              /\ compatibleSubroutineDecls(heap, c, d)
              /\ ~hasDefiningDeclaration(heap, c)
      THEN [ast |-> IF heap[c].region = region THEN linked
                    ELSE AddToRegion(linked, region, d),
            ok |-> TRUE, scope |-> scope, reset |-> heap[c].forward # 0]
      ELSE [ast |-> heap, ok |-> FALSE, scope |-> scope, reset |-> FALSE]

\* Only in a package body does the parser go on to the definition; elsewhere
\* it reports the token after the declaration.
endSubroutineDeclaration(definitionFollows) ==
  /\ \/ stencil.of = "Procedure"
     \/ stencil.of = "Function" /\ (stencil.ret # 0 \/ ~stencil.valid)
  /\ stencil' = IdleStencil
  /\ IF ~stencil.valid
     THEN UNCHANGED <<ast, scope, pending, errors, failed>>
     ELSE IF ArityMismatch
     THEN errors' = Reported(1) /\ UNCHANGED <<ast, scope, pending, failed>>
     ELSE \E r \in {RoutineDeclared(
                      Append(ast, RoutineNode(stencil.of, stencil.name,
                                              stencil.elems, stencil.ret)),
                      NextNode, definitionFollows)} :
          \E astray \in {definitionFollows /\ Kind(region) # "Body"} :
            /\ ast' = r.ast
            /\ scope' = r.scope
            /\ pending' = IF r.ok /\ definitionFollows /\ ~astray THEN NextNode
                          ELSE 0
            /\ errors' = Reported(IF r.ok /\ ~astray THEN 0 ELSE 1)
            /\ failed' = IF r.reset THEN failed \cup {"reset"} ELSE failed
  /\ UNCHANGED <<region, package, made, features>>

\* The frame of a subroutine: its own declaration and its formals.
RoutineFrame(d, formals) == FrameOf("SUBROUTINE_SCOPE", {d} \cup formals)

\* Formals are built with the declaration; the model makes their nodes here.
beginSubroutineDefinition ==
  /\ pending # 0 /\ pending' = 0
  /\ \E formals \in {[i \in DOMAIN ast[pending].sig.params |->
                        ParamNode(ast[pending].sig.params[i], pending)]} :
     \E block \in {NextNode + Len(formals)} :
     \E ids \in {NextNode..(block - 1)} :
       /\ ast' = Append([ast EXCEPT ![pending].body = block] \o formals,
                        BlockNode(pending))
       /\ scope' = <<RoutineFrame(pending, ids)>> \o scope
       /\ region' = block
       /\ failed' = failed
            \cup (IF \E i, j \in ids : i # j /\ ast'[i].name = ast'[j].name
                  THEN {"conflict"} ELSE {})
            \cup (IF \E i \in ids : ast'[i].name = ast[pending].name
                  THEN {"conflict"} ELSE {})
            \cup (IF ast[pending].body # 0 \/ ast[pending].completion # 0
                  THEN {"body"} ELSE {})
  /\ UNCHANGED <<package, stencil, errors, made, features>>

\* Mutant: the frame of the body is kept for the handlers.
endSubroutineBodyKeepsFrame ==
  /\ InBlock /\ stencil.of = "idle"
  /\ region' = ast[region].region
  /\ UNCHANGED <<ast, scope, package, stencil, pending, errors, failed, made,
                 features>>

\* The frame is rebuilt for the handlers: subroutine and formals only.
endSubroutineBody ==
  /\ InBlock /\ stencil.of = "idle"
  /\ region' = ast[region].region
  /\ scope' = <<RoutineFrame(region', {d \in Head(scope).decls :
                                         Kind(d) = "Param"})>> \o Tail(scope)
  /\ UNCHANGED <<ast, package, stencil, pending, errors, failed, made, features>>

endSubroutineDefinition ==
  /\ region # 0 /\ IsRoutine(region)
  /\ region' = ast[region].region
  /\ scope' = Tail(scope)
  /\ UNCHANGED <<ast, package, stencil, pending, errors, failed, made, features>>

\* A pragma names one visible subroutine, not imported before itself nor
\* through its forward declaration or its definition (findPragma).
acceptPragmaImport(n, argumentsOK) ==
  /\ region # 0 /\ Kind(region) \in {"Body", "Block"} /\ Making("import")
  /\ \E ds \in {Denotes(n)} :
       LET sigs == {<<Kind(d), ast[d].sig>> : d \in ds}
           inner == CHOOSE f \in DOMAIN scope : scope[f].decls \cap ds # {}
                      /\ \A g \in 1..(f - 1) : scope[g].decls \cap ds = {}
           d == CHOOSE x \in ds : x \in scope[inner].decls
           related == {d, ast[d].completion, ast[d].forward} \ {0}
       IN  IF \/ ds = {} \/ ~argumentsOK \/ (\E x \in ds : ~IsRoutine(x))
              \/ Cardinality(sigs) # 1 \/ (\E x \in related : ast[x].import)
           THEN Refuse
           ELSE /\ ast' = [ast EXCEPT ![d].import = TRUE]
                /\ UNCHANGED <<scope, region, package, stencil, pending, errors,
                               failed>>
-----------------------------------------------------------------------------
(* Packages *)

AtTop == Len(scope) = 1 /\ errors =< MaxErrors

acceptWithClause(n) ==
  /\ AtTop /\ made = 0 /\ region = 0
  /\ \A d \in 1..Len(ast) : Kind(d) = "Package" => ast[d].name \in Dependency
  /\ \E d \in {x \in 1..Len(ast) : Kind(x) = "Package" /\ ast[x].name = n} :
       IF FindConflict(ast, Head(scope), d) # 0
       THEN errors' = Reported(1) /\ UNCHANGED scope
       ELSE scope' = AddToFrame(scope, {d}) /\ UNCHANGED errors
  /\ UNCHANGED <<ast, region, package, stencil, pending, failed, made, features>>

\* A package declaration has no enclosing region.
beginPackageSpec(n) ==
  /\ AtTop /\ "package" \in features
  /\ Cardinality({d \in 1..Len(ast) : Kind(d) = "Package"})
       < Cardinality(PackageName)
  /\ ast' = Append(ast, PackageNode(n))
  /\ scope' = <<FrameOf("PACKAGE_SCOPE", {NextNode})>> \o scope
  /\ package' = NextNode
  /\ region' = NextNode
  /\ UNCHANGED <<stencil, pending, errors, failed, made, features>>

InSpec == /\ region # 0 /\ Kind(region) \in {"Package", "PrivatePart"}
          /\ Len(scope) = 2 /\ stencil.of = "idle" /\ errors =< MaxErrors

\* The private part is a new region, not a new frame.
beginPackagePrivatePart ==
  /\ InSpec /\ Kind(region) = "Package"
  /\ ast' = Append([ast EXCEPT ![package].private = NextNode],
                   PrivatePartNode)
  /\ region' = NextNode
  /\ UNCHANGED <<scope, package, stencil, pending, errors, failed, made,
                 features>>

ensurePrivateConstraints(p) ==
  \A d \in Range(ast[p].decls) :
    Kind(d) = "Private" => ast[p].private # 0 /\ ast[d].completion # 0

endPackageSpec ==
  /\ InSpec
  /\ IF /\ ensurePrivateConstraints(package)
        /\ FindConflict(ast, scope[2], package) = 0
     THEN scope' = AddToFrame(Tail(scope), {package}) /\ UNCHANGED errors
     ELSE scope' = Tail(scope) /\ errors' = Reported(1)
  /\ region' = ast[package].region
  /\ package' = 0
  /\ UNCHANGED <<ast, stencil, pending, failed, made, features>>

\* introduceDeclRegion: the declarations of a region and the literals of its
\* enumeration types enter the frame unless they conflict.  Listed in order.
introduceDecl(frame, d) ==
  IF FindConflict(ast, frame, d) = 0
  THEN [frame EXCEPT !.decls = @ \cup {d}] ELSE frame

introduceDeclRegion(ds) ==
  LET frame[i \in 0..Len(ds)] ==
        IF i = 0 THEN FrameOf("PACKAGE_SCOPE", {}) ELSE introduceDecl(frame[i - 1], ds[i])
  IN  frame[Len(ds)]

\* What beginPackageBody introduces.
Introduced(p) ==
  ast[p].decls \o (IF ast[p].private # 0 THEN ast[ast[p].private].decls ELSE <<>>)

WithLiterals(ds) ==
  FlattenSeq([i \in DOMAIN ds |->
    <<ds[i]>> \o IF Kind(ds[i]) = "Enumeration" THEN ast[ds[i]].decls ELSE <<>>])

beginPackageBody(n) ==
  /\ AtTop /\ "package" \in features
  /\ \E ps \in {Denotes(n)} :
       LET p == CHOOSE x \in ps : TRUE
       IN  IF \/ ps = {} \/ Kind(p) # "Package"
              \/ ast[p].region # region \/ ast[p].body # 0
           THEN /\ errors' = Reported(1)
                /\ UNCHANGED <<ast, scope, region, package, failed>>
           ELSE LET ds == WithLiterals(Introduced(p))
                    frame == introduceDeclRegion(ds)
                    out(d) == d \notin frame.decls
                IN  /\ ast' = Append([ast EXCEPT ![p].body = NextNode],
                                   BodyNode(p))
                    /\ scope' = <<frame>> \o scope
                    /\ package' = p
                    /\ region' = NextNode
                    /\ errors' = Reported(Cardinality({d \in Range(ds) :
                                   out(d) /\ Kind(d) = "EnumLiteral"}))
                    /\ failed' = IF \E d \in Range(Introduced(p)) : out(d) /\
                                      Kind(FindConflict(ast, frame, d)) # "Private"
                                 THEN failed \cup {"introduce"} ELSE failed
  /\ UNCHANGED <<stencil, pending, made, features>>

InBody == /\ region # 0 /\ Kind(region) = "Body" /\ Len(scope) = 2
          /\ stencil.of = "idle" /\ pending = 0 /\ errors =< MaxErrors

\* Mutant: incomplete types are not checked.
missingExportsRoutinesOnly(p) ==
  {d \in Range(ast[p].decls) : IsRoutine(d) /\ ast[d].completion = 0}

\* ensureExportConstraints: what the body should have completed.
missingExports(p) ==
  {d \in Range(ast[p].decls) :
     (Kind(d) = "Incomplete" \/ IsRoutine(d)) /\ ast[d].completion = 0}

\* Two regions are left behind, whether or not there is a private part.
endPackageBody ==
  /\ InBody
  /\ errors' = Reported(Cardinality(missingExports(package)))
  /\ region' = ast[ast[region].region].region
  /\ package' = region'
  /\ scope' = Tail(scope)
  /\ UNCHANGED <<ast, stencil, pending, failed, made, features>>
-----------------------------------------------------------------------------
Integer == 1

\* The predefined environment and the packages of other compilation units.
Init ==
  /\ ast = <<[Blank EXCEPT !.kind = "Integer", !.name = "integer"]>>
             \o [i \in 1..Cardinality(Dependency) |->
                   PackageNode(SetToSeq(Dependency)[i])]
  /\ scope = <<FrameOf("CUNIT_SCOPE", {Integer})>>
  /\ region = 0 /\ package = 0
  /\ stencil = IdleStencil /\ pending = 0
  /\ errors = 0 /\ failed = {} /\ made = 0
  /\ features \in Features

TypeDeclarations ==
  \E n \in Name :
    \/ acceptIncompleteTypeDecl(n)
    \/ \E limited \in BOOLEAN : acceptPrivateTypeDecl(n, limited)
    \/ \E ok \in BOOLEAN : acceptIntegerTypeDecl(n, ok)
    \/ \E t \in VisibleTypes :
         \/ \E ranged \in BOOLEAN : acceptSubtypeDecl(n, t, ranged)
         \/ \E c \in (SUBSET BOOLEAN) \ {{}} : acceptArrayDecl(n, t, c)
         \/ acceptAccessTypeDecl(n, t)
         \/ acceptRecordComponent(n, t)
    \/ beginEnumeration(n) \/ acceptEnumerationLiteral(n)
    \/ beginRecord(n)

OtherDeclarations ==
  \E n \in Name :
    \/ \E kind \in {"Function", "Procedure"} : beginSubroutineDeclaration(kind, n)
    \/ \E ok \in BOOLEAN : acceptPragmaImport(n, ok)
    \/ \E t \in VisibleTypes :
         \/ \E init \in {"none", "good", "wrong"} : acceptObjectDeclaration(n, t, init)
         \/ \E ok \in BOOLEAN : acceptRenamedObjectDeclaration(n, t, ok)
         \/ \E mode \in Mode : acceptSubroutineParameter(n, t, mode)

Packages ==
  \/ \E n \in PackageName :
       acceptWithClause(n) \/ beginPackageSpec(n) \/ beginPackageBody(n)
  \/ beginPackagePrivatePart \/ endPackageSpec \/ endPackageBody

Next ==
  \/ TypeDeclarations \/ OtherDeclarations \/ Packages
  \/ endEnumeration \/ endRecord
  \/ \E t \in VisibleTypes \cup {0} : acceptFunctionReturnType(t)
  \/ \E follows \in BOOLEAN : endSubroutineDeclaration(follows)
  \/ beginSubroutineDefinition \/ endSubroutineBody \/ endSubroutineDefinition

Spec == Init /\ [][Next]_vars
-----------------------------------------------------------------------------
Nodes == 1..Len(ast)

\* A forward declaration and its definition point at each other through one
\* tagged pointer, agree in profile, and lie in the same region or in a
\* specification and its body (setDefiningDeclaration, endSubroutineDeclaration),
\* unless the assertion against resetting the pointer has failed.
DefinitionsPair ==
  "reset" \notin failed =>
    \A d \in Nodes : IsRoutine(d) /\ ast[d].completion # 0 =>
      LET def == ast[d].completion
      IN  /\ ast[def].forward = d /\ SameProfile(ast, d, def)
          /\ ast[d].region \in Enclosing(ast, ast[def].region)
          /\ ast[def].completion = 0

\* A unit checked without a diagnostic has, for every subroutine that the
\* visible part of a package with a finished body declares, one definition with
\* a body in that package body, and a completion for every incomplete and
\* every private type listed there (ensureExportConstraints,
\* ensurePrivateConstraints).
AcceptedBodiesComplete ==
  errors = 0 /\ Len(scope) = 1 =>
    \A p \in Nodes : Kind(p) = "Package" /\ ast[p].body # 0 =>
      \A d \in Range(ast[p].decls) :
        /\ Kind(d) \in {"Function", "Procedure"} =>
             /\ ast[d].completion # 0
             /\ ast[ast[d].completion].region = ast[p].body
             /\ ast[ast[d].completion].body # 0
        /\ Kind(d) \in {"Incomplete", "Private"} => ast[d].completion # 0

\* The frame stack and the declarative region stay in step: in a package frame
\* the region is a part of the current package; in a subroutine frame it is the
\* block of a subroutine whose own name and formals are in the frame, and once
\* the body has ended, for the handlers, the subroutine with nothing else
\* visible (the example in the comment of endSubroutineBody).
ScopesFollowRegions ==
  LET frame == Head(scope)
      formals(d) == {f \in Nodes : Kind(f) = "Param" /\ ast[f].region = d}
  IN  /\ frame.kind = "PACKAGE_SCOPE" =>
           /\ region \in {package, ast[package].private, ast[package].body} \ {0}
      /\ frame.kind = "SUBROUTINE_SCOPE" =>
           LET d == IF IsRoutine(region) THEN region ELSE ast[region].region
           IN  /\ ast[d].region = ast[package].body
               /\ {d} \cup formals(d) \subseteq frame.decls
               /\ IsRoutine(region) => frame.decls = {d} \cup formals(d)
      /\ frame.kind = "RECORD_SCOPE" =>
           Kind(region) = "Record" /\ frame.decls \subseteq Range(ast[region].decls)
      /\ frame.kind = "CUNIT_SCOPE" => stencil.of = "idle" /\ pending = 0

\* As long as no diagnostic was given, the assertions of introduceDeclRegion
\* ("Inconsistent private type decl!"), addDirectDeclNoConflicts,
\* setDefiningDeclaration and beginSubroutineDefinition ("Current subroutine
\* already has a body!") hold.  After one they can fail: a definition in the
\* private part for a declaration of the visible part is refused by the parser
\* but stays linked and listed, and the package body then runs into the first.
AssertionsHold == errors = 0 => failed = {}
=============================================================================
