--------------------------- MODULE MCDeclarations ---------------------------
(* Small instances of Declarations: units of up to two packages. *)
EXTENDS Declarations, TLC

Types == {"package", "incomplete", "private", "integer"}
Literals == {"package", "private", "enumeration", "Function"}
Routines == {"package", "Function", "Procedure", "object"}
Composite == {"package", "array", "record", "access", "subtype", "incomplete"}
Objects == {"package", "incomplete", "Procedure", "object", "renaming"}
Imports == {"package", "Procedure", "import"}

MCFeatures == {Types, Literals, Routines, Composite, Objects, Imports}
MCMaxDecls == [f \in MCFeatures |-> IF f \in {Types, Objects} THEN 3 ELSE 2]
MCOperatorArity == "b" :> {1}
=============================================================================
