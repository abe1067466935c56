------------------------------- MODULE MCScope -------------------------------
(***************************************************************************)
(* A small symbol table: the identifier f is declared as three subroutines  *)
(* (two of the same type), as a value and as a record component; package p  *)
(* exports a private type with its equality operator and a procedure f,     *)
(* package q an enumeration type with a literal f and an access type with   *)
(* its equality operator, which no use clause makes visible.                *)
(***************************************************************************)
EXTENDS Scope

MCName    == {"f", "t", "a", "="}
MCPackage == {"p", "q"}
MCidInfo  == [fA |-> "f", fA2 |-> "f", fB |-> "f", vf |-> "f", cf |-> "f",
              pt |-> "t", peq |-> "=", pf |-> "f", qt |-> "t", qf |-> "f",
              qa |-> "a", qeq |-> "="]
MCDecl    == DOMAIN MCidInfo
MCastKind == [fA |-> "Procedure", fA2 |-> "Procedure", fB |-> "Function",
              vf |-> "Value", cf |-> "Component", pt |-> "PrivateType",
              peq |-> "Function", pf |-> "Procedure", qt |-> "Enumeration",
              qf |-> "EnumLiteral", qa |-> "Access", qeq |-> "Function"]
MCstype   == [d \in MCDecl |-> CASE d \in {"fA", "fA2"} -> 1
                                 [] d = "fB" -> 2 [] d = "peq" -> 3
                                 [] d = "qeq" -> 4
                                 [] OTHER -> 0]
MCregion  == [r \in MCDecl \cup MCPackage |->
                CASE r = "p" -> <<"pt", "pf">> [] r = "pt" -> <<"peq">>
                  [] r = "q" -> <<"qt", "qa">> [] r = "qt" -> <<"qf">>
                  [] r = "qa" -> <<"qeq">>
                  [] OTHER -> <<>>]
=============================================================================
