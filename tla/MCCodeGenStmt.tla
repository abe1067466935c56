---------------------------- MODULE MCCodeGenStmt ----------------------------
(***************************************************************************)
(* The second block named "then" is "then1", which may also be a tag.        *)
(***************************************************************************)
EXTENDS CodeGenStmt

Numbered(k, name) == IF name = "then" THEN "then1" ELSE NoName
=============================================================================
