------------------------------ MODULE MCDriver ------------------------------
(***************************************************************************)
(* Four units with at most two with clauses each: chains, diamonds,         *)
(* repeated with clauses and every kind of cycle, through the root as well, *)
(* which the command line spells differently from its own directory.  The   *)
(* last unit may also fail to parse, or need one that does not exist.       *)
(***************************************************************************)
EXTENDS Driver

MCpathTable == [n \in Name \ {"missing"} |-> n]
MCFileSystems ==
  LET text(w) == [withs |-> w, parses |-> TRUE]
      last == {text(<<>>), text(<<"a">>), text(<<"b", "missing">>),
               [withs |-> <<>>, parses |-> FALSE]}
  IN  {[p \in Path |-> CASE p = "b" -> text(b) [] p = "c" -> text(c)
                         [] p = "d" -> d [] OTHER -> text(r)] :
         r \in BoundedSeq({"b", "c", "d"}, 2), b \in BoundedSeq({"a", "c", "d"}, 2),
         c \in BoundedSeq({"b", "c", "d"}, 2), d \in last}
\* Every switch, with and without code generation.
MCOptionSets == {{}, {"EntryPoint"}, {"EmitLLVM", "EmitLLVMBitcode"}, {"SyntaxOnly", "EntryPoint"}}
=============================================================================
