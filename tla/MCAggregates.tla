---------------------------- MODULE MCAggregates ----------------------------
(***************************************************************************)
(* Families of aggregates for TLC: the index type has three bits (-4 .. 3)   *)
(* and the arrays up to four components.                                    *)
(***************************************************************************)
EXTENDS Aggregates

Key(is, lo, hi, how) == [is |-> is, lo |-> lo, hi |-> hi, how |-> how, name |-> ""]
Id(name) == [is |-> "id", lo |-> 0, hi |-> 0, how |-> "dynamic", name |-> name]
Array(constraint, lo, hi, comp) ==
  [kind |-> "array", constraint |-> constraint, lo |-> lo, hi |-> hi, comp |-> comp]
Record(names, types) == [kind |-> "record", names |-> names, types |-> types]

StaticKeys ==
  {Key("range", lo, hi, "computed") : lo \in -1 .. 2, hi \in {0, 2}}
    \cup {Key("expr", v, v, "literal") : v \in 0 .. 3}
    \cup {Key("expr", 3, 3, "computed")}
DynamicKeys ==
  {Key("range", -1, 1, "dynamic"), Key("range", 2, 0, "dynamic"),
   Key("expr", 1, 1, "dynamic"), Key("expr", 3, 3, "dynamic")}

Families ==
  "keys" :> [nodes |-> {"scalar"}, parts |-> 3,
             keyLists |-> {<<k>> : k \in StaticKeys \cup DynamicKeys}
               \cup {<<Key("expr", 2, 2, "literal"), Key("range", -1, 0, "computed")>>},
             contexts |-> {Array("static", -1, 2, "scalar"), Array("static", 1, 0, "scalar"),
                           Array("dynamic", -1, 2, "scalar"), Array("none", -1, 2, "scalar")}]
  @@ "whole" :> [nodes |-> {"scalar"}, parts |-> 3,
             keyLists |-> {<<Key("range", -4, 3, "computed")>>},
             contexts |-> {Array("static", -4, 3, "scalar"), Array("none", -4, 3, "scalar")}]
  @@ "records" :> [nodes |-> {"scalar", "composite", "<>"}, parts |-> 3,
             keyLists |-> {<<Id("f")>>, <<Id("g")>>, <<Id("h")>>, <<Id("x")>>,
                           <<Id("f"), Id("g")>>, <<Id("g"), Id("h")>>},
             contexts |-> {Record(<<"f", "g", "h">>, <<"scalar", "scalar", "composite">>),
                           Record(<<"f", "g">>, <<"scalar", "scalar">>),
                           Array("static", 0, 1, "scalar"), [kind |-> "scalar"]}]
  @@ "nodes" :> [nodes |-> {"scalar", "composite", "type", "invalid"}, parts |-> 4,
             keyLists |-> {<<Key("expr", 0, 0, "literal"), Key("bad", 0, 0, "literal")>>,
                           <<Key("bad", 0, 0, "literal")>>, <<Key("type", 0, 1, "literal")>>},
             contexts |-> {Array("static", 0, 1, "composite"), Array("none", 0, 1, "scalar"),
                           Array("dynamic", 0, 1, "scalar")}]
  @@ "strings" :> [nodes |-> {}, keyLists |-> {}, parts |-> 3,
             contexts |-> {Array("static", 0, 1, "Character"), Array("none", 0, 1, "Letter"),
                           Array("dynamic", 0, 1, "Character"), Array("none", 0, 3, "scalar"),
                           Record(<<"f">>, <<"scalar">>)}]

Names ==
  "f" :> [is |-> "expr", value |-> 0] @@ "g" :> [is |-> "type", value |-> 0]
    @@ "h" :> [is |-> "nothing", value |-> 0] @@ "x" :> [is |-> "expr", value |-> 1]

Letters == "a" :> {"Character", "Letter"} @@ "?" :> {"Character"}
=============================================================================
