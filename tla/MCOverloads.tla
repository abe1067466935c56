---------------------------- MODULE MCOverloads ----------------------------
(***************************************************************************)
(* Types and declarations for TLC.  Each program is about one way in which   *)
(* names are overloaded.                                                    *)
(***************************************************************************)
EXTENDS Overloads, TLC

Scalar(class, root, constrained) ==
  [class |-> class, root |-> root, constrained |-> constrained]
MCTypes ==
  "root_integer" :> Scalar("integer", "root_integer", FALSE)
  @@ "Int"   :> Scalar("integer", "Int", FALSE)
  @@ "Small" :> Scalar("integer", "Int", TRUE)
  @@ "Color" :> Scalar("enum", "Color", FALSE)
  @@ "Bool"  :> Scalar("enum", "Bool", FALSE)
  @@ "Pair"  :> [class |-> "record", root |-> "Pair", constrained |-> FALSE,
                 components |-> "c" :> "Int" @@ "d" :> "Color"]
  @@ "Hue"   :> [class |-> "record", root |-> "Hue", constrained |-> FALSE,
                 components |-> "c" :> "Color"]
  @@ "Ref"   :> [class |-> "access", root |-> "Ref", constrained |-> FALSE, target |-> "Pair"]
  @@ "RefRef" :> [class |-> "access", root |-> "RefRef", constrained |-> FALSE, target |-> "Ref"]
  @@ "Row"   :> [class |-> "array", root |-> "Row", constrained |-> TRUE,
                 index |-> "Small", component |-> "Color"]
  @@ "Line"  :> [class |-> "array", root |-> "Line", constrained |-> TRUE,
                 index |-> "Int", component |-> "Int"]
  @@ "RowRef" :> [class |-> "access", root |-> "RowRef", constrained |-> FALSE, target |-> "Row"]

In(key, type)  == [key |-> key, type |-> type, mode |-> "in"]
Out(key, type) == [key |-> key, type |-> type, mode |-> "out"]
Fun(name, params, ret) ==
  [name |-> name, params |-> params, ret |-> ret, procedure |-> FALSE,
   primitive |-> FALSE, operator |-> FALSE]
Proc(name, params) == [Fun(name, params, "none") EXCEPT !.procedure = TRUE]
Op(name, type, ret) ==
  [Fun(name, <<In("x", type), In("y", type)>>, ret)
     EXCEPT !.operator = TRUE, !.primitive = type = "root_integer"]
Obj(name, type)   == [name |-> name, type |-> type, variable |-> TRUE]
Const(name, type) == [name |-> name, type |-> type, variable |-> FALSE]

Bare ==
  [decls |-> {}, objects |-> {}, keys |-> {}, selectors |-> {}, qualifiers |-> {},
   conversions |-> {}, contexts |-> {}, classes |-> {}, literals |-> FALSE, nulls |-> FALSE,
   indexing |-> FALSE, dereferencing |-> FALSE, size |-> 5]

MCPrograms ==
  { \* functions told apart by parameters and results
    [Bare EXCEPT !.decls = {Fun("f", <<In("a", "Int")>>, "Int"), Fun("f", <<In("a", "Int")>>, "Color"),
                            Fun("f", <<In("a", "Color")>>, "Int"),
                            Fun("g", <<>>, "Int"), Fun("g", <<>>, "Color"), Fun("g", <<>>, "Bool"),
                            Fun("h", <<In("a", "Color")>>, "Bool"), Fun("h", <<In("a", "Bool")>>, "Color")},
                 !.objects = {Obj("s", "Small")}, !.literals = TRUE,
                 !.qualifiers = {"Small", "Color"}, !.conversions = {"Small"},
                 !.contexts = {"Int", "Small", "Color", "Bool"}, !.classes = {"integer", "discrete"}],
    \* keyed arguments
    [Bare EXCEPT !.decls = {Fun("f", <<In("a", "Int"), In("b", "Color")>>, "Int"),
                            Fun("f", <<In("b", "Int"), In("a", "Color")>>, "Color"),
                            Fun("f", <<In("a", "Color"), In("b", "Bool")>>, "Color"),
                            Fun("g", <<>>, "Int"), Fun("g", <<>>, "Color"), Fun("g", <<>>, "Bool")},
                 !.keys = {"a", "b"}, !.literals = TRUE, !.size = 4,
                 !.contexts = {"Small", "Color"}],
    \* operators of integer types and of root_integer
    [Bare EXCEPT !.decls = {Op("+", "root_integer", "root_integer"), Op("+", "Int", "Int"),
                            Op("=", "root_integer", "Bool"), Op("=", "Int", "Bool"), Op("=", "Bool", "Bool"),
                            Fun("g", <<>>, "Bool"), Fun("g", <<>>, "Int")},
                 !.objects = {Obj("s", "Small")}, !.literals = TRUE, !.size = 5,
                 !.contexts = {"Int", "Small", "Bool"}, !.classes = {"integer", "discrete"}],
    \* records and access types
    [Bare EXCEPT !.decls = {Fun("f", <<>>, "Pair"), Fun("f", <<>>, "Hue"), Fun("f", <<>>, "Ref"),
                            Fun("k", <<>>, "RefRef"),
                            Fun("g", <<In("a", "Pair")>>, "Int"), Fun("g", <<In("a", "Ref")>>, "Int"),
                            Fun("h", <<In("a", "Pair")>>, "Ref")},
                 !.objects = {Obj("p", "Ref")}, !.selectors = {"c", "d"}, !.nulls = TRUE,
                 !.dereferencing = TRUE, !.conversions = {"Ref"}, !.qualifiers = {"Ref"}, !.size = 4,
                 !.contexts = {"Small", "Color", "Pair", "Ref"}, !.classes = {"discrete"}],
    \* arrays
    [Bare EXCEPT !.decls = {Fun("f", <<>>, "Row"), Fun("g", <<>>, "Row"), Fun("g", <<>>, "Line"),
                            Fun("h", <<>>, "Int"), Fun("h", <<>>, "Color"), Fun("k", <<>>, "RowRef")},
                 !.objects = {Obj("r", "RowRef")}, !.literals = TRUE, !.indexing = TRUE, !.size = 5,
                 !.contexts = {"Int", "Color", "Row"}],
    \* procedures and modes
    [Bare EXCEPT !.decls = {Proc("q", <<Out("a", "Small"), In("b", "Int")>>),
                            Proc("q", <<In("a", "Color"), In("b", "Color")>>),
                            Proc("q", <<Out("b", "Pair"), In("a", "Int")>>),
                            Proc("w", <<>>), Proc("w", <<Out("a", "Pair")>>), 
                            Fun("g", <<>>, "Int"), Fun("g", <<>>, "Color")},
                 !.objects = {Obj("i", "Int"), Const("n", "Int"), Obj("p", "Ref"), Const("t", "Pair")},
                 !.keys = {"a", "b"}, !.selectors = {"c"}, !.dereferencing = TRUE, !.size = 4] }
=============================================================================
