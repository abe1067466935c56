--------------------------- MODULE MCStaticRanges ---------------------------
(***************************************************************************)
(* Sizes of one to four bits for TLC: four stands for 64, three for 32.      *)
(***************************************************************************)
EXTENDS StaticRanges

Steps == <<5, 3>>
Bounds == {<<0, 0>>, <<-1, 1>>, <<1, 0>>, <<-3, 2>>, <<-4, 3>>, <<0, 5>>}
=============================================================================
