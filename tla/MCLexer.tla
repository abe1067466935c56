------------------------------ MODULE MCLexer -------------------------------
(* Files of a few characters, every one of them, and some longer ones that     *)
(* are read with excursions.                                                   *)
EXTENDS Lexer

MCtolower == [c \in {"a", "A", "i", "s", "E"} |->
                CASE c = "A" -> "a" [] c = "E" -> "e" [] OTHER -> c]
MCReserved == {<<"i", "s">>}
MCStray == {NUL, "i"}

Alphabet == {"i", "s", "A", "_", "7", "0", ".", ":", "=", "-", "*", "'", "(",
             "\"", "\\", LF, CR, " ", "?"}
Quoting == {"'", "(", "a", "\"", "-", LF}
Numeric == {"0", "7", "_", ".", "E", "-"}

Seqs(S, n) == UNION {[1..k -> S] : k \in 0..n}

MCSpeculative ==
  { <<"a", " ", ":", "=", "'", "(", "'">>,
    <<"a", CR, LF, "i", "s", FF, LF, "7">>,
    <<"a", CR, LF, "i", CR, LF>>,
    <<"a", "_", "_", LF, "(", "#", "a">>,
    <<"a", LF, LF, "0", "7", CR, "a">>,
    <<"-", "-", LF, "a", ".", "a", LF>>,
    <<"\"", "\\", "a", "\"", "&", "a">> }

MCTexts == Seqs(Alphabet, 3) \cup Seqs(Quoting, 5) \cup Seqs(Numeric, 5) \cup MCSpeculative
=============================================================================
