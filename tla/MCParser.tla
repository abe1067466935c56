------------------------------ MODULE MCParser ------------------------------
(***************************************************************************)
(* Five files that use every construct, with and without undeclared names,  *)
(* and with an undeclared name in any one place, and every file that one    *)
(* edit makes of them: a token deleted, inserted or replaced, or the rest   *)
(* cut off.                                                                 *)
(***************************************************************************)
EXTENDS Parser

CONSTANT Edits   \* the tokens inserted

MCSpec == <<"with", "q", ";", "package", "p", "is",
  "type", "q", "is", "(", "p", ",", "q", ")", ";",
  "procedure", "q", "(", "p", ":", "in", "out", "q", ";", "q", ":", "u", ")", ";",
  "type", "p", ";", "private",
  "type", "q", "is", "array", "(", "p", "range", "<>", ",", "q", ")", "of", "u", ";",
  "type", "q", "is", "record", "p", ":", "q", ";", "end", "record", ";",
  "function", "q", "return", "p", ";", "end", "p", ";">>

MCTypes == <<"package", "p", "is", "type", "q", "is", "mod", "p", ";",
  "type", "p", "is", "limited", "private", ";", "type", "q", "is", "access", "u", ";",
  "subtype", "q", "is", "p", "range", "p", "..", "u", ";",
  "type", "p", "is", "range", "u", "..", "p", ";",
  "type", "q", "is", "null", "record", ";", "end", "p", ";">>

MCHandlers == <<"package", "body", "p", "is", "procedure", "q", "is", "p", ":", "u", ";", "begin",
  "if", "p", "then", "null", ";", "elsif", "u", "then", "return", "p", ";",
  "else", "if", "u", "then", "q", ";", "end", "if", ";", "end", "if", ";",
  "exception", "when", "p", "|", "q", "=>", "raise", "q", "with", "p", ";",
  "when", "others", "=>", "null", ";", "end", "q", ";",
  "pragma", "Import", "(", "p", ",", "q", ",", "p", ")", ";", "end", "p", ";">>

MCLoops == <<"package", "body", "p", "is", "function", "q", "return", "p", "is", "begin",
  "u", ":", "while", "p", "loop", "exit", "u", "when", "p", ";", "end", "loop", "u", ";",
  "for", "p", "in", "reverse", "p", "..", "q", "loop", "p", ":=", "q", ";", "end", "loop", ";",
  "u", ":", "declare", "p", ":", "q", ":=", "null", ";", "q", ":", "p", "renames", "u", ";",
  "begin", "loop", "p", ";", "end", "loop", ";",
  "exception", "when", "p", "=>", "null", ";", "end", "u", ";",
  "pragma", "Assert", "(", "p", ",", "q", ")", ";", "begin", "null", ";", "end", ";", "end", "q", ";",
  "use", "p", ";", "end", "p", ";">>

\* Loops with conditions and ranges that are refused.
MCRefusedLoops == <<"package", "body", "p", "is", "procedure", "q", "is", "begin",
  "while", "u", "loop", "for", "p", "in", "u", "loop", "null", ";", "end", "loop", ";",
  "end", "loop", ";", "end", "q", ";", "end", "p", ";">>

\* Each file as it is, and with every name declared.  No block has the tag of
\* its subroutine: seekEndTag would stop at the block's end.
MCFiles ==
  LET files == {MCSpec, MCTypes, MCHandlers, MCLoops, MCRefusedLoops}
      declared(w) == [i \in DOMAIN w |-> IF w[i] \in Undeclared THEN "r" ELSE w[i]]
  IN  files \cup {declared(w) : w \in files}

\* Where another name leaves the file well formed: not in the tag of an end, nor
\* in what that tag refers to.
NamesIn(w) == {i \in DOMAIN w \ {1} :
  /\ w[i] \in Ident \ {"Assert", "Import"}
  /\ w[i - 1] \notin {"package", "body", "procedure", "function", "end"}
  /\ ~ (w[i - 1] = "loop" /\ w[i - 2] = "end")
  /\ w[i + 1] # ":"}
MCWellFormed == MCFiles \cup UNION {{ReplaceAt(w, i, "u") : i \in NamesIn(w)} : w \in MCFiles}

MCMalformed ==
  {text \in UNION {
     {RemoveAt(w, i) : i \in DOMAIN w} \cup {SubSeq(w, 1, i) : i \in DOMAIN w}
     \cup {InsertAt(w, i, e) : i \in DOMAIN w, e \in Edits}
     \cup {ReplaceAt(w, i, e) : i \in DOMAIN w, e \in Edits} : w \in MCFiles} :
   Readable(text)} \ MCWellFormed
=============================================================================
