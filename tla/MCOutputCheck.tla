--------------------------- MODULE MCOutputCheck ---------------------------
(***************************************************************************)
(* All outputs of up to five characters where only blanks and one letter   *)
(* matter, and of up to three of all kinds of characters for numbers.      *)
(***************************************************************************)
EXTENDS OutputCheck

\* With a checker of each type; one custom checker is not compiled.
MCConfigs ==
  [type : Types \ {"custom"}, compiled : {FALSE}] \cup [type : {"custom"}, compiled : BOOLEAN]

Texts(chars, length) == BoundedSeq(chars, length)
MCOutputs ==
  [t \in Types |->
     CASE t = "standard" -> Texts({"a", " ", Newline}, 5)
       [] t = "tokens" -> Texts({"a", "0", " ", Newline}, 3)
       [] t = "float" -> Texts({"0", "1", "-", "inf", "nan", "a", " "}, 3)
       [] t = "custom" -> Texts({"é", "a", Newline}, 2)]
MCInputs == {<<"é", Newline>>}
MCWide == {"é"}
=============================================================================
