------------------------------ MODULE MCLexer -------------------------------
(***************************************************************************)
(* All texts over a few characters that meet each other in one part of the *)
(* lexer.                                                                  *)
(***************************************************************************)
EXTENDS Lexemes, SequencesExt

Up(n, S) == UNION {[1 .. k -> S] : k \in 0 .. n}

MCSources ==
  Up(5, {"d", "o", "_", "1", " ", "LF"})
  \cup Up(6, {"1", "2", ".", "=", "x"})
  \cup Up(5, {"&", "|", "<", "=", "/", "!"})
  \cup Up(6, {"/", "*", "LF", "a"}) \cup {<<"/", "*">> \o inside : inside \in Up(6, {"/", "*", "a"})}
  \cup Up(6, {"quote", "apostrophe", "\\", "n", "0"})
  \cup Up(5, {"quote", "\\", "x", "1", "B"})
  \cup {<<"quote", "\\", "x">> \o digits : digits \in Up(5, {"1", "B", "a", "quote"})}
  \cup Up(5, {" ", "NUL", "CR", "grave", "quote", "/", "a"})

MCKeywords == {<<"d", "o">>}
=============================================================================
