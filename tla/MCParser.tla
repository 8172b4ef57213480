------------------------------ MODULE MCParser ------------------------------
(***************************************************************************)
(* One job per construct: words enough to write it, its neighbours' words  *)
(* to get it wrong, and a length that fits it with something around it.    *)
(***************************************************************************)
EXTENDS Grammar

Job(rule, words, max) ==
  [rule |-> rule, words |-> words, max |-> max,
   after |-> IF rule \in {"program", "statement_switch_case"} \/ "return" \in words THEN 1 ELSE 0]

Expressions == {
  Job("expression", {"id", "-", "^", "*", "<", "(", ")"}, 5),
  Job("expression", {"id", "&&", "||", "?", ":", "<"}, 7),
  Job("expression", {"id", "(", ")", "[", "]", ".", ","}, 6),
  Job("expression", {"id", "{", "}", "[", "]", "=", ","}, 6),
  Job("expression", {"id", "sizeof", "cast", "(", ")", "*"}, 6),
  Job("expression", {"id", "(", ":", ")", "{", "}"}, 7),
  Job("expression", {"id", "offsetof", "(", ")", ","}, 7)}

Types == {Job("typedecl", {"id", "[", "]", "*", "fun", "(", ")", ":"}, 6)}

Statements == {
  Job("statement", {"id", ":", ":=", "=", "..", ";", "return", "break", "{", "}"}, 6),
  Job("statement", {"if", "else", "while", "(", ")", ";", "id"}, 7),
  Job("statement", {"do", "for", "switch", "(", "{", "}", ";", "num"}, 5),
  Job("statement_if", {"else", "(", ")", ";", "id"}, 8),
  Job("statement_if", {"(", ")", "id", ":=", ":", ";"}, 7),
  Job("statement_do_while", {"while", "(", ")", ";", "id"}, 7),
  Job("statement_for", {"(", ")", ";", "id", ":="}, 7),
  Job("statement_for", {"(", ")", "{", "}", ";"}, 6),
  Job("statement_switch", {"(", ")", "{", "}", "case", ":", "num"}, 8),
  Job("statement_switch_case", {"case", "default", ":", "..", ",", ";", "id"}, 8)}

Programs == {
  Job("program", {"struct", "id", "{", "}", ":", ",", ";", "alias", "="}, 9),
  Job("program", {"var", "enum", "id", "{", "}", ":", ":=", ";", "="}, 8),
  Job("program", {"fun", "str", "id", "(", ")", ":", ";"}, 8),
  Job("program", {"fun", "id", "(", ")", ":", ",", "..", ";"}, 10)}

MCJobs == Expressions \cup Types \cup Statements \cup Programs
=============================================================================
