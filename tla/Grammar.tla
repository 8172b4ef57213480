------------------------------ MODULE Grammar -------------------------------
(***************************************************************************)
(* The language parser.c reads, as a grammar that says nothing of how a    *)
(* text is read: no order of alternatives, no lookahead, no precedence.    *)
(* The parser is compared with it on every text of a job.                  *)
(***************************************************************************)
EXTENDS Parser, FiniteSets

Grammar == [
  expression |->
    {<<"id">>, <<"num">>, <<"str">>, <<"compound">>, <<"id", "compound">>,
     <<"(", "expression", ")">>, <<"(", ":", "type", ")", "{", "compound">>,
     <<"sizeof", "(", "type", ")">>, <<"offsetof", "(", "type", ",", "id", ")">>,
     <<"cast", "(", "type", ")", "expression">>,
     <<"expression", "?", "expression", ":", "expression">>,
     <<"expression", "(", ")">>, <<"expression", "(", "expressions", ")">>,
     <<"expression", "[", "expression", "]">>, <<"expression", ".", "id">>}
    \cup {<<o, "expression">> : o \in Unary}
    \cup {<<"expression", o, "expression">> : o \in Binary},
  expressions |-> {<<"expression">>, <<"expression", ",", "expressions">>},
  compound |-> {<<"{", "}">>, <<"{", "fields", "}">>, <<"{", "fields", ",", "}">>},
  fields |-> {<<"field">>, <<"field", ",", "fields">>},
  field |-> {<<"expression">>, <<"id", "=", "expression">>,
             <<"[", "expression", "]", "=", "expression">>},

  type |-> {<<"id">>, <<"type", "*">>, <<"type", "[", "]">>, <<"type", "[", "*", "]">>,
            <<"type", "[", "size", "]">>, <<"fun", "(", ")">>},
  size |-> {<<"expression">>},

  initializer |-> {<<"id", ":=", "expression">>, <<"id", ":", "type">>,
                   <<"id", ":", "type", "=", "expression">>, <<"id", ":", "type", "=", "..">>},
  update |-> {<<"expression">>} \cup {<<"expression", o, "expression">> : o \in Assigning},
  simple |-> {<<"initializer">>, <<"update">>},
  command |-> {<<"simple">>},
  block |-> {<<"{", "statements", "}">>},
  statements |-> {<<>>, <<"statement", "statements">>},
  statement |->
    {<<"command", ";">>, <<"block">>, <<"break", ";">>, <<"return", "expression", ";">>,
     <<"if", "branch">>, <<"while", "(", "expression", ")", "statement">>,
     <<"do", "repeat">>, <<"for", "loop">>, <<"switch", "choice">>},
  branch |-> {<<"(", "condition", ")", "statement">>,
              <<"(", "condition", ")", "statement", "else", "statement">>},
  repeat |-> {<<"statement", "while", "(", "expression", ")", ";">>},
  loop |-> {<<"block">>, <<"(", "header", ")", "statement">>},
  choice |-> {<<"(", "expression", ")", "{", "statements", "groups", "}">>},
  condition |-> {<<"expression">>, <<"initializer">>, <<"initializer", ";", "expression">>},
  header |-> {<<"simple">>, <<"start", ";", "expression">>,
              <<"start", ";", "until", ";", "each">>},
  start |-> {<<>>, <<"simple">>},
  until |-> {<<>>, <<"expression">>},
  each |-> {<<>>, <<"update">>},
  groups |-> {<<>>, <<"labels">>, <<"labels", "statement", "statements", "groups">>},
  labels |-> {<<"case", "patterns", ":", "cases">>, <<"cases", "default", ":", "cases">>},
  cases |-> {<<>>, <<"case", "patterns", ":", "cases">>},
  arm |-> {<<"statements">>, <<"labels", "statements">>},
  patterns |-> {<<"pattern">>, <<"pattern", ",", "patterns">>},
  pattern |-> {<<"expression">>, <<"expression", "..", "expression">>},

  names |-> {<<"id">>, <<"id", ",", "names">>},
  members |-> {<<>>, <<"names", ":", "type", ";", "members">>},
  parameters |-> {<<"id", ":", "type">>, <<"id", ":", "type", ",", "parameters">>},
  variadic |-> {<<>>, <<"parameters">>, <<"parameters", ",", "..">>},
  typed |-> {<<>>, <<":", "type">>},
  items |-> {<<>>, <<"id", ";", "items">>, <<"id", "=", "expression", ";", "items">>},
  body |-> {<<";">>, <<"statement">>},
  named |-> {<<"id">>, <<"str">>},
  declaration |->
    {<<"alias", "id", "=", "type", ";">>, <<"struct", "id", "{", "members", "}">>,
     <<"var", "id", "typed", ";">>, <<"var", "id", ":=", "expression", ";">>,
     <<"var", "id", ":", "type", "=", "expression", ";">>,
     <<"fun", "named", "(", "variadic", ")", "typed", "body">>,
     <<"enum", "id", "typed", "{", "items", "}">>},
  program |-> {<<>>, <<"declaration", "program">>}]

Phrases == DOMAIN Grammar

\* A size that begins with a star is taken for a dynamic array, a statement that
\* begins with a brace for a block.
Barred == [p \in Phrases |-> CASE p = "size" -> {"*"} [] p = "command" -> {"{"} [] OTHER -> {}]

\* The phrase each function of the parser reads.
PhraseOf(rule) ==
  CASE rule = "typedecl" -> "type"
    [] rule = "statement_if" -> "branch"
    [] rule = "statement_do_while" -> "repeat"
    [] rule = "statement_for" -> "loop"
    [] rule = "statement_switch" -> "choice"
    [] rule = "statement_switch_case" -> "arm"
    [] OTHER -> rule

-----------------------------------------------------------------------------
(* The sentences of a grammar, by length *)

Join(S, T) == {s \o t : s \in S, t \in T}

\* The texts of length n an alternative stands for, given those of its phrases.
RECURSIVE Texts(_, _, _, _)
Texts(table, words, alternative, n) ==
  IF alternative = <<>> THEN IF n = 0 THEN {<<>>} ELSE {}
  ELSE LET first == Head(alternative)
           rest == Tail(alternative)
       IN  IF first \in Phrases
             THEN UNION {IF table[k][first] = {} THEN {}
                           ELSE Join(table[k][first], Texts(table, words, rest, n - k))
                          : k \in 0 .. n}
             ELSE IF first \in words /\ n > 0
                    THEN Join({<<first>>}, Texts(table, words, rest, n - 1))
                    ELSE {}

Allowed(p, S) == {s \in S : s = <<>> \/ Head(s) \notin Barred[p]}

Improve(table, words, n) ==
  [table EXCEPT ![n] =
     [p \in Phrases |-> Allowed(p, UNION {Texts(table, words, a, n) : a \in Grammar[p]})]]

\* Phrases of one length depend on each other through alternatives of one phrase.
RECURSIVE Settle(_, _, _), Table(_, _)
Settle(table, words, n) ==
  LET better == Improve(table, words, n)
  IN  IF better = table THEN table ELSE Settle(better, words, n)

Table(words, n) ==
  LET shorter == IF n = 0 THEN <<>> ELSE Table(words, n - 1)
      none == [p \in Phrases |-> {}]
  IN  Settle([k \in 0 .. n |-> IF k = n THEN none ELSE shorter[k]], words, n)

SentencesOf(j) ==
  LET table == Table(j.words, j.max)
  IN  UNION {table[k][PhraseOf(j.rule)] : k \in 0 .. j.max}

Sentences == [j \in Jobs |-> SentencesOf(j)]

\* What a text may have been when its next token is not read yet.
Beginnings ==
  [j \in Jobs |-> UNION {{SubSeq(Append(s, EOF), 1, n) : n \in 1 .. Len(s) + 1}
                          : s \in Sentences[j]}]
-----------------------------------------------------------------------------
(* Properties *)

\* parser.c as a whole: it accepts the sentences of the grammar and nothing
\* else, and it reports an error, crashes, or runs out of stack or tokens only
\* when no sentence begins with the tokens it has seen.
AcceptsExactly ==
  /\ phase = "done" /\ errors = {} /\ look = EOF => text \in Sentences[job]
  /\ errors # {} \/ phase \notin {"parsing", "done"} => Append(text, look) \notin Beginnings[job]

Binding(operator) ==
  CASE operator = "||" -> 1
    [] operator = "&&" -> 2
    [] operator \in Comparing -> 3
    [] operator \in Additive -> 4
    [] operator \in Multiplicative -> 5

Tightness(tree) ==
  CASE tree.node = "ternary" -> 0
    [] tree.node = "binary" -> Binding(tree.kids[2].node)
    [] tree.node \in {"unary", "cast"} -> 6
    [] OTHER -> 7

RECURSIVE WellBound(_)
WellBound(tree) ==
  LET Tight(i, least) == Tightness(tree.kids[i]) >= least
  IN  /\ \A i \in DOMAIN tree.kids : WellBound(tree.kids[i])
      /\ tree.node = "binary" => Tight(1, Tightness(tree)) /\ Tight(3, Tightness(tree) + 1)
      /\ tree.node \in {"unary", "cast"} => Tight(2, 6)
      /\ tree.node \in {"call", "index", "member"} => Tight(1, 7)
      /\ tree.node = "ternary" => Tight(1, 1)

\* parse_expression_*: in the tree an operator binds what the order of its level
\* gives it: equal ones to the left, looser ones only through parentheses.
BindingStrength == phase = "done" /\ errors = {} => WellBound(result)
=============================================================================
