------------------------------- MODULE Parser --------------------------------
(***************************************************************************)
(* parser.c: a recursive descent with one token of lookahead.  Each        *)
(* function is a sequence of the few things it can do; Next carries them   *)
(* out on a stack of calls.  The text is chosen while it is read, so texts *)
(* with a common beginning share its states.                               *)
(*                                                                         *)
(* A token is its kind.  Kinds no function tells apart are one: "num" is a *)
(* number or a character, "-" and "*" the unary operators that are also    *)
(* binary ones, "!" the others, "sizeof" also alignof, "struct" also       *)
(* union, "var" also const, "break" also continue.                         *)
(***************************************************************************)
EXTENDS Naturals, Sequences

CONSTANTS
  Jobs,     \* what is parsed: by which function, of which words, how many of
            \* them, and how many after an error
  MaxDepth  \* the calls the C stack has room for

EOF == "EOF"
Literals == {"num", "str"}
Unary == {"-", "*", "!"}
Multiplicative == {"*", "/"}
Additive == {"-", "^"}
Comparing == {"<"}
Assigning == {"=", "+="}
Binary == Multiplicative \cup Additive \cup Comparing \cup {"&&", "||"}
Keywords == {"sizeof", "offsetof", "cast", "if", "else", "while", "do", "for", "switch",
             "case", "default", "break", "return", "alias", "struct", "var", "fun", "enum"}
Tokens == {"id"} \cup Literals \cup Unary \cup Binary \cup Assigning \cup Keywords \cup
          {"?", ":", ":=", ",", ";", ".", "..", "(", ")", "[", "]", "{", "}", EOF}

-----------------------------------------------------------------------------
(* What a function can do.  Its values are the nodes it has so far.        *)

\* A condition on the current token.
In(T) == [set |-> T, holds |-> TRUE]
NotIn(T) == [set |-> T, holds |-> FALSE]
Any == NotIn({})

Need(t) == [op |-> "need", when |-> In({t})]    \* parser_consume, or make_error
Keep(T) == [op |-> "keep", when |-> In(T)]      \* the same; the token becomes a value
Advance == [op |-> "need", when |-> Any]
Call(r) == [op |-> "call", rule |-> r, given |-> 0]
Pass(r) == [op |-> "call", rule |-> r, given |-> 1]  \* with the last value
Make(k) == [op |-> "make", kind |-> k]     \* make_ast, of all the values
Fail == [op |-> "need", when |-> In({})]
Crash == [op |-> "crash"]                  \* vector_push on a null vector
Drop == [op |-> "drop"]                    \* leave a failed declaration out

\* The first case the current token, or the last value, is in.
On(T, code) == [when |-> In(T), code |-> code]
Otherwise(code) == [when |-> Any, code |-> code]
Switch(cases) == [op |-> "switch", cases |-> cases]
If(T, code) == Switch(<<On(T, code), Otherwise(<<>>)>>)
Unless(T, code) == Switch(<<On(T, <<>>), Otherwise(code)>>)
WhenLast(kinds, then, else) == [op |-> "last", kinds |-> kinds, then |-> then, else |-> else]
Expect(kind) == WhenLast({kind}, <<>>, <<Fail>>)

Loops(when, body) == [op |-> "while", when |-> when, body |-> body, since |-> 0]
While(T, body) == Loops(In(T), body)
Until(T, body) == Loops(NotIn(T), body)
\* do { body } while (parser_consume(parser, TOKEN_COMMA))
List(body) == body \o <<While({","}, <<Advance>> \o body)>>

-----------------------------------------------------------------------------
(* Expressions *)

compound_field == <<
  Switch(<<
    On({"["}, <<Advance, Call("expression"), Need("]"), Need("="), Call("expression"),
                Make("indexed field")>>),
    Otherwise(<<Call("expression"),
                If({"="}, <<Advance, Expect("identifier"), Call("expression")>>),
                Make("field")>>)>>)>>

\* Mutant: no comma after the last field.
NextFieldNeeded == <<Advance, Call("compound_field")>>

\* A comma is needed to go on, and may come last.
next_field == <<Advance, Unless({"}"}, <<Call("compound_field")>>)>>

compound == <<
  Need("{"),
  Unless({"}"}, <<Call("compound_field"), While({","}, next_field)>>),
  Need("}"), Make("compound")>>

\* Mutant: the unexpected token is skipped, be it the EOF.
UnexpectedSkipped == <<Advance, Fail>>

unexpected == <<Fail>>

\* After a parenthesised type one brace is consumed here and one by compound.
operand == <<
  Switch(<<
    On(Literals, <<Keep(Literals)>>),
    On({"id"}, <<Keep({"id"}),
                 Switch(<<On({"{"}, <<Make("type name"), Pass("compound")>>),
                          Otherwise(<<Make("identifier")>>)>>)>>),
    On({"sizeof"}, <<Advance, Need("("), Call("typedecl"), Need(")"), Make("sizeof")>>),
    On({"offsetof"}, <<Advance, Need("("), Call("typedecl"), Need(","), Keep({"id"}),
                       Need(")"), Make("offsetof")>>),
    On({"{"}, <<Call("compound")>>),
    On({"("}, <<Advance,
                Switch(<<On({":"}, <<Advance, Call("typedecl"), Need(")"), Need("{"),
                              Pass("compound")>>),
                         Otherwise(<<Call("expression"), Need(")"), Make("paren")>>)>>)>>),
    On({"cast"}, <<Advance, Need("("), Call("typedecl"), Need(")"), Call("unary"),
                   Make("cast")>>),
    Otherwise(unexpected)>>)>>

base == <<
  Call("operand"),
  While({"(", "[", "."}, <<
    Switch(<<
      On({"("}, <<Advance, Unless({")"}, List(<<Call("expression")>>)), Need(")"),
                  Make("call")>>),
      On({"["}, <<Advance, Call("expression"), Need("]"), Make("index")>>),
      Otherwise(<<Advance, Keep({"id"}), Make("member")>>)>>)>>)>>

unary == <<
  Switch(<<On(Unary, <<Keep(Unary), Call("unary"), Make("unary")>>),
           Otherwise(<<Call("base")>>)>>)>>

\* Mutant: the right operand is a whole expression.
LevelToTheRight(operators, tighter) ==
  <<Call(tighter), While(operators, <<Keep(operators), Call("expression"), Make("binary")>>)>>

\* The five levels of binary operators have one shape.
Level(operators, tighter) ==
  <<Call(tighter), While(operators, <<Keep(operators), Call(tighter), Make("binary")>>)>>

expression == <<
  Call("or"),
  If({"?"}, <<Advance, Call("expression"), Need(":"), Call("expression"), Make("ternary")>>)>>

paren == <<Need("("), Call("expression"), Need(")")>>

-----------------------------------------------------------------------------
(* Types *)

\* Its list of parameters is never created.
typedecl_function == <<
  Advance, Need("("), Unless({")"}, <<Crash>>), Need(")"),
  If({":"}, <<Call("typedecl")>>), Make("function type")>>

\* A parenthesis is looked at and not consumed.
typedecl_base == <<
  Switch(<<On({"fun"}, <<Call("typedecl_function")>>),
           On({"id"}, <<Keep({"id"}), Make("type name")>>),
           On({"("}, <<Call("typedecl"), Need(")")>>),
           Otherwise(<<Fail>>)>>)>>

\* Mutant: the star is looked at and not consumed.
PointerStuck == <<Make("pointer")>>

pointer == <<Advance, Make("pointer")>>

typedecl == <<
  Call("typedecl_base"),
  While({"[", "*"}, <<
    Switch(<<
      On({"["}, <<Advance,
                  Switch(<<On({"*"}, <<Advance>>), On({"]"}, <<>>),
                           Otherwise(<<Call("expression")>>)>>),
                  Need("]"), Make("array")>>),
      Otherwise(pointer)>>)>>)>>

-----------------------------------------------------------------------------
(* Statements; parse_statement has consumed the keyword *)

statement_init == <<
  Switch(<<
    On({":="}, <<Advance, Expect("identifier"), Call("expression")>>),
    Otherwise(<<Advance, Expect("identifier"), Call("typedecl"),
                If({"="}, <<Advance, Switch(<<On({".."}, <<Advance>>),
                                              Otherwise(<<Call("expression")>>)>>)>>)>>)>>),
  Make("init")>>

statement_simple == <<
  Call("expression"),
  Switch(<<On({":=", ":"}, <<Pass("statement_init")>>),
           On(Assigning, <<Keep(Assigning), Call("expression"), Make("assign")>>),
           Otherwise(<<Make("expression statement")>>)>>)>>

statement_if == <<
  Need("("), Call("expression"),
  If({":=", ":"}, <<Pass("statement_init"), If({";"}, <<Advance, Call("expression")>>)>>),
  Need(")"), Call("statement_block"),
  If({"else"}, <<Advance, Call("statement_block")>>), Make("if")>>

statement_while == <<Call("paren"), Call("statement_block"), Make("while")>>

statement_do_while ==
  <<Call("statement_block"), Need("while"), Call("paren"), Need(";"), Make("do")>>

statement_for == <<
  Unless({"{"}, <<
    Need("("),
    Unless({";"}, <<Call("statement_simple")>>),
    If({";"}, <<Advance,
      Unless({";"}, <<Call("expression")>>),
      If({";"}, <<Advance,
        Unless({")"},
           <<Call("statement_simple"), WhenLast({"init"}, <<Fail>>, <<>>)>>)>>)>>),
    Need(")")>>),
  Call("statement_block"), Make("for")>>

switch_pattern == <<
  Call("expression"), If({".."}, <<Advance, Call("expression")>>), Make("pattern")>>

\* One default among the labels, then statements up to the next label.
statement_switch_case ==
  LET labels == While({"case"}, <<Advance>> \o List(<<Call("switch_pattern")>>) \o <<Need(":")>>)
  IN  <<labels,
        If({"default"}, <<Advance, Need(":"), labels, If({"default"}, <<Advance, Fail>>)>>),
        Until({EOF, "}", "case", "default"}, <<Call("statement")>>),
        Make("case")>>

statement_switch == <<
  Call("paren"), Need("{"),
  Until({"}", EOF}, <<Call("statement_switch_case")>>),
  Need("}"), Make("switch")>>

\* The semicolon of an empty return is looked at and not consumed.
statement_return == <<
  Switch(<<On({";"}, <<>>), Otherwise(<<Call("expression"), Need(";")>>)>>),
  Make("return")>>

statement_break_continue == <<Need(";"), Make("break")>>

statement == <<
  Switch(<<
    On({"if"}, <<Advance, Call("statement_if")>>),
    On({"while"}, <<Advance, Call("statement_while")>>),
    On({"do"}, <<Advance, Call("statement_do_while")>>),
    On({"for"}, <<Advance, Call("statement_for")>>),
    On({"switch"}, <<Advance, Call("statement_switch")>>),
    On({"break"}, <<Advance, Call("statement_break_continue")>>),
    On({"return"}, <<Advance, Call("statement_return")>>),
    On({"{"}, <<Call("statement_block")>>),
    Otherwise(<<Call("statement_simple"), Need(";")>>)>>)>>

statement_block == <<
  Switch(<<
    On({"{"}, <<Advance, Until({"}", EOF}, <<Call("statement")>>), Need("}"), Make("block")>>),
    Otherwise(<<Call("statement")>>)>>)>>

-----------------------------------------------------------------------------
(* Declarations; parse_declaration has consumed the keyword *)

declaration_alias == <<
  Switch(<<On({"id"}, <<Keep({"id"}), Need("="), Call("typedecl"), Need(";"), Make("alias")>>),
           Otherwise(<<Make("null")>>)>>)>>

\* The list of the items of a nested aggregate is never created.
aggregate_item == <<
  If({"struct"}, <<Advance, Crash>>),
  Keep({"id"}), While({","}, <<Advance, Keep({"id"})>>),
  Need(":"), Call("typedecl"), Need(";"), Make("fields")>>

aggregate == <<
  Need("{"), Until({EOF, "}"}, <<Call("aggregate_item")>>), Need("}"), Make("aggregate")>>

declaration_aggregate == <<Keep({"id"}), Call("aggregate"), Make("struct")>>

declaration_variable == <<
  Keep({"id"}),
  Switch(<<On({":="}, <<Advance, Call("expression")>>),
           On({":"}, <<Advance, Call("typedecl"), If({"="}, <<Advance, Call("expression")>>)>>),
           Otherwise(<<>>)>>),
  Need(";"), Make("variable")>>

parameter == <<Keep({"id"}), Need(":"), Call("typedecl"), Make("parameter")>>

\* After the dots any comma is an error.
declaration_function == <<
  Keep({"id", "str"}), Need("("),
  Unless({")"}, <<
    Call("parameter"),
    While({","}, <<
      Advance,
      Switch(<<On({".."}, <<Advance, If({","}, <<Advance, If({".."}, <<Advance>>), Fail>>)>>),
               Otherwise(<<Call("parameter")>>)>>)>>)>>),
  Need(")"),
  If({":"}, <<Advance, Call("typedecl")>>),
  Switch(<<On({";"}, <<Advance>>), Otherwise(<<Call("statement_block")>>)>>),
  Make("function")>>

\* An item that is given no value counts on from the one before it.
declaration_enum == <<
  Keep({"id"}), If({":"}, <<Advance, Call("typedecl")>>),
  Need("{"),
  Until({EOF, "}"}, <<Keep({"id"}), If({"="}, <<Advance, Call("expression")>>), Need(";")>>),
  Need("}"), Make("enum")>>

declaration == <<
  Switch(<<
    On({"alias"}, <<Advance, Call("declaration_alias")>>),
    On({"struct"}, <<Advance, Call("declaration_aggregate")>>),
    On({"var"}, <<Advance, Call("declaration_variable")>>),
    On({"fun"}, <<Advance, Call("declaration_function")>>),
    On({"enum"}, <<Advance, Call("declaration_enum")>>),
    Otherwise(<<Make("null")>>)>>)>>

\* What is no declaration is reported, and one token of it skipped.
program == <<
  Until({EOF}, <<
    Call("declaration"),
    WhenLast({"null"}, <<[op |-> "report"], Drop, Advance>>,
                       <<WhenLast({"error"}, <<Drop>>, <<>>)>>)>>),
  Make("program")>>

Code == [
  compound_field |-> compound_field, compound |-> compound, operand |-> operand, base |-> base,
  unary |-> unary, mul |-> Level(Multiplicative, "unary"), add |-> Level(Additive, "mul"),
  cmp |-> Level(Comparing, "add"), and |-> Level({"&&"}, "cmp"), or |-> Level({"||"}, "and"),
  expression |-> expression, paren |-> paren,
  typedecl_function |-> typedecl_function, typedecl_base |-> typedecl_base,
  typedecl |-> typedecl,
  statement_init |-> statement_init, statement_simple |-> statement_simple,
  statement_if |-> statement_if, statement_while |-> statement_while,
  statement_do_while |-> statement_do_while, statement_for |-> statement_for,
  switch_pattern |-> switch_pattern, statement_switch_case |-> statement_switch_case,
  statement_switch |-> statement_switch, statement_return |-> statement_return,
  statement_break_continue |-> statement_break_continue,
  statement |-> statement, statement_block |-> statement_block,
  declaration_alias |-> declaration_alias, aggregate_item |-> aggregate_item,
  aggregate |-> aggregate, declaration_aggregate |-> declaration_aggregate,
  declaration_variable |-> declaration_variable, parameter |-> parameter,
  declaration_function |-> declaration_function, declaration_enum |-> declaration_enum,
  declaration |-> declaration, program |-> program]

\* Two functions are called only in front of the token they begin with.
ASSUME JobsAssumption ==
  /\ Jobs \subseteq [rule : DOMAIN Code \ {"statement_init", "typedecl_function"},
                     words : SUBSET (Tokens \ {EOF}), max : Nat, after : Nat]
  /\ MaxDepth \in Nat

-----------------------------------------------------------------------------
(* Carrying it out *)

VARIABLES
  job,    \* what is parsed
  text,   \* the tokens that were consumed
  look,   \* parser->current->kind
  stack,  \* the calls in progress, each with what it has left to do
  errors, \* where an error was reported
  phase,  \* "parsing", or how it ended
  result  \* what the first function returned

vars == <<job, text, look, stack, errors, phase, result>>

Node(kind, kids) == [node |-> kind, at |-> 0, kids |-> kids]
Leaf(token, at) == [node |-> token, at |-> at, kids |-> <<>>]
Error == Node("error", <<>>)
NoTree == Node("null", <<>>)

Here == Len(text) + 1
Top == stack[Len(stack)]
Callers == SubSeq(stack, 1, Len(stack) - 1)
Instruction == Head(Top.code)
Rest == Tail(Top.code)
Holds(when) == (look \in when.set) = when.holds
LastOf(s) == s[Len(s)]
ButLast(s) == SubSeq(s, 1, Len(s) - 1)

\* A run of errors in a list is kept as one, so that a parser that repeats
\* itself repeats its states.
With(vals, v) == IF v = Error /\ vals # <<>> /\ LastOf(vals) = Error THEN vals ELSE Append(vals, v)

\* A text ends at its bound, or when it went on long enough after an error.
Upcoming(n) ==
  IF n > job.max \/ \E e \in errors : n > e + job.after THEN {EOF} ELSE job.words \cup {EOF}

Frame(rule, vals) == [rule |-> rule, code |-> Code[rule], vals |-> vals]

Init ==
  /\ job \in Jobs
  /\ text = <<>>
  /\ errors = {}
  /\ look \in Upcoming(1)
  /\ stack = <<Frame(job.rule, <<>>)>>
  /\ phase = "parsing"
  /\ result = NoTree

At(op) == phase = "parsing" /\ Top.code # <<>> /\ Instruction.op = op

Goes(code, vals) ==
  /\ stack' = Append(Callers, [Top EXCEPT !.code = code, !.vals = vals])
  /\ UNCHANGED <<job, phase, result>>

End(how) ==
  /\ phase' = how
  /\ stack' = <<>>
  /\ UNCHANGED <<job, result>>

Return(tree) ==
  IF Callers = <<>>
    THEN /\ phase' = "done"
         /\ stack' = <<>>
         /\ result' = tree
         /\ UNCHANGED job
    ELSE /\ stack' = [Callers EXCEPT ![Len(Callers)].vals = With(@, tree)]
         /\ UNCHANGED <<job, phase, result>>

\* The token array ends with EOF, and with a second one when the text ends in
\* white space; beyond is foreign memory.
parser_advance(vals) ==
  /\ text' = Append(text, look)
  /\ \/ /\ look # EOF
        /\ look' \in Upcoming(Here + 1)
        /\ Goes(Rest, vals)
     \/ /\ look = EOF /\ \A i \in DOMAIN text : text[i] # EOF
        /\ UNCHANGED look
        /\ Goes(Rest, vals)
     \/ /\ look = EOF
        /\ UNCHANGED look
        /\ End("overrun")

make_error ==
  /\ errors' = errors \cup {Here}
  /\ Return(Error)
  /\ UNCHANGED <<text, look>>

Consume ==
  /\ At("need")
  /\ Holds(Instruction.when)
  /\ parser_advance(Top.vals)
  /\ UNCHANGED errors

ConsumeWord ==
  /\ At("keep")
  /\ Holds(Instruction.when)
  /\ parser_advance(With(Top.vals, Leaf(look, Here)))
  /\ UNCHANGED errors

Refuse ==
  /\ At("need") \/ At("keep")
  /\ ~Holds(Instruction.when)
  /\ make_error

Enter ==
  /\ At("call")
  /\ Len(stack) < MaxDepth
  /\ LET given == Instruction.given
         vals == Top.vals
         n == Len(vals) - given
     IN  stack' = Append(Append(Callers, [Top EXCEPT !.code = Rest, !.vals = SubSeq(vals, 1, n)]),
                         Frame(Instruction.rule, SubSeq(vals, n + 1, Len(vals))))
  /\ UNCHANGED <<job, text, look, errors, phase, result>>

Overflow ==
  /\ At("call")
  /\ Len(stack) >= MaxDepth
  /\ End("overflow")
  /\ UNCHANGED <<text, look, errors>>

Leave ==
  /\ phase = "parsing" /\ Top.code = <<>>
  /\ Return(LastOf(Top.vals))
  /\ UNCHANGED <<text, look, errors>>

make_ast ==
  /\ At("make")
  /\ Goes(Rest, <<Node(Instruction.kind, Top.vals)>>)
  /\ UNCHANGED <<text, look, errors>>

\* A round of a loop remembers where it began.
Loop ==
  /\ At("while")
  /\ Goes(IF Holds(Instruction.when)
            THEN Instruction.body \o <<[Instruction EXCEPT !.since = Here]>> \o Rest
            ELSE Rest, Top.vals)
  /\ UNCHANGED <<text, look, errors>>

Branch ==
  /\ At("switch")
  /\ \E i \in DOMAIN Instruction.cases :
       /\ Holds(Instruction.cases[i].when)
       /\ \A j \in 1 .. i - 1 : ~Holds(Instruction.cases[j].when)
       /\ Goes(Instruction.cases[i].code \o Rest, Top.vals)
  /\ UNCHANGED <<text, look, errors>>

BranchOnLast ==
  /\ At("last")
  /\ Goes((IF LastOf(Top.vals).node \in Instruction.kinds
             THEN Instruction.then ELSE Instruction.else) \o Rest, Top.vals)
  /\ UNCHANGED <<text, look, errors>>

DropLast ==
  /\ At("drop")
  /\ Goes(Rest, ButLast(Top.vals))
  /\ UNCHANGED <<text, look, errors>>

Report ==
  /\ At("report")
  /\ errors' = errors \cup {Here}
  /\ Goes(Rest, Top.vals)
  /\ UNCHANGED <<text, look>>

PushOnNull ==
  /\ At("crash")
  /\ End("crashed")
  /\ UNCHANGED <<text, look, errors>>

Next ==
  \/ Consume \/ ConsumeWord \/ Refuse \/ Enter \/ Overflow \/ Leave \/ make_ast
  \/ Loop \/ Branch \/ BranchOnLast \/ DropLast \/ Report \/ PushOnNull

Spec == Init /\ [][Next]_vars

-----------------------------------------------------------------------------
(* Properties *)

\* Every function returns a node, and the parser is where a parser can be.
\* The cursor stays inside the token array, but for one text: parse_program
\* skips a token after a declaration it makes nothing of, and after a final
\* `alias` that token is the EOF.
CursorInside ==
  phase = "overrun" => \E i \in DOMAIN text : text[i] = "alias" /\ text[i + 1] = EOF

\* A loop never goes round at the same token in silence: whoever waits for the
\* parser to end has at least seen an error.
NoSilentRound ==
  At("while") /\ Holds(Instruction.when) /\ Instruction.since = Here => Here \in errors
=============================================================================
