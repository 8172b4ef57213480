---------------------------- MODULE Parser_proof ----------------------------
(***************************************************************************)
(* That the parser's cursor stays inside its tokens, and that none of its  *)
(* loops begins two rounds at one token without a word, whatever the text, *)
(* the function it starts with and the depth of the stack.                 *)
(*                                                                         *)
(* Every function is made of instructions of a few shapes, nested at most  *)
(* six levels (Static): a token is consumed behind a condition that does   *)
(* not hold at the end (Stopping), and what consumes one without asking    *)
(* (Daring) only begins a code that is entered in front of a token         *)
(* (Ready).  So a call never moves past the end, but for parse_program,    *)
(* whose way through its loop is followed instruction by instruction       *)
(* (Programming, Declaring, Aliasing).                                     *)
(*                                                                         *)
(* A round ends in front of the token where it began only if it reported   *)
(* that token, because what a loop does first is to consume a token or to  *)
(* report (Moving); while it has done neither (Quiet), the innermost call  *)
(* is about to (MovesOn).                                                  *)
(***************************************************************************)
EXTENDS Parser, TLAPS, SequenceTheorems

-----------------------------------------------------------------------------
(* Instructions *)

\* The conditions on a token, and those that do not hold at the end.
Words == SUBSET (Tokens \ {EOF})
Conditions == [set : SUBSET Tokens, holds : BOOLEAN]
Stopping == [set : Words, holds : {TRUE}]
              \cup [set : {T \in SUBSET Tokens : EOF \in T}, holds : {FALSE}]

Declarers == {"declaration_alias", "declaration_aggregate", "declaration_variable",
              "declaration_function", "declaration_enum"}
\* The functions called in front of a token, and those that may be anywhere.
InFront == {"statement_init", "typedecl_function"}
Anywhere == DOMAIN Code \ (InFront \cup Declarers \cup {"program", "declaration"})

\* The functions that begin by consuming a token or reporting an error.
Movers == {"statement", "statement_block", "statement_simple", "expression", "or", "and",
           "cmp", "add", "mul", "unary", "base", "operand", "compound", "aggregate_item"}
MovesAtOnce(i) == i.op \in {"need", "keep", "crash"} \/ (i.op = "call" /\ i.rule \in Movers)
Leads(code) == code # <<>> /\ MovesAtOnce(Head(code))

\* What a code does first is to consume a token, to report, or to end.
Moving(code) ==
  \/ Leads(code)
  \/ /\ code # <<>> /\ Head(code).op = "switch"
     /\ \A i \in DOMAIN Head(code).cases : Leads(Head(code).cases[i].code \o Tail(code))

\* The loop over a switch's cases has the one body that need not move.
Case == <<Call("statement_switch_case")>>
InSwitch == NotIn({"}", EOF})
Driven(when, body) == Moving(body) \/ (when = InSwitch /\ body = Case)

\* The kinds of nodes but for null, and all ways to make one of them.
Kinds == {"indexed field", "field", "compound", "type name", "identifier", "sizeof", "offsetof",
          "paren", "cast", "call", "index", "member", "unary", "binary", "ternary",
          "function type", "pointer", "array", "init", "assign", "expression statement", "if",
          "while", "do", "for", "pattern", "case", "switch", "return", "break", "block",
          "alias", "fields", "aggregate", "struct", "variable", "parameter", "function", "enum"}
Makes == [op : {"make"}, kind : Kinds]
Plain ==
  [op : {"need", "keep"}, when : [set : Words, holds : {TRUE}]]
    \cup [op : {"call"}, rule : Anywhere, given : {0, 1}] \cup Makes \cup {Crash}

\* A code that is made of S, but for its first instruction.
Led(H, S) == {s \in Seq(H \cup S) : \A k \in 2 .. Len(s) : s[k] \in S}

\* What may be done in front of a token other than the end.
Daring(S) ==
  {Advance} \cup [op : {"call"}, rule : InFront, given : {0, 1}]
    \cup [op : {"switch"}, cases : Seq([when : Conditions, code : Led({Advance}, S)])]

Cases(S) == [when : Conditions, code : Seq(S)] \cup [when : Stopping, code : Led(Daring(S), S)]
Switches(S) == [op : {"switch"}, cases : Seq(Cases(S))]
Whiles(S, N) ==
  {w \in [op : {"while"}, when : Stopping, body : Led(Daring(S), S), since : N] :
     Driven(w.when, w.body)}
Lasts(S) == [op : {"last"}, kinds : SUBSET Kinds, then : Seq(S), else : Seq(S)]

\* The instructions whose parts are in S, and those of six levels.
Around(S) == Plain \cup Switches(S) \cup Whiles(S, {0}) \cup Lasts(S)
Static == Around(Around(Around(Around(Around(Around({}))))))
Running == Static \cup Whiles(Static, Nat)

Fine(code) == code \in Seq(Running)
Bold(code) == code \in Led(Daring(Static), Running)
IsSequence(s) == \E S : s \in Seq(S)

-----------------------------------------------------------------------------
(* The calls *)

IsFrame(f) == DOMAIN f = {"rule", "code", "vals"}

\* The rounds of a code's loops began at tokens up to n, and one of them at n.
Begun(code, n) == \A j \in 1 .. Len(code) : code[j].op = "while" => code[j].since \in 0 .. n
Began(code, n) == \E j \in 1 .. Len(code) : code[j].op = "while" /\ code[j].since = n

\* What is done in front of a token; what returns a node.
Ready(code, token) == Fine(code) \/ (token # EOF /\ Bold(code))
Closing(code) == code # <<>> /\ LastOf(code) \in Makes
Ends(f) == IF f.code = <<>> THEN LastOf(f.vals).node # "null" ELSE Closing(f.code)
Ordinary(f, token) ==
  /\ f.rule \notin {"program", "declaration"}
  /\ Ready(f.code, token)
  /\ f.rule \in Declarers => Ends(f)

\* A program's code is a part of its loop's body in front of the loop.
NoNode == <<Make("null")>>
IfError == WhenLast({"error"}, <<Drop>>, <<>>)
Reporting == <<[op |-> "report"], Drop, Advance>>
IfNull == WhenLast({"null"}, Reporting, <<IfError>>)
Again(n) == <<[program[1] EXCEPT !.since = n], Make("program")>>
LeftOf(code, part, n) == \E m \in 0 .. n : code = part \o Again(m)

\* A call that waits for another one, and whom it may have called.
Waiting(f, n) ==
  IF f.rule = "program" THEN LeftOf(f.code, <<IfNull>>, n) /\ IsSequence(f.vals)
  ELSE IF f.rule = "declaration" THEN f.code = <<>> /\ IsSequence(f.vals)
  ELSE Fine(f.code) /\ (f.rule \in Declarers => Closing(f.code))

Calls(f, g) ==
  /\ g.rule # "program"
  /\ g.rule = "declaration" <=> f.rule = "program"
  /\ g.rule \in Declarers <=> f.rule = "declaration"

\* A declaration is only made nothing of in front of a token, unless it was a
\* last `alias`.
AliasLast == text # <<>> /\ LastOf(text) = "alias"
Excused == look # EOF \/ AliasLast
Alone == Len(stack) = 1
NullAtEnd == Top.code = <<>> /\ LastOf(Top.vals).node = "null"

\* Where the innermost call is, if it parses a program, a declaration or an alias.
Programming ==
  /\ Top.rule = "program" /\ IsSequence(Top.vals)
  /\ \/ LeftOf(Top.code, <<>>, Here)
     \/ LeftOf(Top.code, <<Call("declaration"), IfNull>>, Here) /\ look # EOF
     \/ LeftOf(Top.code, <<IfNull>>, Here) /\ (LastOf(Top.vals).node = "null" => Excused)
     \/ LeftOf(Top.code, Reporting, Here) /\ Excused
     \/ LeftOf(Top.code, <<Drop, Advance>>, Here) /\ Excused /\ Here \in errors
     \/ LeftOf(Top.code, <<Advance>>, Here) /\ Excused /\ Here \in errors
     \/ LeftOf(Top.code, <<IfError>>, Here)
     \/ LeftOf(Top.code, <<Drop>>, Here)
     \/ Top.code = <<Make("program")>>
     \/ Top.code = <<>>

Declaring ==
  /\ Top.rule = "declaration" /\ IsSequence(Top.vals)
  /\ \/ Top.code \in {declaration, NoNode} /\ (Alone \/ Excused)
     \/ Top.code = <<>> /\ (NullAtEnd => Alone \/ Excused)
     \/ \E x \in Declarers : /\ Top.code = <<Advance, Call(x)>> /\ look # EOF
                             /\ x = "declaration_alias" => look = "alias"
     \/ \E x \in Declarers : /\ Top.code = <<Call(x)>>
                             /\ x = "declaration_alias" => AliasLast

Aliasing ==
  /\ Top.rule = "declaration_alias"
  /\ \/ Top.code \in {declaration_alias, NoNode} /\ (Alone \/ Excused)
     \/ NullAtEnd /\ (Alone \/ Excused)

Working == Programming \/ Declaring \/ Aliasing \/ Ordinary(Top, look)

-----------------------------------------------------------------------------
(* No loop goes round in silence *)

Quiet == Here \notin errors /\ \E k \in 1 .. Len(stack) : Began(stack[k].code, Here)

Choosing ==
  LET all == statement_switch_case
  IN  /\ Top.rule = "statement_switch_case" /\ look \notin {"}", EOF}
      /\ \/ Top.code = all
         \/ Top.code = Tail(all) /\ look # "case"
         \/ Top.code = Tail(Tail(all)) /\ look \notin {"case", "default"}

Announcing ==
  \/ /\ Top.rule = "program"
     /\ \/ LeftOf(Top.code, <<Call("declaration"), IfNull>>, Here)
        \/ LeftOf(Top.code, <<IfNull>>, Here) /\ LastOf(Top.vals).node = "null"
        \/ LeftOf(Top.code, Reporting, Here)
  \/ Top.rule = "declaration" /\ (Top.code \in {declaration, NoNode} \/ NullAtEnd)

MovesOn ==
  \/ Moving(Top.code)
  \/ look \notin {"}", EOF} /\ Top.code # <<>> /\ Head(Top.code) = Call("statement_switch_case")
  \/ Choosing
  \/ Announcing

Typed == job \in Jobs /\ text \in Seq(Tokens) /\ look \in Tokens
Framed == IsSequence(stack) /\ \A k \in 1 .. Len(stack) : IsFrame(stack[k]) /\ Begun(stack[k].code, Here)
Chained == \A k \in 1 .. Len(stack) - 1 : Waiting(stack[k], Here) /\ Calls(stack[k], stack[k + 1])

Inv ==
  /\ Typed /\ Framed /\ Chained
  /\ phase = "parsing" <=> stack # <<>>
  /\ stack # <<>> => Working
  /\ Quiet => MovesOn
  /\ CursorInside

-----------------------------------------------------------------------------
(* What the functions are made of *)

LEMMA PlainIn ==
  /\ \A T \in Words : Keep(T) \in Plain
  /\ \A t \in Tokens \ {EOF} : Need(t) \in Plain
  /\ \A r \in Anywhere : Call(r) \in Plain /\ Pass(r) \in Plain
  /\ \A k \in Kinds : Make(k) \in Plain
  /\ Fail \in Plain /\ Crash \in Plain
<1>1. \A T \in Words : In(T) \in [set : Words, holds : {TRUE}]
  BY DEF Words, In
<1>2. \A T \in Words : Keep(T) \in Plain
  BY <1>1 DEF Keep, Plain
<1>3. \A t \in Tokens \ {EOF} : Need(t) \in Plain
  BY <1>1 DEF Need, Plain, Words
<1>4. \A r \in Anywhere : Call(r) \in Plain /\ Pass(r) \in Plain
  BY DEF Call, Pass, Plain
<1>5. \A k \in Kinds : Make(k) \in Plain
  BY DEF Make, Makes, Plain
<1>6. Fail \in Plain /\ Crash \in Plain
  BY <1>1 DEF Fail, Plain, Words
<1> QED  BY <1>2, <1>3, <1>4, <1>5, <1>6

LEMMA LedGrows ==
  ASSUME NEW H, NEW I, NEW S, NEW T, H \subseteq I, S \subseteq T
  PROVE  Led(H, S) \subseteq Led(I, T)
<1> SUFFICES ASSUME NEW s \in Led(H, S) PROVE s \in Led(I, T)
  OBVIOUS
<1>1. s \in Seq(H \cup S) /\ \A k \in 2 .. Len(s) : s[k] \in S
  BY DEF Led
<1>2. s \in Seq(I \cup T)
  BY <1>1
<1> QED  BY <1>1, <1>2 DEF Led

LEMMA AroundGrows ==
  ASSUME NEW S, NEW T, S \subseteq T
  PROVE  Around(S) \subseteq Around(T)
<1>1. Seq(S) \subseteq Seq(T)
  OBVIOUS
<1>2. Led({Advance}, S) \subseteq Led({Advance}, T)
  BY LedGrows
<1>3. Daring(S) \subseteq Daring(T)
  <2> DEFINE A == [when : Conditions, code : Led({Advance}, S)]
             B == [when : Conditions, code : Led({Advance}, T)]
  <2>1. Seq(A) \subseteq Seq(B)
    <3>1. A \subseteq B
      BY <1>2
    <3> HIDE DEF A, B
    <3> QED  BY <3>1
  <2> QED  BY <2>1 DEF Daring
<1>4. Led(Daring(S), S) \subseteq Led(Daring(T), T)
  BY <1>3, LedGrows
<1>5. Seq(Cases(S)) \subseteq Seq(Cases(T))
  <2>1. Cases(S) \subseteq Cases(T)
    BY <1>1, <1>4 DEF Cases
  <2> QED  BY <2>1
<1>6. Switches(S) \subseteq Switches(T)
  BY <1>5 DEF Switches
<1>7. Whiles(S, {0}) \subseteq Whiles(T, {0})
  BY <1>4 DEF Whiles
<1>8. Lasts(S) \subseteq Lasts(T)
  BY <1>1 DEF Lasts
<1> QED  BY <1>6, <1>7, <1>8 DEF Around

L1 == Around({})
L2 == Around(L1)
L3 == Around(L2)
L4 == Around(L3)
L5 == Around(L4)

LEMMA LevelsGrow ==
  /\ Static = Around(L5)
  /\ Plain \subseteq L1 /\ L1 \subseteq L2 /\ L2 \subseteq L3 /\ L3 \subseteq L4
  /\ L4 \subseteq L5 /\ L5 \subseteq Static
<1>1. Static = Around(L5)
  BY DEF Static, L1, L2, L3, L4, L5
<1>2. Plain \subseteq L1
  BY DEF L1, Around
<1>3. L1 \subseteq L2
  BY AroundGrows DEF L1, L2
<1>4. L2 \subseteq L3
  BY <1>3, AroundGrows DEF L2, L3
<1>5. L3 \subseteq L4
  BY <1>4, AroundGrows DEF L3, L4
<1>6. L4 \subseteq L5
  BY <1>5, AroundGrows DEF L4, L5
<1>7. L5 \subseteq Static
  BY <1>1, <1>6, AroundGrows DEF L5
<1> QED  BY <1>1, <1>2, <1>3, <1>4, <1>5, <1>6, <1>7

LEMMA DaringIn ==
  ASSUME NEW S
  PROVE  /\ Advance \in Daring(S)
         /\ \A r \in InFront : Call(r) \in Daring(S) /\ Pass(r) \in Daring(S)
         /\ \A cs \in Seq([when : Conditions, code : Led({Advance}, S)]) : Switch(cs) \in Daring(S)
  BY DEF Daring, Call, Pass, Switch

LEMMA CasesIn ==
  ASSUME NEW S
  PROVE  /\ \A T \in SUBSET Tokens, code \in Seq(S) : On(T, code) \in Cases(S)
         /\ \A code \in Seq(S) : Otherwise(code) \in Cases(S)
         /\ \A T \in Words, code \in Led(Daring(S), S) : On(T, code) \in Cases(S)
<1>1. \A T \in SUBSET Tokens : In(T) \in Conditions /\ NotIn(T) \in Conditions
  BY DEF In, NotIn, Conditions
<1>2. \A T \in Words : In(T) \in Stopping
  BY DEF In, Stopping, Words
<1>3. Any \in Conditions
  BY <1>1 DEF Any
<1> QED  BY <1>1, <1>2, <1>3 DEF On, Otherwise, Cases

LEMMA SwitchIn ==
  ASSUME NEW S
  PROVE  /\ \A cs \in Seq(Cases(S)) : Switch(cs) \in Around(S)
         /\ \A a, b \in Cases(S) : Switch(<<a, b>>) \in Around(S)
         /\ \A a, b, c \in Cases(S) : Switch(<<a, b, c>>) \in Around(S)
         /\ \A a, b, c, d \in Cases(S) : Switch(<<a, b, c, d>>) \in Around(S)
         /\ \A a, b, c, d, e, f, g, h \in Cases(S) :
              /\ Switch(<<a, b, c, d, e, f, g, h>>) \in Around(S)
              /\ \A i \in Cases(S) : Switch(<<a, b, c, d, e, f, g, h, i>>) \in Around(S)
<1>1. \A cs \in Seq(Cases(S)) : Switch(cs) \in Around(S)
  BY DEF Switch, Switches, Around
<1> DEFINE C == Cases(S)
<1>2. \A a, b \in C : <<a, b>> \in Seq(C)
  OBVIOUS
<1>3. \A a, b, c \in C : <<a, b, c>> \in Seq(C)
  OBVIOUS
<1>4. \A a, b, c, d \in C : <<a, b, c, d>> \in Seq(C)
  OBVIOUS
<1>5. \A a, b, c, d, e, f, g, h \in C : <<a, b, c, d, e, f, g, h>> \in Seq(C)
  OBVIOUS
<1>6. \A a, b, c, d, e, f, g, h, i \in C : <<a, b, c, d, e, f, g, h, i>> \in Seq(C)
  OBVIOUS
<1> HIDE DEF C
<1>7. ASSUME NEW a \in C, NEW b \in C, NEW c \in C, NEW d \in C, NEW e \in C, NEW f \in C,
             NEW g \in C, NEW h \in C
      PROVE  /\ Switch(<<a, b, c, d, e, f, g, h>>) \in Around(S)
             /\ \A i \in C : Switch(<<a, b, c, d, e, f, g, h, i>>) \in Around(S)
  BY <1>1, <1>5, <1>6 DEF C
<1> QED  BY <1>1, <1>2, <1>3, <1>4, <1>7 DEF C

LEMMA SeqIn ==
  ASSUME NEW S
  PROVE  /\ <<>> \in Seq(S)
         /\ \A a \in S : <<a>> \in Seq(S)
         /\ \A a, b \in S : <<a, b>> \in Seq(S)
         /\ \A a, b, c \in S : <<a, b, c>> \in Seq(S)
         /\ \A a, b, c, d \in S : <<a, b, c, d>> \in Seq(S)
         /\ \A a, b, c, d, e \in S : <<a, b, c, d, e>> \in Seq(S)
         /\ \A a, b, c, d, e, f \in S : <<a, b, c, d, e, f>> \in Seq(S)
         /\ \A a, b, c, d, e, f, g \in S : <<a, b, c, d, e, f, g>> \in Seq(S)
  OBVIOUS

LEMMA IfIn ==
  ASSUME NEW S, NEW T \in Words, NEW code \in Led(Daring(S), S)
  PROVE  If(T, code) \in Around(S)
<1>1. On(T, code) \in Cases(S) /\ Otherwise(<<>>) \in Cases(S)
  <2>1. <<>> \in Seq(S)
    OBVIOUS
  <2> QED  BY <2>1, CasesIn
<1>2. <<On(T, code), Otherwise(<<>>)>> \in Seq(Cases(S))
  BY <1>1
<1> QED  BY <1>2, SwitchIn DEF If

LEMMA UnlessIn ==
  ASSUME NEW S, NEW T \in SUBSET Tokens, NEW code \in Seq(S)
  PROVE  Unless(T, code) \in Around(S)
<1>1. On(T, <<>>) \in Cases(S) /\ Otherwise(code) \in Cases(S)
  <2>1. <<>> \in Seq(S)
    OBVIOUS
  <2> QED  BY <2>1, CasesIn
<1>2. <<On(T, <<>>), Otherwise(code)>> \in Seq(Cases(S))
  BY <1>1
<1> QED  BY <1>2, SwitchIn DEF Unless

LEMMA WhileIn ==
  ASSUME NEW S, NEW code \in Led(Daring(S), S)
  PROVE  /\ \A T \in Words : Moving(code) => While(T, code) \in Around(S)
         /\ \A T \in SUBSET Tokens :
              EOF \in T /\ Driven(NotIn(T), code) => Until(T, code) \in Around(S)
<1>1. \A T \in Words : In(T) \in Stopping
  BY DEF In, Stopping, Words
<1>2. \A T \in SUBSET Tokens : EOF \in T => NotIn(T) \in Stopping
  BY DEF NotIn, Stopping
<1> QED  BY <1>1, <1>2 DEF While, Until, Loops, Driven, Whiles, Around

LEMMA ExpectIn ==
  ASSUME NEW kind \in Kinds
  PROVE  Expect(kind) \in L2
<1>1. <<Fail>> \in Seq(L1) /\ <<>> \in Seq(L1)
  BY PlainIn, LevelsGrow
<1> QED  BY <1>1 DEF Expect, WhenLast, Lasts, Around, L2

\* A code of Daring's first instruction and S, as it is written.
LEMMA LedIn ==
  ASSUME NEW S, NEW H, NEW h \in H \cup S
  PROVE  /\ <<>> \in Led(H, S) /\ <<h>> \in Led(H, S)
         /\ \A a \in S : <<h, a>> \in Led(H, S)
         /\ \A a, b \in S : <<h, a, b>> \in Led(H, S)
         /\ \A a, b, c \in S : <<h, a, b, c>> \in Led(H, S)
         /\ \A a, b, c, d \in S : <<h, a, b, c, d>> \in Led(H, S)
         /\ \A a, b, c, d, e \in S : <<h, a, b, c, d, e>> \in Led(H, S)
         /\ \A a, b, c, d, e, f \in S : <<h, a, b, c, d, e, f>> \in Led(H, S)
  BY DEF Led

LEMMA NeedsIn ==
  /\ \A t \in {"(", ")", "[", "]", "{", "}", ":", ";", ",", "=", "while"} : Need(t) \in L1
  /\ \A T \in {Literals, Unary, Assigning, {"id"}, {"id", "str"}} : T \in Words /\ Keep(T) \in L1
  /\ \A T \in {Multiplicative, Additive, Comparing, {"&&"}, {"||"}} : T \in Words /\ Keep(T) \in L1
<1>1. {"(", ")", "[", "]", "{", "}", ":", ";", ",", "=", "while"} \subseteq Tokens \ {EOF}
  BY DEF Tokens, Binary, Unary, Additive, Multiplicative, Comparing, Literals, Assigning,
         Keywords, EOF
<1>2. \A T \in {Literals, Unary, Assigning, {"id"}, {"id", "str"}} : T \in Words
  BY DEF Words, Tokens, Binary, Unary, Additive, Multiplicative, Comparing, Literals, Assigning,
         Keywords, EOF
<1>3. \A T \in {Multiplicative, Additive, Comparing, {"&&"}, {"||"}} : T \in Words
  BY DEF Words, Tokens, Binary, Unary, Additive, Multiplicative, Comparing, Literals, Assigning,
         Keywords, EOF
<1> QED  BY <1>1, <1>2, <1>3, PlainIn, LevelsGrow

\* Each function by its name.
LEMMA Rules ==
  DOMAIN Code = {
    "compound_field", "compound", "operand", "base", "unary", "mul", "add", "cmp", "and", "or",
    "expression", "paren", "typedecl_function", "typedecl_base", "typedecl", "statement_init",
    "statement_simple", "statement_if", "statement_while", "statement_do_while",
    "statement_for", "switch_pattern", "statement_switch_case", "statement_switch",
    "statement_return", "statement_break_continue", "statement", "statement_block",
    "declaration_alias", "aggregate_item", "aggregate", "declaration_aggregate",
    "declaration_variable", "parameter", "declaration_function", "declaration_enum",
    "declaration", "program"}
  BY DEF Code

LEMMA CallsIn ==
  \A r \in Anywhere : Call(r) \in L1 /\ Pass(r) \in L1
  BY PlainIn, LevelsGrow

LEMMA AnywhereRules ==
  Anywhere = {
    "compound_field", "compound", "operand", "base", "unary", "mul", "add", "cmp", "and", "or",
    "expression", "paren", "typedecl_base", "typedecl",
    "statement_simple", "statement_if", "statement_while", "statement_do_while",
    "statement_for", "switch_pattern", "statement_switch_case", "statement_switch",
    "statement_return", "statement_break_continue", "statement", "statement_block",
    "aggregate_item", "aggregate", "parameter"}
  BY Rules DEF Anywhere, InFront, Declarers

\* What every level has.
LEMMA EveryLevel ==
  ASSUME NEW L \in {L1, L2, L3, L4, L5, Static}
  PROVE  /\ \A r \in Anywhere : Call(r) \in L /\ Pass(r) \in L
         /\ \A k \in Kinds : Make(k) \in L
         /\ \A t \in {"(", ")", "[", "]", "{", "}", ":", ";", ",", "=", "while"} : Need(t) \in L
         /\ \A T \in {Literals, Unary, Assigning, {"id"}, {"id", "str"}} : Keep(T) \in L
         /\ Fail \in L /\ Crash \in L
<1>1. Plain \subseteq L /\ L1 \subseteq L
  BY LevelsGrow
<1> QED  BY <1>1, PlainIn, NeedsIn

\* Sets of tokens a function asks for.
LEMMA WordsIn ==
  /\ \A t \in {"id", "sizeof", "offsetof", "cast", "if", "else", "while", "do", "for", "switch",
               "case", "default", "break", "return", "struct", "fun", "?", ":", ":=", ",", ";",
               ".", "..", "(", ")", "[", "]", "{", "}", "=", "*"} :
       {t} \in Words /\ {t} \in SUBSET Tokens
  /\ {"(", "[", "."} \in Words /\ {"[", "*"} \in Words /\ {":=", ":"} \in Words
  /\ {} \in Words
<1>1. {"id", "sizeof", "offsetof", "cast", "if", "else", "while", "do", "for", "switch",
       "case", "default", "break", "return", "struct", "fun", "?", ":", ":=", ",", ";",
       ".", "..", "(", ")", "[", "]", "{", "}", "=", "*"} \subseteq Tokens \ {EOF}
  BY DEF Tokens, Binary, Unary, Additive, Multiplicative, Comparing, Literals, Assigning,
         Keywords, EOF
<1> QED  BY <1>1 DEF Words

LEMMA CompoundFieldFine == compound_field \in Seq(Static)
<1> DEFINE indexed == <<Advance, Call("expression"), Need("]"), Need("="), Call("expression"),
                        Make("indexed field")>>
           named == <<Advance, Expect("identifier"), Call("expression")>>
           field == <<Call("expression"), If({"="}, named), Make("field")>>
<1>1. indexed \in Led(Daring(L3), L3)
  <2>1. Call("expression") \in L3 /\ Need("]") \in L3 /\ Need("=") \in L3
    BY EveryLevel, AnywhereRules
  <2>2. Make("indexed field") \in L3
    BY EveryLevel DEF Kinds
  <2> QED  BY <2>1, <2>2, DaringIn, LedIn
<1>2. field \in Seq(L3)
  <2>1. /\ Call("expression") \in L2 /\ Call("expression") \in L3
        /\ Make("field") \in L3
    BY EveryLevel, AnywhereRules DEF Kinds
  <2>2. named \in Led(Daring(L2), L2)
    BY <2>1, DaringIn, LedIn, ExpectIn DEF Kinds
  <2>3. If({"="}, named) \in L3
    BY <2>2, WordsIn, IfIn DEF L3
  <2> HIDE DEF named
  <2> QED  BY <2>1, <2>3
<1> HIDE DEF indexed, field
<1>3. On({"["}, indexed) \in Cases(L3) /\ Otherwise(field) \in Cases(L3)
  BY <1>1, <1>2, WordsIn, CasesIn
<1>4. Switch(<<On({"["}, indexed), Otherwise(field)>>) \in L4
  BY <1>3, SwitchIn DEF L4
<1>5. compound_field = <<Switch(<<On({"["}, indexed), Otherwise(field)>>)>>
  BY DEF compound_field, indexed, field
<1> QED  BY <1>4, <1>5, LevelsGrow, SeqIn

LEMMA CompoundFine == compound \in Seq(Static)
<1>1. next_field \in Led(Daring(L2), L2) /\ Moving(next_field)
  <2> DEFINE more == Unless({"}"}, <<Call("compound_field")>>)
  <2>1. more \in L2
    <3>1. <<Call("compound_field")>> \in Seq(L1)
      BY EveryLevel, AnywhereRules, SeqIn
    <3>2. {"}"} \in SUBSET Tokens
      BY WordsIn DEF Words
    <3> QED  BY <3>1, <3>2, UnlessIn DEF L2
  <2> HIDE DEF more
  <2>2. next_field = <<Advance, more>>
    BY DEF next_field, more
  <2>3. Moving(<<Advance, more>>)
    BY DEF Moving, Leads, MovesAtOnce, Advance
  <2> QED  BY <2>1, <2>2, <2>3, DaringIn, LedIn
<1>2. While({","}, next_field) \in L3
  BY <1>1, WordsIn, WhileIn DEF L3
<1>3. Unless({"}"}, <<Call("compound_field"), While({","}, next_field)>>) \in L4
  <2>1. <<Call("compound_field"), While({","}, next_field)>> \in Seq(L3)
    BY <1>2, EveryLevel, AnywhereRules, SeqIn
  <2>2. {"}"} \in SUBSET Tokens
    BY WordsIn DEF Words
  <2> QED  BY <2>1, <2>2, UnlessIn DEF L4
<1>4. Need("{") \in Static /\ Need("}") \in Static /\ Make("compound") \in Static
  BY EveryLevel DEF Kinds
<1> QED  BY <1>3, <1>4, LevelsGrow, SeqIn DEF compound

\* A switch all of whose cases begin by consuming the token in front of it.
LEMMA DaringSwitchIn ==
  ASSUME NEW S, NEW c \in Led({Advance}, S), NEW d \in Led({Advance}, S),
         NEW e \in Led({Advance}, S)
  PROVE  \A T \in Words, U \in Words :
           /\ Switch(<<On(T, c), Otherwise(d)>>) \in Daring(S)
           /\ Switch(<<On(T, c), On(U, d), Otherwise(e)>>) \in Daring(S)
<1> DEFINE C == [when : Conditions, code : Led({Advance}, S)]
<1>1. \A T \in Words : In(T) \in Conditions
  BY DEF In, Conditions, Words
<1>2. Any \in Conditions
  BY DEF Any, NotIn, Conditions
<1>3. \A T \in Words, x \in Led({Advance}, S) : On(T, x) \in C /\ Otherwise(x) \in C
  BY <1>1, <1>2 DEF On, Otherwise
<1> HIDE DEF C
<1>4. \A cs \in Seq(C) : Switch(cs) \in Daring(S)
  BY DaringIn DEF C
<1>5. \A x, y, z \in C : <<x, y>> \in Seq(C) /\ <<x, y, z>> \in Seq(C)
  OBVIOUS
<1> QED  BY <1>3, <1>4, <1>5

\* Sets of tokens a loop goes on until.
LEMMA UntilsIn ==
  \A T \in {{EOF, "}", "case", "default"}, {"}", EOF}, {EOF, "}"}} : T \in SUBSET Tokens /\ EOF \in T
  BY WordsIn DEF Words, Tokens

\* Codes that begin with an instruction that moves.
LEMMA LeadsIn ==
  ASSUME NEW i, MovesAtOnce(i)
  PROVE  /\ Leads(<<i>>)
         /\ \A a : Leads(<<i, a>>)
         /\ \A a, b : Leads(<<i, a, b>>)
         /\ \A a, b, c : Leads(<<i, a, b, c>>)
         /\ \A a, b, c, d : Leads(<<i, a, b, c, d>>)
         /\ \A a, b, c, d, e : Leads(<<i, a, b, c, d, e>>)
         /\ \A a, b, c, d, e, f : Leads(<<i, a, b, c, d, e, f>>)
  BY DEF Leads

LEMMA MovingIn ==
  ASSUME NEW i, MovesAtOnce(i)
  PROVE  /\ Moving(<<i>>)
         /\ \A a : Moving(<<i, a>>)
         /\ \A a, b : Moving(<<i, a, b>>)
         /\ \A a, b, c : Moving(<<i, a, b, c>>)
  BY DEF Moving, Leads

LEMMA MoversMove ==
  /\ MovesAtOnce(Advance) /\ MovesAtOnce(Fail)
  /\ \A t : MovesAtOnce(Need(t))
  /\ \A T : MovesAtOnce(Keep(T))
  /\ \A r \in Movers : MovesAtOnce(Call(r)) /\ MovesAtOnce(Pass(r))
  BY DEF MovesAtOnce, Advance, Fail, Need, Keep, Call, Pass

\* A switch all of whose cases move.
LEMMA SwitchMoves ==
  ASSUME NEW S
  PROVE  LET C == {x \in Cases(S) : Leads(x.code)}
         IN  /\ \A a, b \in C : Moving(<<Switch(<<a, b>>)>>)
             /\ \A a, b, c, d, e, f, g, h \in C :
                  /\ Moving(<<Switch(<<a, b, c, d, e, f, g, h>>)>>)
                  /\ \A i \in C : Moving(<<Switch(<<a, b, c, d, e, f, g, h, i>>)>>)
<1> DEFINE C == {x \in Cases(S) : Leads(x.code)}
<1>1. \A x \in C : Leads(x.code) /\ x.code \o <<>> = x.code
  <2>1. \A x \in C : \E T : x.code \in Seq(T)
    BY DEF Cases, Led
  <2> QED  BY <2>1
<1> HIDE DEF C
<1>2. ASSUME NEW cs \in Seq(C)
      PROVE  Moving(<<Switch(cs)>>)
  <2>1. Head(<<Switch(cs)>>) = Switch(cs) /\ Tail(<<Switch(cs)>>) = <<>> /\ <<Switch(cs)>> # <<>>
    OBVIOUS
  <2>2. \A i \in DOMAIN cs : cs[i] \in C
    OBVIOUS
  <2>3. Switch(cs).op = "switch" /\ Switch(cs).cases = cs
    BY DEF Switch
  <2> QED  BY <1>1, <2>1, <2>2, <2>3 DEF Moving
<1>3. \A a, b \in C : <<a, b>> \in Seq(C)
  OBVIOUS
<1>4. \A a, b, c, d, e, f, g, h \in C : <<a, b, c, d, e, f, g, h>> \in Seq(C)
  OBVIOUS
<1>5. \A a, b, c, d, e, f, g, h, i \in C : <<a, b, c, d, e, f, g, h, i>> \in Seq(C)
  OBVIOUS
<1>6. ASSUME NEW a \in C, NEW b \in C, NEW c \in C, NEW d \in C, NEW e \in C, NEW f \in C,
             NEW g \in C, NEW h \in C
      PROVE  /\ Moving(<<Switch(<<a, b, c, d, e, f, g, h>>)>>)
             /\ \A i \in C : Moving(<<Switch(<<a, b, c, d, e, f, g, h, i>>)>>)
  BY <1>2, <1>4, <1>5
<1>7. \A a, b \in C : Moving(<<Switch(<<a, b>>)>>)
  BY <1>2, <1>3
<1> QED  BY <1>6, <1>7 DEF C

\* A switch that moves in all its cases.
LEMMA MovingSwitch ==
  ASSUME NEW S, NEW c \in Led({Advance}, S), NEW d \in Led({Advance}, S),
         NEW e \in Led({Advance}, S), Leads(c), Leads(d), Leads(e)
  PROVE  \A T, U : /\ Moving(<<Switch(<<On(T, c), Otherwise(d)>>)>>)
                   /\ Moving(<<Switch(<<On(T, c), On(U, d), Otherwise(e)>>)>>)
<1>1. \A x \in {c, d, e} : x \o <<>> = x
  BY DEF Led
<1>2. \A i : Head(<<i>>) = i /\ Tail(<<i>>) = <<>> /\ <<i>> # <<>>
  OBVIOUS
<1>3. ASSUME NEW cs, \A k \in DOMAIN cs : cs[k].code \in {c, d, e}
      PROVE  Moving(<<Switch(cs)>>)
  BY <1>1, <1>2, <1>3 DEF Moving, Switch
<1>4. \A T, U : /\ \A k \in DOMAIN <<On(T, c), Otherwise(d)>> :
                     <<On(T, c), Otherwise(d)>>[k].code \in {c, d, e}
                /\ \A k \in DOMAIN <<On(T, c), On(U, d), Otherwise(e)>> :
                     <<On(T, c), On(U, d), Otherwise(e)>>[k].code \in {c, d, e}
  BY DEF On, Otherwise
<1> QED  BY <1>3, <1>4

\* Two codes put together.
LEMMA Joining ==
  ASSUME NEW S, NEW s \in Seq(S), NEW t \in Seq(S)
  PROVE  /\ s \o t \in Seq(S) /\ Len(s \o t) = Len(s) + Len(t)
         /\ \A i \in 1 .. Len(s) + Len(t) :
              (s \o t)[i] = IF i <= Len(s) THEN s[i] ELSE t[i - Len(s)]
         /\ <<>> \o t = t /\ s \o <<>> = s
         /\ s # <<>> => /\ s \o t # <<>> /\ Head(s \o t) = Head(s)
                        /\ Tail(s) \in Seq(S) /\ Tail(s \o t) = Tail(s) \o t
<1>1. s \o t \in Seq(S) /\ Len(s \o t) = Len(s) + Len(t)
  OBVIOUS
<1>2. \A i \in 1 .. Len(s) + Len(t) :
              (s \o t)[i] = IF i <= Len(s) THEN s[i] ELSE t[i - Len(s)]
  OBVIOUS
<1>e. \A u, v \in Seq(S) : Len(u) = Len(v) /\ (\A i \in 1 .. Len(u) : u[i] = v[i]) => u = v
  OBVIOUS
<1>3. <<>> \o t = t /\ s \o <<>> = s
  <2>1. <<>> \in Seq(S)
    OBVIOUS
  <2>2. <<>> \o t \in Seq(S) /\ Len(<<>> \o t) = Len(t) /\ \A i \in 1 .. Len(t) : (<<>> \o t)[i] = t[i]
    BY <2>1
  <2>3. s \o <<>> \in Seq(S) /\ Len(s \o <<>>) = Len(s) /\ \A i \in 1 .. Len(s) : (s \o <<>>)[i] = s[i]
    BY <2>1
  <2> QED  BY <2>2, <2>3, <1>e
<1>4. ASSUME s # <<>>
      PROVE  /\ s \o t # <<>> /\ Head(s \o t) = Head(s)
             /\ Tail(s) \in Seq(S) /\ Tail(s \o t) = Tail(s) \o t
  <2>1. Len(s) > 0 /\ Len(s) \in Nat /\ Len(t) \in Nat
    BY <1>4
  <2>2. s \o t # <<>> /\ Head(s \o t) = Head(s)
    BY <2>1, <1>1, <1>2
  <2>3. /\ Tail(s) \in Seq(S) /\ Len(Tail(s)) = Len(s) - 1
        /\ \A i \in 1 .. Len(s) - 1 : Tail(s)[i] = s[i + 1]
    BY <2>1
  <2>4. /\ Tail(s \o t) \in Seq(S) /\ Len(Tail(s \o t)) = Len(s) + Len(t) - 1
        /\ \A i \in 1 .. Len(s) + Len(t) - 1 : Tail(s \o t)[i] = (s \o t)[i + 1]
    BY <2>1, <1>1
  <2>5. /\ Tail(s) \o t \in Seq(S) /\ Len(Tail(s) \o t) = Len(s) + Len(t) - 1
        /\ \A i \in 1 .. Len(s) + Len(t) - 1 :
             (Tail(s) \o t)[i] = IF i <= Len(s) - 1 THEN Tail(s)[i] ELSE t[i - (Len(s) - 1)]
    BY <2>1, <2>3
  <2>6. \A i \in 1 .. Len(s) + Len(t) - 1 : Tail(s \o t)[i] = (Tail(s) \o t)[i]
    <3> SUFFICES ASSUME NEW i \in 1 .. Len(s) + Len(t) - 1 PROVE Tail(s \o t)[i] = (Tail(s) \o t)[i]
      OBVIOUS
    <3>1. i \in Nat /\ i + 1 \in 1 .. Len(s) + Len(t) /\ (i + 1) - Len(s) = i - (Len(s) - 1)
      BY <2>1
    <3>2. Tail(s \o t)[i] = IF i + 1 <= Len(s) THEN s[i + 1] ELSE t[(i + 1) - Len(s)]
      BY <2>4, <1>2, <3>1
    <3>3. (Tail(s) \o t)[i] = IF i <= Len(s) - 1 THEN Tail(s)[i] ELSE t[i - (Len(s) - 1)]
      BY <2>5
    <3> QED  BY <3>1, <3>2, <3>3, <2>1, <2>3
  <2> QED  BY <2>2, <2>3, <2>4, <2>5, <2>6, <1>e
<1> QED  BY <1>1, <1>2, <1>3, <1>4

LEMMA JoinTwo == ASSUME NEW a, NEW b PROVE <<a>> \o <<b>> = <<a, b>>
<1> DEFINE S == {a, b}
<1>1. <<a>> \in Seq(S) /\ <<b>> \in Seq(S) /\ <<a, b>> \in Seq(S)
  OBVIOUS
<1>2. \A u, v \in Seq(S) : Len(u) = Len(v) /\ (\A i \in 1 .. Len(u) : u[i] = v[i]) => u = v
  OBVIOUS
<1>3. \A u, v \in Seq(S) : /\ u \o v \in Seq(S) /\ Len(u \o v) = Len(u) + Len(v)
                           /\ \A i \in 1 .. Len(u) + Len(v) :
                                (u \o v)[i] = IF i <= Len(u) THEN u[i] ELSE v[i - Len(u)]
  OBVIOUS
<1> HIDE DEF S
<1>4. /\ <<a>> \o <<b>> \in Seq(S) /\ Len(<<a>> \o <<b>>) = 2
      /\ \A i \in 1 .. 2 : (<<a>> \o <<b>>)[i] = <<a, b>>[i]
  BY <1>1, <1>3
<1> QED  BY <1>1, <1>2, <1>4

LEMMA JoinThree == ASSUME NEW a, NEW b, NEW c PROVE <<a>> \o <<b, c>> = <<a, b, c>>
<1> DEFINE S == {a, b, c}
<1>1. <<a>> \in Seq(S) /\ <<b, c>> \in Seq(S) /\ <<a, b, c>> \in Seq(S)
  OBVIOUS
<1>2. \A u, v \in Seq(S) : Len(u) = Len(v) /\ (\A i \in 1 .. Len(u) : u[i] = v[i]) => u = v
  OBVIOUS
<1>3. \A u, v \in Seq(S) : /\ u \o v \in Seq(S) /\ Len(u \o v) = Len(u) + Len(v)
                           /\ \A i \in 1 .. Len(u) + Len(v) :
                                (u \o v)[i] = IF i <= Len(u) THEN u[i] ELSE v[i - Len(u)]
  OBVIOUS
<1> HIDE DEF S
<1>4. /\ <<a>> \o <<b, c>> \in Seq(S) /\ Len(<<a>> \o <<b, c>>) = 3
      /\ \A i \in 1 .. 3 : (<<a>> \o <<b, c>>)[i] = <<a, b, c>>[i]
  BY <1>1, <1>3
<1> QED  BY <1>1, <1>2, <1>4

LEMMA JoinFour == ASSUME NEW a, NEW b, NEW c, NEW d PROVE <<a, b, c>> \o <<d>> = <<a, b, c, d>>
<1> DEFINE S == {a, b, c, d}
<1>1. <<a, b, c>> \in Seq(S) /\ <<d>> \in Seq(S) /\ <<a, b, c, d>> \in Seq(S)
  OBVIOUS
<1>2. \A u, v \in Seq(S) : Len(u) = Len(v) /\ (\A i \in 1 .. Len(u) : u[i] = v[i]) => u = v
  OBVIOUS
<1>3. \A u, v \in Seq(S) : /\ u \o v \in Seq(S) /\ Len(u \o v) = Len(u) + Len(v)
                           /\ \A i \in 1 .. Len(u) + Len(v) :
                                (u \o v)[i] = IF i <= Len(u) THEN u[i] ELSE v[i - Len(u)]
  OBVIOUS
<1> HIDE DEF S
<1>4. /\ <<a, b, c>> \o <<d>> \in Seq(S) /\ Len(<<a, b, c>> \o <<d>>) = 4
      /\ \A i \in 1 .. 4 : (<<a, b, c>> \o <<d>>)[i] = <<a, b, c, d>>[i]
  BY <1>1, <1>3
<1> QED  BY <1>1, <1>2, <1>4

LEMMA ListIs ==
  \A a, b : /\ List(<<a>>) = <<a, While({","}, <<Advance, a>>)>>
            /\ <<Advance>> \o List(<<a>>) \o <<b>> = <<Advance, a, While({","}, <<Advance, a>>), b>>
<1> SUFFICES ASSUME NEW a, NEW b
             PROVE  /\ List(<<a>>) = <<a, While({","}, <<Advance, a>>)>>
                    /\ <<Advance>> \o List(<<a>>) \o <<b>> =
                         <<Advance, a, While({","}, <<Advance, a>>), b>>
  OBVIOUS
<1> DEFINE x == While({","}, <<Advance, a>>)
<1>1. <<Advance>> \o <<a>> = <<Advance, a>>
  BY JoinTwo
<1>2. <<a>> \o <<x>> = <<a, x>>
  <2> HIDE DEF x
  <2> QED  BY JoinTwo
<1>3. List(<<a>>) = <<a, x>>
  BY <1>1, <1>2 DEF List
<1> HIDE DEF x
<1>4. <<Advance>> \o <<a, x>> = <<Advance, a, x>>
  BY JoinThree
<1>5. <<Advance, a, x>> \o <<b>> = <<Advance, a, x, b>>
  BY JoinFour
<1> QED  BY <1>3, <1>4, <1>5 DEF x

LEMMA OperandFine == operand \in Seq(Static) /\ Moving(operand)
<1> DEFINE after == Switch(<<On({"{"}, <<Make("type name"), Pass("compound")>>),
    Otherwise(<<Make("identifier")>>)>>)
           inner == Switch(<<On({":"}, <<Advance, Call("typedecl"), Need(")"), Need("{"),
                 Pass("compound")>>),
    Otherwise(<<Call("expression"), Need(")"), Make("paren")>>)>>)
           all == Switch(<<On(Literals, <<Keep(Literals)>>),
    On({"id"}, <<Keep({"id"}), after>>),
    On({"sizeof"}, <<Advance, Need("("), Call("typedecl"), Need(")"), Make("sizeof")>>),
    On({"offsetof"}, <<Advance, Need("("), Call("typedecl"), Need(","), Keep({"id"}), Need(")"),
          Make("offsetof")>>),
    On({"{"}, <<Call("compound")>>),
    On({"("}, <<Advance, inner>>),
    On({"cast"}, <<Advance, Need("("), Call("typedecl"), Need(")"), Call("unary"),
          Make("cast")>>),
    Otherwise(<<Fail>>)>>)
<1>1. after \in L2
  <2>1. On({"{"}, <<Make("type name"), Pass("compound")>>) \in Cases(L1)
    <3>1. <<Make("type name"), Pass("compound")>> \in Led(Daring(L1), L1)
      BY EveryLevel, AnywhereRules, LevelsGrow, DaringIn, LedIn DEF Kinds
    <3> QED  BY <3>1, WordsIn, NeedsIn, CasesIn
  <2>2. Otherwise(<<Make("identifier")>>) \in Cases(L1)
    <3>1. <<Make("identifier")>> \in Seq(L1)
      BY EveryLevel, AnywhereRules, LevelsGrow, SeqIn DEF Kinds
    <3> QED  BY <3>1, WordsIn, NeedsIn, CasesIn
  <2> QED  BY <2>1, <2>2, SwitchIn DEF L2
<1>2. inner \in L2
  <2>1. On({":"}, <<Advance, Call("typedecl"), Need(")"), Need("{"),
        Pass("compound")>>) \in Cases(L1)
    <3>1. <<Advance, Call("typedecl"), Need(")"), Need("{"),
          Pass("compound")>> \in Led(Daring(L1), L1)
      BY EveryLevel, AnywhereRules, LevelsGrow, DaringIn, LedIn DEF Kinds
    <3> QED  BY <3>1, WordsIn, NeedsIn, CasesIn
  <2>2. Otherwise(<<Call("expression"), Need(")"), Make("paren")>>) \in Cases(L1)
    <3>1. <<Call("expression"), Need(")"), Make("paren")>> \in Seq(L1)
      BY EveryLevel, AnywhereRules, LevelsGrow, SeqIn DEF Kinds
    <3> QED  BY <3>1, WordsIn, NeedsIn, CasesIn
  <2> QED  BY <2>1, <2>2, SwitchIn DEF L2
<1>3. all \in L3 /\ Moving(<<all>>)
  <2>1. On(Literals, <<Keep(Literals)>>) \in {x \in Cases(L2) : Leads(x.code)}
    <3>1. <<Keep(Literals)>> \in Led(Daring(L2), L2)
      BY EveryLevel, AnywhereRules, LevelsGrow, DaringIn, LedIn DEF Kinds
    <3>2. Leads(<<Keep(Literals)>>)
      BY LeadsIn, MoversMove DEF Movers
    <3>3. On(Literals, <<Keep(Literals)>>) \in Cases(L2)
      BY <3>1, WordsIn, NeedsIn, CasesIn
    <3> QED  BY <3>2, <3>3 DEF On, Otherwise
  <2>2. On({"id"}, <<Keep({"id"}), after>>) \in {x \in Cases(L2) : Leads(x.code)}
    <3>1. <<Keep({"id"}), after>> \in Led(Daring(L2), L2)
      BY <1>1, EveryLevel, AnywhereRules, LevelsGrow, DaringIn, LedIn DEF Kinds
    <3>2. Leads(<<Keep({"id"}), after>>)
      BY LeadsIn, MoversMove DEF Movers
    <3>3. On({"id"}, <<Keep({"id"}), after>>) \in Cases(L2)
      BY <3>1, WordsIn, NeedsIn, CasesIn
    <3> QED  BY <3>2, <3>3 DEF On, Otherwise
  <2>3. On({"sizeof"}, <<Advance, Need("("), Call("typedecl"), Need(")"),
        Make("sizeof")>>) \in {x \in Cases(L2) : Leads(x.code)}
    <3>1. <<Advance, Need("("), Call("typedecl"), Need(")"),
          Make("sizeof")>> \in Led(Daring(L2), L2)
      BY EveryLevel, AnywhereRules, LevelsGrow, DaringIn, LedIn DEF Kinds
    <3>2. Leads(<<Advance, Need("("), Call("typedecl"), Need(")"), Make("sizeof")>>)
      BY LeadsIn, MoversMove DEF Movers
    <3>3. On({"sizeof"}, <<Advance, Need("("), Call("typedecl"), Need(")"),
          Make("sizeof")>>) \in Cases(L2)
      BY <3>1, WordsIn, NeedsIn, CasesIn
    <3> QED  BY <3>2, <3>3 DEF On, Otherwise
  <2>4. On({"offsetof"}, <<Advance, Need("("), Call("typedecl"), Need(","), Keep({"id"}),
        Need(")"), Make("offsetof")>>) \in {x \in Cases(L2) : Leads(x.code)}
    <3>1. <<Advance, Need("("), Call("typedecl"), Need(","), Keep({"id"}), Need(")"),
          Make("offsetof")>> \in Led(Daring(L2), L2)
      BY EveryLevel, AnywhereRules, LevelsGrow, DaringIn, LedIn DEF Kinds
    <3>2. Leads(<<Advance, Need("("), Call("typedecl"), Need(","), Keep({"id"}), Need(")"),
          Make("offsetof")>>)
      BY LeadsIn, MoversMove DEF Movers
    <3>3. On({"offsetof"}, <<Advance, Need("("), Call("typedecl"), Need(","), Keep({"id"}),
          Need(")"), Make("offsetof")>>) \in Cases(L2)
      BY <3>1, WordsIn, NeedsIn, CasesIn
    <3> QED  BY <3>2, <3>3 DEF On, Otherwise
  <2>5. On({"{"}, <<Call("compound")>>) \in {x \in Cases(L2) : Leads(x.code)}
    <3>1. <<Call("compound")>> \in Led(Daring(L2), L2)
      BY EveryLevel, AnywhereRules, LevelsGrow, DaringIn, LedIn DEF Kinds
    <3>2. Leads(<<Call("compound")>>)
      BY LeadsIn, MoversMove DEF Movers
    <3>3. On({"{"}, <<Call("compound")>>) \in Cases(L2)
      BY <3>1, WordsIn, NeedsIn, CasesIn
    <3> QED  BY <3>2, <3>3 DEF On, Otherwise
  <2>6. On({"("}, <<Advance, inner>>) \in {x \in Cases(L2) : Leads(x.code)}
    <3>1. <<Advance, inner>> \in Led(Daring(L2), L2)
      BY <1>2, EveryLevel, AnywhereRules, LevelsGrow, DaringIn, LedIn DEF Kinds
    <3>2. Leads(<<Advance, inner>>)
      BY LeadsIn, MoversMove DEF Movers
    <3>3. On({"("}, <<Advance, inner>>) \in Cases(L2)
      BY <3>1, WordsIn, NeedsIn, CasesIn
    <3> QED  BY <3>2, <3>3 DEF On, Otherwise
  <2>7. On({"cast"}, <<Advance, Need("("), Call("typedecl"), Need(")"), Call("unary"),
        Make("cast")>>) \in {x \in Cases(L2) : Leads(x.code)}
    <3>1. <<Advance, Need("("), Call("typedecl"), Need(")"), Call("unary"),
          Make("cast")>> \in Led(Daring(L2), L2)
      BY EveryLevel, AnywhereRules, LevelsGrow, DaringIn, LedIn DEF Kinds
    <3>2. Leads(<<Advance, Need("("), Call("typedecl"), Need(")"), Call("unary"), Make("cast")>>)
      BY LeadsIn, MoversMove DEF Movers
    <3>3. On({"cast"}, <<Advance, Need("("), Call("typedecl"), Need(")"), Call("unary"),
          Make("cast")>>) \in Cases(L2)
      BY <3>1, WordsIn, NeedsIn, CasesIn
    <3> QED  BY <3>2, <3>3 DEF On, Otherwise
  <2>8. Otherwise(<<Fail>>) \in {x \in Cases(L2) : Leads(x.code)}
    <3>1. <<Fail>> \in Seq(L2)
      BY EveryLevel, AnywhereRules, LevelsGrow, SeqIn DEF Kinds
    <3>2. Leads(<<Fail>>)
      BY LeadsIn, MoversMove DEF Movers
    <3>3. Otherwise(<<Fail>>) \in Cases(L2)
      BY <3>1, WordsIn, NeedsIn, CasesIn
    <3> QED  BY <3>2, <3>3 DEF On, Otherwise
  <2>9. all \in L3
    BY <2>1, <2>2, <2>3, <2>4, <2>5, <2>6, <2>7, <2>8, SwitchIn DEF L3
  <2>10. Moving(<<all>>)
    BY <2>1, <2>2, <2>3, <2>4, <2>5, <2>6, <2>7, <2>8, SwitchMoves
  <2> QED  BY <2>9, <2>10
<1>4. <<all>> \in Seq(Static)
  BY <1>3, EveryLevel, AnywhereRules, LevelsGrow, SeqIn DEF Kinds
<1>5. operand = <<all>>
  BY DEF operand, unexpected
<1> QED  BY <1>4, <1>5, <1>3

LEMMA UnaryFine == unary \in Seq(Static) /\ Moving(unary)
<1> DEFINE all == Switch(<<On(Unary, <<Keep(Unary), Call("unary"), Make("unary")>>),
    Otherwise(<<Call("base")>>)>>)
<1>1. all \in L2 /\ Moving(<<all>>)
  <2>1. On(Unary, <<Keep(Unary), Call("unary"),
        Make("unary")>>) \in {x \in Cases(L1) : Leads(x.code)}
    <3>1. <<Keep(Unary), Call("unary"), Make("unary")>> \in Led(Daring(L1), L1)
      BY EveryLevel, AnywhereRules, LevelsGrow, DaringIn, LedIn DEF Kinds
    <3>2. Leads(<<Keep(Unary), Call("unary"), Make("unary")>>)
      BY LeadsIn, MoversMove DEF Movers
    <3>3. On(Unary, <<Keep(Unary), Call("unary"), Make("unary")>>) \in Cases(L1)
      BY <3>1, WordsIn, NeedsIn, CasesIn
    <3> QED  BY <3>2, <3>3 DEF On, Otherwise
  <2>2. Otherwise(<<Call("base")>>) \in {x \in Cases(L1) : Leads(x.code)}
    <3>1. <<Call("base")>> \in Seq(L1)
      BY EveryLevel, AnywhereRules, LevelsGrow, SeqIn DEF Kinds
    <3>2. Leads(<<Call("base")>>)
      BY LeadsIn, MoversMove DEF Movers
    <3>3. Otherwise(<<Call("base")>>) \in Cases(L1)
      BY <3>1, WordsIn, NeedsIn, CasesIn
    <3> QED  BY <3>2, <3>3 DEF On, Otherwise
  <2>3. all \in L2
    BY <2>1, <2>2, SwitchIn DEF L2
  <2>4. Moving(<<all>>)
    BY <2>1, <2>2, SwitchMoves
  <2> QED  BY <2>3, <2>4
<1>2. <<all>> \in Seq(Static)
  BY <1>1, EveryLevel, AnywhereRules, LevelsGrow, SeqIn DEF Kinds
<1>3. unary = <<all>>
  BY DEF unary
<1> QED  BY <1>2, <1>3, <1>1

LEMMA ExpressionFine == expression \in Seq(Static) /\ Moving(expression)
<1> DEFINE ternary == If({"?"}, <<Advance, Call("expression"), Need(":"), Call("expression"),
      Make("ternary")>>)
<1>1. ternary \in L2
  <2>1. <<Advance, Call("expression"), Need(":"), Call("expression"),
        Make("ternary")>> \in Led(Daring(L1), L1)
    BY EveryLevel, AnywhereRules, LevelsGrow, DaringIn, LedIn DEF Kinds
  <2> QED  BY <2>1, WordsIn, NeedsIn, IfIn DEF L2
<1>2. <<Call("or"), ternary>> \in Seq(Static)
  BY <1>1, EveryLevel, AnywhereRules, LevelsGrow, SeqIn DEF Kinds
<1>3. expression = <<Call("or"), ternary>>
  BY DEF expression
<1>4. Moving(<<Call("or"), ternary>>)
  BY MovingIn, MoversMove DEF Movers
<1> QED  BY <1>2, <1>3, <1>4

LEMMA ParenFine == paren \in Seq(Static)
<1>1. <<Need("("), Call("expression"), Need(")")>> \in Seq(Static)
  BY EveryLevel, AnywhereRules, LevelsGrow, SeqIn DEF Kinds
<1>2. paren = <<Need("("), Call("expression"), Need(")")>>
  BY DEF paren
<1> QED  BY <1>1, <1>2

LEMMA TypedeclFunctionBold == typedecl_function \in Led(Daring(Static), Static)
<1> DEFINE crashing == Unless({")"}, <<Crash>>)
           typed == If({":"}, <<Call("typedecl")>>)
<1>1. crashing \in L2
  <2>1. <<Crash>> \in Seq(L1)
    BY EveryLevel, AnywhereRules, LevelsGrow, SeqIn DEF Kinds
  <2> QED  BY <2>1, WordsIn, UnlessIn DEF L2
<1>2. typed \in L2
  <2>1. <<Call("typedecl")>> \in Led(Daring(L1), L1)
    BY EveryLevel, AnywhereRules, LevelsGrow, DaringIn, LedIn DEF Kinds
  <2> QED  BY <2>1, WordsIn, NeedsIn, IfIn DEF L2
<1>3. <<Advance, Need("("), crashing, Need(")"), typed,
      Make("function type")>> \in Led(Daring(Static), Static)
  BY <1>1, <1>2, EveryLevel, AnywhereRules, LevelsGrow, DaringIn, LedIn DEF Kinds
<1>4. typedecl_function = <<Advance, Need("("), crashing, Need(")"), typed,
      Make("function type")>>
  BY DEF typedecl_function
<1> QED  BY <1>3, <1>4

LEMMA TypedeclBaseFine == typedecl_base \in Seq(Static)
<1> DEFINE all == Switch(<<On({"fun"}, <<Call("typedecl_function")>>),
    On({"id"}, <<Keep({"id"}), Make("type name")>>),
    On({"("}, <<Call("typedecl"), Need(")")>>),
    Otherwise(<<Fail>>)>>)
<1>1. all \in L2
  <2>1. On({"fun"}, <<Call("typedecl_function")>>) \in Cases(L1)
    <3>1. <<Call("typedecl_function")>> \in Led(Daring(L1), L1)
      BY EveryLevel, AnywhereRules, LevelsGrow, DaringIn, LedIn DEF Kinds, InFront
    <3> QED  BY <3>1, WordsIn, NeedsIn, CasesIn
  <2>2. On({"id"}, <<Keep({"id"}), Make("type name")>>) \in Cases(L1)
    <3>1. <<Keep({"id"}), Make("type name")>> \in Led(Daring(L1), L1)
      BY EveryLevel, AnywhereRules, LevelsGrow, DaringIn, LedIn DEF Kinds
    <3> QED  BY <3>1, WordsIn, NeedsIn, CasesIn
  <2>3. On({"("}, <<Call("typedecl"), Need(")")>>) \in Cases(L1)
    <3>1. <<Call("typedecl"), Need(")")>> \in Led(Daring(L1), L1)
      BY EveryLevel, AnywhereRules, LevelsGrow, DaringIn, LedIn DEF Kinds
    <3> QED  BY <3>1, WordsIn, NeedsIn, CasesIn
  <2>4. Otherwise(<<Fail>>) \in Cases(L1)
    <3>1. <<Fail>> \in Seq(L1)
      BY EveryLevel, AnywhereRules, LevelsGrow, SeqIn DEF Kinds
    <3> QED  BY <3>1, WordsIn, NeedsIn, CasesIn
  <2> QED  BY <2>1, <2>2, <2>3, <2>4, SwitchIn DEF L2
<1>2. <<all>> \in Seq(Static)
  BY <1>1, EveryLevel, AnywhereRules, LevelsGrow, SeqIn DEF Kinds
<1>3. typedecl_base = <<all>>
  BY DEF typedecl_base
<1> QED  BY <1>2, <1>3

LEMMA StatementSimpleFine == statement_simple \in Seq(Static) /\ Moving(statement_simple)
<1> DEFINE rest == Switch(<<On({":=", ":"}, <<Pass("statement_init")>>),
    On(Assigning, <<Keep(Assigning), Call("expression"), Make("assign")>>),
    Otherwise(<<Make("expression statement")>>)>>)
<1>1. rest \in L2
  <2>1. On({":=", ":"}, <<Pass("statement_init")>>) \in Cases(L1)
    <3>1. <<Pass("statement_init")>> \in Led(Daring(L1), L1)
      BY EveryLevel, AnywhereRules, LevelsGrow, DaringIn, LedIn DEF Kinds, InFront
    <3> QED  BY <3>1, WordsIn, NeedsIn, CasesIn
  <2>2. On(Assigning, <<Keep(Assigning), Call("expression"), Make("assign")>>) \in Cases(L1)
    <3>1. <<Keep(Assigning), Call("expression"), Make("assign")>> \in Led(Daring(L1), L1)
      BY EveryLevel, AnywhereRules, LevelsGrow, DaringIn, LedIn DEF Kinds
    <3> QED  BY <3>1, WordsIn, NeedsIn, CasesIn
  <2>3. Otherwise(<<Make("expression statement")>>) \in Cases(L1)
    <3>1. <<Make("expression statement")>> \in Seq(L1)
      BY EveryLevel, AnywhereRules, LevelsGrow, SeqIn DEF Kinds
    <3> QED  BY <3>1, WordsIn, NeedsIn, CasesIn
  <2> QED  BY <2>1, <2>2, <2>3, SwitchIn DEF L2
<1>2. <<Call("expression"), rest>> \in Seq(Static)
  BY <1>1, EveryLevel, AnywhereRules, LevelsGrow, SeqIn DEF Kinds
<1>3. statement_simple = <<Call("expression"), rest>>
  BY DEF statement_simple
<1>4. Moving(<<Call("expression"), rest>>)
  BY MovingIn, MoversMove DEF Movers
<1> QED  BY <1>2, <1>3, <1>4

LEMMA StatementIfFine == statement_if \in Seq(Static)
<1> DEFINE condition == If({";"}, <<Advance, Call("expression")>>)
           init == If({":=", ":"}, <<Pass("statement_init"), condition>>)
           otherwise == If({"else"}, <<Advance, Call("statement_block")>>)
<1>1. condition \in L2
  <2>1. <<Advance, Call("expression")>> \in Led(Daring(L1), L1)
    BY EveryLevel, AnywhereRules, LevelsGrow, DaringIn, LedIn DEF Kinds
  <2> QED  BY <2>1, WordsIn, NeedsIn, IfIn DEF L2
<1>2. init \in L3
  <2>1. <<Pass("statement_init"), condition>> \in Led(Daring(L2), L2)
    BY <1>1, EveryLevel, AnywhereRules, LevelsGrow, DaringIn, LedIn DEF Kinds, InFront
  <2> QED  BY <2>1, WordsIn, NeedsIn, IfIn DEF L3
<1>3. otherwise \in L2
  <2>1. <<Advance, Call("statement_block")>> \in Led(Daring(L1), L1)
    BY EveryLevel, AnywhereRules, LevelsGrow, DaringIn, LedIn DEF Kinds
  <2> QED  BY <2>1, WordsIn, NeedsIn, IfIn DEF L2
<1>4. <<Need("("), Call("expression"), init, Need(")"), Call("statement_block"), otherwise,
      Make("if")>> \in Seq(Static)
  BY <1>2, <1>3, EveryLevel, AnywhereRules, LevelsGrow, SeqIn DEF Kinds
<1>5. statement_if = <<Need("("), Call("expression"), init, Need(")"), Call("statement_block"),
      otherwise, Make("if")>>
  BY DEF statement_if
<1> QED  BY <1>4, <1>5

LEMMA StatementWhileFine == statement_while \in Seq(Static)
<1>1. <<Call("paren"), Call("statement_block"), Make("while")>> \in Seq(Static)
  BY EveryLevel, AnywhereRules, LevelsGrow, SeqIn DEF Kinds
<1>2. statement_while = <<Call("paren"), Call("statement_block"), Make("while")>>
  BY DEF statement_while
<1> QED  BY <1>1, <1>2

LEMMA StatementDoWhileFine == statement_do_while \in Seq(Static)
<1>1. <<Call("statement_block"), Need("while"), Call("paren"), Need(";"),
      Make("do")>> \in Seq(Static)
  BY EveryLevel, AnywhereRules, LevelsGrow, SeqIn DEF Kinds
<1>2. statement_do_while = <<Call("statement_block"), Need("while"), Call("paren"), Need(";"),
      Make("do")>>
  BY DEF statement_do_while
<1> QED  BY <1>1, <1>2

LEMMA StatementForFine == statement_for \in Seq(Static)
<1> DEFINE start == Unless({";"}, <<Call("statement_simple")>>)
           condition == Unless({";"}, <<Call("expression")>>)
           checked == WhenLast({"init"}, <<Fail>>, <<>>)
           each == Unless({")"}, <<Call("statement_simple"), checked>>)
           last == If({";"}, <<Advance, each>>)
           more == If({";"}, <<Advance, condition, last>>)
           header == Unless({"{"}, <<Need("("), start, more, Need(")")>>)
<1>1. start \in L2
  <2>1. <<Call("statement_simple")>> \in Seq(L1)
    BY EveryLevel, AnywhereRules, LevelsGrow, SeqIn DEF Kinds
  <2> QED  BY <2>1, WordsIn, UnlessIn DEF L2
<1>2. condition \in L2
  <2>1. <<Call("expression")>> \in Seq(L1)
    BY EveryLevel, AnywhereRules, LevelsGrow, SeqIn DEF Kinds
  <2> QED  BY <2>1, WordsIn, UnlessIn DEF L2
<1>3. checked \in L2
  <2>1. <<Fail>> \in Seq(L1) /\ <<>> \in Seq(L1)
    BY EveryLevel, AnywhereRules, LevelsGrow, SeqIn DEF Kinds
  <2> QED  BY <2>1 DEF WhenLast, Lasts, Around, Kinds, L2
<1>4. each \in L3
  <2>1. <<Call("statement_simple"), checked>> \in Seq(L2)
    BY <1>3, EveryLevel, AnywhereRules, LevelsGrow, SeqIn DEF Kinds
  <2> QED  BY <2>1, WordsIn, UnlessIn DEF L3
<1>5. last \in L4
  <2>1. <<Advance, each>> \in Led(Daring(L3), L3)
    BY <1>4, EveryLevel, AnywhereRules, LevelsGrow, DaringIn, LedIn DEF Kinds
  <2> QED  BY <2>1, WordsIn, NeedsIn, IfIn DEF L4
<1>6. more \in L5
  <2>1. <<Advance, condition, last>> \in Led(Daring(L4), L4)
    BY <1>2, <1>5, EveryLevel, AnywhereRules, LevelsGrow, DaringIn, LedIn DEF Kinds
  <2> QED  BY <2>1, WordsIn, NeedsIn, IfIn DEF L5
<1>7. header \in Static
  <2>1. <<Need("("), start, more, Need(")")>> \in Seq(L5)
    BY <1>1, <1>6, EveryLevel, AnywhereRules, LevelsGrow, SeqIn DEF Kinds
  <2> QED  BY <2>1, WordsIn, UnlessIn, LevelsGrow
<1>8. <<header, Call("statement_block"), Make("for")>> \in Seq(Static)
  BY <1>7, EveryLevel, AnywhereRules, LevelsGrow, SeqIn DEF Kinds
<1>9. statement_for = <<header, Call("statement_block"), Make("for")>>
  BY DEF statement_for
<1> QED  BY <1>8, <1>9

LEMMA SwitchPatternFine == switch_pattern \in Seq(Static)
<1> DEFINE range == If({".."}, <<Advance, Call("expression")>>)
<1>1. range \in L2
  <2>1. <<Advance, Call("expression")>> \in Led(Daring(L1), L1)
    BY EveryLevel, AnywhereRules, LevelsGrow, DaringIn, LedIn DEF Kinds
  <2> QED  BY <2>1, WordsIn, NeedsIn, IfIn DEF L2
<1>2. <<Call("expression"), range, Make("pattern")>> \in Seq(Static)
  BY <1>1, EveryLevel, AnywhereRules, LevelsGrow, SeqIn DEF Kinds
<1>3. switch_pattern = <<Call("expression"), range, Make("pattern")>>
  BY DEF switch_pattern
<1> QED  BY <1>2, <1>3

LEMMA StatementSwitchCaseFine == statement_switch_case \in Seq(Static)
<1> DEFINE patterns == While({","}, <<Advance, Call("switch_pattern")>>)
           labels == While({"case"}, <<Advance, Call("switch_pattern"), patterns, Need(":")>>)
           second == If({"default"}, <<Advance, Fail>>)
           default == If({"default"}, <<Advance, Need(":"), labels, second>>)
           body == Until({EOF, "}", "case", "default"}, <<Call("statement")>>)
<1>1. patterns \in L2
  <2>1. <<Advance, Call("switch_pattern")>> \in Led(Daring(L1), L1)
    BY EveryLevel, AnywhereRules, LevelsGrow, DaringIn, LedIn DEF Kinds
  <2>2. Moving(<<Advance, Call("switch_pattern")>>)
    BY MovingIn, MoversMove
  <2> QED  BY <2>1, <2>2, WordsIn, NeedsIn, WhileIn DEF L2
<1>2. labels \in L3
  <2>1. <<Advance, Call("switch_pattern"), patterns, Need(":")>> \in Led(Daring(L2), L2)
    BY <1>1, EveryLevel, AnywhereRules, LevelsGrow, DaringIn, LedIn DEF Kinds
  <2>2. Moving(<<Advance, Call("switch_pattern"), patterns, Need(":")>>)
    BY MovingIn, MoversMove
  <2> QED  BY <2>1, <2>2, WordsIn, NeedsIn, WhileIn DEF L3
<1>3. second \in L2
  <2>1. <<Advance, Fail>> \in Led(Daring(L1), L1)
    BY EveryLevel, AnywhereRules, LevelsGrow, DaringIn, LedIn DEF Kinds
  <2> QED  BY <2>1, WordsIn, NeedsIn, IfIn DEF L2
<1>4. default \in L4
  <2>1. <<Advance, Need(":"), labels, second>> \in Led(Daring(L3), L3)
    BY <1>2, <1>3, EveryLevel, AnywhereRules, LevelsGrow, DaringIn, LedIn DEF Kinds
  <2> QED  BY <2>1, WordsIn, NeedsIn, IfIn DEF L4
<1>5. body \in L2
  <2>1. <<Call("statement")>> \in Led(Daring(L1), L1)
    BY EveryLevel, AnywhereRules, LevelsGrow, DaringIn, LedIn DEF Kinds
  <2>2. Driven(NotIn({EOF, "}", "case", "default"}), <<Call("statement")>>)
    BY MovingIn, MoversMove DEF Driven, Movers, InSwitch, Case
  <2> QED  BY <2>1, <2>2, UntilsIn, WhileIn DEF L2
<1>6. <<labels, default, body, Make("case")>> \in Seq(Static)
  BY <1>2, <1>4, <1>5, EveryLevel, AnywhereRules, LevelsGrow, SeqIn DEF Kinds
<1>7. statement_switch_case = <<labels, default, body, Make("case")>>
  BY ListIs DEF statement_switch_case
<1> QED  BY <1>6, <1>7

LEMMA StatementSwitchFine == statement_switch \in Seq(Static)
<1> DEFINE cases == Until({"}", EOF}, <<Call("statement_switch_case")>>)
<1>1. cases \in L2
  <2>1. <<Call("statement_switch_case")>> \in Led(Daring(L1), L1)
    BY EveryLevel, AnywhereRules, LevelsGrow, DaringIn, LedIn DEF Kinds
  <2>2. Driven(NotIn({"}", EOF}), <<Call("statement_switch_case")>>)
    BY MovingIn, MoversMove DEF Driven, Movers, InSwitch, Case
  <2> QED  BY <2>1, <2>2, UntilsIn, WhileIn DEF L2
<1>2. <<Call("paren"), Need("{"), cases, Need("}"), Make("switch")>> \in Seq(Static)
  BY <1>1, EveryLevel, AnywhereRules, LevelsGrow, SeqIn DEF Kinds
<1>3. statement_switch = <<Call("paren"), Need("{"), cases, Need("}"), Make("switch")>>
  BY DEF statement_switch
<1> QED  BY <1>2, <1>3

LEMMA StatementReturnFine == statement_return \in Seq(Static)
<1> DEFINE value == Switch(<<On({";"}, <<>>),
    Otherwise(<<Call("expression"), Need(";")>>)>>)
<1>1. value \in L2
  <2>1. On({";"}, <<>>) \in Cases(L1)
    <3>1. <<>> \in Led(Daring(L1), L1)
      BY EveryLevel, AnywhereRules, LevelsGrow, DaringIn, LedIn DEF Kinds
    <3> QED  BY <3>1, WordsIn, NeedsIn, CasesIn
  <2>2. Otherwise(<<Call("expression"), Need(";")>>) \in Cases(L1)
    <3>1. <<Call("expression"), Need(";")>> \in Seq(L1)
      BY EveryLevel, AnywhereRules, LevelsGrow, SeqIn DEF Kinds
    <3> QED  BY <3>1, WordsIn, NeedsIn, CasesIn
  <2> QED  BY <2>1, <2>2, SwitchIn DEF L2
<1>2. <<value, Make("return")>> \in Seq(Static)
  BY <1>1, EveryLevel, AnywhereRules, LevelsGrow, SeqIn DEF Kinds
<1>3. statement_return = <<value, Make("return")>>
  BY DEF statement_return
<1> QED  BY <1>2, <1>3

LEMMA StatementBreakFine == statement_break_continue \in Seq(Static)
<1>1. <<Need(";"), Make("break")>> \in Seq(Static)
  BY EveryLevel, AnywhereRules, LevelsGrow, SeqIn DEF Kinds
<1>2. statement_break_continue = <<Need(";"), Make("break")>>
  BY DEF statement_break_continue
<1> QED  BY <1>1, <1>2

LEMMA StatementFine == statement \in Seq(Static) /\ Moving(statement)
<1> DEFINE all == Switch(<<On({"if"}, <<Advance, Call("statement_if")>>),
    On({"while"}, <<Advance, Call("statement_while")>>),
    On({"do"}, <<Advance, Call("statement_do_while")>>),
    On({"for"}, <<Advance, Call("statement_for")>>),
    On({"switch"}, <<Advance, Call("statement_switch")>>),
    On({"break"}, <<Advance, Call("statement_break_continue")>>),
    On({"return"}, <<Advance, Call("statement_return")>>),
    On({"{"}, <<Call("statement_block")>>),
    Otherwise(<<Call("statement_simple"), Need(";")>>)>>)
<1>1. all \in L2 /\ Moving(<<all>>)
  <2>1. On({"if"}, <<Advance, Call("statement_if")>>) \in {x \in Cases(L1) : Leads(x.code)}
    <3>1. <<Advance, Call("statement_if")>> \in Led(Daring(L1), L1)
      BY EveryLevel, AnywhereRules, LevelsGrow, DaringIn, LedIn DEF Kinds
    <3>2. Leads(<<Advance, Call("statement_if")>>)
      BY LeadsIn, MoversMove DEF Movers
    <3>3. On({"if"}, <<Advance, Call("statement_if")>>) \in Cases(L1)
      BY <3>1, WordsIn, NeedsIn, CasesIn
    <3> QED  BY <3>2, <3>3 DEF On, Otherwise
  <2>2. On({"while"}, <<Advance, Call("statement_while")>>) \in {x \in Cases(L1) : Leads(x.code)}
    <3>1. <<Advance, Call("statement_while")>> \in Led(Daring(L1), L1)
      BY EveryLevel, AnywhereRules, LevelsGrow, DaringIn, LedIn DEF Kinds
    <3>2. Leads(<<Advance, Call("statement_while")>>)
      BY LeadsIn, MoversMove DEF Movers
    <3>3. On({"while"}, <<Advance, Call("statement_while")>>) \in Cases(L1)
      BY <3>1, WordsIn, NeedsIn, CasesIn
    <3> QED  BY <3>2, <3>3 DEF On, Otherwise
  <2>3. On({"do"}, <<Advance, Call("statement_do_while")>>) \in {x \in Cases(L1) : Leads(x.code)}
    <3>1. <<Advance, Call("statement_do_while")>> \in Led(Daring(L1), L1)
      BY EveryLevel, AnywhereRules, LevelsGrow, DaringIn, LedIn DEF Kinds
    <3>2. Leads(<<Advance, Call("statement_do_while")>>)
      BY LeadsIn, MoversMove DEF Movers
    <3>3. On({"do"}, <<Advance, Call("statement_do_while")>>) \in Cases(L1)
      BY <3>1, WordsIn, NeedsIn, CasesIn
    <3> QED  BY <3>2, <3>3 DEF On, Otherwise
  <2>4. On({"for"}, <<Advance, Call("statement_for")>>) \in {x \in Cases(L1) : Leads(x.code)}
    <3>1. <<Advance, Call("statement_for")>> \in Led(Daring(L1), L1)
      BY EveryLevel, AnywhereRules, LevelsGrow, DaringIn, LedIn DEF Kinds
    <3>2. Leads(<<Advance, Call("statement_for")>>)
      BY LeadsIn, MoversMove DEF Movers
    <3>3. On({"for"}, <<Advance, Call("statement_for")>>) \in Cases(L1)
      BY <3>1, WordsIn, NeedsIn, CasesIn
    <3> QED  BY <3>2, <3>3 DEF On, Otherwise
  <2>5. On({"switch"}, <<Advance,
        Call("statement_switch")>>) \in {x \in Cases(L1) : Leads(x.code)}
    <3>1. <<Advance, Call("statement_switch")>> \in Led(Daring(L1), L1)
      BY EveryLevel, AnywhereRules, LevelsGrow, DaringIn, LedIn DEF Kinds
    <3>2. Leads(<<Advance, Call("statement_switch")>>)
      BY LeadsIn, MoversMove DEF Movers
    <3>3. On({"switch"}, <<Advance, Call("statement_switch")>>) \in Cases(L1)
      BY <3>1, WordsIn, NeedsIn, CasesIn
    <3> QED  BY <3>2, <3>3 DEF On, Otherwise
  <2>6. On({"break"}, <<Advance,
        Call("statement_break_continue")>>) \in {x \in Cases(L1) : Leads(x.code)}
    <3>1. <<Advance, Call("statement_break_continue")>> \in Led(Daring(L1), L1)
      BY EveryLevel, AnywhereRules, LevelsGrow, DaringIn, LedIn DEF Kinds
    <3>2. Leads(<<Advance, Call("statement_break_continue")>>)
      BY LeadsIn, MoversMove DEF Movers
    <3>3. On({"break"}, <<Advance, Call("statement_break_continue")>>) \in Cases(L1)
      BY <3>1, WordsIn, NeedsIn, CasesIn
    <3> QED  BY <3>2, <3>3 DEF On, Otherwise
  <2>7. On({"return"}, <<Advance,
        Call("statement_return")>>) \in {x \in Cases(L1) : Leads(x.code)}
    <3>1. <<Advance, Call("statement_return")>> \in Led(Daring(L1), L1)
      BY EveryLevel, AnywhereRules, LevelsGrow, DaringIn, LedIn DEF Kinds
    <3>2. Leads(<<Advance, Call("statement_return")>>)
      BY LeadsIn, MoversMove DEF Movers
    <3>3. On({"return"}, <<Advance, Call("statement_return")>>) \in Cases(L1)
      BY <3>1, WordsIn, NeedsIn, CasesIn
    <3> QED  BY <3>2, <3>3 DEF On, Otherwise
  <2>8. On({"{"}, <<Call("statement_block")>>) \in {x \in Cases(L1) : Leads(x.code)}
    <3>1. <<Call("statement_block")>> \in Led(Daring(L1), L1)
      BY EveryLevel, AnywhereRules, LevelsGrow, DaringIn, LedIn DEF Kinds
    <3>2. Leads(<<Call("statement_block")>>)
      BY LeadsIn, MoversMove DEF Movers
    <3>3. On({"{"}, <<Call("statement_block")>>) \in Cases(L1)
      BY <3>1, WordsIn, NeedsIn, CasesIn
    <3> QED  BY <3>2, <3>3 DEF On, Otherwise
  <2>9. Otherwise(<<Call("statement_simple"), Need(";")>>) \in {x \in Cases(L1) : Leads(x.code)}
    <3>1. <<Call("statement_simple"), Need(";")>> \in Seq(L1)
      BY EveryLevel, AnywhereRules, LevelsGrow, SeqIn DEF Kinds
    <3>2. Leads(<<Call("statement_simple"), Need(";")>>)
      BY LeadsIn, MoversMove DEF Movers
    <3>3. Otherwise(<<Call("statement_simple"), Need(";")>>) \in Cases(L1)
      BY <3>1, WordsIn, NeedsIn, CasesIn
    <3> QED  BY <3>2, <3>3 DEF On, Otherwise
  <2>10. all \in L2
    BY <2>1, <2>2, <2>3, <2>4, <2>5, <2>6, <2>7, <2>8, <2>9, SwitchIn DEF L2
  <2>11. Moving(<<all>>)
    BY <2>1, <2>2, <2>3, <2>4, <2>5, <2>6, <2>7, <2>8, <2>9, SwitchMoves
  <2> QED  BY <2>10, <2>11
<1>2. <<all>> \in Seq(Static)
  BY <1>1, EveryLevel, AnywhereRules, LevelsGrow, SeqIn DEF Kinds
<1>3. statement = <<all>>
  BY DEF statement
<1> QED  BY <1>2, <1>3, <1>1

LEMMA StatementBlockFine == statement_block \in Seq(Static) /\ Moving(statement_block)
<1> DEFINE body == Until({"}", EOF}, <<Call("statement")>>)
           all == Switch(<<On({"{"}, <<Advance, body, Need("}"), Make("block")>>),
    Otherwise(<<Call("statement")>>)>>)
<1>1. body \in L2
  <2>1. <<Call("statement")>> \in Led(Daring(L1), L1)
    BY EveryLevel, AnywhereRules, LevelsGrow, DaringIn, LedIn DEF Kinds
  <2>2. Driven(NotIn({"}", EOF}), <<Call("statement")>>)
    BY MovingIn, MoversMove DEF Driven, Movers, InSwitch, Case
  <2> QED  BY <2>1, <2>2, UntilsIn, WhileIn DEF L2
<1>2. all \in L3 /\ Moving(<<all>>)
  <2>1. On({"{"}, <<Advance, body, Need("}"),
        Make("block")>>) \in {x \in Cases(L2) : Leads(x.code)}
    <3>1. <<Advance, body, Need("}"), Make("block")>> \in Led(Daring(L2), L2)
      BY <1>1, EveryLevel, AnywhereRules, LevelsGrow, DaringIn, LedIn DEF Kinds
    <3>2. Leads(<<Advance, body, Need("}"), Make("block")>>)
      BY LeadsIn, MoversMove DEF Movers
    <3>3. On({"{"}, <<Advance, body, Need("}"), Make("block")>>) \in Cases(L2)
      BY <3>1, WordsIn, NeedsIn, CasesIn
    <3> QED  BY <3>2, <3>3 DEF On, Otherwise
  <2>2. Otherwise(<<Call("statement")>>) \in {x \in Cases(L2) : Leads(x.code)}
    <3>1. <<Call("statement")>> \in Seq(L2)
      BY EveryLevel, AnywhereRules, LevelsGrow, SeqIn DEF Kinds
    <3>2. Leads(<<Call("statement")>>)
      BY LeadsIn, MoversMove DEF Movers
    <3>3. Otherwise(<<Call("statement")>>) \in Cases(L2)
      BY <3>1, WordsIn, NeedsIn, CasesIn
    <3> QED  BY <3>2, <3>3 DEF On, Otherwise
  <2>3. all \in L3
    BY <2>1, <2>2, SwitchIn DEF L3
  <2>4. Moving(<<all>>)
    BY <2>1, <2>2, SwitchMoves
  <2> QED  BY <2>3, <2>4
<1>3. <<all>> \in Seq(Static)
  BY <1>2, EveryLevel, AnywhereRules, LevelsGrow, SeqIn DEF Kinds
<1>4. statement_block = <<all>>
  BY DEF statement_block
<1> QED  BY <1>3, <1>4, <1>2

LEMMA AggregateItemFine == aggregate_item \in Seq(Static)
<1> DEFINE nested == If({"struct"}, <<Advance, Crash>>)
           names == While({","}, <<Advance, Keep({"id"})>>)
<1>1. nested \in L2
  <2>1. <<Advance, Crash>> \in Led(Daring(L1), L1)
    BY EveryLevel, AnywhereRules, LevelsGrow, DaringIn, LedIn DEF Kinds
  <2> QED  BY <2>1, WordsIn, NeedsIn, IfIn DEF L2
<1>2. names \in L2
  <2>1. <<Advance, Keep({"id"})>> \in Led(Daring(L1), L1)
    BY EveryLevel, AnywhereRules, LevelsGrow, DaringIn, LedIn DEF Kinds
  <2>2. Moving(<<Advance, Keep({"id"})>>)
    BY MovingIn, MoversMove
  <2> QED  BY <2>1, <2>2, WordsIn, NeedsIn, WhileIn DEF L2
<1>3. <<nested, Keep({"id"}), names, Need(":"), Call("typedecl"), Need(";"),
      Make("fields")>> \in Seq(Static)
  BY <1>1, <1>2, EveryLevel, AnywhereRules, LevelsGrow, SeqIn DEF Kinds
<1>4. aggregate_item = <<nested, Keep({"id"}), names, Need(":"), Call("typedecl"), Need(";"),
      Make("fields")>>
  BY DEF aggregate_item
<1> QED  BY <1>3, <1>4

LEMMA AggregateFine == aggregate \in Seq(Static)
<1> DEFINE items == Until({EOF, "}"}, <<Call("aggregate_item")>>)
<1>1. items \in L2
  <2>1. <<Call("aggregate_item")>> \in Led(Daring(L1), L1)
    BY EveryLevel, AnywhereRules, LevelsGrow, DaringIn, LedIn DEF Kinds
  <2>2. Driven(NotIn({EOF, "}"}), <<Call("aggregate_item")>>)
    BY MovingIn, MoversMove DEF Driven, Movers, InSwitch, Case
  <2> QED  BY <2>1, <2>2, UntilsIn, WhileIn DEF L2
<1>2. <<Need("{"), items, Need("}"), Make("aggregate")>> \in Seq(Static)
  BY <1>1, EveryLevel, AnywhereRules, LevelsGrow, SeqIn DEF Kinds
<1>3. aggregate = <<Need("{"), items, Need("}"), Make("aggregate")>>
  BY DEF aggregate
<1> QED  BY <1>2, <1>3

LEMMA DeclarationAggregateFine == declaration_aggregate \in Seq(Static)
      /\ LastOf(declaration_aggregate) \in Makes
<1>1. <<Keep({"id"}), Call("aggregate"), Make("struct")>> \in Seq(Static)
  BY EveryLevel, AnywhereRules, LevelsGrow, SeqIn DEF Kinds
<1>2. declaration_aggregate = <<Keep({"id"}), Call("aggregate"), Make("struct")>>
  BY DEF declaration_aggregate
<1>3. LastOf(<<Keep({"id"}), Call("aggregate"), Make("struct")>>) \in Makes
  BY DEF LastOf, Make, Makes, Kinds
<1> QED  BY <1>1, <1>2, <1>3

LEMMA DeclarationVariableFine == declaration_variable \in Seq(Static)
      /\ LastOf(declaration_variable) \in Makes
<1> DEFINE value == If({"="}, <<Advance, Call("expression")>>)
           rest == Switch(<<On({":="}, <<Advance, Call("expression")>>),
    On({":"}, <<Advance, Call("typedecl"), value>>),
    Otherwise(<<>>)>>)
<1>1. value \in L2
  <2>1. <<Advance, Call("expression")>> \in Led(Daring(L1), L1)
    BY EveryLevel, AnywhereRules, LevelsGrow, DaringIn, LedIn DEF Kinds
  <2> QED  BY <2>1, WordsIn, NeedsIn, IfIn DEF L2
<1>2. rest \in L3
  <2>1. On({":="}, <<Advance, Call("expression")>>) \in Cases(L2)
    <3>1. <<Advance, Call("expression")>> \in Led(Daring(L2), L2)
      BY EveryLevel, AnywhereRules, LevelsGrow, DaringIn, LedIn DEF Kinds
    <3> QED  BY <3>1, WordsIn, NeedsIn, CasesIn
  <2>2. On({":"}, <<Advance, Call("typedecl"), value>>) \in Cases(L2)
    <3>1. <<Advance, Call("typedecl"), value>> \in Led(Daring(L2), L2)
      BY <1>1, EveryLevel, AnywhereRules, LevelsGrow, DaringIn, LedIn DEF Kinds
    <3> QED  BY <3>1, WordsIn, NeedsIn, CasesIn
  <2>3. Otherwise(<<>>) \in Cases(L2)
    <3>1. <<>> \in Seq(L2)
      BY EveryLevel, AnywhereRules, LevelsGrow, SeqIn DEF Kinds
    <3> QED  BY <3>1, WordsIn, NeedsIn, CasesIn
  <2> QED  BY <2>1, <2>2, <2>3, SwitchIn DEF L3
<1>3. <<Keep({"id"}), rest, Need(";"), Make("variable")>> \in Seq(Static)
  BY <1>2, EveryLevel, AnywhereRules, LevelsGrow, SeqIn DEF Kinds
<1>4. declaration_variable = <<Keep({"id"}), rest, Need(";"), Make("variable")>>
  BY DEF declaration_variable
<1>5. LastOf(<<Keep({"id"}), rest, Need(";"), Make("variable")>>) \in Makes
  BY DEF LastOf, Make, Makes, Kinds
<1> QED  BY <1>3, <1>4, <1>5

LEMMA ParameterFine == parameter \in Seq(Static)
<1>1. <<Keep({"id"}), Need(":"), Call("typedecl"), Make("parameter")>> \in Seq(Static)
  BY EveryLevel, AnywhereRules, LevelsGrow, SeqIn DEF Kinds
<1>2. parameter = <<Keep({"id"}), Need(":"), Call("typedecl"), Make("parameter")>>
  BY DEF parameter
<1> QED  BY <1>1, <1>2

LEMMA DeclarationFunctionFine == declaration_function \in Seq(Static)
      /\ LastOf(declaration_function) \in Makes
<1> DEFINE dots == If({".."}, <<Advance>>)
           comma == If({","}, <<Advance, dots, Fail>>)
           other == Switch(<<On({".."}, <<Advance, comma>>),
    Otherwise(<<Call("parameter")>>)>>)
           others == While({","}, <<Advance, other>>)
           parameters == Unless({")"}, <<Call("parameter"), others>>)
           typed == If({":"}, <<Advance, Call("typedecl")>>)
           body == Switch(<<On({";"}, <<Advance>>),
    Otherwise(<<Call("statement_block")>>)>>)
<1>1. dots \in L2
  <2>1. <<Advance>> \in Led(Daring(L1), L1)
    BY EveryLevel, AnywhereRules, LevelsGrow, DaringIn, LedIn DEF Kinds
  <2> QED  BY <2>1, WordsIn, NeedsIn, IfIn DEF L2
<1>2. comma \in L3
  <2>1. <<Advance, dots, Fail>> \in Led(Daring(L2), L2)
    BY <1>1, EveryLevel, AnywhereRules, LevelsGrow, DaringIn, LedIn DEF Kinds
  <2> QED  BY <2>1, WordsIn, NeedsIn, IfIn DEF L3
<1>3. other \in L4
  <2>1. On({".."}, <<Advance, comma>>) \in Cases(L3)
    <3>1. <<Advance, comma>> \in Led(Daring(L3), L3)
      BY <1>2, EveryLevel, AnywhereRules, LevelsGrow, DaringIn, LedIn DEF Kinds
    <3> QED  BY <3>1, WordsIn, NeedsIn, CasesIn
  <2>2. Otherwise(<<Call("parameter")>>) \in Cases(L3)
    <3>1. <<Call("parameter")>> \in Seq(L3)
      BY EveryLevel, AnywhereRules, LevelsGrow, SeqIn DEF Kinds
    <3> QED  BY <3>1, WordsIn, NeedsIn, CasesIn
  <2> QED  BY <2>1, <2>2, SwitchIn DEF L4
<1>4. others \in L5
  <2>1. <<Advance, other>> \in Led(Daring(L4), L4)
    BY <1>3, EveryLevel, AnywhereRules, LevelsGrow, DaringIn, LedIn DEF Kinds
  <2>2. Moving(<<Advance, other>>)
    BY MovingIn, MoversMove
  <2> QED  BY <2>1, <2>2, WordsIn, NeedsIn, WhileIn DEF L5
<1>5. parameters \in Static
  <2>1. <<Call("parameter"), others>> \in Seq(L5)
    BY <1>4, EveryLevel, AnywhereRules, LevelsGrow, SeqIn DEF Kinds
  <2> QED  BY <2>1, WordsIn, UnlessIn, LevelsGrow
<1>6. typed \in L2
  <2>1. <<Advance, Call("typedecl")>> \in Led(Daring(L1), L1)
    BY EveryLevel, AnywhereRules, LevelsGrow, DaringIn, LedIn DEF Kinds
  <2> QED  BY <2>1, WordsIn, NeedsIn, IfIn DEF L2
<1>7. body \in L2
  <2>1. On({";"}, <<Advance>>) \in Cases(L1)
    <3>1. <<Advance>> \in Led(Daring(L1), L1)
      BY EveryLevel, AnywhereRules, LevelsGrow, DaringIn, LedIn DEF Kinds
    <3> QED  BY <3>1, WordsIn, NeedsIn, CasesIn
  <2>2. Otherwise(<<Call("statement_block")>>) \in Cases(L1)
    <3>1. <<Call("statement_block")>> \in Seq(L1)
      BY EveryLevel, AnywhereRules, LevelsGrow, SeqIn DEF Kinds
    <3> QED  BY <3>1, WordsIn, NeedsIn, CasesIn
  <2> QED  BY <2>1, <2>2, SwitchIn DEF L2
<1>8. <<Keep({"id", "str"}), Need("("), parameters, Need(")"), typed, body,
      Make("function")>> \in Seq(Static)
  BY <1>5, <1>6, <1>7, EveryLevel, AnywhereRules, LevelsGrow, SeqIn DEF Kinds
<1>9. declaration_function = <<Keep({"id", "str"}), Need("("), parameters, Need(")"), typed,
      body, Make("function")>>
  BY DEF declaration_function
<1>10. LastOf(<<Keep({"id", "str"}), Need("("), parameters, Need(")"), typed, body,
      Make("function")>>) \in Makes
  BY DEF LastOf, Make, Makes, Kinds
<1> QED  BY <1>8, <1>9, <1>10

LEMMA DeclarationEnumFine == declaration_enum \in Seq(Static)
      /\ LastOf(declaration_enum) \in Makes
<1> DEFINE typed == If({":"}, <<Advance, Call("typedecl")>>)
           value == If({"="}, <<Advance, Call("expression")>>)
           items == Until({EOF, "}"}, <<Keep({"id"}), value, Need(";")>>)
<1>1. typed \in L2
  <2>1. <<Advance, Call("typedecl")>> \in Led(Daring(L1), L1)
    BY EveryLevel, AnywhereRules, LevelsGrow, DaringIn, LedIn DEF Kinds
  <2> QED  BY <2>1, WordsIn, NeedsIn, IfIn DEF L2
<1>2. value \in L2
  <2>1. <<Advance, Call("expression")>> \in Led(Daring(L1), L1)
    BY EveryLevel, AnywhereRules, LevelsGrow, DaringIn, LedIn DEF Kinds
  <2> QED  BY <2>1, WordsIn, NeedsIn, IfIn DEF L2
<1>3. items \in L3
  <2>1. <<Keep({"id"}), value, Need(";")>> \in Led(Daring(L2), L2)
    BY <1>2, EveryLevel, AnywhereRules, LevelsGrow, DaringIn, LedIn DEF Kinds
  <2>2. Driven(NotIn({EOF, "}"}), <<Keep({"id"}), value, Need(";")>>)
    BY MovingIn, MoversMove DEF Driven, Movers, InSwitch, Case
  <2> QED  BY <2>1, <2>2, UntilsIn, WhileIn DEF L3
<1>4. <<Keep({"id"}), typed, Need("{"), items, Need("}"), Make("enum")>> \in Seq(Static)
  BY <1>1, <1>3, EveryLevel, AnywhereRules, LevelsGrow, SeqIn DEF Kinds
<1>5. declaration_enum = <<Keep({"id"}), typed, Need("{"), items, Need("}"), Make("enum")>>
  BY DEF declaration_enum
<1>6. LastOf(<<Keep({"id"}), typed, Need("{"), items, Need("}"), Make("enum")>>) \in Makes
  BY DEF LastOf, Make, Makes, Kinds
<1> QED  BY <1>4, <1>5, <1>6

LEMMA StatementInitBold == statement_init \in Led(Daring(Static), Static)
<1> DEFINE given == Switch(<<On({".."}, <<Advance>>),
    Otherwise(<<Call("expression")>>)>>)
           value == If({"="}, <<Advance, given>>)
           rest == Switch(<<On({":="}, <<Advance, Expect("identifier"), Call("expression")>>),
    Otherwise(<<Advance, Expect("identifier"), Call("typedecl"), value>>)>>)
<1>1. given \in L2
  <2>1. On({".."}, <<Advance>>) \in Cases(L1)
    <3>1. <<Advance>> \in Led(Daring(L1), L1)
      BY EveryLevel, AnywhereRules, LevelsGrow, DaringIn, LedIn DEF Kinds
    <3> QED  BY <3>1, WordsIn, NeedsIn, CasesIn
  <2>2. Otherwise(<<Call("expression")>>) \in Cases(L1)
    <3>1. <<Call("expression")>> \in Seq(L1)
      BY EveryLevel, AnywhereRules, LevelsGrow, SeqIn DEF Kinds
    <3> QED  BY <3>1, WordsIn, NeedsIn, CasesIn
  <2> QED  BY <2>1, <2>2, SwitchIn DEF L2
<1>2. value \in L3
  <2>1. <<Advance, given>> \in Led(Daring(L2), L2)
    BY <1>1, EveryLevel, AnywhereRules, LevelsGrow, DaringIn, LedIn DEF Kinds
  <2> QED  BY <2>1, WordsIn, NeedsIn, IfIn DEF L3
<1>3. rest \in Daring(Static)
  <2>1. <<Advance, Expect("identifier"), Call("expression")>> \in Led({Advance}, Static)
    BY EveryLevel, AnywhereRules, LevelsGrow, LedIn, ExpectIn DEF Kinds
  <2>2. <<Advance, Expect("identifier"), Call("typedecl"), value>> \in Led({Advance}, Static)
    BY <1>2, EveryLevel, AnywhereRules, LevelsGrow, LedIn, ExpectIn DEF Kinds
  <2> QED  BY <2>1, <2>2, WordsIn, DaringSwitchIn
<1>4. <<rest, Make("init")>> \in Led(Daring(Static), Static)
  BY <1>3, EveryLevel, AnywhereRules, LevelsGrow, DaringIn, LedIn DEF Kinds
<1>5. statement_init = <<rest, Make("init")>>
  BY DEF statement_init
<1> QED  BY <1>4, <1>5

LEMMA BaseFine == base \in Seq(Static) /\ Moving(base)
<1> DEFINE others == While({","}, <<Advance, Call("expression")>>)
           arguments == Unless({")"}, <<Call("expression"), others>>)
           each == Switch(<<On({"("}, <<Advance, arguments, Need(")"), Make("call")>>),
    On({"["}, <<Advance, Call("expression"), Need("]"), Make("index")>>),
    Otherwise(<<Advance, Keep({"id"}), Make("member")>>)>>)
           loop == While({"(", "[", "."}, <<each>>)
<1>1. others \in L2
  <2>1. <<Advance, Call("expression")>> \in Led(Daring(L1), L1)
    BY EveryLevel, AnywhereRules, LevelsGrow, DaringIn, LedIn DEF Kinds
  <2>2. Moving(<<Advance, Call("expression")>>)
    BY MovingIn, MoversMove
  <2> QED  BY <2>1, <2>2, WordsIn, NeedsIn, WhileIn DEF L2
<1>2. arguments \in L3
  <2>1. <<Call("expression"), others>> \in Seq(L2)
    BY <1>1, EveryLevel, AnywhereRules, LevelsGrow, SeqIn DEF Kinds
  <2> QED  BY <2>1, WordsIn, UnlessIn DEF L3
<1>3. each \in Daring(L3)
  <2>1. <<Advance, arguments, Need(")"), Make("call")>> \in Led({Advance}, L3)
    BY <1>2, EveryLevel, AnywhereRules, LevelsGrow, LedIn DEF Kinds
  <2>2. <<Advance, Call("expression"), Need("]"), Make("index")>> \in Led({Advance}, L3)
    BY EveryLevel, AnywhereRules, LevelsGrow, LedIn DEF Kinds
  <2>3. <<Advance, Keep({"id"}), Make("member")>> \in Led({Advance}, L3)
    BY EveryLevel, AnywhereRules, LevelsGrow, LedIn DEF Kinds
  <2> QED  BY <2>1, <2>2, <2>3, WordsIn, DaringSwitchIn
<1>4. loop \in L4
  <2>1. <<each>> \in Led(Daring(L3), L3)
    BY <1>3, EveryLevel, AnywhereRules, LevelsGrow, DaringIn, LedIn DEF Kinds
  <2>2. Moving(<<each>>)
    <3>1. <<Advance, arguments, Need(")"), Make("call")>> \in Led({Advance}, L3)
          /\ Leads(<<Advance, arguments, Need(")"), Make("call")>>)
      BY <1>2, EveryLevel, AnywhereRules, LevelsGrow, LedIn, LeadsIn, MoversMove DEF Kinds
    <3>2. <<Advance, Call("expression"), Need("]"), Make("index")>> \in Led({Advance}, L3)
          /\ Leads(<<Advance, Call("expression"), Need("]"), Make("index")>>)
      BY EveryLevel, AnywhereRules, LevelsGrow, LedIn, LeadsIn, MoversMove DEF Kinds
    <3>3. <<Advance, Keep({"id"}), Make("member")>> \in Led({Advance}, L3) /\ Leads(<<Advance,
          Keep({"id"}), Make("member")>>)
      BY EveryLevel, AnywhereRules, LevelsGrow, LedIn, LeadsIn, MoversMove DEF Kinds
    <3> QED  BY <3>1, <3>2, <3>3, MovingSwitch
  <2> QED  BY <2>1, <2>2, WordsIn, NeedsIn, WhileIn DEF L4
<1>5. <<Call("operand"), loop>> \in Seq(Static)
  BY <1>4, EveryLevel, AnywhereRules, LevelsGrow, SeqIn DEF Kinds
<1>6. base = <<Call("operand"), loop>>
  BY ListIs DEF base
<1>7. Moving(<<Call("operand"), loop>>)
  BY MovingIn, MoversMove DEF Movers
<1> QED  BY <1>5, <1>6, <1>7

LEMMA TypedeclFine == typedecl \in Seq(Static)
<1> DEFINE length == Switch(<<On({"*"}, <<Advance>>),
    On({"]"}, <<>>),
    Otherwise(<<Call("expression")>>)>>)
           each == Switch(<<On({"["}, <<Advance, length, Need("]"), Make("array")>>),
    Otherwise(<<Advance, Make("pointer")>>)>>)
           loop == While({"[", "*"}, <<each>>)
<1>1. length \in L2
  <2>1. On({"*"}, <<Advance>>) \in Cases(L1)
    <3>1. <<Advance>> \in Led(Daring(L1), L1)
      BY EveryLevel, AnywhereRules, LevelsGrow, DaringIn, LedIn DEF Kinds
    <3> QED  BY <3>1, WordsIn, NeedsIn, CasesIn
  <2>2. On({"]"}, <<>>) \in Cases(L1)
    <3>1. <<>> \in Led(Daring(L1), L1)
      BY EveryLevel, AnywhereRules, LevelsGrow, DaringIn, LedIn DEF Kinds
    <3> QED  BY <3>1, WordsIn, NeedsIn, CasesIn
  <2>3. Otherwise(<<Call("expression")>>) \in Cases(L1)
    <3>1. <<Call("expression")>> \in Seq(L1)
      BY EveryLevel, AnywhereRules, LevelsGrow, SeqIn DEF Kinds
    <3> QED  BY <3>1, WordsIn, NeedsIn, CasesIn
  <2> QED  BY <2>1, <2>2, <2>3, SwitchIn DEF L2
<1>2. each \in Daring(L2)
  <2>1. <<Advance, length, Need("]"), Make("array")>> \in Led({Advance}, L2)
    BY <1>1, EveryLevel, AnywhereRules, LevelsGrow, LedIn DEF Kinds
  <2>2. <<Advance, Make("pointer")>> \in Led({Advance}, L2)
    BY EveryLevel, AnywhereRules, LevelsGrow, LedIn DEF Kinds
  <2> QED  BY <2>1, <2>2, WordsIn, DaringSwitchIn
<1>3. loop \in L3
  <2>1. <<each>> \in Led(Daring(L2), L2)
    BY <1>2, EveryLevel, AnywhereRules, LevelsGrow, DaringIn, LedIn DEF Kinds
  <2>2. Moving(<<each>>)
    <3>1. <<Advance, length, Need("]"), Make("array")>> \in Led({Advance}, L2)
          /\ Leads(<<Advance, length, Need("]"), Make("array")>>)
      BY <1>1, EveryLevel, AnywhereRules, LevelsGrow, LedIn, LeadsIn, MoversMove DEF Kinds
    <3>2. <<Advance, Make("pointer")>> \in Led({Advance}, L2) /\ Leads(<<Advance,
          Make("pointer")>>)
      BY EveryLevel, AnywhereRules, LevelsGrow, LedIn, LeadsIn, MoversMove DEF Kinds
    <3> QED  BY <3>1, <3>2, MovingSwitch
  <2> QED  BY <2>1, <2>2, WordsIn, NeedsIn, WhileIn DEF L3
<1>4. <<Call("typedecl_base"), loop>> \in Seq(Static)
  BY <1>3, EveryLevel, AnywhereRules, LevelsGrow, SeqIn DEF Kinds
<1>5. typedecl = <<Call("typedecl_base"), loop>>
  BY DEF typedecl, pointer
<1> QED  BY <1>4, <1>5

\* The five levels of binary operators.
LEMMA LevelFine ==
  ASSUME NEW T \in {Multiplicative, Additive, Comparing, {"&&"}, {"||"}}, NEW r \in Movers
  PROVE  Level(T, r) \in Seq(Static) /\ Moving(Level(T, r))
<1> DEFINE round == <<Keep(T), Call(r), Make("binary")>>
<1>1. /\ Call(r) \in L1 /\ Call(r) \in Static /\ Make("binary") \in L1
      /\ T \in Words /\ Keep(T) \in L1
  <2>1. r \in Anywhere
    BY AnywhereRules DEF Movers
  <2>2. "binary" \in Kinds
    BY DEF Kinds
  <2> QED  BY <2>1, <2>2, EveryLevel, NeedsIn
<1>2. round \in Led(Daring(L1), L1) /\ Moving(round)
  BY <1>1, DaringIn, LedIn, MovingIn, MoversMove
<1>3. While(T, round) \in L2
  BY <1>1, <1>2, WhileIn DEF L2
<1> HIDE DEF round
<1>4. <<Call(r), While(T, round)>> \in Seq(Static)
  BY <1>1, <1>3, LevelsGrow, SeqIn
<1>5. Moving(<<Call(r), While(T, round)>>)
  BY MovingIn, MoversMove
<1> QED  BY <1>4, <1>5 DEF Level, round

LEMMA CompoundMoves == Moving(compound)
  BY MovingIn, MoversMove DEF compound

\* An item may be of a nested aggregate, which crashes, or begins with a name.
LEMMA AggregateItemMoves == Moving(aggregate_item)
<1> DEFINE a == Keep({"id"})
           b == While({","}, <<Advance, Keep({"id"})>>)
           c == Need(":")
           d == Call("typedecl")
           e == Need(";")
           f == Make("fields")
           rest == <<a, b, c, d, e, f>>
           nested == On({"struct"}, <<Advance, Crash>>)
           s == Switch(<<nested, Otherwise(<<>>)>>)
<1>1. aggregate_item = <<s, a, b, c, d, e, f>>
  BY DEF aggregate_item, If
<1>2. nested.code = <<Advance, Crash>> /\ Otherwise(<<>>).code = <<>>
  BY DEF On, Otherwise
<1>3. s.op = "switch" /\ s.cases = <<nested, Otherwise(<<>>)>>
  BY DEF Switch
<1>4. MovesAtOnce(a)
  BY MoversMove
<1>5. Leads(<<Advance, Crash>> \o rest) /\ Leads(<<>> \o rest)
  <2> DEFINE S == {Advance, Crash, a, b, c, d, e, f}
  <2>1. <<Advance, Crash>> \in Seq(S) /\ rest \in Seq(S)
    OBVIOUS
  <2> HIDE DEF S
  <2>2. /\ Head(<<Advance, Crash>> \o rest) = Head(<<Advance, Crash>>)
        /\ <<Advance, Crash>> \o rest # <<>>
    <3>1. <<Advance, Crash>> # <<>>
      OBVIOUS
    <3> HIDE DEF rest
    <3> QED  BY <2>1, <3>1, Joining
  <2>3. <<>> \o rest = rest
    <3> HIDE DEF rest
    <3> QED  BY <2>1, Joining
  <2>4. Leads(rest)
    BY <1>4 DEF Leads
  <2> QED  BY <2>2, <2>3, <2>4, MoversMove DEF Leads
<1> HIDE DEF a, b, c, d, e, f, nested, s
<1>6. Head(aggregate_item) = s /\ Tail(aggregate_item) = rest /\ aggregate_item # <<>>
  BY <1>1
<1> HIDE DEF rest
<1>7. \A i \in DOMAIN <<nested, Otherwise(<<>>)>> :
        Leads(<<nested, Otherwise(<<>>)>>[i].code \o rest)
  <2>1. /\ DOMAIN <<nested, Otherwise(<<>>)>> = {1, 2}
        /\ <<nested, Otherwise(<<>>)>>[1] = nested
        /\ <<nested, Otherwise(<<>>)>>[2] = Otherwise(<<>>)
    OBVIOUS
  <2> QED  BY <2>1, <1>2, <1>5
<1> QED  BY <1>3, <1>6, <1>7 DEF Moving

LEMMA CodeIs ==
  /\ Code["compound_field"] = compound_field /\ Code["compound"] = compound
  /\ Code["operand"] = operand /\ Code["base"] = base /\ Code["unary"] = unary
  /\ Code["expression"] = expression /\ Code["paren"] = paren
  /\ Code["typedecl_function"] = typedecl_function
  /\ Code["typedecl_base"] = typedecl_base /\ Code["typedecl"] = typedecl
  /\ Code["statement_init"] = statement_init
  /\ Code["statement_simple"] = statement_simple /\ Code["statement_if"] = statement_if
  /\ Code["statement_while"] = statement_while
  /\ Code["statement_do_while"] = statement_do_while
  /\ Code["statement_for"] = statement_for /\ Code["switch_pattern"] = switch_pattern
  /\ Code["statement_switch_case"] = statement_switch_case
  /\ Code["statement_switch"] = statement_switch
  /\ Code["statement_return"] = statement_return
  /\ Code["statement_break_continue"] = statement_break_continue
  /\ Code["statement"] = statement /\ Code["statement_block"] = statement_block
  /\ Code["declaration_alias"] = declaration_alias
  /\ Code["aggregate_item"] = aggregate_item /\ Code["aggregate"] = aggregate
  /\ Code["declaration_aggregate"] = declaration_aggregate
  /\ Code["declaration_variable"] = declaration_variable /\ Code["parameter"] = parameter
  /\ Code["declaration_function"] = declaration_function
  /\ Code["declaration_enum"] = declaration_enum /\ Code["declaration"] = declaration
  /\ Code["program"] = program /\ Code["mul"] = Level(Multiplicative, "unary")
  /\ Code["add"] = Level(Additive, "mul") /\ Code["cmp"] = Level(Comparing, "add")
  /\ Code["and"] = Level({"&&"}, "cmp") /\ Code["or"] = Level({"||"}, "and")
  BY DEF Code

-----------------------------------------------------------------------------
(* What a function does next *)

LEMMA DaringGrows ==
  ASSUME NEW S, NEW T, S \subseteq T
  PROVE  Daring(S) \subseteq Daring(T)
<1> DEFINE A == [when : Conditions, code : Led({Advance}, S)]
           B == [when : Conditions, code : Led({Advance}, T)]
<1>1. Seq(A) \subseteq Seq(B)
  <2>1. A \subseteq B
    BY LedGrows
  <2> HIDE DEF A, B
  <2> QED  BY <2>1
<1> QED  BY <1>1 DEF Daring

\* An instruction's parts.
Parted(i) ==
  /\ i.op \in {"need", "keep", "call", "make", "crash", "switch", "last", "while"}
  /\ i.op \in {"need", "keep"} => i.when.holds = TRUE /\ EOF \notin i.when.set
  /\ i.op = "call" => i.rule \in Anywhere /\ i.given \in {0, 1}
  /\ i.op = "make" => i \in Makes
  /\ i.op = "switch" =>
       \A k \in DOMAIN i.cases :
         \/ i.cases[k].code \in Seq(Static)
         \/ i.cases[k].when \in Stopping /\ i.cases[k].code \in Led(Daring(Static), Static)
  /\ i.op = "last" => i.then \in Seq(Static) /\ i.else \in Seq(Static)
  /\ i.op = "while" => /\ i.when \in Stopping /\ i.body \in Led(Daring(Static), Static)
                       /\ Driven(i.when, i.body)
                       /\ i = [op |-> "while", when |-> i.when, body |-> i.body, since |-> i.since]

LEMMA PlainParts ==
  ASSUME NEW i \in Plain
  PROVE  Parted(i) /\ i.op \notin {"while", "switch", "last"}
<1>1. CASE i \in [op : {"need", "keep"}, when : [set : Words, holds : {TRUE}]]
  BY <1>1 DEF Parted, Words
<1>2. CASE i \in [op : {"call"}, rule : Anywhere, given : {0, 1}]
  BY <1>2 DEF Parted
<1>3. CASE i \in Makes
  <2>1. i.op = "make"
    BY <1>3 DEF Makes
  <2> QED  BY <2>1, <1>3 DEF Parted
<1>4. CASE i = Crash
  BY <1>4 DEF Parted, Crash
<1> QED  BY <1>1, <1>2, <1>3, <1>4 DEF Plain

LEMMA WhileParts ==
  ASSUME NEW i \in Whiles(Static, Nat)
  PROVE  Parted(i) /\ i.op = "while" /\ i.since \in Nat
<1>1. i \in [op : {"while"}, when : Stopping, body : Led(Daring(Static), Static), since : Nat]
      /\ Driven(i.when, i.body)
  BY DEF Whiles
<1> HIDE DEF Stopping
<1> DEFINE B == Led(Daring(Static), Static)
<1>2. i \in [op : {"while"}, when : Stopping, body : B, since : Nat] /\ Driven(i.when, i.body)
  BY <1>1
<1> HIDE DEF B
<1>3. /\ i.op = "while" /\ i.when \in Stopping /\ i.body \in B /\ i.since \in Nat
      /\ i = [op |-> "while", when |-> i.when, body |-> i.body, since |-> i.since]
  BY <1>2
<1> QED  BY <1>2, <1>3 DEF Parted, B

\* The instructions a function is made of, and what else it may be doing.
LEMMA StaticParts ==
  ASSUME NEW i \in Static
  PROVE  Parted(i) /\ (i.op = "while" => i.since = 0)
<1>1. i \in Plain \cup Switches(L5) \cup Whiles(L5, {0}) \cup Lasts(L5)
  BY LevelsGrow DEF Around
<1>2. L5 \subseteq Static /\ Seq(L5) \subseteq Seq(Static)
  BY LevelsGrow
<1>3. Led(Daring(L5), L5) \subseteq Led(Daring(Static), Static)
  BY <1>2, DaringGrows, LedGrows
<1>4. CASE i \in Plain
  BY <1>4, PlainParts
<1>5. CASE i \in Switches(L5)
  <2> DEFINE C == Cases(L5)
  <2>1. i.op = "switch" /\ i.cases \in Seq(C)
    BY <1>5 DEF Switches
  <2>2. \A k \in DOMAIN i.cases : i.cases[k] \in C
    <3> HIDE DEF C
    <3> QED  BY <2>1
  <2>3. \A x \in C : \/ x.code \in Seq(Static)
                     \/ x.when \in Stopping /\ x.code \in Led(Daring(Static), Static)
    <3>1. \A x \in [when : Conditions, code : Seq(L5)] : x.code \in Seq(L5)
      OBVIOUS
    <3> DEFINE B == Led(Daring(L5), L5)
    <3>2. \A x \in [when : Stopping, code : B] : x.when \in Stopping /\ x.code \in B
      OBVIOUS
    <3> QED  BY <1>2, <1>3, <3>1, <3>2 DEF Cases
  <2> HIDE DEF C
  <2> QED  BY <2>1, <2>2, <2>3 DEF Parted
<1>6. CASE i \in Whiles(L5, {0})
  <2>1. i \in Whiles(Static, Nat) /\ i.since = 0
    BY <1>3, <1>6 DEF Whiles
  <2> QED  BY <2>1, WhileParts
<1>7. CASE i \in Lasts(L5)
  <2>1. i.op = "last" /\ i.then \in Seq(L5) /\ i.else \in Seq(L5)
    BY <1>7 DEF Lasts
  <2> QED  BY <1>2, <2>1 DEF Parted
<1> QED  BY <1>1, <1>4, <1>5, <1>6, <1>7

LEMMA RunningParts ==
  ASSUME NEW i \in Running
  PROVE  Parted(i) /\ (i.op = "while" => i.since \in Nat)
  BY StaticParts, WhileParts DEF Running

LEMMA DaringParts ==
  ASSUME NEW i \in Daring(Static)
  PROVE  \/ i = Advance
         \/ i.op = "call" /\ i.rule \in InFront /\ i.given \in {0, 1}
         \/ /\ i.op = "switch"
            /\ \A k \in DOMAIN i.cases : i.cases[k].code \in Led({Advance}, Static)
<1> DEFINE C == [when : Conditions, code : Led({Advance}, Static)]
<1>1. CASE i \in [op : {"switch"}, cases : Seq(C)]
  <2>1. i.op = "switch" /\ i.cases \in Seq(C)
    BY <1>1
  <2>2. \A x \in C : x.code \in Led({Advance}, Static)
    OBVIOUS
  <2>3. \A k \in DOMAIN i.cases : i.cases[k] \in C
    <3> HIDE DEF C
    <3> QED  BY <2>1
  <2> QED  BY <2>1, <2>2, <2>3
<1> QED  BY <1>1 DEF Daring

LEMMA RunningGrows ==
  /\ Static \subseteq Running /\ Seq(Static) \subseteq Seq(Running)
  /\ Led({Advance}, Static) \subseteq Led(Daring(Static), Running)
  /\ Led(Daring(Static), Static) \subseteq Led(Daring(Static), Running)
<1>1. Static \subseteq Running
  BY DEF Running
<1>2. {Advance} \subseteq Daring(Static)
  BY DEF Daring
<1>3. Seq(Static) \subseteq Seq(Running)
  BY <1>1
<1> QED  BY <1>1, <1>2, <1>3, LedGrows

LEMMA OfElements ==
  ASSUME NEW S, NEW T, NEW s \in Seq(S), \A k \in 1 .. Len(s) : s[k] \in T
  PROVE  s \in Seq(T)
  OBVIOUS

LEMMA LedParts ==
  ASSUME NEW H, NEW S, NEW s \in Led(H, S)
  PROVE  /\ s \in Seq(H \cup S)
         /\ s # <<>> => Head(s) \in H \cup S /\ Tail(s) \in Seq(S)
         /\ s # <<>> /\ Head(s) \in S => s \in Seq(S)
<1>1. s \in Seq(H \cup S) /\ \A k \in 2 .. Len(s) : s[k] \in S
  BY DEF Led
<1>2. ASSUME s # <<>>
      PROVE  Head(s) \in H \cup S /\ Tail(s) \in Seq(S) /\ Head(s) = s[1]
  <2>1. Len(s) \in Nat /\ Len(s) > 0 /\ Head(s) = s[1] /\ s[1] \in H \cup S
    BY <1>1, <1>2
  <2>2. Tail(s) \in Seq(H \cup S) /\ Len(Tail(s)) = Len(s) - 1
        /\ \A k \in 1 .. Len(s) - 1 : Tail(s)[k] = s[k + 1]
    BY <1>1, <1>2
  <2>3. \A k \in 1 .. Len(Tail(s)) : Tail(s)[k] \in S
    BY <1>1, <2>1, <2>2
  <2>4. Tail(s) \in Seq(S)
    BY <2>2, <2>3, OfElements
  <2> QED  BY <2>1, <2>4
<1>3. ASSUME s # <<>>, Head(s) \in S
      PROVE  s \in Seq(S)
  <2>1. \A k \in 1 .. Len(s) : s[k] \in S
    BY <1>1, <1>2, <1>3
  <2> QED  BY <1>1, <2>1
<1> QED  BY <1>1, <1>2, <1>3

LEMMA LedJoined ==
  ASSUME NEW H, NEW S, NEW s \in Led(H, S), NEW t \in Seq(S)
  PROVE  s \o t \in Led(H, S)
<1>1. s \in Seq(H \cup S) /\ \A k \in 2 .. Len(s) : s[k] \in S
  BY DEF Led
<1>2. t \in Seq(H \cup S)
  OBVIOUS
<1>3. s \o t \in Seq(H \cup S) /\ Len(s \o t) = Len(s) + Len(t)
      /\ \A i \in 1 .. Len(s) + Len(t) : (s \o t)[i] = IF i <= Len(s) THEN s[i] ELSE t[i - Len(s)]
  BY <1>1, <1>2, Joining
<1>4. CASE s = <<>>
  BY <1>1, <1>2, <1>4, Joining DEF Led
<1>5. ASSUME NEW k \in 2 .. Len(s \o t)
      PROVE  (s \o t)[k] \in S
  <2>1. Len(s) \in Nat /\ Len(t) \in Nat /\ k \in Nat /\ k \in 2 .. Len(s) + Len(t)
    BY <1>1, <1>3, <1>5
  <2>2. CASE k <= Len(s)
    BY <1>1, <1>3, <2>1, <2>2
  <2>3. CASE ~(k <= Len(s))
    <3>1. k - Len(s) \in 1 .. Len(t)
      BY <2>1, <2>3
    <3> QED  BY <1>3, <2>1, <2>3, <3>1
  <2> QED  BY <2>2, <2>3
<1> QED  BY <1>3, <1>5 DEF Led

LEMMA Joined ==
  ASSUME NEW s, NEW t, IsSequence(s), IsSequence(t)
  PROVE  /\ IsSequence(s \o t) /\ Len(s \o t) = Len(s) + Len(t) /\ Len(s) \in Nat /\ Len(t) \in Nat
         /\ \A i \in 1 .. Len(s) + Len(t) :
              (s \o t)[i] = IF i <= Len(s) THEN s[i] ELSE t[i - Len(s)]
         /\ <<>> \o t = t /\ s \o <<>> = s
         /\ s # <<>> => /\ s \o t # <<>> /\ Head(s \o t) = Head(s)
                        /\ IsSequence(Tail(s)) /\ Tail(s \o t) = Tail(s) \o t
<1>1. PICK S : s \in Seq(S)
  BY DEF IsSequence
<1>2. PICK T : t \in Seq(T)
  BY DEF IsSequence
<1>3. s \in Seq(S \cup T) /\ t \in Seq(S \cup T)
  BY <1>1, <1>2
<1> QED  BY <1>3, Joining DEF IsSequence

\* Three codes put together.
LEMMA JoinedThrice ==
  ASSUME NEW s, NEW t, NEW u, IsSequence(s), IsSequence(t), IsSequence(u)
  PROVE  (s \o t) \o u = s \o (t \o u)
<1>1. PICK S : s \in Seq(S)
  BY DEF IsSequence
<1>2. PICK T : t \in Seq(T)
  BY DEF IsSequence
<1>3. PICK U : u \in Seq(U)
  BY DEF IsSequence
<1> DEFINE A == S \cup T \cup U
<1>4. s \in Seq(A) /\ t \in Seq(A) /\ u \in Seq(A)
  BY <1>1, <1>2, <1>3
<1> HIDE DEF A
<1>5. /\ Len(s) \in Nat /\ Len(t) \in Nat /\ Len(u) \in Nat
      /\ s \o t \in Seq(A) /\ Len(s \o t) = Len(s) + Len(t)
      /\ t \o u \in Seq(A) /\ Len(t \o u) = Len(t) + Len(u)
      /\ (s \o t) \o u \in Seq(A) /\ Len((s \o t) \o u) = (Len(s) + Len(t)) + Len(u)
      /\ s \o (t \o u) \in Seq(A) /\ Len(s \o (t \o u)) = Len(s) + (Len(t) + Len(u))
  BY <1>4, Joining
<1>6. ASSUME NEW i \in 1 .. (Len(s) + Len(t)) + Len(u)
      PROVE  ((s \o t) \o u)[i] = (s \o (t \o u))[i]
  <2>1. i \in Nat /\ i \in 1 .. Len(s \o t) + Len(u) /\ i \in 1 .. Len(s) + Len(t \o u)
    BY <1>5
  <2>2. ((s \o t) \o u)[i] = IF i <= Len(s \o t) THEN (s \o t)[i] ELSE u[i - Len(s \o t)]
    BY <1>4, <1>5, <2>1, Joining
  <2>3. (s \o (t \o u))[i] = IF i <= Len(s) THEN s[i] ELSE (t \o u)[i - Len(s)]
    BY <1>4, <1>5, <2>1, Joining
  <2>4. CASE i <= Len(s)
    <3>1. i \in 1 .. Len(s) + Len(t) /\ i <= Len(s) + Len(t)
      BY <1>5, <2>1, <2>4
    <3>2. (s \o t)[i] = s[i]
      BY <1>4, <2>4, <3>1, Joining
    <3> QED  BY <1>5, <2>2, <2>3, <2>4, <3>1, <3>2
  <2>5. CASE ~(i <= Len(s)) /\ i <= Len(s) + Len(t)
    <3>1. i \in 1 .. Len(s) + Len(t) /\ i - Len(s) \in 1 .. Len(t) + Len(u) /\ i - Len(s) <= Len(t)
      BY <1>5, <2>1, <2>5
    <3>2. (s \o t)[i] = t[i - Len(s)]
      BY <1>4, <2>5, <3>1, Joining
    <3>3. (t \o u)[i - Len(s)] = t[i - Len(s)]
      BY <1>4, <3>1, Joining
    <3> QED  BY <1>5, <2>2, <2>3, <2>5, <3>2, <3>3
  <2>6. CASE ~(i <= Len(s)) /\ ~(i <= Len(s) + Len(t))
    <3>1. /\ i - Len(s) \in 1 .. Len(t) + Len(u) /\ ~(i - Len(s) <= Len(t))
          /\ (i - Len(s)) - Len(t) = i - (Len(s) + Len(t))
      BY <1>5, <2>1, <2>6
    <3>2. (t \o u)[i - Len(s)] = u[(i - Len(s)) - Len(t)]
      BY <1>4, <3>1, Joining
    <3> QED  BY <1>5, <2>2, <2>3, <2>6, <3>1, <3>2
  <2> QED  BY <2>4, <2>5, <2>6
<1>7. \A a, b \in Seq(A) : Len(a) = Len(b) /\ (\A i \in 1 .. Len(a) : a[i] = b[i]) => a = b
  OBVIOUS
<1>8. (Len(s) + Len(t)) + Len(u) = Len(s) + (Len(t) + Len(u))
  BY <1>5
<1> QED  BY <1>5, <1>6, <1>7, <1>8

\* What each function is made of, all of them together.
LEMMA CodeFine ==
  /\ \A r \in DOMAIN Code \ (InFront \cup {"program", "declaration", "declaration_alias"}) :
       Code[r] \in Seq(Static)
  /\ \A r \in InFront : Code[r] \in Led(Daring(Static), Static)
<1>1. /\ \A r \in {"compound_field", "compound", "operand", "base", "unary", "expression", "paren",
                   "typedecl_base", "typedecl"} : Code[r] \in Seq(Static)
  BY CodeIs, CompoundFieldFine, CompoundFine, OperandFine, BaseFine, UnaryFine, ExpressionFine,
     ParenFine, TypedeclBaseFine, TypedeclFine
<1>2. \A r \in {"statement_simple", "statement_if", "statement_while", "statement_do_while",
                "statement_for", "switch_pattern", "statement_switch_case", "statement_switch",
                "statement_return", "statement_break_continue", "statement", "statement_block"} :
        Code[r] \in Seq(Static)
  BY CodeIs, StatementSimpleFine, StatementIfFine, StatementWhileFine, StatementDoWhileFine,
     StatementForFine, SwitchPatternFine, StatementSwitchCaseFine, StatementSwitchFine,
     StatementReturnFine, StatementBreakFine, StatementFine, StatementBlockFine
<1>3. \A r \in {"aggregate_item", "aggregate", "declaration_aggregate", "declaration_variable",
                "parameter", "declaration_function", "declaration_enum"} : Code[r] \in Seq(Static)
  BY CodeIs, AggregateItemFine, AggregateFine, DeclarationAggregateFine, DeclarationVariableFine,
     ParameterFine, DeclarationFunctionFine, DeclarationEnumFine
<1>4. \A r \in {"mul", "add", "cmp", "and", "or"} : Code[r] \in Seq(Static)
  BY CodeIs, LevelFine DEF Movers
<1>5. \A r \in InFront : Code[r] \in Led(Daring(Static), Static)
  BY CodeIs, StatementInitBold, TypedeclFunctionBold DEF InFront
<1> QED  BY <1>1, <1>2, <1>3, <1>4, <1>5, Rules DEF InFront

LEMMA CodeMoves == \A r \in Movers : Moving(Code[r])
<1>1. \A r \in {"compound", "operand", "base", "unary", "expression", "aggregate_item"} : Moving(Code[r])
  BY CodeIs, CompoundMoves, OperandFine, BaseFine, UnaryFine, ExpressionFine, AggregateItemMoves
<1>2. \A r \in {"statement_simple", "statement", "statement_block"} : Moving(Code[r])
  BY CodeIs, StatementSimpleFine, StatementFine, StatementBlockFine
<1>3. \A r \in {"mul", "add", "cmp", "and", "or"} : Moving(Code[r])
  BY CodeIs, LevelFine DEF Movers
<1> QED  BY <1>1, <1>2, <1>3 DEF Movers

LEMMA DeclarersClose == \A r \in Declarers \ {"declaration_alias"} : Closing(Code[r])
<1>1. /\ declaration_aggregate # <<>> /\ declaration_variable # <<>>
      /\ declaration_function # <<>> /\ declaration_enum # <<>>
  BY DEF declaration_aggregate, declaration_variable, declaration_function, declaration_enum
<1> QED  BY <1>1, CodeIs, DeclarationAggregateFine, DeclarationVariableFine,
            DeclarationFunctionFine, DeclarationEnumFine DEF Declarers, Closing

-----------------------------------------------------------------------------
(* The end of a code, and the rounds of its loops *)

LEMMA LastJoined ==
  ASSUME NEW s, NEW t, IsSequence(s), IsSequence(t), t # <<>>
  PROVE  s \o t # <<>> /\ LastOf(s \o t) = LastOf(t)
<1>1. PICK T : t \in Seq(T)
  BY DEF IsSequence
<1>2. Len(t) \in Nat /\ Len(t) > 0
  BY <1>1
<1>3. /\ Len(s \o t) = Len(s) + Len(t) /\ Len(s) \in Nat
      /\ \A i \in 1 .. Len(s) + Len(t) : (s \o t)[i] = IF i <= Len(s) THEN s[i] ELSE t[i - Len(s)]
  BY Joined
<1>4. /\ Len(s) + Len(t) \in 1 .. Len(s) + Len(t) /\ ~(Len(s) + Len(t) <= Len(s))
      /\ (Len(s) + Len(t)) - Len(s) = Len(t)
  BY <1>2, <1>3
<1>5. (s \o t)[Len(s) + Len(t)] = t[Len(t)]
  BY <1>3, <1>4
<1>6. Len(<<>>) = 0
  OBVIOUS
<1> QED  BY <1>2, <1>3, <1>4, <1>5, <1>6 DEF LastOf

LEMMA LastTail ==
  ASSUME NEW s, IsSequence(s), s # <<>>
  PROVE  IF Tail(s) = <<>> THEN LastOf(s) = Head(s) ELSE LastOf(Tail(s)) = LastOf(s)
<1>1. PICK S : s \in Seq(S)
  BY DEF IsSequence
<1>2. /\ Len(s) \in Nat /\ Len(s) > 0 /\ Head(s) = s[1] /\ Tail(s) \in Seq(S)
      /\ Len(Tail(s)) = Len(s) - 1 /\ \A k \in 1 .. Len(s) - 1 : Tail(s)[k] = s[k + 1]
  BY <1>1
<1>3. CASE Tail(s) = <<>>
  <2>1. Len(<<>>) = 0
    OBVIOUS
  <2>2. Len(s) - 1 = 0
    BY <1>2, <1>3, <2>1
  <2>3. Len(s) \in Nat
    BY <1>2
  <2>4. Len(s) = 1
    BY <2>2, <2>3
  <2> QED  BY <1>2, <1>3, <2>4 DEF LastOf
<1>4. CASE Tail(s) # <<>>
  <2>1. Len(s) - 1 \in 1 .. Len(s) - 1 /\ (Len(s) - 1) + 1 = Len(s)
    BY <1>2, <1>4
  <2>2. Tail(s)[Len(s) - 1] = s[Len(s)]
    BY <1>2, <2>1
  <2> QED  BY <1>2, <1>4, <2>2 DEF LastOf
<1> QED  BY <1>3, <1>4

LEMMA ClosingTail ==
  ASSUME NEW code, IsSequence(code), Closing(code), Head(code).op # "make"
  PROVE  Closing(Tail(code))
<1>1. \A i \in Makes : i.op = "make"
  BY DEF Makes
<1> QED  BY <1>1, LastTail DEF Closing

LEMMA ClosingJoined ==
  ASSUME NEW s, NEW t, IsSequence(s), IsSequence(t), Closing(t)
  PROVE  Closing(s \o t)
  BY LastJoined DEF Closing

LEMMA BegunTail ==
  ASSUME NEW s, IsSequence(s), s # <<>>, NEW n
  PROVE  /\ Begun(s, n) => Begun(Tail(s), n)
         /\ Began(Tail(s), n) => Began(s, n)
<1>1. PICK S : s \in Seq(S)
  BY DEF IsSequence
<1>2. /\ Len(s) \in Nat /\ Len(s) > 0 /\ Len(Tail(s)) = Len(s) - 1
      /\ \A k \in 1 .. Len(s) - 1 : Tail(s)[k] = s[k + 1]
  BY <1>1
<1>3. \A k \in 1 .. Len(s) - 1 : k + 1 \in 1 .. Len(s)
  BY <1>2
<1> QED  BY <1>2, <1>3 DEF Begun, Began

LEMMA BegunJoined ==
  ASSUME NEW s, NEW t, IsSequence(s), IsSequence(t), NEW n
  PROVE  /\ Begun(s, n) /\ Begun(t, n) => Begun(s \o t, n)
         /\ Began(s \o t, n) => Began(s, n) \/ Began(t, n)
<1>1. /\ Len(s) \in Nat /\ Len(t) \in Nat /\ Len(s \o t) = Len(s) + Len(t)
      /\ \A i \in 1 .. Len(s) + Len(t) : (s \o t)[i] = IF i <= Len(s) THEN s[i] ELSE t[i - Len(s)]
  BY Joined
<1>2. ASSUME NEW i \in 1 .. Len(s \o t)
      PROVE  \/ \E j \in 1 .. Len(s) : (s \o t)[i] = s[j]
             \/ \E j \in 1 .. Len(t) : (s \o t)[i] = t[j]
  <2>1. CASE i <= Len(s)
    <3>1. i \in 1 .. Len(s)
      BY <1>1, <2>1
    <3> QED  BY <1>1, <2>1, <3>1
  <2>2. CASE ~(i <= Len(s))
    <3>1. i - Len(s) \in 1 .. Len(t)
      BY <1>1, <2>2
    <3> QED  BY <1>1, <2>2, <3>1
  <2> QED  BY <2>1, <2>2
<1> QED  BY <1>2 DEF Begun, Began

\* The loops of a function have not begun a round when it is called.
LEMMA NotBegun ==
  ASSUME NEW s, s \in Seq(Static) \/ s \in Led(Daring(Static), Static), NEW n \in Nat
  PROVE  IsSequence(s) /\ Begun(s, n) /\ ~Began(s, n + 1)
<1>1. s \in Seq(Daring(Static) \cup Static)
  BY DEF Led
<1>2. \A k \in 1 .. Len(s) : s[k] \in Daring(Static) \cup Static
  BY <1>1
<1>3. \A i \in Daring(Static) \cup Static : i.op = "while" => i.since = 0
  <2>1. Advance.op # "while"
    BY DEF Advance
  <2> QED  BY <2>1, StaticParts, DaringParts
<1>4. 0 \in 0 .. n /\ 0 # n + 1
  OBVIOUS
<1> QED  BY <1>1, <1>2, <1>3, <1>4 DEF Begun, Began, IsSequence

-----------------------------------------------------------------------------
(* What moves *)

LEMMA MovingJoined ==
  ASSUME NEW s \in Led(Daring(Static), Running), NEW t, IsSequence(t), Moving(s)
  PROVE  Moving(s \o t)
<1>1. s # <<>> /\ IsSequence(s)
  BY DEF Moving, Leads, Led, IsSequence
<1>2. /\ s \o t # <<>> /\ Head(s \o t) = Head(s)
      /\ IsSequence(Tail(s)) /\ Tail(s \o t) = Tail(s) \o t
  BY <1>1, Joined
<1>3. CASE Leads(s)
  BY <1>2, <1>3 DEF Moving, Leads
<1>4. CASE Head(s).op = "switch" /\ \A i \in DOMAIN Head(s).cases :
                                      Leads(Head(s).cases[i].code \o Tail(s))
  <2>1. Head(s) \in Daring(Static) \cup Running
    BY <1>1, LedParts
  <2>2. \A i \in DOMAIN Head(s).cases : IsSequence(Head(s).cases[i].code)
    <3>1. Advance.op # "switch"
      BY DEF Advance
    <3>2. CASE Head(s) \in Daring(Static)
      BY <1>4, <3>1, <3>2, DaringParts DEF IsSequence, Led
    <3>3. CASE Head(s) \in Running
      BY <1>4, <3>3, RunningParts DEF IsSequence, Led, Parted
    <3> QED  BY <2>1, <3>2, <3>3
  <2>3. ASSUME NEW i \in DOMAIN Head(s).cases
        PROVE  Leads(Head(s).cases[i].code \o (Tail(s) \o t))
    <3> DEFINE c == Head(s).cases[i].code
    <3>1. IsSequence(c) /\ Leads(c \o Tail(s))
      BY <1>4, <2>2
    <3> HIDE DEF c
    <3>2. IsSequence(c \o Tail(s))
      BY <1>2, <3>1, Joined
    <3>3. (c \o Tail(s)) \o t = c \o (Tail(s) \o t)
      <4> DEFINE d == Tail(s)
      <4>1. IsSequence(c) /\ IsSequence(d) /\ IsSequence(t)
        BY <1>2, <3>1
      <4> HIDE DEF d
      <4>2. (c \o d) \o t = c \o (d \o t)
        BY <4>1, JoinedThrice
      <4> QED  BY <4>2 DEF d
    <3>4. (c \o Tail(s)) \o t # <<>> /\ Head((c \o Tail(s)) \o t) = Head(c \o Tail(s))
      BY <3>1, <3>2, Joined DEF Leads
    <3>5. Leads(c \o (Tail(s) \o t))
      BY <3>1, <3>3, <3>4 DEF Leads
    <3> QED  BY <3>5 DEF c
  <2> QED  BY <1>2, <1>4, <2>3 DEF Moving
<1> QED  BY <1>3, <1>4 DEF Moving

-----------------------------------------------------------------------------
(* The stack *)

LEMMA StackFacts ==
  ASSUME NEW s, IsSequence(s), s # <<>>
  PROVE  /\ Len(s) \in Nat /\ Len(s) > 0 /\ IsSequence(SubSeq(s, 1, Len(s) - 1))
         /\ Len(SubSeq(s, 1, Len(s) - 1)) = Len(s) - 1
         /\ \A k \in 1 .. Len(s) - 1 : SubSeq(s, 1, Len(s) - 1)[k] = s[k]
         /\ SubSeq(s, 1, Len(s) - 1) = <<>> <=> Len(s) = 1
<1>1. PICK S : s \in Seq(S)
  BY DEF IsSequence
<1>2. Len(s) \in Nat /\ Len(s) > 0
  BY <1>1
<1> DEFINE c == SubSeq(s, 1, Len(s) - 1)
<1>3. c \in Seq(S) /\ Len(c) = Len(s) - 1 /\ \A k \in 1 .. Len(s) - 1 : c[k] = s[k]
  <2>1. PICK m : m = Len(s) - 1
    OBVIOUS
  <2>2. 1 \in 1 .. Len(s) + 1 /\ m \in 1 - 1 .. Len(s)
    BY <1>2, <2>1
  <2>3. /\ SubSeq(s, 1, m) \in Seq(S)
        /\ Len(SubSeq(s, 1, m)) = IF 1 <= m THEN m - 1 + 1 ELSE 0
        /\ \A i \in 1 .. m - 1 + 1 : SubSeq(s, 1, m)[i] = s[1 + i - 1]
    BY <1>1, <2>2, SubSeqProperties
  <2>4. m - 1 + 1 = m /\ (~(1 <= m) => m = 0) /\ \A i \in 1 .. m : 1 + i - 1 = i
    BY <1>2, <2>1
  <2> QED  BY <2>1, <2>3, <2>4
<1> HIDE DEF c
<1>4. c = <<>> <=> Len(c) = 0
  BY <1>3
<1>5. c = <<>> <=> Len(s) = 1
  BY <1>2, <1>3, <1>4
<1> QED  BY <1>2, <1>3, <1>5 DEF c, IsSequence

LEMMA AppendFacts ==
  ASSUME NEW s, IsSequence(s), NEW x
  PROVE  /\ IsSequence(Append(s, x)) /\ Len(Append(s, x)) = Len(s) + 1 /\ Append(s, x) # <<>>
         /\ \A k \in 1 .. Len(s) : Append(s, x)[k] = s[k]
         /\ Append(s, x)[Len(s) + 1] = x
<1>1. PICK S : s \in Seq(S)
  BY DEF IsSequence
<1>2. s \in Seq(S \cup {x}) /\ x \in S \cup {x}
  BY <1>1
<1> QED  BY <1>2 DEF IsSequence

LEMMA Replaced ==
  ASSUME Framed, stack # <<>>, NEW code, NEW vals, Goes(code, vals)
  PROVE  /\ Len(stack') = Len(stack) /\ stack' # <<>> /\ IsSequence(stack')
         /\ \A k \in 1 .. Len(stack) - 1 : stack'[k] = stack[k]
         /\ Top' = stack'[Len(stack)] /\ Top'.rule = Top.rule /\ Top'.code = code /\ Top'.vals = vals
         /\ IsFrame(Top')
         /\ phase' = phase /\ job' = job
<1> DEFINE g == [Top EXCEPT !.code = code, !.vals = vals]
<1>1. /\ Len(stack) \in Nat /\ Len(stack) > 0 /\ IsSequence(Callers) /\ Len(Callers) = Len(stack) - 1
      /\ \A k \in 1 .. Len(stack) - 1 : Callers[k] = stack[k]
  BY StackFacts DEF Framed, Callers
<1>2. g.rule = Top.rule /\ g.code = code /\ g.vals = vals /\ IsFrame(g)
  <2>1. IsFrame(Top)
    BY <1>1 DEF Framed, Top
  <2>2. PICK f : f = Top
    OBVIOUS
  <2> DEFINE h == [f EXCEPT !.code = code, !.vals = vals]
  <2>3. IsFrame(h) /\ h.rule = f.rule /\ h.code = code /\ h.vals = vals
    BY <2>1, <2>2 DEF IsFrame
  <2> QED  BY <2>2, <2>3
<1> HIDE DEF g
<1>3. stack' = Append(Callers, g) /\ phase' = phase /\ job' = job
  BY DEF Goes, g
<1>4. /\ IsSequence(stack') /\ Len(stack') = Len(Callers) + 1 /\ stack' # <<>>
      /\ \A k \in 1 .. Len(Callers) : stack'[k] = Callers[k]
      /\ stack'[Len(Callers) + 1] = g
  BY <1>1, <1>3, AppendFacts
<1>5. Len(stack') = Len(stack) /\ stack'[Len(stack)] = g
  BY <1>1, <1>4
<1>6. Top' = g
  BY <1>5 DEF Top
<1> QED  BY <1>1, <1>2, <1>3, <1>4, <1>5, <1>6

LEMMA WaitingOn ==
  ASSUME NEW f, NEW m \in Nat, NEW n \in Nat, m <= n
  PROVE  /\ Waiting(f, m) => Waiting(f, n)
         /\ \A code : Begun(code, m) => Begun(code, n)
<1>1. 0 .. m \subseteq 0 .. n
  OBVIOUS
<1> QED  BY <1>1 DEF Waiting, LeftOf, Begun

\* The text is as it was or a token longer.
Longer == /\ text' \in Seq(Tokens) /\ look' \in Tokens
          /\ text' = text \/ Here' = Here + 1

LEMMA HereGrows ==
  ASSUME Typed, Longer
  PROVE  Here \in Nat /\ Here' \in Nat /\ Here <= Here' /\ Here > 0
<1>1. Len(text) \in Nat
  BY DEF Typed
<1> QED  BY <1>1 DEF Longer, Here

LEMMA GoesKeeps ==
  ASSUME Inv, phase = "parsing", NEW code, NEW vals, Goes(code, vals), Longer,
         Begun(code, Here'), Working', Quiet' => MovesOn'
  PROVE  Inv'
<1>1. Typed /\ Framed /\ Chained /\ stack # <<>>
  BY DEF Inv
<1>2. /\ Len(stack') = Len(stack) /\ stack' # <<>> /\ IsSequence(stack')
      /\ \A k \in 1 .. Len(stack) - 1 : stack'[k] = stack[k]
      /\ Top' = stack'[Len(stack)] /\ Top'.rule = Top.rule /\ Top'.code = code /\ Top'.vals = vals
      /\ IsFrame(Top')
      /\ phase' = phase /\ job' = job
  BY <1>1, Replaced
<1>3. Len(stack) \in Nat /\ Len(stack) > 0
  BY <1>1, StackFacts DEF Framed
<1>4. Here \in Nat /\ Here' \in Nat /\ Here <= Here'
  BY <1>1, HereGrows
<1>5. Typed'
  BY <1>1, <1>2 DEF Typed, Longer
<1>6. Framed'
  <2>1. ASSUME NEW k \in 1 .. Len(stack') PROVE IsFrame(stack'[k]) /\ Begun(stack'[k].code, Here')
    <3>1. CASE k = Len(stack)
      BY <1>2, <3>1
    <3>2. CASE k # Len(stack)
      <4>1. k \in 1 .. Len(stack) - 1 /\ k \in 1 .. Len(stack)
        BY <1>2, <1>3, <3>2
      <4>2. IsFrame(stack[k]) /\ Begun(stack[k].code, Here)
        BY <1>1, <4>1 DEF Framed
      <4> QED  BY <1>2, <1>4, <4>1, <4>2, WaitingOn
    <3> QED  BY <3>1, <3>2
  <2> QED  BY <1>2, <2>1 DEF Framed
<1>7. Chained'
  <2>1. ASSUME NEW k \in 1 .. Len(stack') - 1
        PROVE  Waiting(stack'[k], Here') /\ Calls(stack'[k], stack'[k + 1])
    <3>1. k \in 1 .. Len(stack) - 1 /\ stack'[k] = stack[k]
      BY <1>2
    <3>2. Waiting(stack[k], Here) /\ Calls(stack[k], stack[k + 1])
      BY <1>1, <3>1 DEF Chained
    <3>3. stack'[k + 1].rule = stack[k + 1].rule
      <4>1. CASE k + 1 = Len(stack)
        BY <1>2, <4>1 DEF Top
      <4>2. CASE k + 1 # Len(stack)
        <5>1. k + 1 \in 1 .. Len(stack) - 1
          BY <1>3, <3>1, <4>2
        <5> QED  BY <1>2, <5>1
      <4> QED  BY <4>1, <4>2
    <3> QED  BY <1>4, <3>1, <3>2, <3>3, WaitingOn DEF Calls
  <2> QED  BY <2>1 DEF Chained
<1>8. CursorInside'
  BY <1>2 DEF CursorInside
<1> QED  BY <1>2, <1>5, <1>6, <1>7, <1>8 DEF Inv

LEMMA EndKeeps ==
  ASSUME Inv, NEW how, End(how), how # "parsing", text' \in Seq(Tokens), look' \in Tokens,
         CursorInside'
  PROVE  Inv'
<1>1. Typed' /\ stack' = <<>> /\ phase' # "parsing"
  BY DEF Inv, Typed, End
<1>2. Len(stack') = 0
  BY <1>1
<1>3. Framed' /\ Chained' /\ ~Quiet'
  <2>1. IsSequence(stack')
    BY <1>1 DEF IsSequence
  <2>2. 1 .. Len(stack') = {} /\ 1 .. Len(stack') - 1 = {}
    BY <1>2
  <2> QED  BY <2>1, <2>2 DEF Framed, Chained, Quiet
<1> QED  BY <1>1, <1>3 DEF Inv

\* When nothing was read or reported, a loop that began its round here did so before.
LEMMA StillQuiet ==
  ASSUME Inv, phase = "parsing", NEW code, NEW vals, Goes(code, vals),
         text' = text, errors' = errors, Began(code, Here) => Began(Top.code, Here), Quiet'
  PROVE  Quiet
<1>1. Framed /\ stack # <<>>
  BY DEF Inv
<1>2. /\ Len(stack') = Len(stack)
      /\ \A k \in 1 .. Len(stack) - 1 : stack'[k] = stack[k]
      /\ Top' = stack'[Len(stack)] /\ Top'.code = code
  BY <1>1, Replaced
<1>3. Len(stack) \in Nat /\ Len(stack) > 0
  BY <1>1, StackFacts DEF Framed
<1>4. Here' = Here
  BY DEF Here
<1>5. PICK k \in 1 .. Len(stack) : Began(stack'[k].code, Here)
  BY <1>2, <1>4 DEF Quiet
<1>6. CASE k = Len(stack)
  BY <1>2, <1>4, <1>5, <1>6 DEF Quiet, Top
<1>7. CASE k # Len(stack)
  <2>1. k \in 1 .. Len(stack) - 1
    BY <1>3, <1>7
  <2> QED  BY <1>2, <1>4, <1>5, <2>1 DEF Quiet
<1> QED  BY <1>6, <1>7

-----------------------------------------------------------------------------
(* Calls that do what any function may do *)

LEMMA StopsAtEnd ==
  ASSUME NEW when \in Stopping, Holds(when)
  PROVE  look # EOF
  BY DEF Stopping, Holds, Words

LEMMA HoldsIs ==
  \A T : (Holds(In(T)) <=> look \in T) /\ (Holds(NotIn(T)) <=> look \notin T)
<1> SUFFICES ASSUME NEW T
             PROVE  (Holds(In(T)) <=> look \in T) /\ (Holds(NotIn(T)) <=> look \notin T)
  OBVIOUS
<1>1. In(T).set = T /\ In(T).holds = TRUE /\ NotIn(T).set = T /\ NotIn(T).holds = FALSE
  BY DEF In, NotIn
<1>2. Holds(In(T)) = ((look \in T) = TRUE) /\ Holds(NotIn(T)) = ((look \in T) = FALSE)
  BY <1>1, Zenon DEF Holds
<1>3. ((look \in T) = TRUE <=> look \in T) /\ ((look \in T) = FALSE <=> look \notin T)
  OBVIOUS
<1> QED  BY <1>2, <1>3

LEMMA ReadyParts ==
  ASSUME NEW code, NEW t, Ready(code, t)
  PROVE  /\ IsSequence(code)
         /\ code # <<>> => /\ Tail(code) \in Seq(Running) /\ IsSequence(Tail(code))
                           /\ Head(code) \in Running \/ (Head(code) \in Daring(Static) /\ t # EOF)
<1>1. CASE Fine(code)
  <2>1. code # <<>> => Head(code) \in Running /\ Tail(code) \in Seq(Running)
    BY <1>1 DEF Fine
  <2> QED  BY <1>1, <2>1 DEF Fine, IsSequence
<1>2. CASE t # EOF /\ Bold(code)
  BY <1>2, LedParts DEF Bold, IsSequence
<1> QED  BY <1>1, <1>2 DEF Ready

LEMMA ReadyJoined ==
  ASSUME NEW part, NEW rest \in Seq(Running), NEW t, Ready(part, t)
  PROVE  Ready(part \o rest, t)
<1>1. CASE Fine(part)
  BY <1>1, Joining DEF Fine, Ready
<1>2. CASE t # EOF /\ Bold(part)
  BY <1>2, LedJoined DEF Bold, Ready
<1> QED  BY <1>1, <1>2 DEF Ready

\* A call that does the first thing of its code is left with the rest of it.
LEMMA OrdinaryGoesOn ==
  ASSUME NEW f, NEW t, Ordinary(f, t), f.code # <<>>, Head(f.code).op # "make",
         NEW part, NEW u, Ready(part, u)
  PROVE  /\ Ready(part \o Tail(f.code), u)
         /\ f.rule \in Declarers => Closing(part \o Tail(f.code)) /\ Closing(Tail(f.code))
<1>1. Ready(f.code, t) /\ IsSequence(f.code) /\ Tail(f.code) \in Seq(Running) /\ IsSequence(Tail(f.code))
  BY ReadyParts DEF Ordinary
<1>2. IsSequence(part)
  BY ReadyParts
<1>3. ASSUME f.rule \in Declarers PROVE Closing(Tail(f.code))
  BY <1>1, <1>3, ClosingTail DEF Ordinary, Ends
<1>4. ASSUME f.rule \in Declarers PROVE Closing(part \o Tail(f.code))
  BY <1>1, <1>2, <1>3, <1>4, ClosingJoined
<1> QED  BY <1>1, <1>3, <1>4, ReadyJoined

LEMMA NothingReady ==
  ASSUME NEW t
  PROVE  Ready(<<>>, t)
  BY DEF Ready, Fine

\* A case of a switch, and what it begins with.
LEMMA CaseIs ==
  \E a, b, c, d, e :
    /\ statement_switch_case = <<a, b, c, d>>
    /\ a.op = "while" /\ a.when = In({"case"})
    /\ b.op = "switch" /\ b.cases = <<On({"default"}, e), Otherwise(<<>>)>>
    /\ Leads(e) /\ IsSequence(e)
    /\ c.op = "while" /\ c.when = NotIn({EOF, "}", "case", "default"})
    /\ d = Make("case")
<1> DEFINE a == While({"case"}, <<Advance>> \o List(<<Call("switch_pattern")>>) \o <<Need(":")>>)
           s == If({"default"}, <<Advance, Fail>>)
           e == <<Advance, Need(":"), a, s>>
           b == If({"default"}, e)
           c == Until({EOF, "}", "case", "default"}, <<Call("statement")>>)
           d == Make("case")
<1>1. statement_switch_case = <<a, b, c, d>>
  BY DEF statement_switch_case
<1>2. /\ a.op = "while" /\ a.when = In({"case"})
      /\ c.op = "while" /\ c.when = NotIn({EOF, "}", "case", "default"})
  BY DEF While, Until, Loops
<1>3. b.op = "switch" /\ b.cases = <<On({"default"}, e), Otherwise(<<>>)>>
  BY DEF If, Switch
<1>4. Leads(e) /\ IsSequence(e)
  <2> HIDE DEF a, s
  <2>1. Leads(e)
    BY LeadsIn, MoversMove
  <2>2. e \in Seq({Advance, Need(":"), a, s})
    OBVIOUS
  <2> QED  BY <2>1, <2>2 DEF IsSequence
<1> HIDE DEF a, b, c, d, e
<1> QED  BY <1>1, <1>2, <1>3, <1>4 DEF d

\* What is left of it when a case is read one thing after the other.
LEMMA ChoosingIs ==
  ASSUME Choosing
  PROVE  /\ Top.code # <<>> /\ Head(Top.code).op \in {"while", "switch"}
         /\ Head(Top.code).op = "while" =>
              \/ /\ Head(Top.code).when = In({"case"})
                 /\ look # "case" => Tail(Top.code) = Tail(statement_switch_case)
              \/ Holds(Head(Top.code).when)
         /\ Head(Top.code).op = "switch" =>
              /\ Tail(Top.code) = Tail(Tail(statement_switch_case)) /\ look # "case"
              /\ \E e : /\ Head(Top.code).cases = <<On({"default"}, e), Otherwise(<<>>)>>
                        /\ Leads(e) /\ IsSequence(e)
<1>1. PICK a, b, c, d, e :
    /\ statement_switch_case = <<a, b, c, d>>
    /\ a.op = "while" /\ a.when = In({"case"})
    /\ b.op = "switch" /\ b.cases = <<On({"default"}, e), Otherwise(<<>>)>>
    /\ Leads(e) /\ IsSequence(e)
    /\ c.op = "while" /\ c.when = NotIn({EOF, "}", "case", "default"})
    /\ d = Make("case")
  BY CaseIs
<1>2. /\ Tail(<<a, b, c, d>>) = <<b, c, d>> /\ Tail(<<b, c, d>>) = <<c, d>>
      /\ Head(<<a, b, c, d>>) = a /\ Head(<<b, c, d>>) = b /\ Head(<<c, d>>) = c
      /\ <<a, b, c, d>> # <<>> /\ <<b, c, d>> # <<>> /\ <<c, d>> # <<>>
  OBVIOUS
<1>3. CASE Top.code = <<a, b, c, d>>
  BY <1>1, <1>2, <1>3
<1>4. CASE Top.code = <<b, c, d>> /\ look # "case"
  BY <1>1, <1>2, <1>4
<1>5. CASE Top.code = <<c, d>> /\ look \notin {"case", "default"}
  <2>1. Holds(c.when)
    <3>1. look \notin {EOF, "}", "case", "default"}
      BY <1>5 DEF Choosing
    <3>2. c.when = NotIn({EOF, "}", "case", "default"})
      BY <1>1
    <3> QED  BY <3>1, <3>2, HoldsIs
  <2> QED  BY <1>1, <1>2, <1>5, <2>1
<1> QED  BY <1>1, <1>2, <1>3, <1>4, <1>5 DEF Choosing

LEMMA OrdinaryMoves ==
  ASSUME Ordinary(Top, look), MovesOn, Top.code # <<>>
  PROVE  \/ Moving(Top.code) /\ Head(Top.code).op \in {"need", "keep", "crash", "call", "switch"}
         \/ look \notin {"}", EOF} /\ Head(Top.code) = Call("statement_switch_case")
         \/ Choosing
  BY DEF MovesOn, Announcing, Ordinary, Moving, Leads, MovesAtOnce

\* The innermost call, between two steps.
LEMMA Innermost ==
  ASSUME Inv, phase = "parsing"
  PROVE  /\ Typed /\ Framed /\ Chained /\ stack # <<>> /\ Working
         /\ Len(stack) \in Nat /\ Len(stack) > 0 /\ IsFrame(Top) /\ Begun(Top.code, Here)
         /\ Here \in Nat /\ Here > 0
<1>1. Typed /\ Framed /\ Chained /\ stack # <<>> /\ Working
  BY DEF Inv
<1>2. Len(stack) \in Nat /\ Len(stack) > 0
  BY <1>1, StackFacts DEF Framed
<1>3. IsFrame(Top) /\ Begun(Top.code, Here)
  BY <1>1, <1>2 DEF Framed, Top
<1>4. Len(text) \in Nat
  BY <1>1 DEF Typed
<1> QED  BY <1>1, <1>2, <1>3, <1>4 DEF Here

\* A call that goes on with the rest of its code, having read a token.
LEMMA ReadingOn ==
  ASSUME Inv, phase = "parsing", Longer, Here' = Here + 1, IsSequence(Top.code), Top.code # <<>>,
         NEW vals, Goes(Rest, vals), Working'
  PROVE  Inv'
<1>1. /\ Typed /\ Framed /\ stack # <<>> /\ Len(stack) \in Nat /\ Len(stack) > 0
      /\ Begun(Top.code, Here) /\ Here \in Nat
  BY Innermost
<1>2. PICK rest : rest = Rest
  OBVIOUS
<1>3. /\ Len(stack') = Len(stack) /\ \A k \in 1 .. Len(stack) - 1 : stack'[k] = stack[k]
      /\ Top' = stack'[Len(stack)] /\ Top'.code = rest
  BY <1>1, <1>2, Replaced
<1>4. Begun(rest, Here)
  BY <1>1, <1>2, BegunTail DEF Rest
<1>5. \A k \in 1 .. Len(stack') : Begun(stack'[k].code, Here)
  BY <1>1, <1>3, <1>4 DEF Framed
<1>6. Here' \in Nat /\ Here <= Here'
  BY <1>1, HereGrows
<1>7. Begun(rest, Here')
  BY <1>1, <1>4, <1>6, WaitingOn
<1>8. ~Quiet'
  <2>1. ~(Here + 1 \in 0 .. Here)
    BY <1>1
  <2> QED  BY <1>5, <2>1 DEF Quiet, Begun, Began
<1> QED  BY <1>2, <1>7, <1>8, GoesKeeps

LEMMA UpcomingIn ==
  ASSUME job \in Jobs
  PROVE  \A n : Upcoming(n) \subseteq Tokens
<1>1. job \in [rule : DOMAIN Code \ {"statement_init", "typedecl_function"},
               words : SUBSET (Tokens \ {EOF}), max : Nat, after : Nat]
  BY JobsAssumption
<1>2. job.words \subseteq Tokens
  BY <1>1
<1>3. EOF \in Tokens
  BY DEF Tokens
<1> QED  BY <1>2, <1>3 DEF Upcoming

LEMMA TextGrows ==
  ASSUME Typed, text' = Append(text, look), look' \in Tokens
  PROVE  Longer /\ Here' = Here + 1
<1>1. text' \in Seq(Tokens) /\ Len(text') = Len(text) + 1 /\ Len(text) \in Nat
  BY DEF Typed
<1>2. Here' = Here + 1
  BY <1>1 DEF Here
<1> QED  BY <1>1, <1>2 DEF Longer

\* Whatever an ordinary call becomes, it stays one.
LEMMA OrdinaryStays ==
  ASSUME Inv, phase = "parsing", Ordinary(Top, look), Top.code # <<>>,
         NEW part, Ready(part, look'), NEW vals, Goes(part \o Rest, vals), Instruction.op # "make"
  PROVE  Working' /\ Ordinary(Top', look') /\ Top'.code = part \o Rest
<1>1. Framed /\ stack # <<>>
  BY Innermost
<1>2. PICK f : f = Top
  OBVIOUS
<1>3. PICK g : g = Top'
  OBVIOUS
<1>4. PICK u : u = look'
  OBVIOUS
<1>5. g.rule = f.rule /\ g.code = part \o Tail(f.code)
  BY <1>1, <1>2, <1>3, Replaced DEF Rest
<1>6. PICK t : t = look
  OBVIOUS
<1>7. Ordinary(f, t) /\ f.code # <<>> /\ Head(f.code).op # "make" /\ Ready(part, u)
  BY <1>2, <1>4, <1>6 DEF Instruction
<1>8. /\ Ready(part \o Tail(f.code), u)
      /\ f.rule \in Declarers => Closing(part \o Tail(f.code))
  BY <1>7, OrdinaryGoesOn
<1>9. Ordinary(g, u)
  BY <1>5, <1>7, <1>8 DEF Ordinary, Ends, Closing
<1> QED  BY <1>2, <1>3, <1>4, <1>5, <1>9 DEF Working, Rest

LEMMA OrdinaryReads ==
  ASSUME Inv, phase = "parsing", Ordinary(Top, look), Consume \/ ConsumeWord
  PROVE  Inv'
<1>1. /\ Typed /\ Framed /\ stack # <<>>
      /\ Top.code # <<>> /\ Instruction.op \in {"need", "keep"} /\ Holds(Instruction.when)
  BY Innermost DEF Consume, ConsumeWord, At
<1>2. /\ IsSequence(Top.code) /\ IsSequence(Rest)
      /\ Instruction \in Running \/ look # EOF
  BY <1>1, ReadyParts DEF Ordinary, Instruction, Rest
<1>3. look # EOF
  <2>1. CASE Instruction \in Running
    <3>1. Instruction.when.holds = TRUE /\ EOF \notin Instruction.when.set
      BY <1>1, <2>1, RunningParts DEF Parted
    <3> QED  BY <1>1, <3>1 DEF Holds
  <2> QED  BY <1>2, <2>1
<1>4. PICK vals : parser_advance(vals)
  BY DEF Consume, ConsumeWord
<1>5. text' = Append(text, look) /\ look' \in Upcoming(Here + 1) /\ Goes(Rest, vals)
  BY <1>3, <1>4 DEF parser_advance
<1>6. Longer /\ Here' = Here + 1
  <2>1. look' \in Tokens
    BY <1>1, <1>5, UpcomingIn DEF Typed
  <2> QED  BY <1>1, <1>5, <2>1, TextGrows
<1>7. PICK rest : rest = Rest
  OBVIOUS
<1>8. <<>> \o rest = rest
  BY <1>2, <1>7, Joined
<1>9. Goes(<<>> \o Rest, vals)
  BY <1>5, <1>7, <1>8
<1>10. Ready(<<>>, look')
  BY NothingReady
<1>11. Working'
  BY <1>1, <1>9, <1>10, OrdinaryStays
<1> QED  BY <1>1, <1>2, <1>5, <1>6, <1>11, ReadingOn

LEMMA OrdinaryMakes ==
  ASSUME Inv, phase = "parsing", Ordinary(Top, look), make_ast
  PROVE  Inv'
<1>1. /\ Typed /\ Framed /\ stack # <<>> /\ Begun(Top.code, Here)
      /\ Top.code # <<>> /\ Instruction.op = "make"
  BY Innermost DEF make_ast, At
<1>2. /\ IsSequence(Top.code) /\ IsSequence(Rest) /\ Rest \in Seq(Running)
      /\ Instruction \in Running \/ Instruction \in Daring(Static)
  BY <1>1, ReadyParts DEF Ordinary, Instruction, Rest
<1>3. Instruction \in Makes
  <2>1. Advance.op # "make"
    BY DEF Advance
  <2> QED  BY <1>1, <1>2, <2>1, RunningParts, DaringParts DEF Parted
<1> DEFINE vals == <<Node(Instruction.kind, Top.vals)>>
<1>4. Goes(Rest, vals) /\ text' = text /\ look' = look /\ errors' = errors
  BY DEF make_ast
<1>5. LastOf(vals).node # "null"
  <2>1. Instruction.kind # "null"
    BY <1>3 DEF Makes, Kinds
  <2> QED  BY <2>1 DEF LastOf, Node
<1> HIDE DEF vals
<1>6. PICK rest : rest = Rest
  OBVIOUS
<1>7. PICK vs : vs = vals
  OBVIOUS
<1>8. Goes(rest, vs)
  BY <1>4, <1>6, <1>7
<1>9. Top'.rule = Top.rule /\ Top'.code = rest /\ Top'.vals = vs
  BY <1>1, <1>8, Replaced
<1>10. Top.rule \in Declarers /\ rest # <<>> => Closing(rest)
  BY <1>1, <1>2, <1>6, LastTail DEF Ordinary, Ends, Closing, Rest
<1>11. Working'
  <2>1. Ready(rest, look')
    BY <1>2, <1>6 DEF Ready, Fine
  <2>2. Ordinary(Top', look')
    BY <1>5, <1>7, <1>9, <1>10, <2>1 DEF Ordinary, Ends
  <2> QED  BY <2>2 DEF Working
<1>12. Longer /\ Here' = Here
  BY <1>1, <1>4 DEF Longer, Typed, Here
<1>13. Begun(rest, Here) /\ (Began(rest, Here) => Began(Top.code, Here))
  BY <1>1, <1>2, <1>6, BegunTail DEF Rest
<1>14. ~Quiet'
  <2> SUFFICES ASSUME Quiet' PROVE FALSE
    OBVIOUS
  <2>1. MovesOn
    BY <1>4, <1>8, <1>13, StillQuiet DEF Inv
  <2>2. Instruction # Call("statement_switch_case")
    BY <1>1 DEF Call
  <2> QED  BY <1>1, <2>1, <2>2, OrdinaryMoves, ChoosingIs DEF Instruction
<1> QED  BY <1>8, <1>11, <1>12, <1>13, <1>14, GoesKeeps

\* The code of a loop that begins another round.
LEMMA RoundBegins ==
  ASSUME NEW i \in Running, i.op = "while", NEW n \in Nat, NEW rest \in Seq(Running), Begun(rest, n),
         NEW t, t # EOF, NEW part,
         NEW again, again = [op |-> "while", when |-> i.when, body |-> i.body, since |-> n],
         part = i.body \o <<again>>
  PROVE  /\ Ready(part, t) /\ Begun(part \o rest, n)
         /\ ~Moving(part \o rest) => i.when = InSwitch
         /\ ~Moving(part \o rest) => part \o rest # <<>>
         /\ ~Moving(part \o rest) => Head(part \o rest) = Call("statement_switch_case")
<1>1. /\ i.when \in Stopping /\ i.body \in Led(Daring(Static), Static) /\ Driven(i.when, i.body)
  BY RunningParts DEF Parted
<1>3. again \in Running /\ again.op = "while" /\ again.since = n
  <2>1. again \in Whiles(Static, Nat)
    BY <1>1 DEF Whiles
  <2> QED  BY <2>1 DEF Running
<1> DEFINE one == <<again>>
<1>4. one \in Seq(Running) /\ IsSequence(one) /\ Begun(one, n)
  <2>1. one \in Seq(Running) /\ Len(one) = 1 /\ one[1] = again
    BY <1>3
  <2>2. n \in 0 .. n
    OBVIOUS
  <2>3. \A j \in 1 .. Len(one) : one[j] = again
    BY <2>1
  <2> QED  BY <1>3, <2>1, <2>2, <2>3 DEF Begun, IsSequence
<1> HIDE DEF one
<1>5. i.body \in Led(Daring(Static), Running) /\ IsSequence(i.body) /\ Begun(i.body, n)
  BY <1>1, RunningGrows, NotBegun
<1>6. IsSequence(rest)
  BY DEF IsSequence
<1> DEFINE body == i.body
<1>0. part = body \o one
  BY DEF one
<1>7. body \o one \in Led(Daring(Static), Running) /\ IsSequence(body \o one)
  BY <1>4, <1>5, LedJoined, Joined
<1>8. Begun(body \o one, n)
  BY <1>4, <1>5, BegunJoined
<1>9. Begun((body \o one) \o rest, n)
  <2> DEFINE bo == body \o one
  <2>1. IsSequence(bo) /\ Begun(bo, n)
    BY <1>7, <1>8
  <2> HIDE DEF bo
  <2>2. Begun(bo \o rest, n)
    BY <1>6, <2>1, BegunJoined
  <2> QED  BY <2>2 DEF bo
<1>10. Ready(body \o one, t)
  BY <1>7 DEF Ready, Bold
<1>11. CASE Moving(body)
  <2> DEFINE bo == body \o one
  <2>1. Moving(bo)
    BY <1>4, <1>5, <1>11, MovingJoined
  <2>2. bo \in Led(Daring(Static), Running)
    BY <1>7
  <2> HIDE DEF bo
  <2>3. Moving(bo \o rest)
    BY <1>6, <2>1, <2>2, MovingJoined
  <2> QED  BY <1>0, <1>9, <1>10, <2>3 DEF bo
<1>12. CASE i.when = InSwitch /\ body = Case
  <2>1. body # <<>> /\ Head(body) = Call("statement_switch_case")
    BY <1>12 DEF Case
  <2> DEFINE bo == body \o one
  <2>2. bo # <<>> /\ Head(bo) = Call("statement_switch_case") /\ IsSequence(bo)
    BY <1>4, <1>5, <1>7, <2>1, Joined
  <2> HIDE DEF bo
  <2>3. bo \o rest # <<>> /\ Head(bo \o rest) = Call("statement_switch_case")
    BY <1>6, <2>2, Joined
  <2> QED  BY <1>0, <1>9, <1>10, <1>12, <2>3 DEF bo
<1> QED  BY <1>1, <1>11, <1>12 DEF Driven

\* A loop of an ordinary call: a round begins with something that moves on, and
\* the loop is left by a case's labels, or by what was not going to go round.
LEMMA OrdinaryLoops ==
  ASSUME Inv, phase = "parsing", Ordinary(Top, look), Loop
  PROVE  Inv'
<1>1. /\ Typed /\ Framed /\ stack # <<>> /\ Begun(Top.code, Here)
      /\ Top.code # <<>> /\ Instruction.op = "while" /\ Here \in Nat
  BY Innermost DEF Loop, At
<1>2. /\ IsSequence(Top.code) /\ IsSequence(Rest) /\ Rest \in Seq(Running)
      /\ Instruction \in Running
  <2>1. Advance.op # "while"
    BY DEF Advance
  <2> QED  BY <1>1, <2>1, ReadyParts, DaringParts DEF Ordinary, Instruction, Rest
<1>3. Begun(Rest, Here) /\ (Began(Rest, Here) => Began(Top.code, Here))
  BY <1>1, <1>2, BegunTail DEF Rest
<1>4. text' = text /\ look' = look /\ errors' = errors
  BY DEF Loop
<1>5. Longer /\ Here' = Here
  BY <1>1, <1>4 DEF Longer, Typed, Here
<1>6. CASE Holds(Instruction.when)
  <2>1. PICK part : part = Instruction.body \o <<[Instruction EXCEPT !.since = Here]>>
    OBVIOUS
  <2>2. PICK vals : vals = Top.vals
    OBVIOUS
  <2>3. Goes(part \o Rest, vals)
    BY <1>6, <2>1, <2>2 DEF Loop
  <2>4. look # EOF
    BY <1>2, <1>1, <1>6, RunningParts, StopsAtEnd DEF Parted
  <2>5. /\ Ready(part, look) /\ Begun(part \o Rest, Here)
        /\ ~Moving(part \o Rest) => Instruction.when = InSwitch
        /\ ~Moving(part \o Rest) => part \o Rest # <<>>
        /\ ~Moving(part \o Rest) => Head(part \o Rest) = Call("statement_switch_case")
    <3>1. PICK i : i = Instruction
      OBVIOUS
    <3>2. PICK rest : rest = Rest
      OBVIOUS
    <3>3. PICK n : n = Here
      OBVIOUS
    <3>4. i \in Running /\ i.op = "while" /\ n \in Nat /\ rest \in Seq(Running) /\ Begun(rest, n)
      BY <1>1, <1>2, <1>3, <3>1, <3>2, <3>3
    <3>6. PICK again : again = [i EXCEPT !.since = n]
      OBVIOUS
    <3>7. part = i.body \o <<again>>
      BY <2>1, <3>1, <3>3, <3>6
    <3>8. again = [op |-> "while", when |-> i.when, body |-> i.body, since |-> n]
      <4>1. i = [op |-> "while", when |-> i.when, body |-> i.body, since |-> i.since]
        BY <3>4, RunningParts DEF Parted
      <4> QED  BY <3>6, <4>1
    <3>5. /\ Ready(part, look) /\ Begun(part \o rest, n)
          /\ ~Moving(part \o rest) => i.when = InSwitch
          /\ ~Moving(part \o rest) => part \o rest # <<>>
          /\ ~Moving(part \o rest) => Head(part \o rest) = Call("statement_switch_case")
      <4>1. PICK t : t = look
        OBVIOUS
      <4>2. /\ i \in Running /\ i.op = "while" /\ n \in Nat /\ rest \in Seq(Running) /\ Begun(rest, n)
            /\ again = [op |-> "while", when |-> i.when, body |-> i.body, since |-> n]
            /\ part = i.body \o <<again>> /\ t # EOF
        BY <2>4, <3>4, <3>7, <3>8, <4>1
      <4>3. Ready(part, t)
        BY <4>2, RoundBegins
      <4>4. Begun(part \o rest, n)
        BY <4>2, RoundBegins
      <4>5. ~Moving(part \o rest) => i.when = InSwitch
        BY <4>2, RoundBegins
      <4>6. ~Moving(part \o rest) => part \o rest # <<>>
        BY <4>2, RoundBegins
      <4>7. ~Moving(part \o rest) => Head(part \o rest) = Call("statement_switch_case")
        BY <4>2, RoundBegins
      <4> QED  BY <4>1, <4>3, <4>4, <4>5, <4>6, <4>7
    <3> QED  BY <3>1, <3>2, <3>3, <3>5
  <2>6. Ready(part, look')
    BY <1>4, <2>5
  <2>7. Working' /\ Top'.code = part \o Rest
    BY <1>1, <2>3, <2>6, OrdinaryStays
  <2>8. MovesOn'
    <3>1. CASE Moving(part \o Rest)
      <4>1. Moving(Top'.code)
        BY <2>7, <3>1
      <4> QED  BY <4>1 DEF MovesOn
    <3>2. CASE ~Moving(part \o Rest)
      <4>1. look \notin {"}", EOF}
        BY <1>6, <2>5, <3>2, HoldsIs DEF InSwitch
      <4>2. look' \notin {"}", EOF} /\ Top'.code # <<>>
            /\ Head(Top'.code) = Call("statement_switch_case")
        BY <1>4, <2>5, <2>7, <3>2, <4>1
      <4> QED  BY <4>2 DEF MovesOn
    <3> QED  BY <2>5, <3>1, <3>2
  <2>9. PICK code : code = part \o Rest
    OBVIOUS
  <2> QED  BY <1>5, <2>3, <2>5, <2>7, <2>8, <2>9, GoesKeeps
<1>7. CASE ~Holds(Instruction.when)
  <2>1. PICK rest : rest = Rest
    OBVIOUS
  <2>2. PICK vals : vals = Top.vals
    OBVIOUS
  <2>3. Goes(rest, vals)
    BY <1>7, <2>1, <2>2 DEF Loop
  <2>4. <<>> \o rest = rest
    BY <1>2, <2>1, Joined
  <2>5. Goes(<<>> \o Rest, vals)
    BY <2>1, <2>3, <2>4
  <2>6. Ready(<<>>, look')
    BY NothingReady
  <2>7. Working' /\ Top'.code = <<>> \o Rest
    BY <1>1, <2>5, <2>6, OrdinaryStays
  <2>8. ASSUME Quiet'
        PROVE  MovesOn'
    <3>1. Quiet
      BY <1>3, <1>4, <2>1, <2>3, <2>8, StillQuiet
    <3>2. Choosing
      <4>1. MovesOn
        BY <3>1 DEF Inv
      <4>2. Instruction # Call("statement_switch_case")
        BY <1>1 DEF Call
      <4> QED  BY <1>1, <4>1, <4>2, OrdinaryMoves DEF Instruction
    <3>3. /\ Instruction.when = In({"case"})
          /\ look # "case" => Rest = Tail(statement_switch_case)
      BY <1>1, <1>7, <3>2, ChoosingIs DEF Instruction, Rest
    <3>4. look # "case" /\ rest = Tail(statement_switch_case)
      BY <1>7, <2>1, <3>3, HoldsIs
    <3>5. Top'.rule = Top.rule
      BY <1>1, <2>3, Replaced
    <3>6. Top'.rule = "statement_switch_case" /\ look' \notin {"}", EOF} /\ look' # "case"
          /\ Top'.code = Tail(statement_switch_case)
      BY <1>4, <2>1, <2>4, <2>7, <3>2, <3>4, <3>5 DEF Choosing
    <3>7. Choosing'
      BY <3>6 DEF Choosing
    <3> QED  BY <3>7 DEF MovesOn
  <2>9. Begun(rest, Here')
    BY <1>3, <1>5, <2>1
  <2> QED  BY <1>5, <2>3, <2>7, <2>8, <2>9, GoesKeeps
<1> QED  BY <1>6, <1>7

\* A call that goes on with a part of the instruction it is at.
LEMMA OrdinaryTurns ==
  ASSUME Inv, phase = "parsing", Ordinary(Top, look), Top.code # <<>>, Instruction.op # "make",
         text' = text, look' = look, errors' = errors,
         NEW part, part \in Seq(Static) \/ part \in Led(Daring(Static), Static), Ready(part, look),
         NEW vals, Goes(part \o Rest, vals), MovesOn => MovesOn'
  PROVE  Inv'
<1>1. /\ Typed /\ Framed /\ stack # <<>> /\ Begun(Top.code, Here) /\ Here \in Nat /\ Here > 0
  BY Innermost
<1>2. /\ IsSequence(Top.code) /\ IsSequence(Rest) /\ IsSequence(part)
  BY <1>1, ReadyParts DEF Ordinary, Rest
<1>3. Begun(Rest, Here) /\ (Began(Rest, Here) => Began(Top.code, Here))
  BY <1>1, <1>2, BegunTail DEF Rest
<1>4. Begun(part, Here) /\ ~Began(part, Here)
  <2>1. PICK n : n = Here - 1
    OBVIOUS
  <2>2. n \in Nat /\ n + 1 = Here
    BY <1>1, <2>1
  <2>3. ~Began(part, n + 1)
    BY <2>2, NotBegun
  <2>4. Begun(part, Here)
    BY <1>1, NotBegun
  <2> QED  BY <2>2, <2>3, <2>4
<1>5. PICK code : code = part \o Rest
  OBVIOUS
<1>6. Begun(code, Here) /\ (Began(code, Here) => Began(Top.code, Here))
  <2>1. PICK rest : rest = Rest
    OBVIOUS
  <2>2. PICK n : n = Here
    OBVIOUS
  <2>3. IsSequence(part) /\ IsSequence(rest) /\ Begun(part, n) /\ Begun(rest, n)
    BY <1>2, <1>3, <1>4, <2>1, <2>2
  <2>4. Begun(part \o rest, n)
    BY <2>3, BegunJoined
  <2>5. Began(part \o rest, n) => Began(part, n) \/ Began(rest, n)
    BY <2>3, BegunJoined
  <2> QED  BY <1>3, <1>4, <1>5, <2>1, <2>2, <2>4, <2>5
<1>7. Goes(code, vals)
  BY <1>5
<1>8. Longer /\ Here' = Here
  BY <1>1 DEF Longer, Typed, Here
<1>9. Working'
  <2>1. Ready(part, look')
    OBVIOUS
  <2> QED  BY <1>1, <2>1, OrdinaryStays
<1>10. ASSUME Quiet' PROVE MovesOn'
  <2>1. Quiet
    BY <1>6, <1>7, <1>10, StillQuiet
  <2> QED  BY <2>1 DEF Inv
<1> QED  BY <1>6, <1>7, <1>8, <1>9, <1>10, GoesKeeps

\* What a case of a switch does is ready to be done if its condition holds.
LEMMA CaseReady ==
  ASSUME NEW i, i \in Running \/ (i \in Daring(Static) /\ look # EOF), i.op = "switch",
         NEW k \in DOMAIN i.cases, Holds(i.cases[k].when)
  PROVE  /\ \/ i.cases[k].code \in Seq(Static)
            \/ i.cases[k].code \in Led(Daring(Static), Static)
         /\ Ready(i.cases[k].code, look)
<1> DEFINE c == i.cases[k].code
<1>1. CASE i \in Running
  <2>1. CASE c \in Seq(Static)
    BY <2>1, RunningGrows DEF Ready, Fine
  <2>2. CASE i.cases[k].when \in Stopping /\ c \in Led(Daring(Static), Static)
    <3>1. look # EOF
      BY <2>2, StopsAtEnd
    <3> QED  BY <2>2, <3>1, RunningGrows DEF Ready, Bold
  <2> QED  BY <1>1, <2>1, <2>2, RunningParts DEF Parted
<1>2. CASE i \in Daring(Static) /\ look # EOF
  <2>1. c \in Led({Advance}, Static)
    <3>1. Advance.op # "switch"
      BY DEF Advance
    <3> QED  BY <1>2, <3>1, DaringParts
  <2>2. Led({Advance}, Static) \subseteq Led(Daring(Static), Static)
    <3>1. {Advance} \subseteq Daring(Static)
      BY DEF Daring
    <3> QED  BY <3>1, LedGrows
  <2> QED  BY <1>2, <2>1, <2>2, RunningGrows DEF Ready, Bold
<1> QED  BY <1>1, <1>2

LEMMA OrdinaryBranches ==
  ASSUME Inv, phase = "parsing", Ordinary(Top, look), Branch
  PROVE  Inv'
<1>1. /\ Typed /\ Framed /\ stack # <<>>
      /\ Top.code # <<>> /\ Instruction.op = "switch"
  BY Innermost DEF Branch, At
<1>2. /\ IsSequence(Top.code) /\ IsSequence(Rest)
      /\ Instruction \in Running \/ (Instruction \in Daring(Static) /\ look # EOF)
  BY <1>1, ReadyParts DEF Ordinary, Instruction, Rest
<1>3. PICK k \in DOMAIN Instruction.cases :
        /\ Holds(Instruction.cases[k].when)
        /\ \A j \in 1 .. k - 1 : ~Holds(Instruction.cases[j].when)
        /\ Goes(Instruction.cases[k].code \o Rest, Top.vals)
  BY DEF Branch
<1>4. PICK part : part = Instruction.cases[k].code
  OBVIOUS
<1>5. PICK vals : vals = Top.vals
  OBVIOUS
<1>6. Goes(part \o Rest, vals)
  BY <1>3, <1>4, <1>5
<1>7. text' = text /\ look' = look /\ errors' = errors
  BY DEF Branch
<1>8. (part \in Seq(Static) \/ part \in Led(Daring(Static), Static)) /\ Ready(part, look)
  BY <1>1, <1>2, <1>3, <1>4, CaseReady
<1>9. IsSequence(part)
  BY <1>8, ReadyParts
<1>10. PICK rest : rest = Rest
  OBVIOUS
<1>11. Top'.rule = Top.rule /\ Top'.code = part \o rest
  <2>1. Goes(part \o rest, vals)
    BY <1>6, <1>10
  <2> QED  BY <1>1, <2>1, Replaced
<1>12. ASSUME MovesOn PROVE MovesOn'
  <2>1. Instruction # Call("statement_switch_case")
    BY <1>1 DEF Call
  <2>2. CASE Moving(Top.code)
    <3>1. Leads(part \o rest)
      BY <1>1, <1>3, <1>4, <1>10, <2>2 DEF Moving, Leads, MovesAtOnce, Instruction, Rest
    <3>2. Moving(Top'.code)
      BY <1>11, <3>1 DEF Moving
    <3> QED  BY <3>2 DEF MovesOn
  <2>3. CASE Choosing
    <3>1. /\ Rest = Tail(Tail(statement_switch_case)) /\ look # "case"
          /\ \E e : /\ Instruction.cases = <<On({"default"}, e), Otherwise(<<>>)>>
                    /\ Leads(e) /\ IsSequence(e)
      BY <1>1, <2>3, ChoosingIs DEF Instruction, Rest
    <3>2. PICK e : /\ Instruction.cases = <<On({"default"}, e), Otherwise(<<>>)>>
                   /\ Leads(e) /\ IsSequence(e)
      BY <3>1
    <3>3. k \in {1, 2}
      BY <1>3, <3>2
    <3>4. CASE k = 1
      <4>1. part = e
        BY <1>4, <3>2, <3>4 DEF On
      <4>2. part \o rest # <<>> /\ Head(part \o rest) = Head(part)
        BY <1>2, <1>9, <1>10, <3>2, <4>1, Joined DEF Leads
      <4>3. Leads(part \o rest)
        BY <3>2, <4>1, <4>2 DEF Leads
      <4>4. Moving(Top'.code)
        BY <1>11, <4>3 DEF Moving
      <4> QED  BY <4>4 DEF MovesOn
    <3>5. CASE k = 2
      <4>1. part = <<>>
        BY <1>4, <3>2, <3>5 DEF Otherwise
      <4>2. part \o rest = rest
        BY <1>2, <1>10, <4>1, Joined
      <4>3. look # "default"
        <5>1. 1 \in 1 .. k - 1
          BY <3>5
        <5>2. ~Holds(Instruction.cases[1].when)
          BY <1>3, <5>1
        <5>3. Instruction.cases[1].when = In({"default"})
          BY <3>2 DEF On
        <5> QED  BY <5>2, <5>3, HoldsIs
      <4>4. Top'.rule = "statement_switch_case" /\ look' \notin {"}", EOF}
            /\ look' \notin {"case", "default"} /\ Top'.code = Tail(Tail(statement_switch_case))
        BY <1>7, <1>10, <1>11, <2>3, <3>1, <4>2, <4>3 DEF Choosing
      <4>5. Choosing'
        BY <4>4 DEF Choosing
      <4> QED  BY <4>5 DEF MovesOn
    <3> QED  BY <3>3, <3>4, <3>5
  <2> QED  BY <1>1, <1>12, <2>1, <2>2, <2>3, OrdinaryMoves DEF Instruction
<1>13. Instruction.op # "make"
  BY <1>1
<1> QED  BY <1>1, <1>6, <1>7, <1>8, <1>12, <1>13, OrdinaryTurns

LEMMA OrdinaryBranchesOnLast ==
  ASSUME Inv, phase = "parsing", Ordinary(Top, look), BranchOnLast
  PROVE  Inv'
<1>1. /\ Typed /\ Framed /\ stack # <<>>
      /\ Top.code # <<>> /\ Instruction.op = "last"
  BY Innermost DEF BranchOnLast, At
<1>2. Instruction \in Running
  <2>1. Advance.op # "last"
    BY DEF Advance
  <2> QED  BY <1>1, <2>1, ReadyParts, DaringParts DEF Ordinary, Instruction
<1>3. PICK part : part = IF LastOf(Top.vals).node \in Instruction.kinds
                           THEN Instruction.then ELSE Instruction.else
  OBVIOUS
<1>4. PICK vals : vals = Top.vals
  OBVIOUS
<1>5. Goes(part \o Rest, vals) /\ text' = text /\ look' = look /\ errors' = errors
  BY <1>3, <1>4 DEF BranchOnLast
<1>6. part \in Seq(Static)
  BY <1>1, <1>2, <1>3, RunningParts DEF Parted
<1>7. Ready(part, look)
  BY <1>6, RunningGrows DEF Ready, Fine
<1>8. ~MovesOn
  <2>1. Instruction # Call("statement_switch_case")
    BY <1>1 DEF Call
  <2> QED  BY <1>1, <2>1, OrdinaryMoves, ChoosingIs DEF Instruction
<1>9. Instruction.op # "make"
  BY <1>1
<1> QED  BY <1>1, <1>5, <1>6, <1>7, <1>8, <1>9, OrdinaryTurns

\* The nodes of an ordinary call stay what they are, and only it can crash.
LEMMA OrdinaryNever ==
  ASSUME Inv, phase = "parsing", Ordinary(Top, look)
  PROVE  ~DropLast /\ ~Report
<1> SUFFICES ASSUME DropLast \/ Report PROVE FALSE
  OBVIOUS
<1>1. Top.code # <<>> /\ Instruction.op \in {"drop", "report"}
  BY DEF DropLast, Report, At
<1>2. Advance.op = "need"
  BY DEF Advance
<1> QED  BY <1>1, <1>2, ReadyParts, RunningParts, DaringParts DEF Ordinary, Instruction, Parted

\* A parse that ends without a result leaves nothing to be broken.
LEMMA StopsKeep ==
  ASSUME Inv, phase = "parsing", Overflow \/ PushOnNull
  PROVE  Inv'
<1>1. PICK how \in {"overflow", "crashed"} : End(how)
  BY DEF Overflow, PushOnNull
<1>2. text' = text /\ look' = look
  BY DEF Overflow, PushOnNull
<1>3. text' \in Seq(Tokens) /\ look' \in Tokens
  BY <1>2, Innermost DEF Typed
<1>4. CursorInside'
  BY <1>1 DEF CursorInside, End
<1>5. how # "parsing"
  OBVIOUS
<1> QED  BY <1>1, <1>3, <1>4, <1>5, EndKeeps

\* The stack after a call.
LEMMA Entered ==
  ASSUME Inv, phase = "parsing", Enter
  PROVE  /\ Len(stack') = Len(stack) + 1 /\ stack' # <<>> /\ IsSequence(stack')
         /\ \A k \in 1 .. Len(stack) - 1 : stack'[k] = stack[k]
         /\ stack'[Len(stack)].rule = Top.rule /\ stack'[Len(stack)].code = Rest
         /\ stack'[Len(stack)].vals = SubSeq(Top.vals, 1, Len(Top.vals) - Instruction.given)
         /\ IsFrame(stack'[Len(stack)])
         /\ Top' = stack'[Len(stack) + 1] /\ IsFrame(Top')
         /\ Top'.rule = Instruction.rule /\ Top'.code = Code[Instruction.rule]
         /\ Top'.vals = SubSeq(Top.vals, Len(Top.vals) - Instruction.given + 1, Len(Top.vals))
<1> DEFINE vals == Top.vals
           n == Len(vals) - Instruction.given
           g == [Top EXCEPT !.code = Rest, !.vals = SubSeq(vals, 1, n)]
           h == Frame(Instruction.rule, SubSeq(vals, n + 1, Len(vals)))
<1>1. /\ Len(stack) \in Nat /\ Len(stack) > 0 /\ IsSequence(Callers) /\ Len(Callers) = Len(stack) - 1
      /\ \A k \in 1 .. Len(stack) - 1 : Callers[k] = stack[k]
      /\ IsFrame(Top)
  BY Innermost, StackFacts DEF Framed, Callers
<1>2. IsFrame(g) /\ g.rule = Top.rule /\ g.code = Rest /\ g.vals = SubSeq(vals, 1, n)
  <2>1. PICK f : f = Top
    OBVIOUS
  <2>2. PICK code : code = Rest
    OBVIOUS
  <2>3. PICK vs : vs = SubSeq(vals, 1, n)
    OBVIOUS
  <2> DEFINE e == [f EXCEPT !.code = code, !.vals = vs]
  <2>4. IsFrame(e) /\ e.rule = f.rule /\ e.code = code /\ e.vals = vs
    BY <1>1, <2>1 DEF IsFrame
  <2>5. g = e
    BY <2>1, <2>2, <2>3
  <2> HIDE DEF g, e
  <2> QED  BY <2>1, <2>2, <2>3, <2>4, <2>5
<1>3. /\ IsFrame(h) /\ h.rule = Instruction.rule /\ h.code = Code[Instruction.rule]
      /\ h.vals = SubSeq(vals, n + 1, Len(vals))
  BY DEF Frame, IsFrame
<1>4. stack' = Append(Append(Callers, g), h)
  BY DEF Enter
<1> HIDE DEF g, h
<1> DEFINE lower == Append(Callers, g)
<1>5. /\ IsSequence(lower) /\ Len(lower) = Len(stack) /\ lower[Len(stack)] = g
      /\ \A k \in 1 .. Len(stack) - 1 : lower[k] = stack[k]
  <2>1. /\ IsSequence(lower) /\ Len(lower) = Len(Callers) + 1
        /\ \A k \in 1 .. Len(Callers) : lower[k] = Callers[k]
        /\ lower[Len(Callers) + 1] = g
    BY <1>1, AppendFacts
  <2> HIDE DEF lower
  <2> QED  BY <1>1, <2>1
<1>6. stack' = Append(lower, h)
  BY <1>4
<1> HIDE DEF lower
<1>7. /\ IsSequence(stack') /\ Len(stack') = Len(stack) + 1 /\ stack' # <<>>
      /\ \A k \in 1 .. Len(stack) : stack'[k] = lower[k]
      /\ stack'[Len(stack) + 1] = h
  BY <1>5, <1>6, AppendFacts
<1>8. stack'[Len(stack)] = g /\ \A k \in 1 .. Len(stack) - 1 : stack'[k] = stack[k]
  BY <1>1, <1>5, <1>7
<1>9. Top' = h /\ Top' = stack'[Len(stack) + 1]
  BY <1>7 DEF Top
<1> QED  BY <1>2, <1>3, <1>7, <1>8, <1>9

\* A call keeps the invariant if the caller waits for it and it is what a call can be.
LEMMA EnterKeeps ==
  ASSUME Inv, phase = "parsing", Enter, IsSequence(Top.code),
         Waiting(stack'[Len(stack)], Here), Calls(stack'[Len(stack)], stack'[Len(stack) + 1]),
         Begun(Code[Instruction.rule], Here), ~Began(Code[Instruction.rule], Here),
         Working', MovesOn => MovesOn'
  PROVE  Inv'
<1>1. /\ Typed /\ Framed /\ Chained /\ stack # <<>> /\ Top.code # <<>>
      /\ Len(stack) \in Nat /\ Len(stack) > 0 /\ Begun(Top.code, Here)
  BY Innermost DEF Enter, At
<1>2. /\ Len(stack') = Len(stack) + 1 /\ stack' # <<>> /\ IsSequence(stack')
      /\ \A k \in 1 .. Len(stack) - 1 : stack'[k] = stack[k]
      /\ stack'[Len(stack)].rule = Top.rule /\ stack'[Len(stack)].code = Rest
      /\ IsFrame(stack'[Len(stack)])
      /\ Top' = stack'[Len(stack) + 1] /\ IsFrame(Top')
      /\ Top'.code = Code[Instruction.rule]
  BY Entered
<1>3. /\ job' = job /\ text' = text /\ look' = look /\ errors' = errors /\ phase' = phase
      /\ Here' = Here
  BY DEF Enter, Here
<1>4. Begun(Rest, Here) /\ (Began(Rest, Here) => Began(Top.code, Here))
  BY <1>1, BegunTail DEF Rest
<1>5. Typed' /\ CursorInside'
  <2>1. Typed'
    BY <1>1, <1>3 DEF Typed
  <2>2. CursorInside'
    BY <1>3 DEF CursorInside
  <2> QED  BY <2>1, <2>2
<1>6. Framed'
  <2>1. ASSUME NEW k \in 1 .. Len(stack')
        PROVE  IsFrame(stack'[k]) /\ Begun(stack'[k].code, Here)
    <3>1. CASE k = Len(stack) + 1
      BY <1>2, <3>1
    <3>2. CASE k = Len(stack)
      BY <1>2, <1>4, <3>2
    <3>3. CASE k # Len(stack) /\ k # Len(stack) + 1
      <4>1. k \in 1 .. Len(stack) - 1 /\ k \in 1 .. Len(stack)
        BY <1>1, <1>2, <3>3
      <4> QED  BY <1>1, <1>2, <4>1 DEF Framed
    <3> QED  BY <3>1, <3>2, <3>3
  <2> QED  BY <1>2, <1>3, <2>1 DEF Framed
<1>7. Chained'
  <2>1. ASSUME NEW k \in 1 .. Len(stack') - 1
        PROVE  Waiting(stack'[k], Here) /\ Calls(stack'[k], stack'[k + 1])
    <3>1. CASE k = Len(stack)
      BY <3>1
    <3>2. CASE k # Len(stack)
      <4>1. k \in 1 .. Len(stack) - 1
        BY <1>1, <1>2, <3>2
      <4>2. Waiting(stack[k], Here) /\ Calls(stack[k], stack[k + 1]) /\ stack'[k] = stack[k]
        BY <1>1, <1>2, <4>1 DEF Chained
      <4>3. stack'[k + 1].rule = stack[k + 1].rule
        <5>1. CASE k + 1 = Len(stack)
          BY <1>2, <5>1 DEF Top
        <5>2. CASE k + 1 # Len(stack)
          <6>1. k + 1 \in 1 .. Len(stack) - 1
            BY <1>1, <4>1, <5>2
          <6> QED  BY <1>2, <6>1
        <5> QED  BY <5>1, <5>2
      <4> QED  BY <4>2, <4>3 DEF Calls
    <3> QED  BY <3>1, <3>2
  <2> QED  BY <1>3, <2>1 DEF Chained
<1>8. ASSUME Quiet' PROVE MovesOn'
  <2>1. PICK k \in 1 .. Len(stack) + 1 : Began(stack'[k].code, Here)
    BY <1>2, <1>3, <1>8 DEF Quiet
  <2>2. k # Len(stack) + 1
    BY <1>2, <2>1
  <2>3. k \in 1 .. Len(stack)
    BY <1>1, <2>2
  <2>4. Began(stack[k].code, Here)
    <3>1. CASE k = Len(stack)
      BY <1>2, <1>4, <2>1, <3>1 DEF Top
    <3>2. CASE k # Len(stack)
      <4>1. k \in 1 .. Len(stack) - 1
        BY <1>1, <2>3, <3>2
      <4> QED  BY <1>2, <2>1, <4>1
    <3> QED  BY <3>1, <3>2
  <2>5. Here \notin errors
    BY <1>3, <1>8 DEF Quiet
  <2>6. Quiet
    BY <2>3, <2>4, <2>5 DEF Quiet
  <2> QED  BY <2>6 DEF Inv
<1> QED  BY <1>2, <1>3, <1>5, <1>6, <1>7, <1>8 DEF Inv

LEMMA OrdinaryEnters ==
  ASSUME Inv, phase = "parsing", Ordinary(Top, look), Enter
  PROVE  Inv'
<1>1. /\ Typed /\ Framed /\ stack # <<>> /\ Here \in Nat /\ Here > 0
      /\ Top.code # <<>> /\ Instruction.op = "call"
  BY Innermost DEF Enter, At
<1>2. /\ IsSequence(Top.code) /\ IsSequence(Rest) /\ Rest \in Seq(Running)
      /\ Instruction \in Running \/ (Instruction \in Daring(Static) /\ look # EOF)
  BY <1>1, ReadyParts DEF Ordinary, Instruction, Rest
<1>3. PICK r : r = Instruction.rule
  OBVIOUS
<1>4. r \in Anywhere \/ (r \in InFront /\ look # EOF)
  <2>1. Advance.op # "call"
    BY DEF Advance
  <2> QED  BY <1>1, <1>2, <1>3, <2>1, RunningParts, DaringParts DEF Parted
<1>5. r \in DOMAIN Code /\ r \notin Declarers \cup {"program", "declaration"}
  <2>1. InFront \subseteq DOMAIN Code
    BY Rules DEF InFront
  <2>2. \A x \in InFront : x \notin Declarers \cup {"program", "declaration"}
    BY DEF InFront, Declarers
  <2> QED  BY <1>4, <2>1, <2>2 DEF Anywhere
<1>6. \/ Code[r] \in Seq(Static)
      \/ Code[r] \in Led(Daring(Static), Static) /\ look # EOF
  BY <1>4, CodeFine DEF Anywhere, Declarers
<1>7. Ready(Code[r], look)
  BY <1>6, RunningGrows DEF Ready, Fine, Bold
<1>8. Begun(Code[r], Here) /\ ~Began(Code[r], Here)
  <2>1. PICK n : n = Here - 1
    OBVIOUS
  <2>2. n \in Nat /\ n + 1 = Here
    BY <1>1, <2>1
  <2>3. ~Began(Code[r], n + 1)
    BY <1>6, <2>2, NotBegun
  <2>4. Begun(Code[r], Here)
    BY <1>1, <1>6, NotBegun
  <2> QED  BY <2>2, <2>3, <2>4
<1>9. PICK g : g = stack'[Len(stack)]
  OBVIOUS
<1>10. PICK h : h = stack'[Len(stack) + 1]
  OBVIOUS
<1>11. /\ g.rule = Top.rule /\ g.code = Rest
       /\ h.rule = r /\ h.code = Code[r] /\ Top' = h
  BY <1>3, <1>9, <1>10, Entered
<1>12. Top.rule \in Declarers => Closing(Rest)
  <2>1. PICK f : f = Top
    OBVIOUS
  <2>2. PICK t : t = look
    OBVIOUS
  <2>3. Ordinary(f, t) /\ f.code # <<>> /\ Head(f.code).op # "make" /\ Ready(<<>>, t)
    BY <1>1, <2>1, <2>2, NothingReady DEF Instruction
  <2>4. f.rule \in Declarers => Closing(Tail(f.code))
    BY <2>3, OrdinaryGoesOn
  <2> QED  BY <2>1, <2>4 DEF Rest
<1>13. Waiting(g, Here)
  BY <1>2, <1>11, <1>12 DEF Waiting, Fine, Ordinary
<1>14. Calls(g, h)
  BY <1>5, <1>11 DEF Calls, Ordinary
<1>15. look' = look
  BY DEF Enter
<1>16. Ordinary(h, look')
  BY <1>5, <1>7, <1>11, <1>15 DEF Ordinary
<1>17. Working'
  BY <1>11, <1>16 DEF Working
<1>18. ASSUME MovesOn PROVE MovesOn'
  <2>1. CASE Moving(Top.code)
    <3>1. r \in Movers
      BY <1>1, <1>3, <2>1 DEF Moving, Leads, MovesAtOnce, Instruction
    <3>2. Moving(Code[r])
      BY <3>1, CodeMoves
    <3>3. Moving(Top'.code)
      BY <1>11, <3>2
    <3> QED  BY <3>3 DEF MovesOn
  <2>2. CASE look \notin {"}", EOF} /\ Instruction = Call("statement_switch_case")
    <3>1. r = "statement_switch_case"
      BY <1>3, <2>2 DEF Call
    <3>2. Top'.rule = "statement_switch_case" /\ look' \notin {"}", EOF}
          /\ Top'.code = statement_switch_case
      BY <1>11, <1>15, <2>2, <3>1, CodeIs
    <3>3. Choosing'
      BY <3>2 DEF Choosing
    <3> QED  BY <3>3 DEF MovesOn
  <2> QED  BY <1>1, <1>18, <2>1, <2>2, OrdinaryMoves, ChoosingIs DEF Instruction
<1>19. /\ Waiting(stack'[Len(stack)], Here) /\ Calls(stack'[Len(stack)], stack'[Len(stack) + 1])
       /\ Begun(Code[Instruction.rule], Here) /\ ~Began(Code[Instruction.rule], Here)
  BY <1>3, <1>8, <1>9, <1>10, <1>13, <1>14
<1> QED  BY <1>2, <1>17, <1>18, <1>19, EnterKeeps

LEMMA LastWith ==
  ASSUME NEW vals, IsSequence(vals), NEW v
  PROVE  IsSequence(With(vals, v)) /\ LastOf(With(vals, v)) = v
<1>1. IsSequence(Append(vals, v)) /\ LastOf(Append(vals, v)) = v
  BY AppendFacts DEF LastOf
<1> QED  BY <1>1 DEF With

\* The stack after a return to a caller.
LEMMA Returned ==
  ASSUME Inv, phase = "parsing", NEW tree, Return(tree), Len(stack) # 1
  PROVE  /\ Len(stack) - 1 \in 1 .. Len(stack) /\ Len(stack) - 1 \in Nat
         /\ Len(stack') = Len(stack) - 1 /\ stack' # <<>> /\ IsSequence(stack')
         /\ \A k \in 1 .. Len(stack) - 2 : stack'[k] = stack[k]
         /\ Top' = stack'[Len(stack) - 1] /\ IsFrame(Top')
         /\ Top'.rule = stack[Len(stack) - 1].rule /\ Top'.code = stack[Len(stack) - 1].code
         /\ Top'.vals = With(stack[Len(stack) - 1].vals, tree)
         /\ phase' = phase /\ job' = job
<1>1. /\ Len(stack) \in Nat /\ Len(stack) > 0 /\ IsSequence(Callers) /\ Len(Callers) = Len(stack) - 1
      /\ \A k \in 1 .. Len(stack) - 1 : Callers[k] = stack[k]
      /\ Callers # <<>>
  BY Innermost, StackFacts DEF Framed, Callers
<1>2. PICK m : m = Len(Callers)
  OBVIOUS
<1>3. PICK S : Callers \in Seq(S)
  BY <1>1 DEF IsSequence
<1>4. m \in 1 .. m /\ m \in Nat /\ m = Len(stack) - 1 /\ m \in 1 .. Len(stack)
  BY <1>1, <1>2
<1>5. PICK f : f = Callers[m]
  OBVIOUS
<1>6. PICK v : v = With(f.vals, tree)
  OBVIOUS
<1> DEFINE g == [f EXCEPT !.vals = v]
<1>7. IsFrame(g) /\ g.rule = f.rule /\ g.code = f.code /\ g.vals = v
  <2>1. IsFrame(f)
    <3>1. f = stack[m]
      BY <1>1, <1>4, <1>5
    <3> QED  BY <1>4, <3>1, Innermost DEF Framed
  <2> QED  BY <2>1 DEF IsFrame
<1>8. /\ stack' = [Callers EXCEPT ![m] = g] /\ phase' = phase /\ job' = job
  <2>1. stack' = [Callers EXCEPT ![m].vals = With(@, tree)] /\ phase' = phase /\ job' = job
    BY <1>1, <1>2 DEF Return
  <2>2. [Callers EXCEPT ![m].vals = With(@, tree)] = [Callers EXCEPT ![m] = g]
    BY <1>5, <1>6
  <2> QED  BY <2>1, <2>2
<1> HIDE DEF g
<1>9. /\ stack' \in Seq(S \cup {g}) /\ Len(stack') = m /\ stack'[m] = g
      /\ \A k \in 1 .. m - 1 : stack'[k] = Callers[k]
  <2>1. Callers \in Seq(S \cup {g}) /\ Len(Callers) = m
    BY <1>2, <1>3
  <2> QED  BY <1>4, <1>8, <2>1
<1>10. \A k \in 1 .. Len(stack) - 2 : stack'[k] = stack[k]
  BY <1>1, <1>4, <1>9
<1>11. IsSequence(stack') /\ Len(stack') = Len(stack) - 1 /\ stack' # <<>>
  BY <1>4, <1>9 DEF IsSequence
<1>12. Top' = g
  BY <1>4, <1>9 DEF Top
<1>13. f = stack[Len(stack) - 1]
  BY <1>1, <1>4, <1>5
<1> QED  BY <1>4, <1>6, <1>7, <1>8, <1>9, <1>10, <1>11, <1>12, <1>13

\* Who is called by whom.
LEMMA Called ==
  ASSUME Inv, phase = "parsing", Len(stack) # 1
  PROVE  /\ Waiting(stack[Len(stack) - 1], Here) /\ Calls(stack[Len(stack) - 1], Top)
         /\ ~Alone
<1>1. Chained /\ Len(stack) \in Nat /\ Len(stack) > 0
  BY Innermost
<1>2. Len(stack) - 1 \in 1 .. Len(stack) - 1 /\ (Len(stack) - 1) + 1 = Len(stack)
  BY <1>1
<1> QED  BY <1>1, <1>2 DEF Chained, Top, Alone

\* The last call returns.
LEMMA LastReturns ==
  ASSUME Inv, phase = "parsing", NEW tree, Return(tree), Len(stack) = 1,
         text' = text, look' = look
  PROVE  Inv'
<1>1. Callers = <<>>
  BY Innermost, StackFacts DEF Framed, Callers
<1>2. Typed' /\ stack' = <<>> /\ phase' = "done"
  BY <1>1, Innermost DEF Return, Typed
<1>3. Framed' /\ Chained' /\ ~Quiet' /\ CursorInside'
  <2>1. IsSequence(stack') /\ 1 .. Len(stack') = {} /\ 1 .. Len(stack') - 1 = {}
    BY <1>2 DEF IsSequence
  <2> QED  BY <1>2, <2>1 DEF Framed, Chained, Quiet, CursorInside
<1> QED  BY <1>2, <1>3 DEF Inv

\* A return to a caller keeps the invariant if no node is missing that the
\* caller needs.
LEMMA ReturnKeeps ==
  ASSUME Inv, phase = "parsing", NEW tree, Return(tree), Len(stack) # 1,
         text' = text, look' = look,
         tree.node = "null" => (Top.rule \in Declarers \cup {"declaration"} => Excused),
         Quiet' => MovesOn'
  PROVE  Inv'
<1>1. Typed /\ Framed /\ Chained /\ Len(stack) \in Nat /\ Here' = Here
  BY Innermost DEF Here
<1>2. /\ Len(stack) - 1 \in 1 .. Len(stack) /\ Len(stack) - 1 \in Nat
      /\ Len(stack') = Len(stack) - 1 /\ stack' # <<>> /\ IsSequence(stack')
      /\ \A k \in 1 .. Len(stack) - 2 : stack'[k] = stack[k]
      /\ Top' = stack'[Len(stack) - 1] /\ IsFrame(Top')
      /\ Top'.rule = stack[Len(stack) - 1].rule /\ Top'.code = stack[Len(stack) - 1].code
      /\ Top'.vals = With(stack[Len(stack) - 1].vals, tree)
      /\ phase' = phase /\ job' = job
  BY Returned
<1>3. PICK f : f = stack[Len(stack) - 1]
  OBVIOUS
<1>4. PICK g : g = Top'
  OBVIOUS
<1>5. g.rule = f.rule /\ g.code = f.code /\ g.vals = With(f.vals, tree) /\ Begun(f.code, Here)
  BY <1>1, <1>2, <1>3, <1>4 DEF Framed
<1>6. Waiting(f, Here) /\ Calls(f, Top) /\ ~Alone
  BY <1>3, Called
<1>7. Working'
  <2>1. CASE f.rule = "program"
    <3>1. LeftOf(g.code, <<IfNull>>, Here) /\ IsSequence(g.vals) /\ LastOf(g.vals) = tree
      BY <1>5, <1>6, <2>1, LastWith DEF Waiting
    <3>2. LastOf(g.vals).node = "null" => Excused
      BY <1>6, <2>1, <3>1 DEF Calls
    <3>3. Excused => Excused'
      BY DEF Excused, AliasLast
    <3>4. /\ Top'.rule = "program" /\ IsSequence(Top'.vals)
          /\ LeftOf(Top'.code, <<IfNull>>, Here')
          /\ LastOf(Top'.vals).node = "null" => Excused'
      BY <1>1, <1>4, <1>5, <2>1, <3>1, <3>2, <3>3
    <3>5. Programming'
      BY <3>4 DEF Programming
    <3> QED  BY <3>5 DEF Working
  <2>2. CASE f.rule = "declaration"
    <3>1. g.code = <<>> /\ IsSequence(g.vals) /\ LastOf(g.vals) = tree
      BY <1>5, <1>6, <2>2, LastWith DEF Waiting
    <3>2. LastOf(g.vals).node = "null" => Excused
      BY <1>6, <2>2, <3>1 DEF Calls
    <3>3. Excused => Excused'
      BY DEF Excused, AliasLast
    <3>4. /\ Top'.rule = "declaration" /\ IsSequence(Top'.vals) /\ Top'.code = <<>>
          /\ NullAtEnd' => Excused'
      BY <1>4, <1>5, <2>2, <3>1, <3>2, <3>3 DEF NullAtEnd
    <3>5. Declaring'
      BY <3>4 DEF Declaring
    <3> QED  BY <3>5 DEF Working
  <2>3. CASE f.rule \notin {"program", "declaration"}
    <3>1. Fine(g.code) /\ (g.rule \in Declarers => Closing(g.code))
      BY <1>5, <1>6, <2>3 DEF Waiting
    <3>2. Ordinary(g, look')
      BY <1>5, <2>3, <3>1 DEF Ordinary, Ready, Ends, Closing
    <3> QED  BY <1>4, <3>2 DEF Working
  <2> QED  BY <2>1, <2>2, <2>3
<1>8. Framed'
  <2>1. ASSUME NEW k \in 1 .. Len(stack')
        PROVE  IsFrame(stack'[k]) /\ Begun(stack'[k].code, Here)
    <3>1. CASE k = Len(stack) - 1
      BY <1>2, <1>4, <1>5, <3>1
    <3>2. CASE k # Len(stack) - 1
      <4>1. k \in 1 .. Len(stack) - 2 /\ k \in 1 .. Len(stack)
        BY <1>1, <1>2, <3>2
      <4> QED  BY <1>1, <1>2, <4>1 DEF Framed
    <3> QED  BY <3>1, <3>2
  <2> QED  BY <1>1, <1>2, <2>1 DEF Framed
<1>9. Chained'
  <2>1. ASSUME NEW k \in 1 .. Len(stack') - 1
        PROVE  Waiting(stack'[k], Here) /\ Calls(stack'[k], stack'[k + 1])
    <3>1. k \in 1 .. Len(stack) - 2 /\ k \in 1 .. Len(stack) - 1 /\ k \in Nat
      BY <1>1, <1>2
    <3>2. Waiting(stack[k], Here) /\ Calls(stack[k], stack[k + 1]) /\ stack'[k] = stack[k]
      BY <1>1, <1>2, <3>1 DEF Chained
    <3>3. stack'[k + 1].rule = stack[k + 1].rule
      <4>1. CASE k + 1 = Len(stack) - 1
        BY <1>2, <4>1
      <4>2. CASE k + 1 # Len(stack) - 1
        <5>1. k + 1 \in 1 .. Len(stack) - 2
          BY <1>1, <3>1, <4>2
        <5> QED  BY <1>2, <5>1
      <4> QED  BY <4>1, <4>2
    <3> QED  BY <3>2, <3>3 DEF Calls
  <2> QED  BY <1>1, <2>1 DEF Chained
<1>10. Typed' /\ CursorInside'
  <2>1. Typed'
    BY <1>1, <1>2 DEF Typed
  <2>2. CursorInside'
    BY <1>2 DEF CursorInside
  <2> QED  BY <2>1, <2>2
<1> QED  BY <1>2, <1>7, <1>8, <1>9, <1>10 DEF Inv

LEMMA Refuses ==
  ASSUME Inv, phase = "parsing", Refuse
  PROVE  Inv'
<1>1. /\ errors' = errors \cup {Here} /\ Return(Error) /\ text' = text /\ look' = look
  BY DEF Refuse, make_error
<1>2. ~Quiet'
  <2>1. Here' = Here
    BY <1>1 DEF Here
  <2> QED  BY <1>1, <2>1 DEF Quiet
<1>3. Error.node # "null"
  BY DEF Error, Node
<1>4. PICK tree : tree = Error
  OBVIOUS
<1> QED  BY <1>1, <1>2, <1>3, <1>4, LastReturns, ReturnKeeps

LEMMA Leaves ==
  ASSUME Inv, phase = "parsing", Leave
  PROVE  Inv'
<1>1. /\ Top.code = <<>> /\ text' = text /\ look' = look /\ errors' = errors /\ Here' = Here
  BY DEF Leave, Here
<1>2. PICK tree : tree = LastOf(Top.vals)
  OBVIOUS
<1>3. Return(tree)
  BY <1>2 DEF Leave
<1>4. CASE Len(stack) = 1
  BY <1>1, <1>3, <1>4, LastReturns
<1>5. CASE Len(stack) # 1
  <2>1. /\ Waiting(stack[Len(stack) - 1], Here) /\ Calls(stack[Len(stack) - 1], Top) /\ ~Alone
    BY <1>5, Called
  <2>2. Top.rule # "program" /\ Working
    BY <2>1, Innermost DEF Calls
  <2>3. ASSUME tree.node = "null", Top.rule \in Declarers \cup {"declaration"}
        PROVE  Excused
    <3>1. NullAtEnd
      BY <1>1, <1>2, <2>3 DEF NullAtEnd
    <3>2. CASE Ordinary(Top, look)
      BY <1>1, <1>2, <2>3, <3>2 DEF Ordinary, Ends
    <3>3. CASE Declaring
      <4>1. declaration # <<>> /\ NoNode # <<>>
        BY DEF declaration, NoNode
      <4>2. \A x : <<Advance, Call(x)>> # <<>> /\ <<Call(x)>> # <<>>
        OBVIOUS
      <4> QED  BY <1>1, <2>1, <3>1, <3>3, <4>1, <4>2 DEF Declaring
    <3>4. CASE Aliasing
      <4>1. declaration_alias # <<>> /\ NoNode # <<>>
        BY DEF declaration_alias, NoNode
      <4> QED  BY <1>1, <2>1, <3>4, <4>1 DEF Aliasing
    <3> QED  BY <2>2, <3>2, <3>3, <3>4 DEF Working, Programming
  <2>4. ASSUME Quiet' PROVE MovesOn'
    <3>1. /\ Len(stack) - 1 \in 1 .. Len(stack) /\ Len(stack) - 1 \in Nat
          /\ Len(stack') = Len(stack) - 1
          /\ \A k \in 1 .. Len(stack) - 2 : stack'[k] = stack[k]
          /\ Top' = stack'[Len(stack) - 1]
          /\ Top'.rule = stack[Len(stack) - 1].rule /\ Top'.code = stack[Len(stack) - 1].code
          /\ Top'.vals = With(stack[Len(stack) - 1].vals, tree)
      BY <1>3, <1>5, Returned
    <3>2. Quiet
      <4>1. PICK k \in 1 .. Len(stack) - 1 : Began(stack'[k].code, Here)
        BY <1>1, <2>4, <3>1 DEF Quiet
      <4>2. k \in 1 .. Len(stack) /\ Began(stack[k].code, Here)
        <5>1. CASE k = Len(stack) - 1
          BY <3>1, <4>1, <5>1
        <5>2. CASE k # Len(stack) - 1
          <6>1. Len(stack) \in Nat /\ k \in 1 .. Len(stack) - 2 /\ k \in 1 .. Len(stack)
            BY <3>1, <5>2, Innermost
          <6> QED  BY <3>1, <4>1, <6>1
        <5> QED  BY <5>1, <5>2
      <4> QED  BY <1>1, <2>4, <4>2 DEF Quiet
    <3>3. Announcing
      BY <1>1, <3>2, ChoosingIs DEF Inv, MovesOn, Moving, Leads
    <3>4. Top.rule = "declaration" /\ NullAtEnd
      <4>1. declaration # <<>> /\ NoNode # <<>>
        BY DEF declaration, NoNode
      <4> QED  BY <1>1, <2>2, <3>3, <4>1 DEF Announcing
    <3>5. PICK f : f = stack[Len(stack) - 1]
      OBVIOUS
    <3>6. f.rule = "program" /\ LeftOf(f.code, <<IfNull>>, Here) /\ IsSequence(f.vals)
      BY <2>1, <3>4, <3>5 DEF Calls, Waiting
    <3>7. LastOf(With(f.vals, tree)) = tree
      BY <3>6, LastWith
    <3>8. Top'.rule = "program" /\ LeftOf(Top'.code, <<IfNull>>, Here')
          /\ LastOf(Top'.vals).node = "null"
      BY <1>1, <1>2, <3>1, <3>4, <3>5, <3>6, <3>7 DEF NullAtEnd
    <3>9. Announcing'
      BY <3>8 DEF Announcing
    <3> QED  BY <3>9 DEF MovesOn
  <2> QED  BY <1>1, <1>3, <1>5, <2>3, <2>4, ReturnKeeps
<1> QED  BY <1>4, <1>5

-----------------------------------------------------------------------------
(* A program, a declaration, an alias *)

LEMMA PartIs ==
  ASSUME NEW s, NEW m \in Int, NEW n \in Int
  PROVE  IsSequence(SubSeq(s, m, n))
<1> DEFINE S == {s[i] : i \in m .. n}
<1>1. \A i \in m .. n : s[i] \in S
  OBVIOUS
<1> HIDE DEF S
<1>2. SubSeq(s, m, n) \in Seq(S)
  BY <1>1, SubSeqProperties
<1> QED  BY <1>2 DEF IsSequence

Loopless(code) == IsSequence(code) /\ \A j \in 1 .. Len(code) : code[j].op # "while"

\* A call that goes on with a part in which no round was begun.
LEMMA Turns ==
  ASSUME Inv, phase = "parsing", IsSequence(Top.code), Top.code # <<>>,
         text' = text, look' = look, NEW part, Loopless(part), NEW vals, Goes(part \o Rest, vals),
         Working', Here \in errors' \/ (errors' = errors /\ (MovesOn => MovesOn'))
  PROVE  Inv'
<1>1. /\ Typed /\ Framed /\ stack # <<>> /\ Begun(Top.code, Here)
  BY Innermost
<1>2. PICK rest : rest = Rest
  OBVIOUS
<1>3. IsSequence(rest) /\ Begun(rest, Here) /\ (Began(rest, Here) => Began(Top.code, Here))
  <2>1. IsSequence(rest)
    BY <1>2, Joined DEF Rest
  <2> QED  BY <1>1, <1>2, <2>1, BegunTail DEF Rest
<1>4. IsSequence(part) /\ Begun(part, Here) /\ ~Began(part, Here)
  BY DEF Loopless, Begun, Began
<1>5. PICK code : code = part \o rest
  OBVIOUS
<1>6. Begun(code, Here) /\ (Began(code, Here) => Began(Top.code, Here))
  <2>1. PICK n : n = Here
    OBVIOUS
  <2>2. Begun(part, n) /\ Begun(rest, n)
    BY <1>3, <1>4, <2>1
  <2>3. Begun(part \o rest, n)
    BY <1>3, <1>4, <2>2, BegunJoined
  <2>4. Began(part \o rest, n) => Began(part, n) \/ Began(rest, n)
    BY <1>3, <1>4, BegunJoined
  <2> QED  BY <1>3, <1>4, <1>5, <2>1, <2>3, <2>4
<1>7. Goes(code, vals)
  BY <1>2, <1>5
<1>8. Longer /\ Here' = Here
  BY <1>1 DEF Longer, Typed, Here
<1>9. ASSUME Quiet' PROVE MovesOn'
  <2>1. errors' = errors /\ (MovesOn => MovesOn')
    BY <1>8, <1>9 DEF Quiet
  <2>2. Quiet
    BY <1>6, <1>7, <1>9, <2>1, StillQuiet
  <2> QED  BY <2>1, <2>2 DEF Inv
<1> QED  BY <1>6, <1>7, <1>8, <1>9, GoesKeeps

\* A call that goes on with the rest of its code, without reading.
LEMMA RestsOn ==
  ASSUME Inv, phase = "parsing", IsSequence(Top.code), Top.code # <<>>,
         text' = text, look' = look, NEW vals, Goes(Rest, vals),
         Working', Here \in errors' \/ (errors' = errors /\ (MovesOn => MovesOn'))
  PROVE  Inv'
<1>1. Loopless(<<>>)
  <2>1. IsSequence(<<>>) /\ 1 .. Len(<<>>) = {}
    BY DEF IsSequence
  <2> QED  BY <2>1 DEF Loopless
<1>2. PICK rest : rest = Rest
  OBVIOUS
<1>3. <<>> \o rest = rest
  <2>1. IsSequence(rest)
    BY <1>2, Joined DEF Rest
  <2> QED  BY <2>1, Joined
<1>4. Goes(<<>> \o Rest, vals)
  BY <1>2, <1>3
<1> QED  BY <1>1, <1>4, Turns

-----------------------------------------------------------------------------
(* The parts of a program *)

LEMMA AgainIs ==
  ASSUME NEW n
  PROVE  /\ IsSequence(Again(n)) /\ Again(n) # <<>> /\ Tail(Again(n)) = <<Make("program")>>
         /\ Head(Again(n)) = [op |-> "while", when |-> NotIn({EOF}),
                              body |-> <<Call("declaration"), IfNull>>, since |-> n]
<1>1. program[1] = Until({EOF}, <<Call("declaration"), IfNull>>)
  BY DEF program, IfNull, Reporting, IfError
<1>2. program[1] = [op |-> "while", when |-> NotIn({EOF}),
                    body |-> <<Call("declaration"), IfNull>>, since |-> 0]
  BY <1>1 DEF Until, Loops
<1>3. [program[1] EXCEPT !.since = n] = [op |-> "while", when |-> NotIn({EOF}),
                                         body |-> <<Call("declaration"), IfNull>>, since |-> n]
  BY <1>2
<1> DEFINE w == [program[1] EXCEPT !.since = n]
           z == Make("program")
<1>4. Again(n) = <<w, z>>
  BY DEF Again
<1> HIDE DEF w, z
<1>5. /\ <<w, z>> # <<>> /\ Tail(<<w, z>>) = <<z>> /\ Head(<<w, z>>) = w
      /\ <<w, z>> \in Seq({w, z})
  OBVIOUS
<1>6. IsSequence(Again(n))
  BY <1>4, <1>5 DEF IsSequence
<1>7. w = [op |-> "while", when |-> NotIn({EOF}),
           body |-> <<Call("declaration"), IfNull>>, since |-> n]
  BY <1>3 DEF w
<1>8. Tail(Again(n)) = <<Make("program")>>
  BY <1>4, <1>5 DEF z
<1>9. Head(Again(n)) = w /\ Again(n) # <<>>
  BY <1>4, <1>5
<1> QED  BY <1>6, <1>7, <1>8, <1>9

LEMMA LeftTail ==
  ASSUME NEW code, NEW part, NEW n, LeftOf(code, part, n), IsSequence(part), part # <<>>
  PROVE  /\ IsSequence(code) /\ code # <<>> /\ Head(code) = Head(part)
         /\ LeftOf(Tail(code), Tail(part), n)
<1>1. PICK m \in 0 .. n : code = part \o Again(m)
  BY DEF LeftOf
<1>2. PICK again : again = Again(m)
  OBVIOUS
<1>3. IsSequence(again)
  BY <1>2, AgainIs
<1>4. /\ IsSequence(part \o again) /\ part \o again # <<>> /\ Head(part \o again) = Head(part)
      /\ Tail(part \o again) = Tail(part) \o again
  BY <1>3, Joined
<1>5. LeftOf(Tail(code), Tail(part), n)
  BY <1>1, <1>2, <1>4 DEF LeftOf
<1> QED  BY <1>1, <1>2, <1>4, <1>5

LEMMA LeftNothing ==
  ASSUME NEW code, NEW n
  PROVE  LeftOf(code, <<>>, n) <=> \E m \in 0 .. n : code = Again(m)
<1>1. \A m : <<>> \o Again(m) = Again(m)
  BY AgainIs, Joined
<1> QED  BY <1>1 DEF LeftOf

LEMMA LeftOn ==
  ASSUME NEW code, NEW part, NEW m \in Nat, NEW n \in Nat, m <= n, LeftOf(code, part, m)
  PROVE  LeftOf(code, part, n)
<1>1. 0 .. m \subseteq 0 .. n
  OBVIOUS
<1> QED  BY <1>1 DEF LeftOf

LEMMA LeftJoined ==
  ASSUME NEW code, NEW part, NEW n, LeftOf(code, <<>>, n)
  PROVE  LeftOf(part \o code, part, n)
  BY LeftNothing DEF LeftOf

\* The parts in front of the loop, one by one.
LEMMA ProgramParts ==
  /\ IsSequence(<<Call("declaration"), IfNull>>) /\ Tail(<<Call("declaration"), IfNull>>) = <<IfNull>>
  /\ Head(<<Call("declaration"), IfNull>>) = Call("declaration")
  /\ IsSequence(<<IfNull>>) /\ Head(<<IfNull>>) = IfNull /\ Tail(<<IfNull>>) = <<>>
  /\ IsSequence(Reporting) /\ Reporting # <<>> /\ Head(Reporting).op = "report"
  /\ Tail(Reporting) = <<Drop, Advance>>
  /\ IsSequence(<<Drop, Advance>>) /\ Head(<<Drop, Advance>>) = Drop
  /\ Tail(<<Drop, Advance>>) = <<Advance>>
  /\ IsSequence(<<Advance>>) /\ Head(<<Advance>>) = Advance /\ Tail(<<Advance>>) = <<>>
  /\ IsSequence(<<IfError>>) /\ Head(<<IfError>>) = IfError /\ Tail(<<IfError>>) = <<>>
  /\ IsSequence(<<Drop>>) /\ Head(<<Drop>>) = Drop /\ Tail(<<Drop>>) = <<>>
<1>1. \A x : <<x>> \in Seq({x}) /\ Head(<<x>>) = x /\ Tail(<<x>>) = <<>>
  OBVIOUS
<1>2. \A x, y : <<x, y>> \in Seq({x, y}) /\ Head(<<x, y>>) = x /\ Tail(<<x, y>>) = <<y>>
  OBVIOUS
<1>3. \A x, y, z : /\ <<x, y, z>> \in Seq({x, y, z}) /\ Head(<<x, y, z>>) = x
                   /\ Tail(<<x, y, z>>) = <<y, z>> /\ <<x, y, z>> # <<>>
  OBVIOUS
<1>4. \A x : IsSequence(<<x>>)
  BY <1>1 DEF IsSequence
<1>5. \A x, y : IsSequence(<<x, y>>)
  BY <1>2 DEF IsSequence
<1>6. /\ IsSequence(Reporting) /\ Reporting # <<>> /\ Head(Reporting).op = "report"
      /\ Tail(Reporting) = <<Drop, Advance>>
  <2>1. PICK r : r = [op |-> "report"]
    OBVIOUS
  <2>2. Reporting = <<r, Drop, Advance>> /\ r.op = "report"
    BY <2>1 DEF Reporting
  <2>3. IsSequence(Reporting)
    BY <1>3, <2>2 DEF IsSequence
  <2>4. Reporting # <<>> /\ Head(Reporting) = r /\ Tail(Reporting) = <<Drop, Advance>>
    BY <1>3, <2>2
  <2> QED  BY <2>2, <2>3, <2>4
<1> QED  BY <1>1, <1>2, <1>4, <1>5, <1>6

LEMMA PartOps ==
  /\ Call("declaration").op = "call" /\ IfNull.op = "last" /\ IfError.op = "last"
  /\ IfNull.kinds = {"null"} /\ IfError.kinds = {"error"} /\ IfNull.kinds # IfError.kinds
  /\ IfNull.then = Reporting /\ IfNull.else = <<IfError>>
  /\ IfError.then = <<Drop>> /\ IfError.else = <<>>
  /\ Drop.op = "drop" /\ Advance.op = "need" /\ Make("program").op = "make"
<1>1. Call("declaration").op = "call" /\ Drop.op = "drop" /\ Advance.op = "need"
      /\ Make("program").op = "make"
  BY DEF Call, Drop, Advance, Make
<1>2. /\ IfNull.op = "last" /\ IfNull.kinds = {"null"}
      /\ IfNull.then = Reporting /\ IfNull.else = <<IfError>>
  BY DEF IfNull, WhenLast
<1>3. /\ IfError.op = "last" /\ IfError.kinds = {"error"}
      /\ IfError.then = <<Drop>> /\ IfError.else = <<>>
  BY DEF IfError, WhenLast
<1>4. {"null"} # {"error"}
  OBVIOUS
<1> QED  BY <1>1, <1>2, <1>3, <1>4

\* Where a program is, told by its instruction.
LEMMA ProgramSeq ==
  ASSUME Programming, Top.code # <<>>
  PROVE  IsSequence(Top.code)
<1>1. CASE LeftOf(Top.code, <<>>, Here)
  BY <1>1, LeftNothing, AgainIs
<1>2. CASE Top.code = <<Make("program")>>
  <2>1. <<Make("program")>> \in Seq({Make("program")})
    OBVIOUS
  <2> QED  BY <1>2, <2>1 DEF IsSequence
<1> QED  BY <1>1, <1>2, LeftTail, ProgramParts DEF Programming

\* What is at the head of each part.
LEMMA ProgramHeads ==
  ASSUME Top.code # <<>>
  PROVE  /\ LeftOf(Top.code, <<>>, Here) => Instruction.op = "while" /\ Rest = <<Make("program")>>
         /\ LeftOf(Top.code, <<Call("declaration"), IfNull>>, Here) =>
              Instruction = Call("declaration") /\ LeftOf(Rest, <<IfNull>>, Here)
         /\ LeftOf(Top.code, <<IfNull>>, Here) => Instruction = IfNull /\ LeftOf(Rest, <<>>, Here)
         /\ LeftOf(Top.code, Reporting, Here) =>
              Instruction.op = "report" /\ LeftOf(Rest, <<Drop, Advance>>, Here)
         /\ LeftOf(Top.code, <<Drop, Advance>>, Here) =>
              Instruction = Drop /\ LeftOf(Rest, <<Advance>>, Here)
         /\ LeftOf(Top.code, <<Advance>>, Here) => Instruction = Advance /\ LeftOf(Rest, <<>>, Here)
         /\ LeftOf(Top.code, <<IfError>>, Here) => Instruction = IfError /\ LeftOf(Rest, <<>>, Here)
         /\ LeftOf(Top.code, <<Drop>>, Here) => Instruction = Drop /\ LeftOf(Rest, <<>>, Here)
         /\ Top.code = <<Make("program")>> => Instruction = Make("program") /\ Rest = <<>>
<1>1. ASSUME NEW part, IsSequence(part), part # <<>>, LeftOf(Top.code, part, Here)
      PROVE  Instruction = Head(part) /\ LeftOf(Rest, Tail(part), Here)
  BY <1>1, LeftTail DEF Instruction, Rest
<1>2. ASSUME LeftOf(Top.code, <<>>, Here)
      PROVE  Instruction.op = "while" /\ Rest = <<Make("program")>>
  BY <1>2, LeftNothing, AgainIs DEF Instruction, Rest
<1>3. \A x : <<x>> # <<>> /\ Head(<<x>>) = x /\ Tail(<<x>>) = <<>>
  OBVIOUS
<1>4. \A x, y : <<x, y>> # <<>>
  OBVIOUS
<1>5. ASSUME LeftOf(Top.code, <<Call("declaration"), IfNull>>, Here)
      PROVE  Instruction = Call("declaration") /\ LeftOf(Rest, <<IfNull>>, Here)
  BY <1>1, <1>4, <1>5, ProgramParts
<1>6. ASSUME LeftOf(Top.code, <<IfNull>>, Here)
      PROVE  Instruction = IfNull /\ LeftOf(Rest, <<>>, Here)
  BY <1>1, <1>3, <1>6, ProgramParts
<1>7. ASSUME LeftOf(Top.code, Reporting, Here)
      PROVE  Instruction.op = "report" /\ LeftOf(Rest, <<Drop, Advance>>, Here)
  BY <1>1, <1>7, ProgramParts
<1>8. ASSUME LeftOf(Top.code, <<Drop, Advance>>, Here)
      PROVE  Instruction = Drop /\ LeftOf(Rest, <<Advance>>, Here)
  BY <1>1, <1>4, <1>8, ProgramParts
<1>9. ASSUME LeftOf(Top.code, <<Advance>>, Here)
      PROVE  Instruction = Advance /\ LeftOf(Rest, <<>>, Here)
  BY <1>1, <1>3, <1>9, ProgramParts
<1>10. ASSUME LeftOf(Top.code, <<IfError>>, Here)
       PROVE  Instruction = IfError /\ LeftOf(Rest, <<>>, Here)
  BY <1>1, <1>3, <1>10, ProgramParts
<1>11. ASSUME LeftOf(Top.code, <<Drop>>, Here)
       PROVE  Instruction = Drop /\ LeftOf(Rest, <<>>, Here)
  BY <1>1, <1>3, <1>11, ProgramParts
<1>12. ASSUME Top.code = <<Make("program")>>
       PROVE  Instruction = Make("program") /\ Rest = <<>>
  BY <1>3, <1>12 DEF Instruction, Rest
<1> QED  BY <1>2, <1>5, <1>6, <1>7, <1>8, <1>9, <1>10, <1>11, <1>12

\* Nothing else moves a program on.
LEMMA ProgramMoves ==
  ASSUME Top.rule = "program", MovesOn, Top.code # <<>>,
         Instruction.op \in {"while", "make", "drop", "last", "report", "call"}
  PROVE  \/ Instruction.op \in {"call", "report"}
         \/ Instruction = IfNull /\ LastOf(Top.vals).node = "null"
<1>1. CASE Moving(Top.code)
  BY <1>1 DEF Moving, Leads, MovesAtOnce, Instruction
<1>2. CASE Head(Top.code) = Call("statement_switch_case")
  BY <1>2 DEF Call, Instruction
<1>3. CASE Announcing
  BY <1>3, ProgramHeads, PartOps DEF Announcing
<1> QED  BY <1>1, <1>2, <1>3 DEF MovesOn, Choosing

LEMMA ProgramLoops ==
  ASSUME Inv, phase = "parsing", Programming, Loop
  PROVE  Inv'
<1>1. /\ Typed /\ Framed /\ stack # <<>> /\ Begun(Top.code, Here) /\ Here \in Nat
      /\ Top.code # <<>> /\ Instruction.op = "while"
  BY Innermost DEF Loop, At
<1>2. LeftOf(Top.code, <<>>, Here)
  BY <1>1, ProgramHeads, PartOps DEF Programming
<1>3. PICK m \in 0 .. Here : Top.code = Again(m)
  BY <1>2, LeftNothing
<1>4. /\ Instruction = [op |-> "while", when |-> NotIn({EOF}),
                        body |-> <<Call("declaration"), IfNull>>, since |-> m]
      /\ Rest = <<Make("program")>> /\ IsSequence(Top.code)
  BY <1>3, AgainIs DEF Instruction, Rest
<1>5. PICK vals : vals = Top.vals
  OBVIOUS
<1>6. IsSequence(vals) /\ Top.rule = "program"
  BY <1>5 DEF Programming
<1>7. text' = text /\ look' = look /\ errors' = errors
  BY DEF Loop
<1>8. Longer /\ Here' = Here
  BY <1>1, <1>7 DEF Longer, Typed, Here
<1>9. CASE Holds(Instruction.when)
  <2>1. look # EOF
    BY <1>4, <1>9, HoldsIs
  <2>2. PICK again : again = Again(Here)
    OBVIOUS
  <2>3. Instruction.body \o <<[Instruction EXCEPT !.since = Here]>> \o Rest
          = <<Call("declaration"), IfNull>> \o again
    <3>1. PICK w : w = [Instruction EXCEPT !.since = Here]
      OBVIOUS
    <3>2. w = [op |-> "while", when |-> NotIn({EOF}),
               body |-> <<Call("declaration"), IfNull>>, since |-> Here]
      BY <1>4, <3>1
    <3>3. again = <<w>> \o Rest
      <4>1. [program[1] EXCEPT !.since = Here] = w
        <5>1. program[1] = Until({EOF}, <<Call("declaration"), IfNull>>)
          BY DEF program, IfNull, Reporting, IfError
        <5>2. program[1] = [op |-> "while", when |-> NotIn({EOF}),
                            body |-> <<Call("declaration"), IfNull>>, since |-> 0]
          BY <5>1 DEF Until, Loops
        <5> QED  BY <3>2, <5>2
      <4>2. again = <<w, Make("program")>>
        BY <2>2, <4>1 DEF Again
      <4> QED  BY <1>4, <4>2, JoinTwo
    <3>4. PICK body : body = <<Call("declaration"), IfNull>>
      OBVIOUS
    <3>5. PICK rest : rest = Rest
      OBVIOUS
    <3>6. PICK one : one = <<w>>
      OBVIOUS
    <3>7. IsSequence(body) /\ IsSequence(rest) /\ IsSequence(one)
      <4>1. \A x : <<x>> \in Seq({x})
        OBVIOUS
      <4>2. \A x : IsSequence(<<x>>)
        BY <4>1 DEF IsSequence
      <4> QED  BY <1>4, <3>4, <3>5, <3>6, <4>2, ProgramParts
    <3>8. (body \o one) \o rest = body \o (one \o rest)
      BY <3>7, JoinedThrice
    <3>9. Instruction.body = body
      BY <1>4, <3>4
    <3> QED  BY <3>1, <3>3, <3>4, <3>5, <3>6, <3>8, <3>9
  <2>4. PICK code : code = <<Call("declaration"), IfNull>> \o again
    OBVIOUS
  <2>5. Goes(code, vals)
    BY <1>5, <1>9, <2>3, <2>4 DEF Loop
  <2>6. Top'.rule = "program" /\ Top'.code = code /\ Top'.vals = vals
    BY <1>1, <1>6, <2>5, Replaced
  <2>7. LeftOf(code, <<Call("declaration"), IfNull>>, Here)
    <3>1. Here \in 0 .. Here
      BY <1>1
    <3> QED  BY <2>2, <2>4, <3>1 DEF LeftOf
  <2>8. Programming'
    BY <1>6, <1>7, <1>8, <2>1, <2>6, <2>7 DEF Programming
  <2>9. Announcing'
    BY <1>8, <2>6, <2>7 DEF Announcing
  <2>10. Begun(code, Here')
    <3>1. Begun(again, Here)
      <4>1. PICK w : w = Head(again)
        OBVIOUS
      <4>2. w.op = "while" /\ w.since = Here
        BY <2>2, <4>1, AgainIs
      <4>3. IsSequence(again) /\ again # <<>> /\ Tail(again) = <<Make("program")>>
        BY <2>2, AgainIs
      <4>4. Len(again) = 2 /\ again[1] = w /\ again[2] = Make("program")
        <5>1. PICK S : again \in Seq(S)
          BY <4>3 DEF IsSequence
        <5>2. Len(<<Make("program")>>) = 1 /\ <<Make("program")>>[1] = Make("program")
          OBVIOUS
        <5>3. Len(Tail(again)) = 1 /\ Tail(again)[1] = Make("program")
          BY <4>3, <5>2
        <5>4. /\ Len(Tail(again)) = Len(again) - 1 /\ Len(again) \in Nat
              /\ again[1] = w
              /\ \A k \in 1 .. Len(again) - 1 : Tail(again)[k] = again[k + 1]
          BY <4>1, <4>3, <5>1
        <5>5. Len(again) = 2 /\ 1 \in 1 .. Len(again) - 1
          BY <5>3, <5>4
        <5> QED  BY <5>3, <5>4, <5>5
      <4>5. Here \in 0 .. Here
        BY <1>1
      <4>6. \A j \in 1 .. Len(again) : again[j].op = "while" => again[j].since = Here
        <5>1. Make("program").op # "while"
          BY PartOps
        <5> QED  BY <4>2, <4>4, <5>1
      <4> QED  BY <4>5, <4>6 DEF Begun
    <3>2. PICK body : body = <<Call("declaration"), IfNull>>
      OBVIOUS
    <3>3. IsSequence(body) /\ IsSequence(again)
      BY <2>2, <3>2, ProgramParts, AgainIs
    <3>4. Begun(body, Here)
      <4>1. Len(body) = 2 /\ body[1] = Call("declaration") /\ body[2] = IfNull
        BY <3>2
      <4>2. \A j \in 1 .. Len(body) : body[j].op # "while"
        BY <4>1, PartOps
      <4> QED  BY <4>2 DEF Begun
    <3>5. PICK n : n = Here
      OBVIOUS
    <3>6. Begun(body \o again, n)
      BY <3>1, <3>3, <3>4, <3>5, BegunJoined
    <3> QED  BY <1>8, <2>4, <3>2, <3>5, <3>6
  <2>11. Working' /\ MovesOn'
    BY <2>8, <2>9 DEF Working, MovesOn
  <2> QED  BY <1>8, <2>5, <2>10, <2>11, GoesKeeps
<1>10. CASE ~Holds(Instruction.when)
  <2>1. PICK rest : rest = Rest
    OBVIOUS
  <2>2. Goes(Rest, vals) /\ Goes(rest, vals)
    BY <1>5, <1>10, <2>1 DEF Loop
  <2>3. Top'.rule = "program" /\ Top'.code = <<Make("program")>> /\ Top'.vals = vals
    BY <1>1, <1>4, <1>6, <2>1, <2>2, Replaced
  <2>4. Programming'
    BY <1>6, <2>3 DEF Programming
  <2>5. Working'
    BY <2>4 DEF Working
  <2>6. ~MovesOn
    <3>1. Instruction.op # IfNull.op
      BY <1>1, PartOps
    <3> QED  BY <1>1, <1>6, <3>1, ProgramMoves
  <2> QED  BY <1>1, <1>4, <1>7, <2>2, <2>5, <2>6, RestsOn
<1> QED  BY <1>9, <1>10

\* The shape of Top after a program goes on with the rest, or a part in front of it.
LEMMA ProgramGoes ==
  ASSUME Inv, phase = "parsing", Programming, NEW code, NEW vals, Goes(code, vals), IsSequence(vals)
  PROVE  Top'.rule = "program" /\ Top'.code = code /\ Top'.vals = vals /\ IsSequence(Top'.vals)
  BY Innermost, Replaced DEF Programming

LEMMA ProgramBranchesOnLast ==
  ASSUME Inv, phase = "parsing", Programming, BranchOnLast
  PROVE  Inv'
<1>1. Top.code # <<>> /\ Instruction.op = "last" /\ Top.rule = "program" /\ IsSequence(Top.code)
  BY ProgramSeq DEF BranchOnLast, At, Programming
<1>2. PICK vals : vals = Top.vals
  OBVIOUS
<1>3. IsSequence(vals)
  BY <1>2 DEF Programming
<1>4. text' = text /\ look' = look /\ errors' = errors /\ Here' = Here
  BY DEF BranchOnLast, Here
<1>5. PICK part : part = IF LastOf(Top.vals).node \in Instruction.kinds
                           THEN Instruction.then ELSE Instruction.else
  OBVIOUS
<1>6. Goes(part \o Rest, vals)
  BY <1>2, <1>5 DEF BranchOnLast
<1>7. PICK rest : rest = Rest
  OBVIOUS
<1>8. LeftOf(rest, <<>>, Here)
  BY <1>1, <1>7, ProgramHeads, PartOps DEF Programming
<1>9. LeftOf(part \o rest, part, Here)
  BY <1>8, LeftJoined
<1>10. Top'.rule = "program" /\ Top'.code = part \o rest /\ Top'.vals = vals /\ IsSequence(Top'.vals)
  <2>1. Goes(part \o rest, vals)
    BY <1>6, <1>7
  <2> QED  BY <1>3, <2>1, ProgramGoes
<1>11. LeftOf(Top'.code, part, Here')
  BY <1>4, <1>9, <1>10
<1>12. Excused => Excused'
  BY <1>4 DEF Excused, AliasLast
<1>13. CASE Instruction = IfNull /\ LastOf(vals).node = "null"
  <2>1. part = Reporting
    BY <1>2, <1>5, <1>13, PartOps
  <2>2. Excused
    <3>1. Instruction # IfError
      BY <1>13, PartOps
    <3> QED  BY <1>1, <1>2, <1>13, <3>1, ProgramHeads, PartOps DEF Programming
  <2>3. Working'
    <3>1. Programming'
      BY <1>10, <1>11, <1>12, <2>1, <2>2 DEF Programming
    <3> QED  BY <3>1 DEF Working
  <2>4. MovesOn'
    <3>1. Announcing'
      BY <1>10, <1>11, <2>1 DEF Announcing
    <3> QED  BY <3>1 DEF MovesOn
  <2>5. Loopless(part)
    <3>1. part = <<[op |-> "report"], Drop, Advance>>
      BY <2>1 DEF Reporting
    <3>2. /\ Len(part) = 3 /\ part[1] = [op |-> "report"] /\ part[2] = Drop /\ part[3] = Advance
      BY <3>1
    <3>3. \A j \in 1 .. Len(part) : part[j].op # "while"
      BY <3>2, PartOps
    <3> QED  BY <2>1, <3>3, ProgramParts DEF Loopless
  <2> QED  BY <1>1, <1>4, <1>6, <2>3, <2>4, <2>5, Turns
<1>14. CASE ~(Instruction = IfNull /\ LastOf(vals).node = "null")
  <2>1. ~MovesOn
    BY <1>1, <1>2, <1>14, ProgramMoves
  <2>2. part \in {<<IfError>>, <<Drop>>, <<>>}
    <3>1. Instruction \in {IfNull, IfError}
      BY <1>1, ProgramHeads, PartOps DEF Programming
    <3> QED  BY <1>2, <1>5, <1>14, <3>1, PartOps
  <2>3. Programming'
    <3>1. CASE part = <<IfError>>
      BY <1>10, <1>11, <3>1 DEF Programming
    <3>2. CASE part = <<Drop>>
      BY <1>10, <1>11, <3>2 DEF Programming
    <3>3. CASE part = <<>>
      BY <1>10, <1>11, <3>3 DEF Programming
    <3> QED  BY <2>2, <3>1, <3>2, <3>3
  <2>4. Loopless(part)
    <3>1. \A x : Len(<<x>>) = 1 /\ <<x>>[1] = x
      OBVIOUS
    <3>2. Loopless(<<IfError>>) /\ Loopless(<<Drop>>)
      BY <3>1, ProgramParts, PartOps DEF Loopless
    <3>3. Loopless(<<>>)
      <4>1. IsSequence(<<>>) /\ 1 .. Len(<<>>) = {}
        BY DEF IsSequence
      <4> QED  BY <4>1 DEF Loopless
    <3> QED  BY <2>2, <3>2, <3>3
  <2>5. Working'
    BY <2>3 DEF Working
  <2> QED  BY <1>1, <1>4, <1>6, <2>1, <2>4, <2>5, Turns
<1> QED  BY <1>13, <1>14

LEMMA ProgramReports ==
  ASSUME Inv, phase = "parsing", Programming, Report
  PROVE  Inv'
<1>1. Top.code # <<>> /\ Instruction.op = "report" /\ Top.rule = "program" /\ IsSequence(Top.code)
  BY ProgramSeq DEF Report, At, Programming
<1>2. PICK vals : vals = Top.vals
  OBVIOUS
<1>3. PICK rest : rest = Rest
  OBVIOUS
<1>4. IsSequence(vals) /\ Goes(Rest, vals) /\ Goes(rest, vals)
  BY <1>2, <1>3 DEF Programming, Report
<1>5. text' = text /\ look' = look /\ Here \in errors' /\ Here' = Here
  BY DEF Report, Here
<1>6. LeftOf(rest, <<Drop, Advance>>, Here) /\ Excused
  BY <1>1, <1>3, ProgramHeads, PartOps DEF Programming
<1>7. Top'.rule = "program" /\ Top'.code = rest /\ Top'.vals = vals /\ IsSequence(Top'.vals)
  BY <1>4, ProgramGoes
<1>8. Excused'
  BY <1>5, <1>6 DEF Excused, AliasLast
<1>9. Programming'
  BY <1>5, <1>6, <1>7, <1>8 DEF Programming
<1>10. Working'
  BY <1>9 DEF Working
<1> QED  BY <1>1, <1>4, <1>5, <1>10, RestsOn

LEMMA ProgramDrops ==
  ASSUME Inv, phase = "parsing", Programming, DropLast
  PROVE  Inv'
<1>1. Top.code # <<>> /\ Instruction.op = "drop" /\ Top.rule = "program" /\ IsSequence(Top.code)
  BY ProgramSeq DEF DropLast, At, Programming
<1>2. PICK vals : vals = ButLast(Top.vals)
  OBVIOUS
<1>3. PICK rest : rest = Rest
  OBVIOUS
<1>4. IsSequence(vals)
  <2>1. PICK S : Top.vals \in Seq(S)
    BY DEF Programming, IsSequence
  <2>2. Len(Top.vals) \in Nat
    BY <2>1
  <2>3. Len(Top.vals) - 1 \in Int /\ 1 \in Int
    BY <2>2
  <2> QED  BY <1>2, <2>3, PartIs DEF ButLast
<1>5. Goes(Rest, vals) /\ Goes(rest, vals)
  BY <1>2, <1>3 DEF DropLast
<1>6. text' = text /\ look' = look /\ errors' = errors /\ Here' = Here
  BY DEF DropLast, Here
<1>7. \/ LeftOf(rest, <<Advance>>, Here) /\ Excused /\ Here \in errors
      \/ LeftOf(rest, <<>>, Here)
  BY <1>1, <1>3, ProgramHeads, PartOps DEF Programming
<1>8. Top'.rule = "program" /\ Top'.code = rest /\ Top'.vals = vals /\ IsSequence(Top'.vals)
  BY <1>4, <1>5, ProgramGoes
<1>9. Excused => Excused'
  BY <1>6 DEF Excused, AliasLast
<1>10. Programming'
  <2>1. CASE LeftOf(rest, <<>>, Here)
    BY <1>6, <1>8, <2>1 DEF Programming
  <2>2. CASE LeftOf(rest, <<Advance>>, Here) /\ Excused /\ Here \in errors
    BY <1>6, <1>8, <1>9, <2>2 DEF Programming
  <2> QED  BY <1>7, <2>1, <2>2
<1>11. Working'
  BY <1>10 DEF Working
<1>12. ~MovesOn
  BY <1>1, PartOps, ProgramMoves
<1> QED  BY <1>1, <1>5, <1>6, <1>11, <1>12, RestsOn

LEMMA ProgramMakes ==
  ASSUME Inv, phase = "parsing", Programming, make_ast
  PROVE  Inv'
<1>1. Top.code # <<>> /\ Instruction.op = "make" /\ Top.rule = "program" /\ IsSequence(Top.code)
  BY ProgramSeq DEF make_ast, At, Programming
<1>2. PICK vals : vals = <<Node(Instruction.kind, Top.vals)>>
  OBVIOUS
<1>3. PICK rest : rest = Rest
  OBVIOUS
<1>4. IsSequence(vals)
  <2>1. \A x : <<x>> \in Seq({x})
    OBVIOUS
  <2> QED  BY <1>2, <2>1 DEF IsSequence
<1>5. Goes(Rest, vals) /\ Goes(rest, vals)
  BY <1>2, <1>3 DEF make_ast
<1>6. text' = text /\ look' = look /\ errors' = errors
  BY DEF make_ast
<1>7. rest = <<>>
  BY <1>1, <1>3, ProgramHeads, PartOps DEF Programming
<1>8. Top'.rule = "program" /\ Top'.code = rest /\ Top'.vals = vals /\ IsSequence(Top'.vals)
  BY <1>4, <1>5, ProgramGoes
<1>9. Programming'
  BY <1>7, <1>8 DEF Programming
<1>10. Working'
  BY <1>9 DEF Working
<1>11. ~MovesOn
  BY <1>1, PartOps, ProgramMoves
<1> QED  BY <1>1, <1>5, <1>6, <1>10, <1>11, RestsOn

LEMMA ProgramReads ==
  ASSUME Inv, phase = "parsing", Programming, Consume
  PROVE  Inv'
<1>1. /\ Typed /\ Here \in Nat
      /\ Top.code # <<>> /\ Instruction.op = "need" /\ Top.rule = "program" /\ IsSequence(Top.code)
  BY Innermost, ProgramSeq DEF Consume, At, Programming
<1>2. PICK vals : vals = Top.vals
  OBVIOUS
<1>3. PICK rest : rest = Rest
  OBVIOUS
<1>4. IsSequence(vals) /\ parser_advance(vals)
  BY <1>2 DEF Programming, Consume
<1>5. LeftOf(rest, <<>>, Here) /\ Excused
  BY <1>1, <1>3, ProgramHeads, PartOps DEF Programming
<1>6. text' = Append(text, look) /\ look' \in Tokens
  BY <1>1, <1>4, UpcomingIn DEF parser_advance, Typed
<1>7. Longer /\ Here' = Here + 1
  BY <1>1, <1>6, TextGrows
<1>8. CASE Goes(Rest, vals)
  <2>1. Goes(rest, vals)
    BY <1>3, <1>8
  <2>2. Top'.rule = "program" /\ Top'.code = rest /\ Top'.vals = vals /\ IsSequence(Top'.vals)
    BY <1>4, <2>1, ProgramGoes
  <2>3. LeftOf(rest, <<>>, Here')
    <3>1. Here' \in Nat /\ Here <= Here'
      BY <1>1, <1>7
    <3> QED  BY <1>1, <1>5, <3>1, LeftOn
  <2>4. Programming'
    BY <2>2, <2>3 DEF Programming
  <2>5. Working'
    BY <2>4 DEF Working
  <2> QED  BY <1>1, <1>7, <1>8, <2>5, ReadingOn
<1>9. CASE look = EOF /\ End("overrun")
  <2>1. text # <<>> /\ LastOf(text) = "alias"
    BY <1>5, <1>9 DEF Excused, AliasLast
  <2>2. /\ Len(text) \in 1 .. Len(text) /\ Len(text) \in 1 .. Len(text')
        /\ text'[Len(text)] = "alias" /\ text'[Len(text) + 1] = EOF
    <3>1. text \in Seq(Tokens) /\ Len(text) \in Nat /\ Len(text) > 0
      BY <1>1, <2>1 DEF Typed
    <3>2. look \in Tokens
      BY <1>1 DEF Typed
    <3>3. /\ Len(text') = Len(text) + 1 /\ text'[Len(text) + 1] = look
          /\ \A k \in 1 .. Len(text) : text'[k] = text[k]
      BY <1>6, <3>1, <3>2
    <3> QED  BY <1>9, <2>1, <3>1, <3>3 DEF LastOf
  <2>3. CursorInside'
    <3>1. text' \in Seq(Tokens)
      BY <1>7 DEF Longer
    <3>2. Len(text) \in DOMAIN text'
      BY <2>2, <3>1
    <3> QED  BY <2>2, <3>2 DEF CursorInside
  <2>4. text' \in Seq(Tokens)
    BY <1>7 DEF Longer
  <2>5. PICK how : how = "overrun"
    OBVIOUS
  <2>6. how # "parsing" /\ End(how)
    BY <1>9, <2>5
  <2> QED  BY <1>6, <2>3, <2>4, <2>6, EndKeeps
<1> QED  BY <1>4, <1>8, <1>9 DEF parser_advance

LEMMA OneIs ==
  \A x : /\ IsSequence(<<x>>) /\ <<x>> # <<>> /\ Head(<<x>>) = x /\ Tail(<<x>>) = <<>>
         /\ Len(<<x>>) = 1 /\ <<x>>[1] = x
<1>1. \A x : /\ <<x>> \in Seq({x}) /\ <<x>> # <<>> /\ Head(<<x>>) = x /\ Tail(<<x>>) = <<>>
             /\ Len(<<x>>) = 1 /\ <<x>>[1] = x
  OBVIOUS
<1> QED  BY <1>1 DEF IsSequence

\* A declaration's keyword chooses who reads the rest of it.
LEMMA DeclarationIs ==
  \E cs :
    /\ declaration = <<Switch(cs)>> /\ DOMAIN cs = 1 .. 6
    /\ \A k \in 1 .. 5 : \E t \in Tokens \ {EOF}, x \in Declarers :
         /\ cs[k].when = In({t}) /\ cs[k].code = <<Advance, Call(x)>>
         /\ x = "declaration_alias" => t = "alias"
    /\ cs[6].code = NoNode
<1> DEFINE a == On({"alias"}, <<Advance, Call("declaration_alias")>>)
           b == On({"struct"}, <<Advance, Call("declaration_aggregate")>>)
           c == On({"var"}, <<Advance, Call("declaration_variable")>>)
           d == On({"fun"}, <<Advance, Call("declaration_function")>>)
           e == On({"enum"}, <<Advance, Call("declaration_enum")>>)
           f == Otherwise(NoNode)
           cs == <<a, b, c, d, e, f>>
<1>1. declaration = <<Switch(cs)>>
  BY DEF declaration, NoNode
<1>2. \A t, code : On({t}, code).when = In({t}) /\ On({t}, code).code = code
  BY DEF On
<1>3. f.code = NoNode
  BY DEF Otherwise
<1>4. {"alias", "struct", "var", "fun", "enum"} \subseteq Tokens \ {EOF}
  BY DEF Tokens, Keywords, EOF
<1> DEFINE Reads(i) == \E t \in Tokens \ {EOF}, x \in Declarers :
                         /\ i.when = In({t}) /\ i.code = <<Advance, Call(x)>>
                         /\ x = "declaration_alias" => t = "alias"
<1>5. Reads(a) /\ Reads(b) /\ Reads(c) /\ Reads(d) /\ Reads(e)
  <2>1. ASSUME NEW t \in Tokens \ {EOF}, NEW x \in Declarers, x = "declaration_alias" => t = "alias"
        PROVE  Reads(On({t}, <<Advance, Call(x)>>))
    <3>1. PICK code : code = <<Advance, Call(x)>>
      OBVIOUS
    <3>2. On({t}, code).when = In({t}) /\ On({t}, code).code = code
      BY <1>2
    <3>3. PICK i : i = On({t}, code)
      OBVIOUS
    <3>4. i.when = In({t}) /\ i.code = <<Advance, Call(x)>>
      BY <3>1, <3>2, <3>3
    <3>5. Reads(i)
      BY <2>1, <3>4
    <3> HIDE DEF Reads
    <3> QED  BY <3>1, <3>3, <3>5
  <2> HIDE DEF Reads
  <2>2. {"declaration_alias", "declaration_aggregate", "declaration_variable",
         "declaration_function", "declaration_enum"} \subseteq Declarers
    BY DEF Declarers
  <2> QED  BY <1>4, <2>1, <2>2
<1> HIDE DEF a, b, c, d, e, f, Reads
<1>6. /\ DOMAIN cs = 1 .. 6 /\ cs[1] = a /\ cs[2] = b /\ cs[3] = c /\ cs[4] = d /\ cs[5] = e
      /\ cs[6] = f
  OBVIOUS
<1>7. \A k \in 1 .. 5 : Reads(cs[k])
  <2>1. \A k \in 1 .. 5 : k \in {1, 2, 3, 4, 5}
    OBVIOUS
  <2> QED  BY <1>5, <1>6, <2>1
<1>8. PICK cases : cases = cs
  OBVIOUS
<1>9. /\ declaration = <<Switch(cases)>> /\ DOMAIN cases = 1 .. 6
      /\ \A k \in 1 .. 5 : Reads(cases[k])
      /\ cases[6].code = NoNode
  BY <1>1, <1>3, <1>6, <1>7, <1>8
<1> QED  BY <1>9 DEF Reads

LEMMA NoNodeIs ==
  /\ IsSequence(NoNode) /\ NoNode # <<>> /\ Head(NoNode) = Make("null") /\ Tail(NoNode) = <<>>
  /\ Make("null").op = "make" /\ Make("null").kind = "null" /\ Loopless(NoNode)
<1>1. Make("null").op = "make" /\ Make("null").kind = "null"
  BY DEF Make
<1> QED  BY <1>1, OneIs DEF NoNode, Loopless

\* Where a declaration is, told by its instruction.
LEMMA DeclaringAt ==
  ASSUME Declaring, Top.code # <<>>
  PROVE  /\ IsSequence(Top.code) /\ Instruction.op \in {"switch", "make", "need", "call"}
         /\ Instruction.op = "switch" => Top.code = declaration /\ (Alone \/ Excused)
         /\ Instruction.op = "make" => Top.code = NoNode /\ (Alone \/ Excused)
         /\ Instruction.op = "need" =>
              \E x \in Declarers : /\ Rest = <<Call(x)>> /\ look # EOF
                                   /\ x = "declaration_alias" => look = "alias"
         /\ Instruction.op = "call" =>
              \E x \in Declarers : /\ Top.code = <<Call(x)>>
                                   /\ x = "declaration_alias" => AliasLast
<1>1. CASE Top.code = declaration /\ (Alone \/ Excused)
  <2>1. PICK cs : declaration = <<Switch(cs)>>
    BY DeclarationIs
  <2>2. Switch(cs).op = "switch"
    BY DEF Switch
  <2>3. IsSequence(Top.code) /\ Instruction.op = "switch"
    BY <1>1, <2>1, <2>2, OneIs DEF Instruction
  <2> QED  BY <1>1, <2>3
<1>2. CASE Top.code = NoNode /\ (Alone \/ Excused)
  BY <1>2, NoNodeIs DEF Instruction
<1>3. ASSUME NEW x \in Declarers, Top.code = <<Advance, Call(x)>>, look # EOF,
             x = "declaration_alias" => look = "alias"
      PROVE  IsSequence(Top.code) /\ Instruction.op = "need" /\ Rest = <<Call(x)>>
  <2>1. \A i, j : <<i, j>> \in Seq({i, j}) /\ Head(<<i, j>>) = i /\ Tail(<<i, j>>) = <<j>>
    OBVIOUS
  <2>2. IsSequence(Top.code)
    <3>1. <<Advance, Call(x)>> \in Seq({Advance, Call(x)})
      BY <2>1
    <3> QED  BY <1>3, <3>1 DEF IsSequence
  <2>3. Instruction = Advance /\ Rest = <<Call(x)>>
    BY <1>3, <2>1 DEF Instruction, Rest
  <2> QED  BY <2>2, <2>3, PartOps
<1>4. ASSUME NEW x \in Declarers, Top.code = <<Call(x)>>
      PROVE  IsSequence(Top.code) /\ Instruction.op = "call"
  <2>1. Call(x).op = "call"
    BY DEF Call
  <2> QED  BY <1>4, <2>1, OneIs DEF Instruction
<1>5. CASE \E x \in Declarers : /\ Top.code = <<Advance, Call(x)>> /\ look # EOF
                                /\ x = "declaration_alias" => look = "alias"
  BY <1>3, <1>5
<1>6. CASE \E x \in Declarers : Top.code = <<Call(x)>> /\ (x = "declaration_alias" => AliasLast)
  BY <1>4, <1>6
<1> QED  BY <1>1, <1>2, <1>5, <1>6 DEF Declaring

LEMMA ProgramEnters ==
  ASSUME Inv, phase = "parsing", Programming, Enter
  PROVE  Inv'
<1>1. /\ Typed /\ Framed /\ stack # <<>> /\ Here \in Nat /\ Here > 0
      /\ Top.code # <<>> /\ Instruction.op = "call" /\ Top.rule = "program" /\ IsSequence(Top.code)
  BY Innermost, ProgramSeq DEF Enter, At, Programming
<1>2. Instruction = Call("declaration") /\ LeftOf(Rest, <<IfNull>>, Here) /\ look # EOF
  BY <1>1, ProgramHeads, PartOps DEF Programming
<1>3. Instruction.rule = "declaration" /\ Instruction.given = 0
  BY <1>2 DEF Call
<1>4. PICK g : g = stack'[Len(stack)]
  OBVIOUS
<1>5. PICK h : h = stack'[Len(stack) + 1]
  OBVIOUS
<1>6. /\ g.rule = "program" /\ g.code = Rest /\ h.rule = "declaration" /\ h.code = declaration
      /\ g.vals = SubSeq(Top.vals, 1, Len(Top.vals) - 0)
      /\ h.vals = SubSeq(Top.vals, Len(Top.vals) - 0 + 1, Len(Top.vals)) /\ Top' = h
  BY <1>1, <1>3, <1>4, <1>5, Entered, CodeIs
<1>7. IsSequence(g.vals) /\ IsSequence(h.vals)
  <2>1. PICK S : Top.vals \in Seq(S)
    BY DEF Programming, IsSequence
  <2>2. Len(Top.vals) \in Nat
    BY <2>1
  <2>3. Len(Top.vals) - 0 \in Int /\ Len(Top.vals) - 0 + 1 \in Int /\ Len(Top.vals) \in Int /\ 1 \in Int
    BY <2>2
  <2> QED  BY <1>6, <2>3, PartIs
<1>8. Waiting(g, Here)
  BY <1>2, <1>6, <1>7 DEF Waiting
<1>9. Calls(g, h)
  <2>1. "declaration" \notin Declarers /\ "program" # "declaration"
    BY DEF Declarers
  <2> QED  BY <1>6, <2>1 DEF Calls
<1>10. Begun(declaration, Here) /\ ~Began(declaration, Here)
  <2>1. PICK cs : declaration = <<Switch(cs)>>
    BY DeclarationIs
  <2>2. Switch(cs).op # "while"
    BY DEF Switch
  <2>3. \A j \in 1 .. Len(declaration) : declaration[j].op # "while"
    BY <2>1, <2>2, OneIs
  <2> QED  BY <2>3 DEF Begun, Began
<1>11. Excused' /\ Working'
  <2>1. look' = look
    BY DEF Enter
  <2>2. Excused'
    BY <1>2, <2>1 DEF Excused
  <2>3. Declaring'
    BY <1>6, <1>7, <2>2 DEF Declaring
  <2> QED  BY <2>2, <2>3 DEF Working
<1>12. MovesOn'
  <2>1. Announcing'
    BY <1>6 DEF Announcing
  <2> QED  BY <2>1 DEF MovesOn
<1>13. /\ Waiting(stack'[Len(stack)], Here) /\ Calls(stack'[Len(stack)], stack'[Len(stack) + 1])
       /\ Begun(Code[Instruction.rule], Here) /\ ~Began(Code[Instruction.rule], Here)
  BY <1>3, <1>4, <1>5, <1>8, <1>9, <1>10, CodeIs
<1> QED  BY <1>1, <1>11, <1>12, <1>13, EnterKeeps

LEMMA DeclaringEnters ==
  ASSUME Inv, phase = "parsing", Declaring, Enter
  PROVE  Inv'
<1>1. /\ Typed /\ Framed /\ stack # <<>> /\ Here \in Nat /\ Here > 0
      /\ Top.code # <<>> /\ Instruction.op = "call" /\ Top.rule = "declaration" /\ IsSequence(Top.code)
  BY Innermost, DeclaringAt DEF Enter, At, Declaring
<1>2. PICK x \in Declarers : Top.code = <<Call(x)>> /\ (x = "declaration_alias" => AliasLast)
  BY <1>1, DeclaringAt
<1>3. Instruction.rule = x /\ Instruction.given = 0 /\ Rest = <<>> /\ Instruction = Call(x)
  <2>1. Instruction = Call(x) /\ Rest = <<>>
    BY <1>2, OneIs DEF Instruction, Rest
  <2> QED  BY <2>1 DEF Call
<1>4. PICK g : g = stack'[Len(stack)]
  OBVIOUS
<1>5. PICK h : h = stack'[Len(stack) + 1]
  OBVIOUS
<1>6. /\ g.rule = "declaration" /\ g.code = <<>> /\ h.rule = x /\ h.code = Code[x]
      /\ g.vals = SubSeq(Top.vals, 1, Len(Top.vals) - 0) /\ Top' = h
  BY <1>1, <1>3, <1>4, <1>5, Entered
<1>7. IsSequence(g.vals)
  <2>1. PICK S : Top.vals \in Seq(S)
    BY DEF Declaring, IsSequence
  <2>2. Len(Top.vals) \in Nat
    BY <2>1
  <2>3. Len(Top.vals) - 0 \in Int /\ 1 \in Int
    BY <2>2
  <2> QED  BY <1>6, <2>3, PartIs
<1>8. Waiting(g, Here)
  BY <1>6, <1>7 DEF Waiting
<1>9. Calls(g, h)
  <2>1. x # "declaration" /\ x # "program"
    BY DEF Declarers
  <2> QED  BY <1>6, <2>1 DEF Calls
<1>10. Begun(Code[x], Here) /\ ~Began(Code[x], Here)
  <2>1. CASE x = "declaration_alias"
    <3>1. PICK s : Code[x] = <<s>> /\ s.op = "switch"
      <4> DEFINE cs == <<On({"id"}, <<Keep({"id"}), Need("="), Call("typedecl"), Need(";"),
                                      Make("alias")>>),
                         Otherwise(<<Make("null")>>)>>
      <4>1. Code[x] = <<Switch(cs)>>
        BY <2>1, CodeIs DEF declaration_alias
      <4>2. Switch(cs).op = "switch"
        BY DEF Switch
      <4> HIDE DEF cs
      <4> QED  BY <4>1, <4>2
    <3>2. \A j \in 1 .. Len(Code[x]) : Code[x][j].op # "while"
      BY <3>1, OneIs
    <3> QED  BY <3>2 DEF Begun, Began
  <2>2. CASE x # "declaration_alias"
    <3>1. Code[x] \in Seq(Static)
      <4>1. Declarers \subseteq DOMAIN Code
        BY Rules DEF Declarers
      <4>2. x \notin InFront /\ x \notin {"program", "declaration"}
        BY DEF InFront, Declarers
      <4> QED  BY <2>2, <4>1, <4>2, CodeFine
    <3>2. PICK n : n = Here - 1
      OBVIOUS
    <3>3. n \in Nat /\ n + 1 = Here
      BY <1>1, <3>2
    <3>4. ~Began(Code[x], n + 1)
      BY <3>1, <3>3, NotBegun
    <3>5. Begun(Code[x], Here)
      BY <1>1, <3>1, NotBegun
    <3> QED  BY <3>3, <3>4, <3>5
  <2> QED  BY <2>1, <2>2
<1>11. Working'
  <2>1. CASE x = "declaration_alias"
    <3>1. AliasLast /\ text' = text
      BY <1>2, <2>1 DEF Enter
    <3>2. Excused'
      BY <3>1 DEF Excused, AliasLast
    <3>3. Top'.rule = "declaration_alias" /\ Top'.code = declaration_alias
      BY <1>6, <2>1, CodeIs
    <3>4. Aliasing'
      BY <3>2, <3>3 DEF Aliasing
    <3> QED  BY <3>4 DEF Working
  <2>2. CASE x # "declaration_alias"
    <3>1. Code[x] \in Seq(Static)
      <4>1. Declarers \subseteq DOMAIN Code
        BY Rules DEF Declarers
      <4>2. x \notin InFront /\ x \notin {"program", "declaration"}
        BY DEF InFront, Declarers
      <4> QED  BY <2>2, <4>1, <4>2, CodeFine
    <3>2. Closing(Code[x])
      BY <2>2, DeclarersClose
    <3>3. Ready(h.code, look')
      BY <1>6, <3>1, RunningGrows DEF Ready, Fine
    <3>4. x \notin {"program", "declaration"}
      BY DEF Declarers
    <3>5. Ordinary(h, look')
      BY <1>6, <3>2, <3>3, <3>4 DEF Ordinary, Ends, Closing
    <3> QED  BY <1>6, <3>5 DEF Working
  <2> QED  BY <2>1, <2>2
<1>12. ~MovesOn
  <2>1. ~Moving(Top.code)
    <3>1. Head(Top.code).op = "call" /\ Head(Top.code).rule \notin Movers
      <4>1. x \notin Movers
        BY DEF Movers, Declarers
      <4> QED  BY <1>1, <1>3, <4>1 DEF Instruction
    <3> QED  BY <3>1 DEF Moving, Leads, MovesAtOnce
  <2>2. Head(Top.code) # Call("statement_switch_case")
    <3>1. Call("statement_switch_case").rule = "statement_switch_case"
      BY DEF Call
    <3>2. x # "statement_switch_case"
      BY DEF Declarers
    <3> QED  BY <1>3, <3>1, <3>2 DEF Instruction
  <2>3. ~Announcing
    <3>1. Top.code # declaration
      <4>1. PICK cs : declaration = <<Switch(cs)>>
        BY DeclarationIs
      <4>2. Switch(cs).op = "switch"
        BY DEF Switch
      <4>3. Head(declaration).op = "switch"
        BY <4>1, <4>2, OneIs
      <4> QED  BY <1>1, <4>3 DEF Instruction
    <3>2. Top.code # NoNode
      BY <1>1, NoNodeIs DEF Instruction
    <3> QED  BY <1>1, <3>1, <3>2 DEF Announcing, NullAtEnd
  <2> QED  BY <1>1, <2>1, <2>2, <2>3 DEF MovesOn, Choosing
<1>13. /\ Waiting(stack'[Len(stack)], Here) /\ Calls(stack'[Len(stack)], stack'[Len(stack) + 1])
       /\ Begun(Code[Instruction.rule], Here) /\ ~Began(Code[Instruction.rule], Here)
  BY <1>3, <1>4, <1>5, <1>8, <1>9, <1>10
<1> QED  BY <1>1, <1>11, <1>12, <1>13, EnterKeeps

\* What a call becomes that goes on with some code.
LEMMA GoesTo ==
  ASSUME Inv, phase = "parsing", NEW code, NEW vals, Goes(code, vals)
  PROVE  /\ Top'.rule = Top.rule /\ Top'.code = code /\ Top'.vals = vals
         /\ Alone => Alone'
<1>1. Framed /\ stack # <<>>
  BY Innermost
<1>2. /\ Len(stack') = Len(stack)
      /\ Top'.rule = Top.rule /\ Top'.code = code /\ Top'.vals = vals
  BY <1>1, Replaced
<1> QED  BY <1>2 DEF Alone

LEMMA DeclaringBranches ==
  ASSUME Inv, phase = "parsing", Declaring, Branch
  PROVE  Inv'
<1>1. /\ Top.code # <<>> /\ Instruction.op = "switch" /\ Top.rule = "declaration" /\ IsSequence(Top.code)
      /\ Top.code = declaration /\ (Alone \/ Excused)
  BY DeclaringAt DEF Branch, At, Declaring
<1>2. PICK cs :
        /\ declaration = <<Switch(cs)>> /\ DOMAIN cs = 1 .. 6
        /\ \A k \in 1 .. 5 : \E t \in Tokens \ {EOF}, x \in Declarers :
             /\ cs[k].when = In({t}) /\ cs[k].code = <<Advance, Call(x)>>
             /\ x = "declaration_alias" => t = "alias"
        /\ cs[6].code = NoNode
  BY DeclarationIs
<1>3. Instruction.cases = cs /\ Rest = <<>>
  BY <1>1, <1>2, OneIs DEF Instruction, Rest, Switch
<1>4. PICK k \in 1 .. 6 : Holds(cs[k].when) /\ Goes(cs[k].code \o Rest, Top.vals)
  BY <1>2, <1>3 DEF Branch
<1>5. PICK vals : vals = Top.vals
  OBVIOUS
<1>6. PICK part : part = cs[k].code
  OBVIOUS
<1>7. text' = text /\ look' = look /\ errors' = errors /\ Here' = Here
  BY DEF Branch, Here
<1>8. IsSequence(vals)
  BY <1>5 DEF Declaring
<1>9. Goes(part \o Rest, vals)
  BY <1>4, <1>5, <1>6
<1>10. ASSUME IsSequence(part)
       PROVE  /\ Top'.rule = "declaration" /\ Top'.code = part /\ IsSequence(Top'.vals)
              /\ Alone => Alone'
  <2>1. PICK rest : rest = Rest
    OBVIOUS
  <2>2. part \o rest = part
    <3>1. rest = <<>> /\ IsSequence(<<>>)
      BY <1>3, <2>1 DEF IsSequence
    <3> QED  BY <1>10, <3>1, Joined
  <2>3. Goes(part, vals)
    BY <1>9, <2>1, <2>2
  <2> QED  BY <1>1, <1>8, <2>3, GoesTo
<1>11. Excused => Excused'
  BY <1>7 DEF Excused, AliasLast
<1>12. CASE k = 6
  <2>1. part = NoNode /\ Loopless(part) /\ IsSequence(part)
    BY <1>2, <1>6, <1>12, NoNodeIs
  <2>2. Declaring'
    BY <1>1, <1>10, <1>11, <2>1 DEF Declaring
  <2>3. Announcing'
    BY <1>10, <2>1 DEF Announcing
  <2>4. Working' /\ MovesOn'
    BY <2>2, <2>3 DEF Working, MovesOn
  <2> QED  BY <1>1, <1>7, <1>9, <2>1, <2>4, Turns
<1>13. CASE k # 6
  <2>1. k \in 1 .. 5
    BY <1>13
  <2>2. PICK t \in Tokens \ {EOF}, x \in Declarers :
             /\ cs[k].when = In({t}) /\ cs[k].code = <<Advance, Call(x)>>
             /\ x = "declaration_alias" => t = "alias"
    BY <1>2, <2>1
  <2>3. look = t
    BY <1>4, <2>2, HoldsIs
  <2>4. part = <<Advance, Call(x)>> /\ look # EOF /\ (x = "declaration_alias" => look = "alias")
    BY <1>6, <2>2, <2>3
  <2>5. Loopless(part) /\ Leads(part)
    <3>1. \A i, j : /\ <<i, j>> \in Seq({i, j}) /\ Len(<<i, j>>) = 2 /\ <<i, j>>[1] = i
                    /\ <<i, j>>[2] = j
      OBVIOUS
    <3>2. PICK c : c = Call(x)
      OBVIOUS
    <3>3. c.op = "call"
      BY <3>2 DEF Call
    <3>4. part = <<Advance, c>> /\ part \in Seq({Advance, c})
      BY <2>4, <3>1, <3>2
    <3>5. IsSequence(part)
      BY <3>4 DEF IsSequence
    <3>6. \A j \in 1 .. Len(part) : part[j].op # "while"
      <4>1. Len(part) = 2 /\ part[1] = Advance /\ part[2] = c
        BY <3>1, <3>4
      <4> QED  BY <3>3, <4>1, PartOps
    <3>7. Leads(part)
      BY <3>4, LeadsIn, MoversMove
    <3> QED  BY <3>5, <3>6, <3>7 DEF Loopless
  <2>6. Top'.rule = "declaration" /\ Top'.code = part /\ IsSequence(Top'.vals)
    BY <1>10, <2>5 DEF Loopless
  <2>7. Declaring'
    <3>1. Top'.code = <<Advance, Call(x)>> /\ look' # EOF
          /\ (x = "declaration_alias" => look' = "alias")
      BY <1>7, <2>4, <2>6
    <3> QED  BY <2>6, <3>1 DEF Declaring
  <2>8. Moving(Top'.code)
    BY <2>5, <2>6 DEF Moving
  <2>9. Working' /\ MovesOn'
    BY <2>7, <2>8 DEF Working, MovesOn
  <2> QED  BY <1>1, <1>7, <1>9, <2>5, <2>9, Turns
<1> QED  BY <1>12, <1>13

LEMMA DeclaringMakes ==
  ASSUME Inv, phase = "parsing", Declaring, make_ast
  PROVE  Inv'
<1>1. /\ Top.code # <<>> /\ Instruction.op = "make" /\ Top.rule = "declaration" /\ IsSequence(Top.code)
      /\ Top.code = NoNode /\ (Alone \/ Excused)
  BY DeclaringAt DEF make_ast, At, Declaring
<1>2. PICK vals : vals = <<Node(Instruction.kind, Top.vals)>>
  OBVIOUS
<1>3. Instruction.kind = "null" /\ Rest = <<>>
  BY <1>1, NoNodeIs DEF Instruction, Rest
<1>4. IsSequence(vals) /\ LastOf(vals).node = "null"
  <2>1. PICK x : x = Node(Instruction.kind, Top.vals)
    OBVIOUS
  <2>2. x.node = "null"
    BY <1>3, <2>1 DEF Node
  <2> QED  BY <1>2, <2>1, <2>2, OneIs DEF LastOf
<1>5. Goes(Rest, vals)
  BY <1>2 DEF make_ast
<1>6. text' = text /\ look' = look /\ errors' = errors
  BY DEF make_ast
<1>7. Top'.rule = "declaration" /\ Top'.code = <<>> /\ Top'.vals = vals /\ (Alone => Alone')
  <2>1. Goes(<<>>, vals)
    BY <1>3, <1>5
  <2> QED  BY <1>1, <2>1, GoesTo
<1>8. Excused => Excused'
  BY <1>6 DEF Excused, AliasLast
<1>9. Declaring'
  BY <1>1, <1>4, <1>7, <1>8 DEF Declaring
<1>10. Announcing'
  BY <1>4, <1>7 DEF Announcing, NullAtEnd
<1>11. Working' /\ MovesOn'
  BY <1>9, <1>10 DEF Working, MovesOn
<1> QED  BY <1>1, <1>5, <1>6, <1>11, RestsOn

LEMMA DeclaringReads ==
  ASSUME Inv, phase = "parsing", Declaring, Consume
  PROVE  Inv'
<1>1. /\ Typed /\ Top.code # <<>> /\ Instruction.op = "need" /\ Top.rule = "declaration"
      /\ IsSequence(Top.code)
  BY Innermost, DeclaringAt DEF Consume, At, Declaring
<1>2. PICK x \in Declarers : /\ Rest = <<Call(x)>> /\ look # EOF
                             /\ x = "declaration_alias" => look = "alias"
  BY <1>1, DeclaringAt
<1>3. PICK vals : vals = Top.vals
  OBVIOUS
<1>4. IsSequence(vals) /\ parser_advance(vals)
  BY <1>3 DEF Declaring, Consume
<1>5. text' = Append(text, look) /\ look' \in Tokens /\ Goes(Rest, vals)
  BY <1>1, <1>2, <1>4, UpcomingIn DEF parser_advance, Typed
<1>6. Longer /\ Here' = Here + 1
  BY <1>1, <1>5, TextGrows
<1>7. Top'.rule = "declaration" /\ Top'.code = <<Call(x)>> /\ IsSequence(Top'.vals)
  <2>1. PICK rest : rest = Rest
    OBVIOUS
  <2>2. Goes(rest, vals)
    BY <1>5, <2>1
  <2> QED  BY <1>1, <1>2, <1>4, <2>1, <2>2, GoesTo
<1>8. x = "declaration_alias" => AliasLast'
  <2>1. text' # <<>> /\ LastOf(text') = look
    <3>1. text \in Seq(Tokens) /\ look \in Tokens
      BY <1>1 DEF Typed
    <3>2. Len(text') = Len(text) + 1 /\ text'[Len(text) + 1] = look /\ text' # <<>>
      BY <1>5, <3>1
    <3> QED  BY <3>2 DEF LastOf
  <2> QED  BY <1>2, <2>1 DEF AliasLast
<1>9. Declaring'
  BY <1>7, <1>8 DEF Declaring
<1>10. Working'
  BY <1>9 DEF Working
<1> QED  BY <1>1, <1>5, <1>6, <1>10, ReadingOn

-----------------------------------------------------------------------------
(* An alias *)

LEMMA AliasIs ==
  \E cs :
    /\ declaration_alias = <<Switch(cs)>> /\ DOMAIN cs = {1, 2}
    /\ cs[1].code \in Seq(Running) /\ Closing(cs[1].code) /\ Loopless(cs[1].code)
    /\ cs[2].code = NoNode
<1> DEFINE a == Keep({"id"})
           b == Need("=")
           c == Call("typedecl")
           d == Need(";")
           e == Make("alias")
           code == <<a, b, c, d, e>>
           cs == <<On({"id"}, code), Otherwise(NoNode)>>
<1>1. declaration_alias = <<Switch(cs)>>
  BY DEF declaration_alias, NoNode
<1>2. cs[1].code = code /\ cs[2].code = NoNode /\ DOMAIN cs = {1, 2}
  <2>1. \A u, v : <<u, v>>[1] = u /\ <<u, v>>[2] = v /\ DOMAIN <<u, v>> = {1, 2}
    <3>1. \A u, v : <<u, v>>[1] = u /\ <<u, v>>[2] = v /\ DOMAIN <<u, v>> = 1 .. 2
      OBVIOUS
    <3> QED  BY <3>1
  <2>2. On({"id"}, code).code = code /\ Otherwise(NoNode).code = NoNode
    BY DEF On, Otherwise
  <2> HIDE DEF code
  <2> QED  BY <2>1, <2>2
<1>3. a.op = "keep" /\ b.op = "need" /\ c.op = "call" /\ d.op = "need" /\ e.op = "make"
  BY DEF Keep, Need, Call, Make
<1>4. a \in Running /\ b \in Running /\ c \in Running /\ d \in Running /\ e \in Running /\ e \in Makes
  <2>1. "typedecl" \in Anywhere
    BY AnywhereRules
  <2>2. "alias" \in Kinds
    BY DEF Kinds
  <2>3. a \in Static /\ b \in Static /\ c \in Static /\ d \in Static /\ e \in Static
    BY <2>1, <2>2, EveryLevel
  <2>4. e \in Makes
    BY <2>2 DEF Make, Makes
  <2> QED  BY <2>3, <2>4, RunningGrows
<1> HIDE DEF a, b, c, d, e
<1>5. /\ code \in Seq(Running) /\ code # <<>> /\ Len(code) = 5
      /\ code[1] = a /\ code[2] = b /\ code[3] = c /\ code[4] = d /\ code[5] = e
  BY <1>4
<1> HIDE DEF code
<1>6. Closing(code)
  BY <1>4, <1>5 DEF Closing, LastOf
<1>7. Loopless(code)
  <2>1. \A j \in 1 .. Len(code) : j \in {1, 2, 3, 4, 5}
    BY <1>5
  <2>2. \A j \in 1 .. Len(code) : code[j].op # "while"
    BY <1>3, <1>5, <2>1
  <2> QED  BY <1>5, <2>2 DEF Loopless, IsSequence
<1> HIDE DEF cs
<1> QED  BY <1>1, <1>2, <1>5, <1>6, <1>7

\* Where an alias is, told by its instruction; nothing was begun here.
LEMMA AliasingAt ==
  ASSUME Aliasing, Top.code # <<>>
  PROVE  /\ IsSequence(Top.code) /\ Instruction.op \in {"switch", "make"} /\ (Alone \/ Excused)
         /\ Instruction.op = "switch" => Top.code = declaration_alias
         /\ Instruction.op = "make" => Top.code = NoNode
         /\ ~MovesOn
<1>1. PICK cs :
        /\ declaration_alias = <<Switch(cs)>> /\ DOMAIN cs = {1, 2}
        /\ cs[2].code = NoNode
  BY AliasIs
<1>2. Switch(cs).op = "switch" /\ Switch(cs).cases = cs
  BY DEF Switch
<1>3. /\ Top.code \in {declaration_alias, NoNode} /\ (Alone \/ Excused)
      /\ Top.rule = "declaration_alias"
  BY DEF Aliasing, NullAtEnd
<1>4. ~Leads(NoNode)
  BY NoNodeIs DEF Leads, MovesAtOnce
<1>5. Call("statement_switch_case").op = "call"
  BY DEF Call
<1>6. CASE Top.code = declaration_alias
  <2>1. Head(Top.code) = Switch(cs) /\ Tail(Top.code) = <<>> /\ IsSequence(Top.code)
    BY <1>1, <1>6, OneIs
  <2>2. ~Moving(Top.code)
    <3>1. ~Leads(Top.code)
      BY <1>2, <2>1 DEF Leads, MovesAtOnce
    <3>2. ~Leads(cs[2].code \o <<>>)
      <4>1. IsSequence(<<>>)
        BY DEF IsSequence
      <4>2. NoNode \o <<>> = NoNode
        BY <4>1, NoNodeIs, Joined
      <4> QED  BY <1>1, <1>4, <4>2
    <3> QED  BY <1>1, <1>2, <2>1, <3>1, <3>2 DEF Moving
  <2> QED  BY <1>2, <1>3, <1>5, <1>6, <2>1, <2>2 DEF Instruction, MovesOn, Choosing, Announcing
<1>7. CASE Top.code = NoNode
  <2>1. Instruction.op = "make" /\ IsSequence(Top.code)
    BY <1>7, NoNodeIs DEF Instruction
  <2>2. ~Moving(Top.code)
    BY <2>1 DEF Moving, Leads, MovesAtOnce, Instruction
  <2> QED  BY <1>3, <1>5, <1>7, <2>1, <2>2 DEF Instruction, MovesOn, Choosing, Announcing
<1> QED  BY <1>3, <1>6, <1>7

LEMMA AliasingBranches ==
  ASSUME Inv, phase = "parsing", Aliasing, Branch
  PROVE  Inv'
<1>1. /\ Top.code # <<>> /\ Instruction.op = "switch" /\ IsSequence(Top.code)
      /\ Top.rule = "declaration_alias"
      /\ Top.code = declaration_alias /\ (Alone \/ Excused) /\ ~MovesOn
  BY AliasingAt DEF Branch, At, Aliasing
<1>2. PICK cs :
        /\ declaration_alias = <<Switch(cs)>> /\ DOMAIN cs = {1, 2}
        /\ cs[1].code \in Seq(Running) /\ Closing(cs[1].code) /\ Loopless(cs[1].code)
        /\ cs[2].code = NoNode
  BY AliasIs
<1>3. Instruction.cases = cs /\ Rest = <<>>
  BY <1>1, <1>2, OneIs DEF Instruction, Rest, Switch
<1>4. PICK k \in {1, 2} : Goes(cs[k].code \o Rest, Top.vals)
  BY <1>2, <1>3 DEF Branch
<1>5. PICK vals : vals = Top.vals
  OBVIOUS
<1>6. PICK part : part = cs[k].code
  OBVIOUS
<1>7. text' = text /\ look' = look /\ errors' = errors
  BY DEF Branch
<1>8. Goes(part \o Rest, vals)
  BY <1>4, <1>5, <1>6
<1>9. Loopless(part)
  BY <1>2, <1>6, NoNodeIs
<1>10. Top'.rule = "declaration_alias" /\ Top'.code = part /\ (Alone => Alone')
  <2>1. PICK rest : rest = Rest
    OBVIOUS
  <2>2. part \o rest = part
    <3>1. rest = <<>> /\ IsSequence(<<>>)
      BY <1>3, <2>1 DEF IsSequence
    <3> QED  BY <1>9, <3>1, Joined DEF Loopless
  <2>3. Goes(part, vals)
    BY <1>8, <2>1, <2>2
  <2> QED  BY <1>1, <2>3, GoesTo
<1>11. Working'
  <2>1. CASE k = 1
    <3>1. part \in Seq(Running) /\ Closing(part)
      BY <1>2, <1>6, <2>1
    <3>2. PICK g : g = Top'
      OBVIOUS
    <3>3. g.rule = "declaration_alias" /\ g.code = part
      BY <1>10, <3>2
    <3>4. Ordinary(g, look')
      BY <3>1, <3>3 DEF Ordinary, Ready, Fine, Ends, Closing
    <3> QED  BY <3>2, <3>4 DEF Working
  <2>2. CASE k = 2
    <3>1. part = NoNode
      BY <1>2, <1>6, <2>2
    <3>2. Excused => Excused'
      BY <1>7 DEF Excused, AliasLast
    <3>3. Aliasing'
      BY <1>1, <1>10, <3>1, <3>2 DEF Aliasing
    <3> QED  BY <3>3 DEF Working
  <2> QED  BY <2>1, <2>2
<1> QED  BY <1>1, <1>7, <1>8, <1>9, <1>11, Turns

LEMMA AliasingMakes ==
  ASSUME Inv, phase = "parsing", Aliasing, make_ast
  PROVE  Inv'
<1>1. /\ Top.code # <<>> /\ Instruction.op = "make" /\ IsSequence(Top.code)
      /\ Top.rule = "declaration_alias"
      /\ Top.code = NoNode /\ (Alone \/ Excused) /\ ~MovesOn
  BY AliasingAt DEF make_ast, At, Aliasing
<1>2. PICK vals : vals = <<Node(Instruction.kind, Top.vals)>>
  OBVIOUS
<1>3. Instruction.kind = "null" /\ Rest = <<>>
  BY <1>1, NoNodeIs DEF Instruction, Rest
<1>4. LastOf(vals).node = "null"
  <2>1. PICK x : x = Node(Instruction.kind, Top.vals)
    OBVIOUS
  <2>2. x.node = "null"
    BY <1>3, <2>1 DEF Node
  <2> QED  BY <1>2, <2>1, <2>2, OneIs DEF LastOf
<1>5. Goes(Rest, vals)
  BY <1>2 DEF make_ast
<1>6. text' = text /\ look' = look /\ errors' = errors
  BY DEF make_ast
<1>7. Top'.rule = "declaration_alias" /\ Top'.code = <<>> /\ Top'.vals = vals /\ (Alone => Alone')
  <2>1. Goes(<<>>, vals)
    BY <1>3, <1>5
  <2> QED  BY <1>1, <2>1, GoesTo
<1>8. Excused => Excused'
  BY <1>6 DEF Excused, AliasLast
<1>9. Aliasing'
  BY <1>1, <1>4, <1>7, <1>8 DEF Aliasing, NullAtEnd
<1>10. Working'
  BY <1>9 DEF Working
<1> QED  BY <1>1, <1>5, <1>6, <1>10, RestsOn

-----------------------------------------------------------------------------
(* The theorems *)

LEMMA ProgramIs == program = Again(0)
<1>1. program = <<Until({EOF}, <<Call("declaration"), IfNull>>), Make("program")>>
  BY DEF program, IfNull, Reporting, IfError
<1>2. PICK w : w = Until({EOF}, <<Call("declaration"), IfNull>>)
  OBVIOUS
<1>3. w = [op |-> "while", when |-> NotIn({EOF}),
           body |-> <<Call("declaration"), IfNull>>, since |-> 0]
  BY <1>2 DEF Until, Loops
<1>4. program[1] = w
  <2>1. \A x, y : <<x, y>>[1] = x
    OBVIOUS
  <2> QED  BY <1>1, <1>2, <2>1
<1>5. [w EXCEPT !.since = 0] = w
  BY <1>3
<1> QED  BY <1>1, <1>2, <1>4, <1>5 DEF Again

\* A function has not begun a round when it is called.
LEMMA Fresh ==
  ASSUME NEW r \in DOMAIN Code \ InFront
  PROVE  Begun(Code[r], 1) /\ ~Began(Code[r], 1)
<1>1. CASE r = "program"
  <2>1. program = <<program[1], Make("program")>> /\ program[1].since = 0
    <3>1. program = <<Until({EOF}, <<Call("declaration"), IfNull>>), Make("program")>>
      BY DEF program, IfNull, Reporting, IfError
    <3>2. PICK w : w = Until({EOF}, <<Call("declaration"), IfNull>>)
      OBVIOUS
    <3>3. w.since = 0
      BY <3>2 DEF Until, Loops
    <3>4. \A x, y : <<x, y>>[1] = x
      OBVIOUS
    <3> QED  BY <3>1, <3>2, <3>3, <3>4
  <2>2. PICK w : w = program[1]
    OBVIOUS
  <2>3. Len(program) = 2 /\ program[2] = Make("program")
    <3>1. \A x, y : Len(<<x, y>>) = 2 /\ <<x, y>>[2] = y
      OBVIOUS
    <3> QED  BY <2>1, <3>1
  <2>4. \A j \in 1 .. Len(program) : j \in {1, 2}
    BY <2>3
  <2>5. \A j \in 1 .. Len(program) : program[j].op = "while" => program[j].since = 0
    BY <2>1, <2>3, <2>4, PartOps
  <2>6. 0 \in 0 .. 1 /\ 0 # 1
    OBVIOUS
  <2> QED  BY <1>1, <2>5, <2>6, CodeIs DEF Begun, Began
<1>2. CASE r \in {"declaration", "declaration_alias"}
  <2>1. PICK cs : Code[r] = <<Switch(cs)>>
    BY <1>2, DeclarationIs, AliasIs, CodeIs
  <2>2. Switch(cs).op # "while"
    BY DEF Switch
  <2>3. \A j \in 1 .. Len(Code[r]) : Code[r][j].op # "while"
    BY <2>1, <2>2, OneIs
  <2> QED  BY <2>3 DEF Begun, Began
<1>3. CASE r \notin {"program", "declaration", "declaration_alias"}
  <2>1. Code[r] \in Seq(Static)
    BY <1>3, CodeFine
  <2>2. 0 \in Nat /\ 1 \in Nat /\ 0 + 1 = 1
    OBVIOUS
  <2>3. ~Began(Code[r], 0 + 1)
    BY <2>1, <2>2, NotBegun
  <2>4. Begun(Code[r], 1)
    BY <2>1, <2>2, NotBegun
  <2> QED  BY <2>2, <2>3, <2>4
<1> QED  BY <1>1, <1>2, <1>3

LEMMA InitInv == Init => Inv
<1> SUFFICES ASSUME Init PROVE Inv
  OBVIOUS
<1>1. job.rule \in DOMAIN Code \ InFront
  <2>1. job \in [rule : DOMAIN Code \ {"statement_init", "typedecl_function"},
                 words : SUBSET (Tokens \ {EOF}), max : Nat, after : Nat]
    BY JobsAssumption DEF Init
  <2> QED  BY <2>1 DEF InFront
<1>2. PICK r : r = job.rule
  OBVIOUS
<1>3. PICK f : f = Frame(r, <<>>)
  OBVIOUS
<1>4. IsFrame(f) /\ f.rule = r /\ f.code = Code[r] /\ f.vals = <<>>
  BY <1>3 DEF Frame, IsFrame
<1>5. stack = <<f>> /\ Len(stack) = 1 /\ stack[1] = f /\ IsSequence(stack) /\ stack # <<>>
  BY <1>2, <1>3, OneIs DEF Init
<1>6. Top = f /\ Alone
  BY <1>5 DEF Top, Alone
<1>7. Here = 1
  <2>1. text = <<>> /\ Len(<<>>) = 0
    BY DEF Init
  <2> QED  BY <2>1 DEF Here
<1>8. Typed
  <2>1. look \in Tokens
    BY UpcomingIn DEF Init
  <2>2. text \in Seq(Tokens)
    BY DEF Init
  <2> QED  BY <2>1, <2>2 DEF Init, Typed
<1>9. Begun(f.code, 1) /\ ~Began(f.code, 1)
  BY <1>1, <1>2, <1>4, Fresh
<1>10. Framed
  BY <1>4, <1>5, <1>7, <1>9 DEF Framed
<1>11. Chained
  <2>1. 1 .. Len(stack) - 1 = {}
    BY <1>5
  <2> QED  BY <2>1 DEF Chained
<1>12. ~Quiet
  BY <1>5, <1>7, <1>9 DEF Quiet
<1>13. Working
  <2>1. IsSequence(<<>>)
    BY DEF IsSequence
  <2>2. CASE r = "program"
    <3>1. LeftOf(Top.code, <<>>, Here)
      <4>1. Top.code = Again(0) /\ 0 \in 0 .. Here
        BY <1>4, <1>6, <1>7, <2>2, CodeIs, ProgramIs
      <4> QED  BY <4>1, LeftNothing
    <3>2. Programming
      BY <1>4, <1>6, <2>1, <2>2, <3>1 DEF Programming
    <3> QED  BY <3>2 DEF Working
  <2>3. CASE r = "declaration"
    <3>1. Declaring
      BY <1>4, <1>6, <2>1, <2>3, CodeIs DEF Declaring
    <3> QED  BY <3>1 DEF Working
  <2>4. CASE r = "declaration_alias"
    <3>1. Aliasing
      BY <1>4, <1>6, <2>4, CodeIs DEF Aliasing
    <3> QED  BY <3>1 DEF Working
  <2>5. CASE r \notin {"program", "declaration", "declaration_alias"}
    <3>1. Code[r] \in Seq(Static)
      BY <1>1, <1>2, <2>5, CodeFine
    <3>2. r \in Declarers => Closing(Code[r])
      BY <2>5, DeclarersClose
    <3>3. Ready(f.code, look)
      BY <1>4, <3>1, RunningGrows DEF Ready, Fine
    <3>4. Ordinary(f, look)
      BY <1>4, <2>5, <3>2, <3>3 DEF Ordinary, Ends, Closing
    <3> QED  BY <1>6, <3>4 DEF Working
  <2> QED  BY <2>2, <2>3, <2>4, <2>5
<1>14. CursorInside /\ (phase = "parsing" <=> stack # <<>>)
  BY <1>5 DEF Init, CursorInside
<1> QED  BY <1>8, <1>10, <1>11, <1>12, <1>13, <1>14 DEF Inv

\* What a call that is not an ordinary one can be at.
LEMMA SpecialOps ==
  ASSUME Top.code # <<>>
  PROVE  /\ Programming =>
              Instruction.op \in {"while", "call", "last", "report", "drop", "need", "make"}
         /\ Declaring => Instruction.op \in {"switch", "make", "need", "call"}
         /\ Aliasing => Instruction.op \in {"switch", "make"}
<1>1. ASSUME Programming
      PROVE  Instruction.op \in {"while", "call", "last", "report", "drop", "need", "make"}
  BY <1>1, ProgramHeads, PartOps DEF Programming
<1> QED  BY <1>1, DeclaringAt, AliasingAt

LEMMA StepKeepsInv ==
  ASSUME Inv, Next
  PROVE  Inv'
<1>1. phase = "parsing"
  BY DEF Next, Consume, ConsumeWord, Refuse, Enter, Overflow, Leave, make_ast, Loop, Branch,
         BranchOnLast, DropLast, Report, PushOnNull, At
<1>2. Programming \/ Declaring \/ Aliasing \/ Ordinary(Top, look)
  BY <1>1, Innermost DEF Working
<1>3. CASE Consume
  <2>1. Top.code # <<>> /\ Instruction.op = "need"
    BY <1>3 DEF Consume, At
  <2> QED  BY <1>1, <1>2, <1>3, <2>1, SpecialOps, ProgramReads, DeclaringReads, OrdinaryReads
<1>4. CASE ConsumeWord
  <2>1. Top.code # <<>> /\ Instruction.op = "keep"
    BY <1>4 DEF ConsumeWord, At
  <2> QED  BY <1>1, <1>2, <1>4, <2>1, SpecialOps, OrdinaryReads
<1>5. CASE Refuse
  BY <1>1, <1>5, Refuses
<1>6. CASE Enter
  <2>1. Top.code # <<>> /\ Instruction.op = "call"
    BY <1>6 DEF Enter, At
  <2> QED  BY <1>1, <1>2, <1>6, <2>1, SpecialOps, ProgramEnters, DeclaringEnters, OrdinaryEnters
<1>7. CASE Overflow \/ PushOnNull
  BY <1>1, <1>7, StopsKeep
<1>8. CASE Leave
  BY <1>1, <1>8, Leaves
<1>9. CASE make_ast
  BY <1>1, <1>2, <1>9, ProgramMakes, DeclaringMakes, AliasingMakes, OrdinaryMakes
<1>10. CASE Loop
  <2>1. Top.code # <<>> /\ Instruction.op = "while"
    BY <1>10 DEF Loop, At
  <2> QED  BY <1>1, <1>2, <1>10, <2>1, SpecialOps, ProgramLoops, OrdinaryLoops
<1>11. CASE Branch
  <2>1. Top.code # <<>> /\ Instruction.op = "switch"
    BY <1>11 DEF Branch, At
  <2> QED  BY <1>1, <1>2, <1>11, <2>1, SpecialOps, DeclaringBranches, AliasingBranches,
              OrdinaryBranches
<1>12. CASE BranchOnLast
  <2>1. Top.code # <<>> /\ Instruction.op = "last"
    BY <1>12 DEF BranchOnLast, At
  <2> QED  BY <1>1, <1>2, <1>12, <2>1, SpecialOps, ProgramBranchesOnLast, OrdinaryBranchesOnLast
<1>13. CASE DropLast
  <2>1. Top.code # <<>> /\ Instruction.op = "drop"
    BY <1>13 DEF DropLast, At
  <2> QED  BY <1>1, <1>2, <1>13, <2>1, SpecialOps, ProgramDrops, OrdinaryNever
<1>14. CASE Report
  <2>1. Top.code # <<>> /\ Instruction.op = "report"
    BY <1>14 DEF Report, At
  <2> QED  BY <1>1, <1>2, <1>14, <2>1, SpecialOps, ProgramReports, OrdinaryNever
<1> QED  BY <1>3, <1>4, <1>5, <1>6, <1>7, <1>8, <1>9, <1>10, <1>11, <1>12, <1>13, <1>14 DEF Next

LEMMA StutterKeepsInv ==
  ASSUME Inv, UNCHANGED vars
  PROVE  Inv'
<1>1. /\ job' = job /\ text' = text /\ look' = look /\ stack' = stack /\ errors' = errors
      /\ phase' = phase
  BY DEF vars
<1>2. Typed' /\ Framed' /\ Chained' /\ CursorInside' /\ (phase' = "parsing" <=> stack' # <<>>)
  BY <1>1 DEF Inv, Typed, Framed, Chained, CursorInside, Here
<1>3. Quiet' <=> Quiet
  BY <1>1 DEF Quiet, Here
<1>4. MovesOn => MovesOn'
  BY <1>1 DEF MovesOn, Choosing, Announcing, NullAtEnd, Top, Here
<1>5. Programming => Programming'
  BY <1>1 DEF Programming, Excused, AliasLast, Top, Here
<1>6. Declaring => Declaring'
  BY <1>1 DEF Declaring, Excused, AliasLast, Alone, NullAtEnd, Top
<1>7. Aliasing => Aliasing'
  BY <1>1 DEF Aliasing, Excused, AliasLast, Alone, NullAtEnd, Top
<1>8. Working => Working'
  <2>1. Ordinary(Top, look) => Ordinary(Top, look)'
    BY <1>1 DEF Top
  <2> QED  BY <1>5, <1>6, <1>7, <2>1 DEF Working
<1> QED  BY <1>1, <1>2, <1>3, <1>4, <1>8 DEF Inv

LEMMA SpecInv == Spec => []Inv
<1>1. Init => Inv
  BY InitInv
<1>2. Inv /\ [Next]_vars => Inv'
  BY StepKeepsInv, StutterKeepsInv
<1> QED  BY <1>1, <1>2, PTL DEF Spec

\* The cursor of the parser stays inside its tokens whatever the text, the
\* function and the depth of the C stack, but for the one token parse_program
\* skips behind an `alias` that ends the text (parser.c:964).
THEOREM CursorStaysInside == Spec => []CursorInside
<1>1. Inv => CursorInside
  BY DEF Inv
<1> QED  BY <1>1, SpecInv, PTL

LEMMA NotSilent == Inv => NoSilentRound
<1> SUFFICES ASSUME Inv, At("while"), Holds(Instruction.when), Instruction.since = Here,
                    Here \notin errors
             PROVE  FALSE
  BY DEF NoSilentRound
<1>1. /\ phase = "parsing" /\ Top.code # <<>> /\ Instruction.op = "while"
      /\ Working /\ Framed /\ Len(stack) \in Nat /\ Len(stack) > 0 /\ Here > 0 /\ Here \in Nat
  BY Innermost DEF At
<1>2. IsSequence(Top.code)
  BY <1>1, ProgramSeq, DeclaringAt, AliasingAt, ReadyParts DEF Working, Ordinary
<1>3. Began(Top.code, Here)
  <2>1. PICK S : Top.code \in Seq(S)
    BY <1>2 DEF IsSequence
  <2>2. 1 \in 1 .. Len(Top.code) /\ Top.code[1] = Head(Top.code)
    BY <1>1, <2>1
  <2> QED  BY <1>1, <2>2 DEF Began, Instruction
<1>4. MovesOn
  <2>1. Len(stack) \in 1 .. Len(stack)
    BY <1>1
  <2>2. Quiet
    BY <1>3, <2>1 DEF Quiet, Top
  <2> QED  BY <2>2 DEF Inv
<1>5. ~Moving(Top.code) /\ Head(Top.code) # Call("statement_switch_case")
  <2>1. Head(Top.code).op = "while"
    BY <1>1 DEF Instruction
  <2>2. ~Moving(Top.code)
    BY <2>1 DEF Moving, Leads, MovesAtOnce
  <2>3. Call("statement_switch_case").op = "call"
    BY DEF Call
  <2> QED  BY <2>1, <2>2, <2>3
<1>6. ~Choosing
  <2> SUFFICES ASSUME Choosing PROVE FALSE
    OBVIOUS
  <2>1. statement_switch_case \in Seq(Static)
    BY StatementSwitchCaseFine
  <2>2. PICK a, b, c, d, e :
           /\ statement_switch_case = <<a, b, c, d>>
           /\ a.op = "while" /\ a.when = In({"case"})
           /\ b.op = "switch" /\ b.cases = <<On({"default"}, e), Otherwise(<<>>)>>
           /\ Leads(e) /\ IsSequence(e)
           /\ c.op = "while" /\ c.when = NotIn({EOF, "}", "case", "default"})
           /\ d = Make("case")
    BY CaseIs
  <2>3. a \in Static /\ b \in Static /\ c \in Static
    <3>1. \A i \in 1 .. 4 : <<a, b, c, d>>[i] \in Static
      <4>1. Len(<<a, b, c, d>>) = 4
        OBVIOUS
      <4>2. <<a, b, c, d>> \in Seq(Static)
        BY <2>1, <2>2
      <4>3. \A s \in Seq(Static) : \A i \in 1 .. Len(s) : s[i] \in Static
        OBVIOUS
      <4> QED  BY <4>1, <4>2, <4>3
    <3>2. /\ <<a, b, c, d>>[1] = a /\ <<a, b, c, d>>[2] = b /\ <<a, b, c, d>>[3] = c
          /\ 1 \in 1 .. 4 /\ 2 \in 1 .. 4 /\ 3 \in 1 .. 4
      OBVIOUS
    <3> QED  BY <3>1, <3>2
  <2>4. Instruction \in {a, b, c}
    <3>1. /\ Tail(<<a, b, c, d>>) = <<b, c, d>> /\ Tail(<<b, c, d>>) = <<c, d>>
          /\ Head(<<a, b, c, d>>) = a /\ Head(<<b, c, d>>) = b /\ Head(<<c, d>>) = c
      OBVIOUS
    <3> QED  BY <2>2, <3>1 DEF Choosing, Instruction
  <2>5. Instruction.since = 0
    BY <1>1, <2>3, <2>4, StaticParts
  <2> QED  BY <1>1, <2>5
<1>7. ~Announcing
  <2>1. CASE Top.rule = "program"
    <3>1. Instruction.op # "call" /\ Instruction.op # "last" /\ Instruction.op # "report"
      BY <1>1
    <3> QED  BY <1>1, <2>1, <3>1, ProgramHeads, PartOps DEF Announcing
  <2>2. CASE Top.rule = "declaration"
    <3>1. PICK cs : declaration = <<Switch(cs)>>
      BY DeclarationIs
    <3>2. Switch(cs).op = "switch"
      BY DEF Switch
    <3>3. Head(declaration).op = "switch"
      BY <3>1, <3>2, OneIs
    <3> QED  BY <1>1, <2>2, <3>3, NoNodeIs DEF Announcing, NullAtEnd, Instruction
  <2> QED  BY <2>1, <2>2 DEF Announcing
<1> QED  BY <1>4, <1>5, <1>6, <1>7 DEF MovesOn

\* No loop of the parser begins two rounds at one token without having reported
\* it, whatever the text.
THEOREM RoundsAreNotSilent == Spec => []NoSilentRound
  BY NotSilent, SpecInv, PTL

=============================================================================
