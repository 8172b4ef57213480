------------------------------ MODULE Statements ------------------------------
(***************************************************************************)
(* The statements of a function body and the expressions that steer them,  *)
(* as the parser builds them, and what they mean: the reference that the   *)
(* code lower.c generates is compared with.  It is a machine that runs a   *)
(* body from a stack of what is left to do, and has nothing of blocks.     *)
(***************************************************************************)
EXTENDS Integers, Sequences

\* An atom is an expression without control flow; its value is not known before
\* it is evaluated.
Atom(n) == [kind |-> "atom", name |-> n]
And(l, r) == [kind |-> "and", left |-> l, right |-> r]
Or(l, r) == [kind |-> "or", left |-> l, right |-> r]
Ternary(c, t, f) == [kind |-> "ternary", cond |-> c, true |-> t, false |-> f]
Always == [kind |-> "always"]  \* the condition a "for" may leave out

\* An effect is an expression statement, an assignment or an initialization:
\* it evaluates an expression and does something with the value.
Effect(n, e) == [kind |-> "effect", name |-> n, value |-> e]
Break == [kind |-> "break"]
Continue == [kind |-> "continue"]
Return(e) == [kind |-> "return", value |-> e]
Block(ss) == [kind |-> "block", statements |-> ss]
If(c, t, f) == [kind |-> "if", cond |-> c, true |-> t, false |-> f]
While(c, b) == [kind |-> "while", cond |-> c, body |-> b]
DoWhile(b, c) == [kind |-> "do while", cond |-> c, body |-> b]
For(i, c, n, b) == [kind |-> "for", init |-> i, cond |-> c, step |-> n, body |-> b]
Switch(e, cs) == [kind |-> "switch", value |-> e, cases |-> cs]

\* An "else", an initializer or an increment that is not there.
Nothing == Block(<<>>)

\* "case 1: case 2 .. 4: default: body", its patterns as the set they match.
Case(vs, d, b) == [patterns |-> vs, is_default |-> d, body |-> b]

-----------------------------------------------------------------------------
(* The reference machine.  `todo` is what is left to do, the next item      *)
(* first; `value` is what the last expression was evaluated to.  Besides   *)
(* statements and expressions an item may be what to do with a value:      *)

AndThen(r) == [kind |-> "and then", right |-> r]
OrElse(r) == [kind |-> "or else", right |-> r]
Truth == [kind |-> "truth"]
Choose(t, f) == [kind |-> "choose", true |-> t, false |-> f]
Do(n) == [kind |-> "do", name |-> n]
Leave == [kind |-> "leave"]
Select(cs) == [kind |-> "select", cases |-> cs]

\* ... or where a loop goes on, or a switch ends: where "break" and "continue"
\* look for their target.
Again(s) == [kind |-> "again", loop |-> s]
EndSwitch == [kind |-> "end switch"]

Targets(todo, kinds) == {i \in DOMAIN todo : todo[i].kind \in kinds}
First(S) == CHOOSE i \in S : \A j \in S : i <= j
From(todo, i) == SubSeq(todo, i, Len(todo))
Rest(todo) == From(todo, 2)

BoolValue(b) == IF b THEN 1 ELSE 0

\* The case that is selected: the first one that matches, or else the default.
Selected(cs, v) ==
  LET matching == {i \in DOMAIN cs : v \in cs[i].patterns}
      default == {i \in DOMAIN cs : cs[i].is_default}
  IN  IF matching # {} THEN <<cs[First(matching)].body>>
      ELSE IF default # {} THEN <<cs[First(default)].body>>
      ELSE <<>>

\* A loop at the point where it decides whether to run its body again.
Test(s) == <<s.cond, Choose(<<s.body, Again(s)>>, <<>>)>>

\* What an item is replaced by, and the value from then on.
Unfold(item, v) ==
  CASE item.kind = "and" -> <<item.left, AndThen(item.right)>>
    [] item.kind = "or" -> <<item.left, OrElse(item.right)>>
    [] item.kind = "ternary" -> <<item.cond, Choose(<<item.true>>, <<item.false>>)>>
    [] item.kind = "and then" -> IF v # 0 THEN <<item.right, Truth>> ELSE <<>>
    [] item.kind = "or else" -> IF v # 0 THEN <<Truth>> ELSE <<item.right, Truth>>
    [] item.kind = "choose" -> IF v # 0 THEN item.true ELSE item.false
    [] item.kind = "select" -> Selected(item.cases, v) \o <<EndSwitch>>
    [] item.kind = "effect" -> <<item.value, Do(item.name)>>
    [] item.kind = "return" -> <<item.value, Leave>>
    [] item.kind = "block" -> item.statements
    [] item.kind = "if" -> <<item.cond, Choose(<<item.true>>, <<item.false>>)>>
    [] item.kind = "while" -> Test(item)
    [] item.kind = "do while" -> <<item.body, Again(item)>>
    [] item.kind = "for" -> <<item.init>> \o Test(item)
    [] item.kind = "again" ->
         IF item.loop.kind = "for" THEN <<item.loop.step>> \o Test(item.loop)
                                   ELSE Test(item.loop)
    [] item.kind = "switch" -> <<item.value, Select(item.cases)>>
    [] OTHER -> <<>>

\* The body of a loop is in the `todo` with what follows it in the loop, so the
\* nearest target is the innermost one.
AfterBreak(todo) == From(todo, First(Targets(todo, {"again", "end switch"})) + 1)
AfterContinue(todo) == From(todo, First(Targets(todo, {"again"})))

Unfolded(s) ==
  LET item == s.todo[1]
  IN  CASE item.kind = "break" -> [s EXCEPT !.todo = AfterBreak(@)]
        [] item.kind = "continue" -> [s EXCEPT !.todo = AfterContinue(@)]
        [] item.kind = "truth" -> [s EXCEPT !.todo = Rest(@), !.value = BoolValue(@ # 0)]
        [] item.kind = "always" -> [s EXCEPT !.todo = Rest(@), !.value = 1]
        [] OTHER -> [s EXCEPT !.todo = Unfold(item, s.value) \o Rest(@)]

\* What can be seen of a run: an atom is evaluated, an effect is had, the
\* function returns, or control runs off its end.
Event(kind, name, value) == [kind |-> kind, name |-> name, value |-> value]
Seen == {"atom", "do", "leave"}

\* The machine goes on to the next event.
RECURSIVE Advance(_)
Advance(s) ==
  IF s.todo = <<>> \/ s.todo[1].kind \in Seen THEN s ELSE Advance(Unfolded(s))

EventOf(s) ==
  IF s.todo = <<>> THEN Event("end", "", 0)
  ELSE LET item == s.todo[1]
       IN  CASE item.kind = "atom" -> Event("evaluate", item.name, 0)
             [] item.kind = "do" -> Event("effect", item.name, s.value)
             [] item.kind = "leave" -> Event("return", "", s.value)

Started(body) == Advance([todo |-> <<body>>, value |-> 0])
\* The event at hand has happened; if an atom was evaluated, to v.
After(s, v) == Advance([todo |-> Rest(s.todo), value |-> v])
=============================================================================
