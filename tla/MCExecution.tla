----------------------------- MODULE MCExecution -----------------------------
(***************************************************************************)
(* The functions Execution is checked with.  A function is a statement     *)
(* with others in it, up to three levels deep, and what comes after it.    *)
(***************************************************************************)
EXTENDS Execution

\* Conditions are true or false; what is switched on is one of two cases or none.
MCValues ==
  [n \in {"a", "b", "c"} |-> {0, 1}] @@ [n \in {"d", "e"} |-> {0, 2}]
    @@ [n \in {"s", "t"} |-> {0, 1, 2}] @@ [n \in {"v", "r", "result"} |-> {1}]

a == Atom("a")
c == Atom("c")
ab == {a, And(a, Atom("b")), Or(a, Atom("b"))}
Put(n) == Effect(n, Atom("v"))
Put1(n) == Block(<<Put(n)>>)

Ifs(C, B) == {If(x, t, f) : x \in C, t \in B, f \in {Nothing, Put1("z"), Block(<<Break>>)}}
Whiles(C, B) == {While(x, b) : x \in C, b \in B}
DoWhiles(C, B) == {DoWhile(b, x) : x \in C, b \in B}
Fors(C, B) == {For(i, x, Put("step"), b) : i \in {Nothing, Put("init")}, x \in C \cup {Always}, b \in B}

\* A switch with a default, and one with two cases for the same value and none.
Defaulted(e, b1, b2) == Switch(e, <<Case({1}, FALSE, b1), Case({}, TRUE, b2)>>)
Undefaulted(e, b1, b2) == Switch(e, <<Case({1}, FALSE, b1), Case({1, 2}, FALSE, b2)>>)
Switches(B1, B2) ==
  {Defaulted(Atom("s"), b1, b2) : b1 \in B1, b2 \in B2}
    \cup {Undefaulted(Atom("s"), b1, b2) : b1 \in B1, b2 \in B2}

-----------------------------------------------------------------------------

Bodies(L) == {Block(<<l>>) : l \in L} \cup {Block(<<l, Put("y")>>) : l \in L}
Leaves == {Put("x"), Break, Continue, Return(Atom("r"))}
Flat == Bodies(Leaves)

Simple == Ifs(ab, Flat) \cup Whiles(ab, Flat) \cup DoWhiles(ab, Flat) \cup Fors(ab, Flat)
SimpleSwitches == Switches(Flat, Flat)

\* switch (s) { case 1: { if (a) break; return r; } default: ... }
Returned == Block(<<Return(Atom("r"))>>)
BreakingSwitches ==
  {Defaulted(Atom("s"), Block(<<If(a, x, f), Return(Atom("r"))>>), b) :
     x \in {Break, Block(<<Break>>), Return(Atom("r"))}, f \in {Nothing, Put1("z")},
     b \in {Returned, Put1("d"), Block(<<Break, Return(Atom("r"))>>)}}
    \cup {Defaulted(Atom("s"), Block(<<l, Return(Atom("r"))>>), Returned) : l \in Whiles({a}, Flat)}
    \cup {Defaulted(Atom("t"), Block(<<s>>), Returned) : s \in Switches({Returned, Put1("x")}, {Returned})}

Inner == Ifs({a}, Flat) \cup Whiles({a}, Flat) \cup Fors({a}, Flat) \cup Switches(Flat, {Put1("d")})
InnerBodies == {Block(<<s, Put("w")>>) : s \in Inner}
OuterSwitches == {Defaulted(Atom("t"), b, Put1("d")) : b \in InnerBodies}
Outer == Ifs({c}, InnerBodies) \cup Whiles({c}, InnerBodies) \cup Fors({c}, InnerBodies)
           \cup OuterSwitches \cup {While(c, Block(<<s, Put("w")>>)) : s \in OuterSwitches}

\* Values made of conditions, in each place a value is wanted.
Ternaries ==
  LET T == Ternary(c, Atom("d"), Atom("e"))
  IN  {T, Ternary(And(a, Atom("b")), T, Or(a, T)), And(T, Or(a, T)),
       Or(And(a, T), And(T, Atom("b")))}
Valued == {Effect("x", e) : e \in Ternaries} \cup Whiles(Ternaries, {Put1("x")})
            \cup Ifs(Ternaries, {Put1("x")}) \cup DoWhiles(Ternaries, {Put1("x")})

Result == Return(Atom("result"))
Returning(S) == {Function(Block(<<s, Result>>), FALSE) : s \in S}
Ending(S) == {Function(Block(<<s>>), FALSE) : s \in S}
Void(S) == {Function(Block(<<s, Put("end")>>), TRUE) : s \in S}

\* Functions that keep clear of what goes wrong in lowering: a switch has its
\* default last and no pattern beside it; a "do" has no statement with blocks of
\* its own in it; a loop is not what a void function ends in.
MCFunctions ==
  Returning(Outer \cup Simple \cup SimpleSwitches \cup Valued)
    \cup Ending(Simple)
    \cup Ending(SimpleSwitches \cup BreakingSwitches)
    \cup Void(Ifs(ab, Bodies({Put("x")})) \cup Switches(Bodies({Put("x"), Break}), {Put1("d")}))

\* do { if (a) x; y; } while (c)
DoWhileFunctions == Returning(DoWhiles({c}, InnerBodies))

=============================================================================
