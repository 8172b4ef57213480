------------------------------- MODULE MCNames --------------------------------
(***************************************************************************)
(* Functions over two local names and one global, "g", which may be the    *)
(* name of a parameter.  Statements nest two deep; a body may be a         *)
(* statement without braces, or missing.                                   *)
(***************************************************************************)
EXTENDS Names

MCGlobals == {"g"}
Uses == {Expression({n}) : n \in {"x", "g"}}
Simple == Uses \cup {Declare("x", {}), Declare("y", {"x"}), Declare("g", {}), Declare("x", {"g"})}
Pair(S) == {Block(<<a, b>>) : a, b \in S}
Optional == {Nothing, Declare("x", {"g"})}
Flat == Pair(Simple)

Loops(C, B) ==
  {While(c, b) : c \in C, b \in B} \cup {DoWhile(b, c) : c \in C, b \in B}
    \cup {For(i, c, n, b) : i \in Optional, c \in C, n \in Uses, b \in B}
Others(C, B) ==
  {If(i, c, b, d) : i \in Optional, c \in C, b \in B, d \in {Nothing, Declare("x", {})}}
    \cup {If(Declare("x", {"g"}), Nothing, b, Nothing) : b \in B}
    \cup {Switch(c, <<b, d>>) : c \in C, b \in B, d \in Uses \cup {Declare("x", {})}}
Nested == Loops(Uses, Simple \cup Flat) \cup Others(Uses, Simple \cup Flat)

\* A statement between two simple ones.
Around == {Nothing, Declare("x", {})}
Bodies == {Block(<<a, s, b>>) : a \in Around, s \in Nested, b \in Uses \cup {Declare("x", {"g"})}}
Branches == Others({Expression({"g"})}, Simple)
Inner == {While(Expression({"y"}), s) : s \in Branches}
Deep == {Block(<<Declare("y", {}), s, b>>) : s \in Inner, b \in Simple}

\* Under a name of its own TLC computes it once.
Parts ==
  {Nothing, Expression({"y"}), Declare("y", {})} \cup Simple \cup Flat \cup Nested
    \cup Branches \cup Inner
MCStatements == Parts

MCPrograms ==
  {<<Function(p, b)>> : p \in {{}, {"g"}, {"x"}}, b \in Bodies \cup Deep}
    \cup {<<Function(p, a), Function(q, b)>> : p \in {{}, {"x"}}, q \in SUBSET {"g", "x"}, a, b \in Flat}
    \cup {<<Function({}, a), Function({"g"}, b)>> : a \in Simple \cup {Nothing}, b \in Simple}
=============================================================================
