--------------------------- MODULE MCInitializers ----------------------------
(***************************************************************************)
(* Two global names, A with a simple initializer and B with one that may   *)
(* use A, in either order.  Three, five and seven bits for the bytes of    *)
(* the three sizes of integers: 6 is more than an i8 holds, 20 more than   *)
(* an i32, 40 more than a u32 and 100 more than an i64; 8 and 16 have      *)
(* nothing in their lowest byte.                                           *)
(***************************************************************************)
EXTENDS Initializers

MCWidth == [k \in Kinds |-> IF k \in {"i8", "u8"} THEN 3 ELSE IF k \in {"i32", "u32"} THEN 5 ELSE 7]

A == Identifier("A")
Literals == {Number(n) : n \in {0, 1, 6, 8, 20, 40, 100}}
Minus(e) == Unary("-", e)

Kind == {"const", "var"}
Simple ==
  {Declaration("A", c, NoType, e) : c \in Kind,
     e \in {Number(1), Number(6), Number(40), Minus(Number(1)), Unary("~", Number(1))}
             \cup {Cast(k, Number(n)) : k \in Kinds, n \in {1, 6}}
             \cup {Cast(k, Minus(Number(1))) : k \in {"i8", "u8", "i64"}}}
    \cup {Declaration("A", "var", k, None) : k \in {"i8", "u64"}}

Atoms == {A, Paren(A), Number(1), Number(8), Number(100)} \cup {Cast(k, A) : k \in {"i8", "u8", "i32", "u64"}}
Signs == {A, Cast("i8", A), Cast("u8", A), Minus(A), Number(1), Number(100)}
Operators == {"+", "-", "*", "==", "<", "&&"}
Others == {"/", "%", "&", "|", "^", "<<", ">>", "!=", "<=", ">", ">=", "||"}
Unaries == {Unary(op, e) : op \in {"+", "-", "!", "~"}, e \in {A, Cast("i8", A), Number(16)}}
Binaries ==
  {Binary(op, l, r) : op \in Operators, l \in Atoms, r \in Atoms}
    \cup {Binary(op, l, r) : op \in Others, l \in Signs, r \in Signs}
Ternaries == {Ternary(c, t, f) : c \in {A, Number(8), Binary("<", A, Number(1))}, t \in {A, Number(1)}, f \in {Number(20), Minus(A)}}
Casts == {Cast(k, e) : k \in Kinds, e \in {Minus(A), Number(40), Binary("+", A, Number(1))}}
Inner == {Binary("+", A, Number(6)), Minus(A), Paren(Minus(A)),
          Binary("+", Cast("u8", A), Cast("u8", Number(6)))}
Outer == {Number(40), Cast("u8", A), Binary("==", A, Number(1))}
Nested ==
  {Binary(op, l, r) : op \in {"+", "<"}, l \in Inner, r \in Outer}
    \cup {Binary(op, r, l) : op \in {"+", "<"}, l \in Inner, r \in Outer}

Expressions == Unaries \cup Binaries \cup Ternaries \cup Casts \cup Nested \cup {A}

Complex == {Declaration("B", c, NoType, e) : c \in Kind, e \in Expressions}

\* Each in a program on its own, and with functions before, between and after.
One(D) == {<<d>> : d \in D}
None1 == {<<>>}
Functions ==
  {<<Function("f", p)>> : p \in SUBSET {"A", "c"}}
    \cup {<<Function("f", p), Function("g", q)>> : p, q \in SUBSET {"A", "c"}}
As == One({Declaration("A", c, NoType, Number(1)) : c \in Kind}
            \cup {Declaration("A", "var", k, Number(1)) : k \in {"u8", "i64"}})
Bs == One({Declaration("B", c, NoType, e) : c \in Kind, e \in {A, Number(1), Binary("+", A, A)}})

MCPrograms ==
  {<<One(Simple), One(Complex), None1>>, <<One(Complex), One(Simple), None1>>,
   <<As, Functions, Bs>>, <<Functions, Bs, As>>, <<Bs, As, Functions>>, <<Functions, As, Bs>>}
=============================================================================
