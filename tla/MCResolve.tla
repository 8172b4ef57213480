------------------------------ MODULE MCResolve ------------------------------
(***************************************************************************)
(* Two declarations of types, A and B, a variable V and a function F or a  *)
(* second variable W; U is declared nowhere.  P is a parameter that        *)
(* nothing else is named like; a function may also name its parameters     *)
(* like the types and variables of the program.                            *)
(***************************************************************************)
EXTENDS Resolve, TLC

CONSTANTS A, B, V, W, U, P, int

MCNames == {A, B, V, W, U, P}

Ty(n, wraps) == [base |-> n, wraps |-> wraps]
Value(n) == Ty(n, <<>>)
Ptr(n) == Ty(n, <<"pointer">>)
Arr(n) == Ty(n, <<"sized">>)
Sl(n) == Ty(n, <<"slice">>)
ArrPtr(n) == Ty(n, <<"sized", "pointer">>)
Matrix(n) == Ty(n, <<"sized", "sized">>)

\* What A and B are made of, and what V and W use.
Uses(ns) == UNION {{Value(n), Ptr(n), Arr(n), Sl(n)} : n \in ns}
ForA == Uses({A, B}) \cup {Value(int), Value(U), Ptr(U), Arr(V), Sl(V), ArrPtr(B), Matrix(B)}
ForB == Uses({A}) \cup {Value(int), Value(B), Ptr(B), Value(V), Arr(int), Arr(U)}

DeclsA == {Alias(A, t) : t \in ForA} \cup {Aggregate(A, <<t>>) : t \in ForA}
            \cup {Lines(A, <<1, 2>>, <<t, u>>) : t \in {Value(B), Ptr(B), Arr(B)}, u \in ForA}
DeclsB == {Alias(B, t) : t \in ForB} \cup {Aggregate(B, <<t>>) : t \in ForB}
            \cup {Lines(B, <<3, 1>>, <<Value(int), t>>) : t \in {Value(A), Arr(A), Ptr(A)}}
Users ==
  {<<Variable(V, Value(A)), Function(W, <<P>>, <<Value(A), Value(int)>>)>>,
   <<Variable(V, Arr(B)), Variable(W, Arr(A))>>,
   <<Inferred(V, W), Variable(W, Value(B))>>,
   <<Inferred(V, B), Function(W, <<P, P>>, <<Ptr(B), Value(A), Value(V)>>)>>}

Redefinitions ==
  {<<a, b, Aggregate(B, <<Value(A)>>), Variable(V, Value(B))>> :
     a \in DeclsA, b \in {Alias(A, Value(int)), Aggregate(A, <<>>)}}

\* A parameter that is named like what the later ones, the variable after the
\* function or the aliases and aggregates behind them use.
Shadowing ==
  {<<b, Function(W, <<q, P>>, <<t, Value(A), Value(int)>>), v, a>> :
     a \in {Alias(A, Value(U)), Alias(A, Value(B)), Aggregate(A, <<Value(U)>>),
             Aggregate(A, <<Arr(B)>>), Aggregate(A, <<Value(B), Ptr(A)>>), Aggregate(A, <<Value(A)>>)},
     b \in {Alias(B, Value(int)), Aggregate(B, <<Value(int)>>), Aggregate(B, <<Value(A)>>)},
     v \in {Variable(V, Value(B)), Inferred(V, U), Inferred(V, int)},
     q \in {A, B, U, V, int},
     t \in {Value(int), Ptr(A), Value(B)}}

\* A variable that stands for a builtin type.
OfBuiltins == {<<a, Inferred(V, int), Variable(W, Value(A))>> : a \in DeclsA}

\* Variables that stand for each other, for nothing, or only point somewhere.
Circles == {<<Inferred(V, W), Aggregate(A, <<Value(V)>>), Inferred(W, V)>>}
Pointing == {<<a, Variable(V, Ptr(A)), b, w>> :
               a \in DeclsA, b \in {Alias(B, Value(A)), Aggregate(B, <<Ptr(A)>>)},
               w \in {Inferred(W, U), Inferred(W, V)}}

MCPrograms ==
  {<<u[2], a, u[1], b>> : a \in DeclsA, b \in DeclsB, u \in Users}
    \cup Redefinitions \cup Shadowing \cup OfBuiltins \cup Circles \cup Pointing
=============================================================================
