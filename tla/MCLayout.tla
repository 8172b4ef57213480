------------------------------ MODULE MCLayout -------------------------------
(***************************************************************************)
(* Two aggregates with one or two members each, and three with one.  Q may *)
(* be in P and R in both; behind a pointer any may be in any.  Functions   *)
(* take, return and declare values of them and pointers to them, so that   *)
(* each may stay incomplete, or be completed for a body alone.             *)
(***************************************************************************)
EXTENDS Layout

P == Aggregate("P")
Q == Aggregate("Q")
R == Aggregate("R")
i8 == Base(1)
i64 == Base(8)
Void == Base(0)

UpTo2(S) == {<<a>> : a \in S} \cup {<<a, b>> : a, b \in S}
Ps == {i8, i64, Q, Sized(Q, 2), Sized(Sized(i64, 2), 2), Pointer(P), Slice(P), Pointer(Q),
       Slice(Sized(Q, 2))}
Qs == {i8, i64, Pointer(P), Slice(P), Pointer(Sized(P, 2)), Slice(Q)}
Pairs ==
  {Variable(i8), Variable(P), Variable(Q), Variable(Sized(P, 2)), Variable(Pointer(P)),
   Variable(Slice(Sized(i8, 3))), Function(<<P>>, Q, <<>>), Function(<<Pointer(Q)>>, Void, <<P>>)}
Triples ==
  {Variable(P), Variable(Q), Variable(R), Variable(Pointer(P)), Function(<<R>>, Pointer(Q), <<>>),
   Function(<<Slice(R)>>, Q, <<P>>)}

MCPrograms ==
  {[members |-> {("P" :> p) @@ ("Q" :> q) : p \in UpTo2(Ps), q \in UpTo2(Qs)},
    declarations |-> UpTo2(Pairs)],
   [members |-> {("P" :> <<p>>) @@ ("Q" :> <<q>>) @@ ("R" :> <<r>>) :
                   p \in {Q, R, Pointer(R)}, q \in {R, Pointer(P), i8},
                   r \in {i8, i64, Pointer(P), Pointer(Q)}},
    declarations |-> {<<a, b, c>> : a, b, c \in Triples}]}
=============================================================================
