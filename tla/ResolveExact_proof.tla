-------------------------- MODULE ResolveExact_proof --------------------------
(***************************************************************************)
(* That the analysis of declarations finds what Declarations says they     *)
(* mean.  While no error has been reported, a resolved entry has the type  *)
(* that following names as often as entries are resolved gives it, and a   *)
(* complete aggregate the size that laying out as often as aggregates are  *)
(* complete gives it.  For that, each frame says how far its loop has come *)
(* and what the types it holds mean, each two neighbours which question    *)
(* the lower one asks, and the innermost one what the answer means.        *)
(*                                                                         *)
(* That errors are exact has two halves.  An error is not made up: from a  *)
(* root of the analysis to what the innermost call works on leads a chain  *)
(* of needs, so a name that is not there is missed by the program, and a   *)
(* mark that is met again closes a cycle in it.  And none is overlooked:   *)
(* what has been seen to is closed under needs and never needs itself.     *)
(*                                                                         *)
(* All of it is about programs in which no parameter has a name that is    *)
(* used elsewhere: what such a parameter hides depends on the function     *)
(* that happens to be analysed when a name is resolved.                    *)
(***************************************************************************)
EXTENDS Resolve_proof, WellFoundedInduction

-----------------------------------------------------------------------------
(* What the types in the scopes and on the stack mean *)

\* The names that have their type, and what a type expression means by them.
Resolved == {n \in DOMAIN entries : entries[n].state = "RESOLVED"}
Found == [n \in Names |-> IF n \in Resolved THEN entries[n].type ELSE NoType]
Meaning(t) == Denoted(Found, t)
Settled(t) == t.base = Builtin \/ t.base \in Resolved

\* What a declaration says its name denotes: the type it writes, or the name in
\* its initializer.
Origin(n) == IF Decl(n).init # None THEN Plain(Decl(n).init) ELSE Decl(n).types[1]
Says(n) ==
  IF Decl(n).kind = "function" THEN Wrap(Plain(n), "function") ELSE Meaning(Origin(n))
Sound(n) == Decl(n).kind = "function" \/ Settled(Origin(n))

\* The type expression whose type a frame works on.
Written(f) ==
  IF f.call \in {"sema_complete_aggregate", "sema_resolve_function_type", "sema_analyze_function"}
    THEN Decl(f.name).types[f.item]
    ELSE Origin(f.name)

\* The innermost i wraps of a type expression.
Cut(t, i) == [t EXCEPT !.wraps = SubSeq(t.wraps, 1, i)]

\* The position a loop has reached, and the type it has made so far.
Placed(f) ==
  /\ f.call = "sema_resolve_type" =>
       IF f.at = "wrap"
         THEN /\ f.item \in 1 .. Len(f.expr.wraps) + 1
              /\ Settled(f.expr) /\ f.type = Meaning(Cut(f.expr, f.item - 1))
         ELSE f.item = 1
  /\ f.call = "sema_analyze_initializer" /\ f.at \in {"return", "completed"} =>
       Sound(f.name) /\ f.type = Says(f.name)
  /\ f.call = "sema_complete_aggregate" =>
       /\ f.item \in 1 .. Len(Decl(f.name).types) + 1
       /\ f.at \in {"typed", "nested"} => f.item \in 1 .. Len(Decl(f.name).types)
       /\ f.at = "nested" =>
            Settled(Written(f)) /\ f.type = Meaning(Written(f)) /\ f.type.base \in DOMAIN aggregates

\* The type that g is asked for by f.
Asks(f, g) ==
  /\ f.at = "typed" =>
       IF f.call = "sema_resolve_entry" /\ Decl(f.name).kind # "alias"
         THEN /\ g.name = f.name
              /\ Decl(f.name).kind \in {"variable", "function"}
              /\ g.call = IF Decl(f.name).kind = "variable" THEN "sema_analyze_initializer"
                                                            ELSE "sema_resolve_function_type"
         ELSE g.call = "sema_resolve_type" /\ g.expr = Written(f)
  /\ f.at = "nested" => g.call = "sema_complete_aggregate" /\ g.name = f.type.base

\* The answer f was given.
Told(f) ==
  /\ f.at = "typed" =>
       IF f.call = "sema_resolve_entry" THEN Sound(f.name) /\ ret.type = Says(f.name)
       ELSE Settled(Written(f)) /\ ret.type = Meaning(Written(f))
  /\ f.at = "nested" /\ ret.ok => aggregates[f.type.base].is_complete

\* A resolved entry denotes what following names as often as there are resolved
\* ones says it does.
Denotes ==
  \A n \in Resolved, k \in Cardinality(Resolved) .. Cardinality(Names) :
    Following(program)[k][n] = entries[n].type

\* Every declaration has its entry.
Placing ==
  \A i \in DOMAIN program :
    phase # "register" \/ i < next => entries[program[i].name].node = i

\* Only an aggregate has a Type object of its own.
Owned == \A n \in DOMAIN aggregates : Decl(n).kind = "aggregate"

\* No parameter hides a name.
Clear == ~Shadows(program)

TypesRight ==
  errors = {} =>
    /\ Placing /\ Owned
    /\ IF phase = "register"
         THEN \A n \in Resolved : Decl(n).kind = "aggregate" /\ entries[n].type = Plain(n)
         ELSE Denotes
    /\ \A i \in DOMAIN stack : Placed(stack[i])
    /\ \A i \in 1 .. Len(stack) - 1 : Asks(stack[i], stack[i + 1])
    /\ stack # <<>> => Told(Top)
TypesInv == Clear /\ TypesRight

-----------------------------------------------------------------------------
(* What the sizes are *)

Completed == {n \in DOMAIN aggregates : aggregates[n].is_complete}

\* A type that wraps nothing is a scalar or an aggregate.
Grounded(t) == t.wraps = <<>> => t.base \in DOMAIN aggregates \cup {Builtin}

\* The running total of a layout is the sum of the fields it is past.
FrameSized(sizes, f) ==
  f.call = "sema_complete_aggregate" =>
    f.size = Sum(FieldSizes(sizes, Denotations(program), Decl(f.name)))[f.item - 1]

\* The sizes sema.c has remembered are those of laying out as often as there are
\* complete aggregates, or more often.
SizedBy(sizes) ==
  /\ \A n \in Completed : aggregates[n].size = sizes[n]
  /\ \A t \in DOMAIN arrays : arrays[t] = SizeBy(sizes, t)
  /\ \A i \in DOMAIN stack : FrameSized(sizes, stack[i])

SizesInv ==
  errors = {} /\ asserts =>
    IF phase = "register"
      THEN Completed = {} /\ DOMAIN arrays = {}
      ELSE /\ \A n \in Resolved : Grounded(entries[n].type)
           /\ \A k \in Cardinality(Completed) .. Cardinality(Names) : SizedBy(LayingOut(program)[k])

-----------------------------------------------------------------------------
(* Functions defined by recursion on a range *)

LEMMA LeastExists ==
  ASSUME NEW S, S \subseteq Nat, S # {}
  PROVE  \E x \in S : \A y \in S : x <= y
<1> DEFINE R == {ss \in Nat \X Nat : ss[1] < ss[2]}
<1>1. IsWellFoundedOn(R, Nat)
  BY NatLessThanWellFounded DEF OpToRel
<1>2. PICK x \in S : \A y \in S : ~(<<y, x>> \in R)
  BY <1>1, WFMin
<1>3. \A y \in S : ~(y < x)
  BY <1>2
<1> QED  BY <1>3

\* What holds at the start of a range and goes on to hold, holds in all of it.
LEMMA Upwards ==
  ASSUME NEW N \in Nat, NEW S, 0 \in S, \A k \in 1 .. N : k - 1 \in S => k \in S
  PROVE  \A k \in 0 .. N : k \in S
<1> DEFINE Missing == {k \in 0 .. N : k \notin S}
<1> SUFFICES ASSUME Missing # {} PROVE FALSE
  OBVIOUS
<1>1. Missing \subseteq Nat
  OBVIOUS
<1>2. PICK k \in Missing : \A l \in Missing : k <= l
  BY <1>1, LeastExists
<1>3. k \in 1 .. N
  OBVIOUS
<1>4. k - 1 \in 0 .. N /\ ~(k <= k - 1)
  BY <1>3
<1>5. k - 1 \in S
  BY <1>2, <1>4
<1> QED  BY <1>3, <1>5

\* A step that keeps to V can be taken as often as wanted.
KeepsTo(V, step, N) == \A k \in 1 .. N, v \in V : step[<<k, v>>] \in V
Iterated(f, b, step, N) == f[0] = b /\ \A k \in 1 .. N : f[k] = step[<<k, f[k - 1]>>]

LEMMA Iterates ==
  ASSUME NEW N \in Nat, NEW V, NEW b \in V, NEW step, KeepsTo(V, step, N)
  PROVE  \E f \in [0 .. N -> V] : Iterated(f, b, step, N)
<1> USE DEF KeepsTo
<1> DEFINE Upto(n, f) == f[0] = b /\ \A k \in 1 .. n : f[k] = step[<<k, f[k - 1]>>]
           S == {n \in 0 .. N : \E f \in [0 .. N -> V] : Upto(n, f)}
<1>1. 0 \in S
  <2> DEFINE z == [k \in 0 .. N |-> b]
  <2>1. z \in [0 .. N -> V] /\ Upto(0, z)
    OBVIOUS
  <2> HIDE DEF z
  <2>2. 0 \in 0 .. N /\ \E f \in [0 .. N -> V] : Upto(0, f)
    BY <2>1
  <2> QED  BY <2>2
<1>2. ASSUME NEW n \in 1 .. N, n - 1 \in S
      PROVE  n \in S
  <2>1. PICK f \in [0 .. N -> V] : Upto(n - 1, f)
    BY <1>2
  <2>2. f[n - 1] \in V /\ step[<<n, f[n - 1]>>] \in V
    OBVIOUS
  <2> DEFINE g == [f EXCEPT ![n] = step[<<n, f[n - 1]>>]]
  <2>3. g \in [0 .. N -> V]
    BY <2>2
  <2>4. g[n] = step[<<n, f[n - 1]>>] /\ \A k \in 0 .. N : k # n => g[k] = f[k]
    BY <2>2
  <2> HIDE DEF g
  <2>5. g[0] = b
    BY <2>1, <2>4
  <2>6. ASSUME NEW k \in 1 .. n
        PROVE  g[k] = step[<<k, g[k - 1]>>]
    <3>1. k - 1 \in 0 .. N /\ k - 1 # n /\ k \in 0 .. N
      OBVIOUS
    <3>2. g[k - 1] = f[k - 1]
      BY <2>4, <3>1
    <3>3. CASE k = n
      BY <2>4, <3>2, <3>3
    <3>4. CASE k # n
      <4>1. k \in 1 .. n - 1
        BY <3>4
      <4>2. g[k] = f[k]
        BY <2>4, <3>1, <3>4
      <4> QED  BY <2>1, <3>2, <4>1, <4>2
    <3> QED  BY <3>3, <3>4
  <2>7. Upto(n, g)
    BY <2>5, <2>6
  <2> QED  BY <2>3, <2>7
<1>3. \A n \in 0 .. N : n \in S
  <2> HIDE DEF S
  <2> QED  BY <1>1, <1>2, Upwards
<1>4. N \in S
  <2> HIDE DEF S
  <2>1. N \in 0 .. N
    OBVIOUS
  <2> QED  BY <1>3, <2>1
<1>5. PICK f \in [0 .. N -> V] : Upto(N, f)
  BY <1>4
<1> QED  BY <1>5 DEF Iterated

\* The types a program names, and those it has by following them.
LEMMA DeclOfTyped ==
  ASSUME NEW p \in Seq(Decls), NEW n \in DeclaredIn(p)
  PROVE  /\ DeclOf(p, n) \in Decls /\ DeclOf(p, n).name = n
         /\ DeclOf(p, n).types \in Seq(Types) /\ DeclOf(p, n).init \in Names \cup {Builtin, None}
         /\ DeclOf(p, n).kind \in Kinds
         /\ \A i \in 1 .. Len(DeclOf(p, n).types) : DeclOf(p, n).types[i] \in Types
         /\ DeclOf(p, n).kind \notin {"aggregate", "function"} /\ DeclOf(p, n).init = None =>
              Len(DeclOf(p, n).types) = 1 /\ DeclOf(p, n).types[1] \in Types
<1>1. PICK i \in DOMAIN p : p[i].name = n
  BY DEF DeclaredIn
<1>2. PICK j : j = CHOOSE k \in DOMAIN p : p[k].name = n
  OBVIOUS
<1>3. j \in DOMAIN p /\ p[j].name = n
  BY <1>1, <1>2
<1>4. PICK d : d = p[j]
  OBVIOUS
<1>5. d \in Decls /\ d.name = n /\ DeclOf(p, n) = d
  BY <1>2, <1>3, <1>4 DEF DeclOf
<1>6. /\ d.types \in Seq(Types) /\ d.init \in Names \cup {Builtin, None} /\ d.kind \in Kinds
      /\ d.kind \notin {"aggregate", "function"} /\ d.init = None => Len(d.types) = 1
  BY <1>5 DEF Decls, Kinds
<1>7. \A k \in 1 .. Len(d.types) : d.types[k] \in Types
  BY <1>6, ElementOfSeq
<1>8. Len(d.types) = 1 => d.types[1] \in Types
  <2>1. Len(d.types) = 1 => 1 \in 1 .. Len(d.types)
    OBVIOUS
  <2> QED  BY <2>1, <1>7
<1> QED  BY <1>5, <1>6, <1>7, <1>8

LEMMA DenotedTyped ==
  ASSUME NEW D \in [Names -> Types], NEW t \in Types
  PROVE  Denoted(D, t) \in Types
<1>1. CASE t.base \in Names
  <2>1. PICK u : u = D[t.base]
    OBVIOUS
  <2>2. u \in Types
    BY <1>1, <2>1
  <2>3. u.base \in Names \cup {Builtin, None} /\ u.wraps \in Seq(Wraps) /\ t.wraps \in Seq(Wraps)
    BY <2>2 DEF Types
  <2>4. u.wraps \o t.wraps \in Seq(Wraps)
    BY <2>3, ConcatProperties
  <2> QED  BY <1>1, <2>1, <2>3, <2>4 DEF Denoted, Types
<1> QED  BY <1>1 DEF Denoted

LEMMA PlainTyped ==
  ASSUME NEW n \in Names \cup {Builtin, None}
  PROVE  Plain(n) \in Types /\ Plain(n).base = n /\ Plain(n).wraps = <<>>
BY EmptySeq DEF Plain, Types

LEMMA WrapTyped ==
  ASSUME NEW t \in Types, NEW w \in Wraps
  PROVE  Wrap(t, w) \in Types /\ Wrap(t, w).base = t.base /\ Wrap(t, w).wraps = Append(t.wraps, w)
<1>1. t.wraps \in Seq(Wraps)
  BY DEF Types
<1>2. Append(t.wraps, w) \in Seq(Wraps)
  BY <1>1, AppendProperties
<1> QED  BY <1>2 DEF Wrap, Types

LEMMA FollowedTyped ==
  ASSUME NEW p \in Seq(Decls), NEW D \in [Names -> Types]
  PROVE  Followed(p, D) \in [Names -> Types]
<1> DEFINE F(n) ==
     LET d == DeclOf(p, n)
     IN  IF n \notin DeclaredIn(p) THEN NoType
         ELSE CASE d.kind = "aggregate" -> Plain(n)
                [] d.kind = "function" -> Wrap(Plain(n), "function")
                [] d.init # None -> Denoted(D, Plain(d.init))
                [] OTHER -> Denoted(D, d.types[1])
<1>1. ASSUME NEW n \in Names
      PROVE  F(n) \in Types
  <2>1. CASE n \notin DeclaredIn(p)
    BY <2>1, NullKnown
  <2>2. CASE n \in DeclaredIn(p)
    <3>1. PICK d : d = DeclOf(p, n)
      OBVIOUS
    <3>2. /\ Plain(n) \in Types /\ Wrap(Plain(n), "function") \in Types
      BY PlainTyped, WrapTyped DEF Wraps
    <3>3. d.init # None => Denoted(D, Plain(d.init)) \in Types
      BY <2>2, <3>1, DeclOfTyped, PlainTyped, DenotedTyped
    <3>4. d.kind \notin {"aggregate", "function"} /\ d.init = None => Denoted(D, d.types[1]) \in Types
      BY <2>2, <3>1, DeclOfTyped, DenotedTyped
    <3>5. \/ F(n) = Plain(n) \/ F(n) = Wrap(Plain(n), "function")
          \/ d.init # None /\ F(n) = Denoted(D, Plain(d.init))
          \/ d.kind \notin {"aggregate", "function"} /\ d.init = None /\ F(n) = Denoted(D, d.types[1])
      BY <2>2, <3>1
    <3> QED  BY <3>2, <3>3, <3>4, <3>5
  <2> QED  BY <2>1, <2>2
<1>2. Followed(p, D) = [n \in Names |-> F(n)]
  BY DEF Followed
<1> HIDE DEF F
<1> QED  BY <1>1, <1>2

LEMMA NamesCount == Cardinality(Names) \in Nat
BY NamesAssumption, FS_CardinalityType

LEMMA FollowingUnfolds ==
  ASSUME NEW p \in Seq(Decls)
  PROVE  /\ Following(p)[0] = [n \in Names |-> NoType]
         /\ \A k \in 1 .. Cardinality(Names) : Following(p)[k] = Followed(p, Following(p)[k - 1])
         /\ \A k \in 0 .. Cardinality(Names) : Following(p)[k] \in [Names -> Types]
<1> DEFINE N == Cardinality(Names)
           V == [Names -> Types]
           none == [n \in Names |-> NoType]
           step == [x \in (1 .. N) \X V |-> Followed(p, x[2])]
           Solves(f) == f = [k \in 0 .. N |-> IF k = 0 THEN none ELSE Followed(p, f[k - 1])]
<1>1. N \in Nat /\ none \in V
  BY NamesCount, NullKnown
<1>2. KeepsTo(V, step, N)
  BY FollowedTyped DEF KeepsTo
<1>3. \A k \in 1 .. N : \A D \in V : step[<<k, D>>] = Followed(p, D)
  OBVIOUS
<1>4. PICK f \in [0 .. N -> V] : f[0] = none /\ \A k \in 1 .. N : f[k] = step[<<k, f[k - 1]>>]
  <2> HIDE DEF N, V, none, step
  <2> QED  BY <1>1, <1>2, Iterates DEF Iterated
<1> HIDE DEF step
<1>5. \A k \in 1 .. N : f[k] = Followed(p, f[k - 1])
  <2> TAKE k \in 1 .. N
  <2>1. k - 1 \in 0 .. N
    BY <1>1
  <2>2. f[k - 1] \in V
    BY <2>1
  <2> QED  BY <1>3, <1>4, <2>2
<1>6. Solves(f)
  <2>1. f = [k \in 0 .. N |-> f[k]]
    OBVIOUS
  <2>2. \A k \in 0 .. N : f[k] = IF k = 0 THEN none ELSE Followed(p, f[k - 1])
    BY <1>4, <1>5
  <2> QED  BY <2>1, <2>2
<1>7. Following(p) = CHOOSE g : Solves(g)
  BY DEF Following
<1>8. Solves(Following(p))
  BY <1>6, <1>7
<1>9. /\ Following(p)[0] = none
      /\ \A k \in 1 .. N : Following(p)[k] = Followed(p, Following(p)[k - 1])
  <2>1. PICK g : g = Following(p)
    OBVIOUS
  <2>2. g = [k \in 0 .. N |-> IF k = 0 THEN none ELSE Followed(p, g[k - 1])]
    BY <1>8, <2>1
  <2>3. g[0] = none /\ \A k \in 1 .. N : g[k] = Followed(p, g[k - 1])
    BY <1>1, <2>2
  <2> QED  BY <2>1, <2>3
<1>10. \A k \in 0 .. N : Following(p)[k] \in V
  <2> DEFINE S == {k \in 0 .. N : Following(p)[k] \in V}
  <2>1. 0 \in S
    BY <1>1, <1>9
  <2>2. \A k \in 1 .. N : k - 1 \in S => k \in S
    BY <1>9, FollowedTyped
  <2>3. \A k \in 0 .. N : k \in S
    <3> HIDE DEF S, V, N
    <3> QED  BY <1>1, <2>1, <2>2, Upwards
  <2> QED  BY <2>3
<1> QED  BY <1>9, <1>10

-----------------------------------------------------------------------------
(* Types *)

LEMMA SameType ==
  ASSUME NEW t \in Types, NEW u \in Types, t.base = u.base, t.wraps = u.wraps
  PROVE  t = u
BY DEF Types

\* A type expression up to one of its wraps.
LEMMA CutFacts ==
  ASSUME NEW t \in Types
  PROVE  /\ Len(t.wraps) \in Nat
         /\ Cut(t, 0) = Plain(t.base)
         /\ Cut(t, Len(t.wraps)) = t
         /\ \A i \in 0 .. Len(t.wraps) : Cut(t, i) \in Types /\ Cut(t, i).base = t.base
         /\ \A i \in 1 .. Len(t.wraps) :
              t.wraps[i] \in Wraps /\ Cut(t, i) = Wrap(Cut(t, i - 1), t.wraps[i])
<1> DEFINE s == t.wraps
           c(i) == SubSeq(s, 1, i)
<1>1. s \in Seq(Wraps) /\ Len(s) \in Nat /\ t.base \in Names \cup {Builtin, None}
  BY LenProperties DEF Types
<1>2. /\ c(0) = <<>> /\ c(Len(s)) = s
      /\ \A i \in 0 .. Len(s) : c(i) \in Seq(Wraps)
  <2>1. \A i \in 1 .. Len(s) : s[i] \in Wraps
    BY <1>1, ElementOfSeq
  <2>2. ASSUME NEW i \in 0 .. Len(s) PROVE c(i) \in Seq(Wraps)
    <3>1. \A j \in 1 .. i : s[j] \in Wraps
      BY <1>1, <2>1
    <3> QED  BY <1>1, <3>1, SubSeqProperties
  <2>3. c(0) = <<>>
    BY SubSeqEmpty
  <2>4. c(Len(s)) = s
    BY <1>1, SubSeqFull
  <2> QED  BY <2>2, <2>3, <2>4
<1>3. ASSUME NEW i \in 1 .. Len(s)
      PROVE  s[i] \in Wraps /\ c(i) = Append(c(i - 1), s[i])
  <2>1. 1 \in 1 .. Len(s) /\ i \in 1 .. Len(s) /\ i \in 1 .. Len(s) /\ i - 1 \in 0 .. Len(s)
    BY <1>1
  <2>2. s[i] \in Wraps
    BY <1>1, <2>1, ElementOfSeq
  <2>3. c(i) = c(i - 1) \o <<s[i]>>
    BY <1>1, <2>1, SubSeqRecursiveSecond
  <2>4. Append(c(i - 1), s[i]) = c(i - 1) \o <<s[i]>>
    BY <1>2, <2>1, <2>2, AppendIsConcat
  <2> QED  BY <2>2, <2>3, <2>4
<1>4. \A i \in 0 .. Len(s) : /\ Cut(t, i) \in Types
                             /\ Cut(t, i).base = t.base /\ Cut(t, i).wraps = c(i)
  BY <1>1, <1>2 DEF Cut, Types
<1> HIDE DEF c
<1>5. Cut(t, 0) = Plain(t.base)
  BY <1>1, <1>2, <1>4, PlainTyped, SameType
<1>6. Cut(t, Len(s)) = t
  <2>1. Len(s) \in 0 .. Len(s)
    BY <1>1
  <2> QED  BY <2>1, <1>2, <1>4, SameType
<1>7. ASSUME NEW i \in 1 .. Len(s)
      PROVE  Cut(t, i) = Wrap(Cut(t, i - 1), s[i])
  <2>1. i \in 0 .. Len(s) /\ i - 1 \in 0 .. Len(s)
    BY <1>1
  <2>2. PICK u, w, v : u = Cut(t, i - 1) /\ w = s[i] /\ v = Cut(t, i)
    OBVIOUS
  <2>3. u \in Types /\ w \in Wraps /\ v \in Types /\ u.base = t.base /\ v.base = t.base
        /\ u.wraps = c(i - 1) /\ v.wraps = c(i) /\ c(i) = Append(c(i - 1), w)
    BY <1>3, <1>4, <2>1, <2>2
  <2>4. Wrap(u, w) \in Types /\ Wrap(u, w).base = u.base /\ Wrap(u, w).wraps = Append(u.wraps, w)
    BY <2>3, WrapTyped
  <2>5. v = Wrap(u, w)
    BY <2>3, <2>4, SameType
  <2> QED  BY <2>2, <2>5
<1> QED  BY <1>1, <1>3, <1>4, <1>5, <1>6, <1>7

LEMMA DenotedPlain ==
  ASSUME NEW D \in [Names -> Types], NEW n \in Names
  PROVE  Denoted(D, Plain(n)) = D[n]
<1>1. PICK t : t = D[n]
  OBVIOUS
<1>2. t \in Types /\ t.wraps \in Seq(Wraps)
  BY <1>1 DEF Types
<1>3. t.wraps \o <<>> = t.wraps
  BY <1>2, ConcatEmptySeq
<1>4. Denoted(D, Plain(n)) = [base |-> t.base, wraps |-> t.wraps \o <<>>]
  BY <1>1 DEF Denoted, Plain
<1>5. t = [base |-> t.base, wraps |-> t.wraps]
  BY <1>2 DEF Types
<1> QED  BY <1>1, <1>3, <1>4, <1>5

LEMMA DenotedWrap ==
  ASSUME NEW D \in [Names -> Types], NEW t \in Types, NEW w \in Wraps
  PROVE  Denoted(D, Wrap(t, w)) = Wrap(Denoted(D, t), w)
<1>1. /\ Wrap(t, w) \in Types /\ Wrap(t, w).base = t.base
      /\ Wrap(t, w).wraps = Append(t.wraps, w) /\ t.wraps \in Seq(Wraps)
  BY WrapTyped DEF Types
<1>2. CASE t.base \in Names
  <2>1. PICK u, v : u = D[t.base] /\ v = Denoted(D, t)
    OBVIOUS
  <2>2. u \in Types /\ u.wraps \in Seq(Wraps)
    BY <1>2, <2>1 DEF Types
  <2>3. v \in Types /\ v.base = u.base /\ v.wraps = u.wraps \o t.wraps
    BY <1>2, <2>1, DenotedTyped DEF Denoted
  <2>4. Append(v.wraps, w) = u.wraps \o Append(t.wraps, w)
    <3>0. <<w>> \in Seq(Wraps)
      OBVIOUS
    <3>1. v.wraps \in Seq(Wraps) /\ <<w>> \in Seq(Wraps)
      BY <2>3, <3>0 DEF Types
    <3>2. Append(v.wraps, w) = v.wraps \o <<w>> /\ Append(t.wraps, w) = t.wraps \o <<w>>
      BY <1>1, <3>1, AppendIsConcat
    <3>3. PICK a, b, c : a = u.wraps /\ b = t.wraps /\ c = <<w>>
      OBVIOUS
    <3>4. a \in Seq(Wraps) /\ b \in Seq(Wraps) /\ c \in Seq(Wraps)
      BY <1>1, <2>2, <3>0, <3>3
    <3>5. (a \o b) \o c = a \o (b \o c)
      BY <3>4, ConcatAssociative, SMTT(20)
    <3>6. Append(v.wraps, w) = (a \o b) \o c /\ Append(t.wraps, w) = b \o c
      BY <2>3, <3>2, <3>3, Zenon
    <3> QED  BY <3>3, <3>5, <3>6, Zenon
  <2>5. Wrap(v, w) \in Types /\ Wrap(v, w).base = u.base /\ Wrap(v, w).wraps = Append(v.wraps, w)
    BY <2>3, WrapTyped
  <2>6. PICK x : x = Wrap(t, w)
    OBVIOUS
  <2>7. /\ Denoted(D, x) \in Types /\ Denoted(D, x).base = u.base
        /\ Denoted(D, x).wraps = u.wraps \o x.wraps
    BY <1>1, <1>2, <2>1, <2>6, DenotedTyped DEF Denoted
  <2>8. Denoted(D, x) = Wrap(v, w)
    <3>1. Denoted(D, x).wraps = Wrap(v, w).wraps
      BY <1>1, <2>4, <2>5, <2>6, <2>7, Zenon
    <3> QED  BY <2>5, <2>7, <3>1, SameType
  <2> QED  BY <2>1, <2>6, <2>8
<1>3. CASE t.base \notin Names
  BY <1>1, <1>3 DEF Denoted
<1> QED  BY <1>2, <1>3

-----------------------------------------------------------------------------
(* What stays in a step of the analysis *)

\* What is resolved or laid out stays, no name comes or goes, and no error is taken
\* back.
Keeps ==
  /\ UNCHANGED input
  /\ DOMAIN entries' = DOMAIN entries
  /\ \A n \in DOMAIN entries : entries'[n].node = entries[n].node
  /\ Resolved \subseteq Resolved'
  /\ \A n \in Resolved : entries'[n].type = entries[n].type
  /\ DOMAIN aggregates' = DOMAIN aggregates
  /\ Completed \subseteq Completed'
  /\ \A n \in Completed : aggregates'[n].size = aggregates[n].size
  /\ DOMAIN arrays \subseteq DOMAIN arrays'
  /\ \A t \in DOMAIN arrays : arrays'[t] = arrays[t]
  /\ errors \subseteq errors'

LEMMA KeepsStep == Inv /\ Next /\ phase = "analyze" => Keeps
<1> SUFFICES ASSUME Inv, Next, phase = "analyze" PROVE Keeps
  OBVIOUS
<1>1. /\ Resolved \subseteq DOMAIN entries /\ \A n \in Resolved : entries'[n] = entries[n]
      /\ Completed \subseteq DOMAIN aggregates
      /\ \A n \in Completed : aggregates'[n] = aggregates[n]
      /\ \A t \in DOMAIN arrays : arrays'[t] = arrays[t]
  BY FinalStep DEF Final, Resolved, Completed
<1>2. ASSUME UNCHANGED input, DOMAIN entries' = DOMAIN entries,
             \A n \in DOMAIN entries : entries'[n].node = entries[n].node,
             DOMAIN aggregates' = DOMAIN aggregates,
             DOMAIN arrays \subseteq DOMAIN arrays', errors \subseteq errors'
      PROVE  Keeps
  <2>1. Resolved \subseteq Resolved' /\ \A n \in Resolved : entries'[n].type = entries[n].type
    BY <1>1, <1>2 DEF Resolved
  <2>2. Completed \subseteq Completed' /\ \A n \in Completed : aggregates'[n].size = aggregates[n].size
    BY <1>1, <1>2 DEF Completed
  <2> QED  BY <1>1, <1>2, <2>1, <2>2 DEF Keeps
<1>3. ASSUME UNCHANGED <<input, entries, aggregates, arrays>>, errors \subseteq errors'
      PROVE  Keeps
  BY <1>2, <1>3
<1>4. CASE ResolveTypeWrap
  BY <1>2, <1>4 DEF ResolveTypeWrap, With
<1>5. CASE ResolveEntryCall
  BY <1>2, <1>5 DEF ResolveEntryCall
<1>6. CASE ResolveEntryReturn
  <2>1. /\ UNCHANGED <<input, aggregates, arrays, errors>>
        /\ entries' = [entries EXCEPT ![Top.name].state = "RESOLVED",
                                      ![Top.name].type = ret.type]
    BY <1>6 DEF ResolveEntryReturn
  <2> QED  BY <1>2, <2>1
<1>7. CASE CompleteStart
  BY <1>2, <1>7 DEF CompleteStart
<1>8. CASE CompleteReturn
  BY <1>2, <1>8 DEF CompleteReturn
<1>9. CASE AnalyzeDeclaration \/ Analyzed
  BY <1>3, <1>9 DEF AnalyzeDeclaration, Analyzed, scopes, global, local
<1>10. CASE ResolveTypeName \/ ResolveTypeNamed \/ ResolveTypeReturn \/ ResolveEntryMarked
  BY <1>3, <1>10 DEF ResolveTypeName, ResolveTypeNamed, ResolveTypeReturn, ResolveEntryMarked,
     Report, scopes, global, local
<1>11. CASE CompleteMarked \/ CompleteItem \/ CompleteItemTyped \/ CompleteItemNested
  BY <1>3, <1>11 DEF CompleteMarked, CompleteItem, CompleteItemTyped, CompleteItemNested,
     Report, scopes, global, local
<1>12. CASE sema_analyze_initializer
  BY <1>3, <1>12 DEF sema_analyze_initializer, InitializerStart, InitializerTyped,
     InitializerNamed, InitializerCompleted, InitializerReturn, Report, scopes, global, local
<1>13. CASE sema_resolve_function_type
  BY <1>3, <1>13 DEF sema_resolve_function_type, FunctionTypeItem, FunctionTypeTyped,
     FunctionTypeReturn, scopes, global, local
<1>14. CASE sema_analyze_variable
  BY <1>3, <1>14 DEF sema_analyze_variable, AnalyzeVariableStart, AnalyzeVariableNamed,
     AnalyzeVariableCompleted, Report, scopes, global, local
<1>15. CASE sema_analyze_function
  BY <1>3, <1>15 DEF sema_analyze_function, AnalyzeFunctionStart, AnalyzeFunctionParameter,
     AnalyzeFunctionTyped, AnalyzeFunctionParameterTyped, AnalyzeFunctionCompleted,
     AnalyzeFunctionReturn, Report, scopes, global
<1>16. ~sema_register /\ ~Registered
  BY DEF sema_register, Registered
<1> QED  BY <1>4, <1>5, <1>6, <1>7, <1>8, <1>9, <1>10, <1>11, <1>12, <1>13, <1>14, <1>15, <1>16
         DEF Next, sema_resolve_type, sema_resolve_entry, sema_complete_aggregate

LEMMA FoundTyped ==
  ASSUME TypeOK
  PROVE  Found \in [Names -> Types] /\ Resolved \subseteq Names
         /\ \A n \in Resolved : Found[n] = entries[n].type /\ n # Builtin /\ n # None
BY NullKnown, NamesAssumption DEF TypeOK, Found, Resolved

\* What a type expression means does not change once its name has its type.
LEMMA MeaningStays ==
  ASSUME Inv, Keeps, NEW t, Settled(t)
  PROVE  Settled(t)' /\ Meaning(t)' = Meaning(t)
<1>1. /\ Resolved \subseteq Names
      /\ \A n \in Resolved : Found[n] = entries[n].type /\ n # Builtin /\ n # None
  BY FoundTyped DEF Inv
<1>2. Settled(t)'
  BY DEF Settled, Keeps
<1>3. CASE t.base = Builtin
  BY <1>2, <1>3, NamesAssumption DEF Meaning, Denoted
<1>4. CASE t.base \in Resolved
  <2>1. Found'[t.base] = Found[t.base]
    BY <1>1, <1>4 DEF Keeps, Found
  <2> QED  BY <1>2, <2>1 DEF Meaning, Denoted
<1> QED  BY <1>2, <1>3, <1>4 DEF Settled

LEMMA KeepsDecl ==
  ASSUME Keeps, NEW n \in DOMAIN entries
  PROVE  n \in DOMAIN entries' /\ Decl(n)' = Decl(n) /\ Origin(n)' = Origin(n)
<1>1. Decl(n)' = Decl(n)
  BY DEF Keeps, Decl, input
<1> QED  BY <1>1 DEF Keeps, Origin

LEMMA SaysStays ==
  ASSUME Inv, Keeps, NEW n \in DOMAIN entries, Sound(n)
  PROVE  Sound(n)' /\ Says(n)' = Says(n)
<1>1. PICK t : t = Origin(n)
  OBVIOUS
<1>2. Decl(n)' = Decl(n) /\ Origin(n)' = t
  BY <1>1, KeepsDecl
<1>3. CASE Decl(n).kind = "function"
  BY <1>2, <1>3 DEF Sound, Says
<1>4. CASE Decl(n).kind # "function"
  <2>1. Settled(t) /\ Says(n) = Meaning(t)
    BY <1>1, <1>4 DEF Sound, Says
  <2>2. Settled(t)' /\ Meaning(t)' = Meaning(t)
    BY <2>1, MeaningStays
  <2>3. Says(n)' = Meaning(t)'
    BY <1>2, <1>4 DEF Says
  <2>4. Sound(n)'
    BY <1>2, <2>2 DEF Sound
  <2> QED  BY <2>1, <2>2, <2>3, <2>4
<1> QED  BY <1>3, <1>4

LEMMA WrittenStays ==
  ASSUME Keeps, NEW f, f.name \in DOMAIN entries
  PROVE  Written(f)' = Written(f) /\ Decl(f.name)' = Decl(f.name)
<1>1. Decl(f.name)' = Decl(f.name) /\ Origin(f.name)' = Origin(f.name)
  BY KeepsDecl
<1> QED  BY <1>1 DEF Written

\* The base of what is cut is that of the whole.
LEMMA CutSettled ==
  ASSUME NEW t, NEW i, Settled(t), t \in Types
  PROVE  Settled(Cut(t, i))
BY DEF Settled, Cut, Types

LEMMA PlacedStays ==
  ASSUME Inv, Keeps, NEW f \in Frames, f.name \in DOMAIN entries, Placed(f)
  PROVE  Placed(f)'
<1>1. Written(f)' = Written(f) /\ Decl(f.name)' = Decl(f.name)
  BY WrittenStays
<1>2. f.call = "sema_resolve_type" =>
       IF f.at = "wrap"
         THEN /\ f.item \in 1 .. Len(f.expr.wraps) + 1
              /\ Settled(f.expr)' /\ f.type = Meaning(Cut(f.expr, f.item - 1))'
         ELSE f.item = 1
  <2>1. CASE f.call = "sema_resolve_type" /\ f.at = "wrap"
    <3>1. PICK t, u : t = f.expr /\ u = Cut(t, f.item - 1)
      OBVIOUS
    <3>2. Settled(t) /\ f.type = Meaning(u) /\ t \in Types
      BY <2>1, <3>1 DEF Placed, Frames
    <3>3. Settled(u)
      BY <3>1, <3>2, CutSettled
    <3>4. Settled(t)' /\ Meaning(u)' = Meaning(u)
      BY <3>2, <3>3, MeaningStays
    <3> QED  BY <2>1, <3>1, <3>2, <3>4 DEF Placed
  <2> QED  BY <2>1 DEF Placed
<1>3. f.call = "sema_analyze_initializer" /\ f.at \in {"return", "completed"} =>
       Sound(f.name)' /\ f.type = Says(f.name)'
  BY SaysStays DEF Placed
<1>4. f.call = "sema_complete_aggregate" /\ f.at = "nested" =>
        Settled(Written(f))' /\ f.type = Meaning(Written(f))' /\ f.type.base \in DOMAIN aggregates'
  <2>1. SUFFICES ASSUME f.call = "sema_complete_aggregate", f.at = "nested"
        PROVE  Settled(Written(f))' /\ f.type = Meaning(Written(f))' /\ f.type.base \in DOMAIN aggregates'
    OBVIOUS
  <2>2. PICK t : t = Written(f)
    OBVIOUS
  <2>3. Settled(t)' /\ f.type = Meaning(t)'
    BY <2>1, <2>2, MeaningStays DEF Placed
  <2>4. Written(f)' = t
    BY <1>1, <2>2
  <2> QED  BY <2>1, <2>3, <2>4 DEF Placed, Keeps
<1> QED  BY <1>1, <1>2, <1>3, <1>4 DEF Placed

LEMMA AsksStays ==
  ASSUME Keeps, NEW f, f.name \in DOMAIN entries, NEW g, Asks(f, g)
  PROVE  Asks(f, g)'
<1>1. Written(f)' = Written(f) /\ Decl(f.name)' = Decl(f.name)
  BY WrittenStays
<1> QED  BY <1>1 DEF Asks

-----------------------------------------------------------------------------
(* The stack in a step without errors *)

FramesRight ==
  /\ \A i \in DOMAIN stack : Placed(stack[i])
  /\ \A i \in 1 .. Len(stack) - 1 : Asks(stack[i], stack[i + 1])
  /\ stack # <<>> => Told(Top)

\* The answer r that a call g may give.
Gives(g, r) ==
  /\ g.call = "sema_resolve_type" => Settled(g.expr) /\ r.type = Meaning(g.expr)
  /\ g.call = "sema_analyze_initializer" => Sound(g.name) /\ r.type = Says(g.name)
  /\ g.call = "sema_resolve_function_type" /\ Decl(g.name).kind = "function" =>
       Sound(g.name) /\ r.type = Says(g.name)

LEMMA CallersRight ==
  ASSUME Inv, stack # <<>>, FramesRight, Keeps,
         \A i \in 1 .. Len(stack) - 1 : stack'[i] = stack[i]
  PROVE  /\ \A i \in 1 .. Len(stack) - 1 : Placed(stack[i])'
         /\ \A i \in 1 .. Len(stack) - 2 : Asks(stack[i], stack[i + 1])'
<1>0. stack \in Seq(Frames) /\ Calling
  BY DEF Inv, TypeOK
<1>1. ASSUME NEW i \in 1 .. Len(stack) - 1
      PROVE  Placed(stack[i])'
  <2>1. PICK c : c = stack[i]
    OBVIOUS
  <2>2. c \in Frames /\ c.name \in DOMAIN entries /\ Placed(c)
    <3>1. i \in DOMAIN stack /\ stack[i] \in Frames
      BY <1>0, CallersFacts, ElementOfSeq
    <3>2. FrameOK(c) /\ Placed(c)
      BY <1>0, <2>1, <3>1 DEF Calling, FramesRight
    <3> QED  BY <2>1, <3>1, <3>2 DEF FrameOK
  <2>3. Placed(c)'
    BY <2>2, PlacedStays
  <2>4. stack'[i] = c
    BY <2>1
  <2> QED  BY <2>3, <2>4
<1>2. ASSUME NEW i \in 1 .. Len(stack) - 2
      PROVE  Asks(stack[i], stack[i + 1])'
  <2>1. PICK c, d : c = stack[i] /\ d = stack[i + 1]
    OBVIOUS
  <2>a. Len(stack) \in Nat /\ DOMAIN stack = 1 .. Len(stack)
    BY <1>0, CallersFacts
  <2>b. i \in DOMAIN stack /\ i \in 1 .. Len(stack) - 1
    BY <2>a
  <2>2. c.name \in DOMAIN entries /\ Asks(c, d)
    BY <1>0, <2>1, <2>b DEF Calling, FrameOK, FramesRight
  <2>3. Asks(c, d)'
    BY <2>2, AsksStays
  <2>4. stack'[i] = c /\ stack'[i + 1] = d
    BY <1>0, <2>1, CallersFacts
  <2> QED  BY <2>3, <2>4
<1> QED  BY <1>1, <1>2

\* The caller goes on to ask for what it has asked for.
LEMMA CallerAsks ==
  ASSUME Inv, stack # <<>>, FramesRight, Keeps,
         NEW f, f.call = Top.call, f.name = Top.name, f.expr = Top.expr,
         NEW c, Len(stack) > 1, c = stack[Len(stack) - 1]
  PROVE  Asks(c, f)'
<1>0. stack \in Seq(Frames) /\ Calling
  BY DEF Inv, TypeOK
<1>1. PICK d : d = Top
  OBVIOUS
<1>2. c.name \in DOMAIN entries /\ Asks(c, d)
  BY <1>0, <1>1, CallersFacts DEF Calling, FrameOK, FramesRight, Top
<1>3. Asks(c, d)'
  BY <1>2, AsksStays
<1> QED  BY <1>1, <1>3 DEF Asks

LEMMA ContinueRight ==
  ASSUME Inv, stack # <<>>, FramesRight, Keeps,
         NEW f \in Frames, Continue(f),
         f.call = Top.call, f.name = Top.name, f.expr = Top.expr,
         Placed(f), f.at \notin {"typed", "nested"}
  PROVE  FramesRight'
<1>0. stack \in Seq(Frames)
  BY DEF Inv, TypeOK
<1>1. /\ Len(stack') = Len(stack) /\ DOMAIN stack' = 1 .. Len(stack)
      /\ \A i \in 1 .. Len(stack) - 1 : stack'[i] = stack[i]
      /\ stack'[Len(stack)] = f /\ Top' = f
      /\ Len(stack) \in Nat /\ Len(stack) >= 1
  BY <1>0, Continued, CallersFacts
<1>2. /\ \A i \in 1 .. Len(stack) - 1 : Placed(stack[i])'
      /\ \A i \in 1 .. Len(stack) - 2 : Asks(stack[i], stack[i + 1])'
  BY <1>1, CallersRight
<1>3. Placed(f)'
  <2>1. f.name \in DOMAIN entries
    BY TopFacts DEF FrameOK
  <2> QED  BY <2>1, PlacedStays
<1>4. ASSUME NEW i \in DOMAIN stack'
      PROVE  Placed(stack[i])'
  <2>1. CASE i = Len(stack)
    <3>1. stack'[i] = f
      BY <1>1, <2>1
    <3> QED  BY <1>3, <3>1
  <2> QED  BY <1>1, <1>2, <2>1
<1>5. ASSUME NEW i \in 1 .. Len(stack') - 1
      PROVE  Asks(stack[i], stack[i + 1])'
  <2>1. CASE i = Len(stack) - 1
    <3>1. PICK c : c = stack[i]
      OBVIOUS
    <3>2. Asks(c, f)'
      BY <3>1, <2>1, <1>1, CallerAsks
    <3>3. stack'[i] = c /\ stack'[i + 1] = f
      BY <3>1, <2>1, <1>1
    <3> QED  BY <3>2, <3>3
  <2>2. CASE i # Len(stack) - 1
    <3>0. Len(stack) \in Nat /\ i \in 1 .. Len(stack) - 1
      BY <1>1
    <3>1. i \in 1 .. Len(stack) - 2
      BY <2>2, <3>0
    <3> QED  BY <1>2, <3>1
  <2> QED  BY <2>1, <2>2
<1>6. Told(Top)'
  <2>1. Told(f)'
    BY DEF Told
  <2> QED  BY <1>1, <2>1
<1> QED  BY <1>1, <1>4, <1>5, <1>6 DEF FramesRight

LEMMA CallRight ==
  ASSUME Inv, stack # <<>>, FramesRight, Keeps,
         NEW f \in Frames, NEW g \in Frames, CallFrom(f, g),
         f.call = Top.call, f.name = Top.name, f.expr = Top.expr,
         Placed(f), Placed(g), Asks(f, g), g.name \in DOMAIN entries, g.at = "start"
  PROVE  FramesRight'
<1>0. stack \in Seq(Frames)
  BY DEF Inv, TypeOK
<1>1. /\ Len(stack') = Len(stack) + 1 /\ DOMAIN stack' = 1 .. Len(stack) + 1
      /\ \A i \in 1 .. Len(stack) - 1 : stack'[i] = stack[i]
      /\ stack'[Len(stack)] = f /\ stack'[Len(stack) + 1] = g /\ Top' = g
      /\ Len(stack) \in Nat /\ Len(stack) >= 1
  BY <1>0, Called, CallersFacts
<1>2. /\ \A i \in 1 .. Len(stack) - 1 : Placed(stack[i])'
      /\ \A i \in 1 .. Len(stack) - 2 : Asks(stack[i], stack[i + 1])'
  BY <1>1, CallersRight
<1>3. f.name \in DOMAIN entries
  BY TopFacts DEF FrameOK
<1>4. Placed(f)' /\ Placed(g)' /\ Asks(f, g)'
  BY <1>3, PlacedStays, AsksStays
<1>5. ASSUME NEW i \in DOMAIN stack'
      PROVE  Placed(stack[i])'
  <2>1. CASE i = Len(stack)
    <3>1. stack'[i] = f
      BY <1>1, <2>1
    <3> QED  BY <1>4, <3>1
  <2>2. CASE i = Len(stack) + 1
    <3>1. stack'[i] = g
      BY <1>1, <2>2
    <3> QED  BY <1>4, <3>1
  <2> QED  BY <1>1, <1>2, <2>1, <2>2
<1>6. ASSUME NEW i \in 1 .. Len(stack') - 1
      PROVE  Asks(stack[i], stack[i + 1])'
  <2>1. CASE i = Len(stack) - 1
    <3>1. PICK c : c = stack[i]
      OBVIOUS
    <3>2. Asks(c, f)'
      BY <3>1, <2>1, <1>1, CallerAsks
    <3>3. stack'[i] = c /\ stack'[i + 1] = f
      BY <3>1, <2>1, <1>1
    <3> QED  BY <3>2, <3>3
  <2>2. CASE i = Len(stack)
    <3>1. stack'[i] = f /\ stack'[i + 1] = g
      BY <2>2, <1>1
    <3> QED  BY <1>4, <3>1
  <2> QED  BY <1>1, <1>2, <2>1, <2>2
<1>7. Told(Top)'
  <2>1. Told(g)'
    BY DEF Told
  <2> QED  BY <1>1, <2>1
<1> QED  BY <1>1, <1>5, <1>6, <1>7 DEF FramesRight

LEMMA ReturnRight ==
  ASSUME Inv, stack # <<>>, FramesRight, Keeps, stack' = Callers, Gives(Top, ret'),
         Top.call = "sema_complete_aggregate" /\ ret'.ok => aggregates'[Top.name].is_complete
  PROVE  FramesRight'
<1>0. stack \in Seq(Frames) /\ Calling
  BY DEF Inv, TypeOK
<1>1. /\ Len(stack') = Len(stack) - 1 /\ DOMAIN stack' = 1 .. Len(stack) - 1
      /\ \A i \in 1 .. Len(stack) - 1 : stack'[i] = stack[i]
      /\ Len(stack) \in Nat /\ Len(stack) >= 1 /\ stack' \in Seq(Frames)
  BY <1>0, CallersFacts
<1>2. /\ \A i \in 1 .. Len(stack) - 1 : Placed(stack[i])'
      /\ \A i \in 1 .. Len(stack) - 2 : Asks(stack[i], stack[i + 1])'
  BY <1>1, CallersRight
<1>3. ASSUME stack' # <<>>
      PROVE  Told(Top)'
  <2>1. Len(stack) > 1
    BY <1>1, <1>3, EmptySeq
  <2>2. PICK c, d : c = stack[Len(stack) - 1] /\ d = Top
    OBVIOUS
  <2>3. c.name \in DOMAIN entries /\ d.name \in DOMAIN entries /\ Asks(c, d)
    BY <1>0, <1>1, <2>1, <2>2, CallersFacts DEF Calling, FrameOK, FramesRight, Top
  <2>4. Written(c)' = Written(c) /\ Decl(c.name)' = Decl(c.name)
    BY <2>3, WrittenStays
  <2>5. Gives(d, ret')
    BY <2>2
  <2>6. CASE c.at = "typed" /\ c.call = "sema_resolve_entry" /\ Decl(c.name).kind # "alias"
    <3>0. /\ d.name = c.name
          /\ \/ d.call = "sema_analyze_initializer"
             \/ d.call = "sema_resolve_function_type" /\ Decl(c.name).kind = "function"
      BY <2>3, <2>6 DEF Asks
    <3>1. Sound(c.name) /\ ret'.type = Says(c.name)
      BY <2>5, <3>0 DEF Gives
    <3>2. Sound(c.name)' /\ Says(c.name)' = Says(c.name)
      BY <2>3, <3>1, SaysStays
    <3>3. Told(c)'
      BY <2>6, <3>1, <3>2 DEF Told
    <3> QED  BY <1>1, <2>1, <2>2, <3>3 DEF Top
  <2>7. CASE c.at = "typed" /\ c.call = "sema_resolve_entry" /\ Decl(c.name).kind = "alias"
    <3>1. Settled(Written(c)) /\ ret'.type = Meaning(Written(c)) /\ Written(c) = Origin(c.name)
      BY <2>3, <2>5, <2>7 DEF Asks, Gives, Written
    <3>2. Sound(c.name) /\ ret'.type = Says(c.name)
      BY <2>7, <3>1 DEF Sound, Says
    <3>3. Sound(c.name)' /\ Says(c.name)' = Says(c.name)
      BY <2>3, <3>2, SaysStays
    <3>4. Told(c)'
      BY <2>7, <3>2, <3>3 DEF Told
    <3> QED  BY <1>1, <2>1, <2>2, <3>4 DEF Top
  <2>8. CASE c.at = "typed" /\ c.call # "sema_resolve_entry"
    <3>1. PICK t : t = Written(c)
      OBVIOUS
    <3>2. Settled(t) /\ ret'.type = Meaning(t)
      BY <2>3, <2>5, <2>8, <3>1 DEF Asks, Gives
    <3>3. Settled(t)' /\ Meaning(t)' = Meaning(t)
      BY <3>2, MeaningStays
    <3>4. Told(c)'
      BY <2>4, <2>8, <3>1, <3>2, <3>3 DEF Told
    <3> QED  BY <1>1, <2>1, <2>2, <3>4 DEF Top
  <2>9. CASE c.at # "typed"
    <3>1. c.at = "nested" => d.call = "sema_complete_aggregate" /\ d.name = c.type.base
      BY <2>3 DEF Asks
    <3>2. Told(c)'
      BY <2>2, <2>9, <3>1 DEF Told
    <3> QED  BY <1>1, <2>1, <2>2, <3>2 DEF Top
  <2> QED  BY <2>6, <2>7, <2>8, <2>9
<1> QED  BY <1>1, <1>2, <1>3 DEF FramesRight

\* When nothing is on the stack.
LEMMA NoFrames ==
  ASSUME stack' = <<>>
  PROVE  FramesRight'
<1>1. stack' \in Seq(Frames) /\ Len(stack') = 0
  BY EmptySeq
<1> QED  BY <1>1, LenProperties DEF FramesRight

-----------------------------------------------------------------------------
(* The steps of sema_resolve_type and sema_resolve_entry *)

LEMMA TopRight ==
  ASSUME Inv, stack # <<>>, FramesRight
  PROVE  /\ Top \in Frames /\ FrameOK(Top) /\ Answered(Top) /\ Placed(Top) /\ Told(Top)
         /\ Top.name \in DOMAIN entries /\ Top.name \in Names
         /\ Top.expr \in Types /\ Top.type \in Types
<1>1. stack \in Seq(Frames)
  BY DEF Inv, TypeOK
<1>2. Top \in Frames /\ FrameOK(Top) /\ Answered(Top)
  BY TopFacts
<1>3. Placed(Top) /\ Told(Top)
  BY <1>1, CallersFacts DEF FramesRight, Top
<1> QED  BY <1>2, <1>3 DEF FrameOK, Frames, Inv, TypeOK

LEMMA NewPlaced ==
  ASSUME Inv, NEW call \in Calls, NEW n \in DOMAIN entries, NEW t \in Types,
         NEW g, g = Frame(call, n, t)
  PROVE  /\ g \in Frames /\ g.call = call /\ g.name = n /\ g.expr = t /\ g.at = "start"
         /\ Placed(g) /\ n \in Names
<1>1. n \in Names /\ Len(Decl(n).types) \in Nat
  BY DeclTyped, LenProperties
<1>2. /\ g \in Frames /\ g.call = call /\ g.name = n /\ g.expr = t
      /\ g.at = "start" /\ g.item = 1
  BY <1>1, NewFrame
<1> QED  BY <1>1, <1>2 DEF Placed

\* A call of g from the same function, where nothing but the place has changed.
LEMMA HereRight ==
  ASSUME Inv, stack # <<>>, FramesRight, Keeps, NEW at \in Places,
         NEW call \in Calls, NEW n \in DOMAIN entries, NEW t \in Types,
         CallFrom(Here(at), Frame(call, n, t)),
         NEW f, f = Here(at), Placed(f),
         \A g : g.call = call /\ g.name = n /\ g.expr = t => Asks(f, g)
  PROVE  FramesRight'
<1>1. PICK d, g : d = Top /\ g = Frame(call, n, t)
  OBVIOUS
<1>2. d \in Frames /\ f = [d EXCEPT !.at = at]
  BY <1>1, TopFacts DEF Here
<1>3. f \in Frames /\ f.call = d.call /\ f.name = d.name /\ f.expr = d.expr
  BY <1>2, FrameAt
<1>4. /\ g \in Frames /\ g.call = call /\ g.name = n /\ g.expr = t
      /\ g.at = "start" /\ Placed(g)
  BY <1>1, NewPlaced
<1>5. Asks(f, g) /\ CallFrom(f, g)
  BY <1>1, <1>4
<1> QED  BY <1>1, <1>3, <1>4, <1>5, CallRight

\* Where no parameter hides a name, a name of the program is not in the scope of
\* a function.
LEMMA Unshadowed ==
  ASSUME Inv, Clear
  PROVE  /\ \A n \in DOMAIN entries : n \notin DOMAIN scope /\ Decl(n).init \notin DOMAIN scope
         /\ \A t : Mentioned(t) => t.base \notin DOMAIN scope
<1>1. \A n \in DOMAIN scope : n \in ParametersIn(program)
  BY DEF Inv, Local, ScopeOK
<1>2. ASSUME NEW n \in DOMAIN entries
      PROVE  n \notin DOMAIN scope /\ Decl(n).init \notin DOMAIN scope
  <2>1. PICK i \in DOMAIN program : i = entries[n].node
    BY DEF Inv, TypeOK
  <2>2. n \in UsedIn(program[i]) /\ Decl(n).init \in UsedIn(program[i])
    BY <2>1, DeclTyped DEF UsedIn, Decl
  <2> QED  BY <1>1, <2>2 DEF Clear, Shadows
<1>3. ASSUME NEW t, Mentioned(t)
      PROVE  t.base \notin DOMAIN scope
  <2>1. PICK i \in DOMAIN program : t \in ElementsOf(program[i].types)
    BY <1>3 DEF Mentioned
  <2>2. t.base \in UsedIn(program[i])
    BY <2>1 DEF UsedIn
  <2> QED  BY <1>1, <2>2 DEF Clear, Shadows
<1> QED  BY <1>2, <1>3

\* What the lookups are then, which find a parameter first.
LEMMA NameLookup ==
  ASSUME Inv, Clear, ResolveTypeName, NEW n, n = Top.expr.base
  PROVE  \/ n = Builtin /\ Continue([Here("wrap") EXCEPT !.type = Plain(Builtin)]) /\ errors' = errors
         \/ /\ n # Builtin /\ n \notin DOMAIN entries
            /\ Report("not defined") /\ Continue(Here("wrap"))
         \/ /\ n \in DOMAIN entries /\ errors' = errors
            /\ CallFrom(Here("named"), Frame("sema_resolve_entry", n, NoType))
<1>1. stack # <<>> /\ Top.call = "sema_resolve_type"
  BY DEF ResolveTypeName, At
<1>2. n \notin DOMAIN scope
  BY <1>1, TopFacts, Unshadowed DEF FrameOK
<1> QED  BY <1>2 DEF ResolveTypeName

LEMMA InitializerLookup ==
  ASSUME Inv, Clear, InitializerStart, NEW d, d = Decl(Top.name)
  PROVE  \/ /\ d.init = None /\ errors' = errors /\ phase' = phase
            /\ CallFrom(Here("typed"), Frame("sema_resolve_type", d.name, d.types[1]))
         \/ d.init = Builtin /\ End("crashed") /\ errors' = errors
         \/ /\ d.init \in DOMAIN entries /\ errors' = errors /\ phase' = phase
            /\ CallFrom(Here("named"), Frame("sema_resolve_entry", d.init, NoType))
         \/ /\ d.init \notin DOMAIN entries \cup {Builtin, None} /\ phase' = phase
            /\ Report("undefined symbol") /\ Continue(Here("return"))
<1>1. stack # <<>>
  BY DEF InitializerStart, At
<1>2. d.init \notin DOMAIN scope
  BY <1>1, TopFacts, Unshadowed DEF FrameOK
<1> QED  BY <1>2 DEF InitializerStart

LEMMA VariableLookup ==
  ASSUME Inv, Clear, AnalyzeVariableStart
  PROVE  CallFrom(Here("named"), Frame("sema_resolve_entry", Top.name, NoType))
<1>1. stack # <<>>
  BY DEF AnalyzeVariableStart, At
<1>2. Top.name \notin DOMAIN scope
  BY <1>1, TopFacts, Unshadowed DEF FrameOK
<1> QED  BY <1>2 DEF AnalyzeVariableStart

\* A function has one type more than it has parameters, an aggregate a count for
\* each line.
LEMMA DeclLengths ==
  ASSUME Inv, NEW n \in DOMAIN entries
  PROVE  /\ Len(Decl(n).types) \in Nat
         /\ Decl(n).kind = "function" => Len(Decl(n).types) = Len(Decl(n).params) + 1
         /\ Decl(n).kind = "aggregate" => Len(Decl(n).counts) = Len(Decl(n).types)
         /\ Len(Decl(n).params) \in Nat
<1>1. PICK d : d = Decl(n)
  OBVIOUS
<1>2. d \in Decls /\ d.types \in Seq(Types) /\ Len(d.params) \in Nat
  BY <1>1, DeclTyped, DeclParts
<1>3. Len(d.types) \in Nat
  BY <1>2, LenProperties
<1>4. d.kind = "function" => Len(d.types) = Len(d.params) + 1
  BY <1>2 DEF Decls
<1>5. d.kind = "aggregate" => Len(d.counts) = Len(d.types)
  BY <1>2 DEF Decls
<1> QED  BY <1>1, <1>2, <1>3, <1>4, <1>5

LEMMA MeaningBase ==
  ASSUME Inv, NEW n, n = Builtin \/ n \in Resolved
  PROVE  /\ n \in Names \cup {Builtin} /\ Settled(Plain(n))
         /\ Meaning(Plain(n)) = IF n = Builtin THEN Plain(Builtin) ELSE entries[n].type
<1>1. /\ Found \in [Names -> Types] /\ Resolved \subseteq Names
      /\ \A m \in Resolved : Found[m] = entries[m].type /\ m # Builtin /\ m # None
  BY FoundTyped DEF Inv
<1>2. Settled(Plain(n))
  BY <1>1, PlainTyped DEF Settled
<1>3. CASE n = Builtin
  BY <1>2, <1>3, NamesAssumption DEF Meaning, Denoted, Plain
<1>4. CASE n \in Resolved
  <2>1. Denoted(Found, Plain(n)) = Found[n]
    BY <1>1, <1>4, DenotedPlain
  <2> QED  BY <1>1, <1>2, <1>4, <2>1 DEF Meaning
<1> QED  BY <1>3, <1>4

LEMMA MeaningWrap ==
  ASSUME Inv, NEW t \in Types, NEW w \in Wraps
  PROVE  Meaning(Wrap(t, w)) = Wrap(Meaning(t), w)
BY FoundTyped, DenotedWrap DEF Inv, Meaning

LEMMA ResolveTypeNameRight ==
  ASSUME Inv, Clear, FramesRight, Keeps, errors' = {}, ResolveTypeName
  PROVE  FramesRight'
<1>1. stack # <<>> /\ Top.call = "sema_resolve_type" /\ Top.at = "start"
  BY DEF ResolveTypeName, At
<1>2. PICK d : d = Top
  OBVIOUS
<1>3. d \in Frames /\ Placed(d) /\ d.expr \in Types
  BY <1>1, <1>2, TopRight
<1>4. d.item = 1
  BY <1>1, <1>2, <1>3 DEF Placed
<1>5. CASE d.expr.base = Builtin /\ Continue([Here("wrap") EXCEPT !.type = Plain(Builtin)])
  <2>1. PICK f, t : t = Plain(Builtin) /\ f = [[d EXCEPT !.at = "wrap"] EXCEPT !.type = t]
    OBVIOUS
  <2>2. t \in Types
    BY <2>1, PlainTyped
  <2>3. /\ f \in Frames /\ f.call = d.call /\ f.name = d.name /\ f.expr = d.expr
        /\ f.at = "wrap" /\ f.type = t /\ f.item = 1
    BY <1>3, <1>4, <2>1, <2>2 DEF Frames, Places
  <2>4. Continue(f)
    BY <1>2, <1>5, <2>1 DEF Here
  <2>5. /\ Len(d.expr.wraps) \in Nat /\ Cut(d.expr, 0) = Plain(Builtin)
        /\ Settled(d.expr) /\ Meaning(Plain(Builtin)) = Plain(Builtin)
    BY <1>3, <1>5, CutFacts, MeaningBase DEF Settled
  <2>6. Placed(f)
    BY <1>1, <1>2, <2>1, <2>3, <2>5 DEF Placed
  <2> QED  BY <1>1, <1>2, <2>3, <2>4, <2>6, ContinueRight
<1>6. CASE /\ d.expr.base \in DOMAIN entries
           /\ CallFrom(Here("named"), Frame("sema_resolve_entry", d.expr.base, NoType))
  <2>1. PICK f : f = Here("named")
    OBVIOUS
  <2>2. f.call = d.call /\ f.at = "named" /\ f.item = 1
    BY <1>2, <1>3, <1>4, <2>1, FrameAt DEF Here, Places
  <2>3. Placed(f) /\ \A g : Asks(f, g)
    BY <1>1, <1>2, <2>2 DEF Placed, Asks
  <2>4. "named" \in Places /\ "sema_resolve_entry" \in Calls /\ NoType \in Types
    BY NullKnown DEF Places, Calls
  <2> QED  BY <1>1, <1>6, <2>1, <2>3, <2>4, HereRight
<1>7. errors' # errors \cup {<<"not defined", d.name>>}
  OBVIOUS
<1> QED  BY <1>2, <1>5, <1>6, <1>7, NameLookup DEF Report

LEMMA ResolveTypeNamedRight ==
  ASSUME Inv, FramesRight, Keeps, errors' = {}, ResolveTypeNamed
  PROVE  FramesRight'
<1>1. stack # <<>> /\ Top.call = "sema_resolve_type" /\ Top.at = "named" /\ errors = {}
  BY DEF ResolveTypeNamed, At, Keeps
<1>2. PICK d : d = Top
  OBVIOUS
<1>3. /\ d \in Frames /\ Placed(d) /\ d.expr \in Types /\ d.expr.base \in DOMAIN entries
      /\ entries[d.expr.base].state = "RESOLVED"
  BY <1>1, <1>2, TopRight DEF FrameOK, Answered
<1>4. d.item = 1
  BY <1>1, <1>2, <1>3 DEF Placed
<1>5. PICK f, n, t : /\ n = d.expr.base /\ t = entries[n].type
                     /\ f = [[d EXCEPT !.at = "wrap"] EXCEPT !.type = t]
  OBVIOUS
<1>6. Continue(f)
  BY <1>2, <1>5 DEF ResolveTypeNamed, Report, Here
<1>7. n \in Resolved /\ t \in Types
  BY <1>3, <1>5 DEF Resolved, Inv, TypeOK
<1>8. /\ f \in Frames /\ f.call = d.call /\ f.name = d.name /\ f.expr = d.expr
      /\ f.at = "wrap" /\ f.type = t /\ f.item = 1
  BY <1>3, <1>4, <1>5, <1>7 DEF Frames, Places
<1>9. /\ Len(d.expr.wraps) \in Nat /\ Cut(d.expr, 0) = Plain(n) /\ Settled(d.expr)
  BY <1>3, <1>5, <1>7, CutFacts DEF Settled
<1>10. Meaning(Plain(n)) = t
  <2>1. n # Builtin
    BY <1>7, FoundTyped DEF Inv
  <2> QED  BY <1>5, <1>7, <2>1, MeaningBase
<1>11. Placed(f)
  BY <1>1, <1>2, <1>8, <1>9, <1>10 DEF Placed
<1> QED  BY <1>1, <1>2, <1>6, <1>8, <1>11, ContinueRight

LEMMA ResolveTypeWrapRight ==
  ASSUME Inv, FramesRight, Keeps, errors' = {}, ResolveTypeWrap
  PROVE  FramesRight'
<1>1. /\ stack # <<>> /\ Top.call = "sema_resolve_type" /\ Top.at = "wrap"
      /\ Top.item <= Len(Top.expr.wraps)
  BY DEF ResolveTypeWrap, At
<1>2. PICK d, w, t : d = Top /\ w = d.expr.wraps[d.item] /\ t = Wrap(d.type, w)
  OBVIOUS
<1>3. d \in Frames /\ Placed(d) /\ d.expr \in Types /\ d.type \in Types
  BY <1>1, <1>2, TopRight
<1>4. /\ Len(d.expr.wraps) \in Nat /\ d.item \in 1 .. Len(d.expr.wraps) /\ Settled(d.expr)
      /\ d.type = Meaning(Cut(d.expr, d.item - 1))
  BY <1>1, <1>2, <1>3, CutFacts DEF Placed
<1>5. CASE stack' = <<>>
  BY <1>5, NoFrames
<1>6. CASE Continue([Top EXCEPT !.type = Wrap(Top.type, Top.expr.wraps[Top.item]), !.item = @ + 1])
  <2>1. PICK i, f : i = d.item + 1 /\ f = [d EXCEPT !.type = t, !.item = i]
    OBVIOUS
  <2>2. Continue(f)
    BY <1>2, <1>6, <2>1
  <2>3. i \in 2 .. Len(d.expr.wraps) + 1 /\ i - 1 = d.item /\ i \in Nat \ {0}
    BY <1>4, <2>1
  <2>4. w \in Wraps /\ t \in Types
    BY <1>2, <1>3, <1>4, CutFacts, WrapTyped
  <2>5. /\ f \in Frames /\ f.call = d.call /\ f.name = d.name /\ f.expr = d.expr
        /\ f.at = "wrap" /\ f.type = t /\ f.item = i
    BY <1>1, <1>2, <1>3, <2>1, <2>3, <2>4 DEF Frames
  <2>6. Meaning(Cut(d.expr, d.item)) = t
    <3>1. PICK u, v : u = Cut(d.expr, d.item - 1) /\ v = Cut(d.expr, d.item)
      OBVIOUS
    <3>2. u \in Types /\ v = Wrap(u, w)
      <4>1. d.item - 1 \in 0 .. Len(d.expr.wraps)
        BY <1>4
      <4> QED  BY <1>2, <1>3, <1>4, <3>1, <4>1, CutFacts
    <3>3. Meaning(Wrap(u, w)) = Wrap(Meaning(u), w)
      BY <2>4, <3>2, MeaningWrap
    <3> QED  BY <1>2, <1>4, <3>1, <3>2, <3>3
  <2>7. Placed(f)
    <3>1. i \in 1 .. Len(d.expr.wraps) + 1
      BY <1>4, <2>3
    <3> QED  BY <1>1, <1>2, <1>4, <2>3, <2>5, <2>6, <3>1 DEF Placed
  <2> QED  BY <1>1, <1>2, <2>2, <2>5, <2>7, ContinueRight
<1> QED  BY <1>5, <1>6 DEF ResolveTypeWrap, End

LEMMA ResolveTypeReturnRight ==
  ASSUME Inv, FramesRight, Keeps, errors' = {}, ResolveTypeReturn
  PROVE  FramesRight'
<1>1. /\ stack # <<>> /\ Top.call = "sema_resolve_type" /\ Top.at = "wrap"
      /\ Top.item > Len(Top.expr.wraps) /\ stack' = Callers /\ ret'.type = Top.type
  BY DEF ResolveTypeReturn, At, Return
<1>2. PICK d : d = Top
  OBVIOUS
<1>3. d \in Frames /\ Placed(d) /\ d.expr \in Types
  BY <1>1, <1>2, TopRight
<1>4. Len(d.expr.wraps) \in Nat /\ Cut(d.expr, Len(d.expr.wraps)) = d.expr
  BY <1>3, CutFacts
<1>5. d.item - 1 = Len(d.expr.wraps)
  BY <1>1, <1>2, <1>3, <1>4 DEF Placed
<1>6. Gives(d, ret')
  BY <1>1, <1>2, <1>3, <1>4, <1>5 DEF Placed, Gives
<1> QED  BY <1>1, <1>2, <1>6, ReturnRight

LEMMA ResolveEntryMarkedRight ==
  ASSUME Inv, FramesRight, Keeps, errors' = {}, ResolveEntryMarked
  PROVE  FramesRight'
<1>1. stack # <<>> /\ Top.call = "sema_resolve_entry" /\ stack' = Callers
  BY DEF ResolveEntryMarked, At, Return
<1>2. Gives(Top, ret')
  BY <1>1 DEF Gives
<1> QED  BY <1>1, <1>2, ReturnRight

LEMMA ResolveEntryCallRight ==
  ASSUME Inv, FramesRight, Keeps, errors' = {}, ResolveEntryCall
  PROVE  FramesRight'
<1>1. stack # <<>> /\ Top.call = "sema_resolve_entry"
  BY DEF ResolveEntryCall, At
<1>2. PICK d, n, f : d = Top /\ n = d.name /\ f = Here("typed")
  OBVIOUS
<1>3. d \in Frames /\ n \in DOMAIN entries
  BY <1>1, <1>2, TopRight
<1>4. f.call = d.call /\ f.at = "typed" /\ f.name = n
  BY <1>2, <1>3, FrameAt DEF Here, Places
<1>5. Placed(f)
  BY <1>1, <1>2, <1>4 DEF Placed
<1>6. Decl(n).name = n /\ Decl(n) \in Decls /\ (Decl(n).kind = "alias" => Decl(n).types[1] \in Types)
  BY <1>3, DeclTyped
<1>7. "typed" \in Places /\ NoType \in Types
  BY NullKnown DEF Places
<1>8. CASE Decl(n).kind = "alias" /\ CallFrom(f, Frame("sema_resolve_type", n, Decl(n).types[1]))
  <2>1. Written(f) = Decl(n).types[1]
    BY <1>1, <1>2, <1>4, <1>6, <1>8 DEF Written, Origin, Decls
  <2>2. \A g : g.call = "sema_resolve_type" /\ g.name = n /\ g.expr = Decl(n).types[1] => Asks(f, g)
    BY <1>4, <1>8, <2>1 DEF Asks
  <2>3. PICK t : t = Decl(n).types[1]
    OBVIOUS
  <2> QED  BY <1>1, <1>2, <1>3, <1>5, <1>6, <1>7, <1>8, <2>2, <2>3, HereRight DEF Calls
<1>9. CASE /\ Decl(n).kind = "variable"
           /\ CallFrom(f, Frame("sema_analyze_initializer", n, NoType))
  <2>1. \A g : g.call = "sema_analyze_initializer" /\ g.name = n /\ g.expr = NoType => Asks(f, g)
    BY <1>1, <1>2, <1>4, <1>9 DEF Asks
  <2> QED  BY <1>1, <1>2, <1>3, <1>5, <1>7, <1>9, <2>1, HereRight DEF Calls
<1>10. CASE /\ Decl(n).kind = "function"
            /\ CallFrom(f, Frame("sema_resolve_function_type", n, NoType))
  <2>1. \A g : g.call = "sema_resolve_function_type" /\ g.name = n /\ g.expr = NoType => Asks(f, g)
    BY <1>1, <1>2, <1>4, <1>10 DEF Asks
  <2> QED  BY <1>1, <1>2, <1>3, <1>5, <1>7, <1>10, <2>1, HereRight DEF Calls
<1> QED  BY <1>2, <1>6, <1>8, <1>9, <1>10 DEF ResolveEntryCall

LEMMA ResolveEntryReturnRight ==
  ASSUME Inv, FramesRight, Keeps, errors' = {}, ResolveEntryReturn
  PROVE  FramesRight'
<1>1. stack # <<>> /\ Top.call = "sema_resolve_entry" /\ stack' = Callers
  BY DEF ResolveEntryReturn, At, Return
<1>2. Gives(Top, ret')
  BY <1>1 DEF Gives
<1> QED  BY <1>1, <1>2, ReturnRight

-----------------------------------------------------------------------------
(* The steps of sema_complete_aggregate *)

\* The frame behind an item of the size given.
LEMMA AddFrame ==
  ASSUME Inv, stack # <<>>, NEW size \in Nat, Add(size),
         Top.call = "sema_complete_aggregate", Top.at \in {"typed", "nested"}
  PROVE  \E f \in Frames :
           /\ Continue(f) /\ f.call = Top.call /\ f.name = Top.name /\ f.expr = Top.expr
           /\ f.at = "items" /\ f.item = Top.item + 1
           /\ f.size = Top.size + Counted(Decl(Top.name).counts[Top.item], size)
<1>1. PICK d, c : d = Top /\ c = Counted(Decl(Top.name).counts[Top.item], size)
  OBVIOUS
<1>2. d \in Frames /\ d.item \in Nat /\ d.size \in Nat /\ c \in Nat
  <2>1. d \in Frames /\ d.item \in Nat /\ d.size \in Nat /\ FrameOK(d)
    BY <1>1, TopFacts DEF Frames
  <2>2. PICK k : k = Decl(d.name).counts[d.item]
    OBVIOUS
  <2>3. k \in Nat
    BY <1>1, <2>1, <2>2, DeclParts DEF FrameOK
  <2> QED  BY <1>1, <2>1, <2>2, <2>3 DEF Counted
<1>3. PICK k, l, f : /\ k = d.item + 1 /\ l = d.size + c
                     /\ f = [[d EXCEPT !.at = "items"] EXCEPT !.item = k, !.size = l]
  OBVIOUS
<1>4. Continue(f)
  BY <1>1, <1>2, <1>3 DEF Add, Here, Frames
<1>5. k \in Nat \ {0} /\ l \in Nat
  BY <1>2, <1>3
<1>6. PICK e : e = [d EXCEPT !.at = "items"]
  OBVIOUS
<1>7. e \in Frames /\ e.call = d.call /\ e.name = d.name /\ e.expr = d.expr /\ e.at = "items"
  BY <1>2, <1>6, FrameAt DEF Places
<1>8. f = [e EXCEPT !.item = k, !.size = l]
  BY <1>3, <1>6
<1>9. /\ f \in Frames /\ f.call = d.call /\ f.name = d.name /\ f.expr = d.expr
      /\ f.at = "items" /\ f.item = k /\ f.size = l
  BY <1>5, <1>7, <1>8 DEF Frames
<1> QED  BY <1>1, <1>3, <1>4, <1>9

LEMMA AddRight ==
  ASSUME Inv, FramesRight, Keeps, stack # <<>>, Top.call = "sema_complete_aggregate",
         Top.at \in {"typed", "nested"}, NEW size \in Nat, Add(size)
  PROVE  FramesRight'
<1>1. PICK d : d = Top
  OBVIOUS
<1>2. PICK f \in Frames :
        /\ Continue(f) /\ f.call = d.call /\ f.name = d.name /\ f.expr = d.expr
        /\ f.at = "items" /\ f.item = d.item + 1
  BY <1>1, AddFrame
<1>3. /\ d.name \in DOMAIN entries /\ d.item \in 1 .. Len(Decl(d.name).types)
      /\ Len(Decl(d.name).types) \in Nat
  BY <1>1, TopRight, DeclTyped, LenProperties DEF Placed
<1>4. Placed(f)
  BY <1>1, <1>2, <1>3 DEF Placed
<1> QED  BY <1>1, <1>2, <1>4, ContinueRight

LEMMA CompleteMarkedRight ==
  ASSUME Inv, FramesRight, Keeps, errors' = {}, CompleteMarked
  PROVE  FramesRight'
<1>1. /\ stack # <<>> /\ Top.call = "sema_complete_aggregate" /\ stack' = Callers
      /\ ret'.ok => aggregates'[Top.name].is_complete
  BY DEF CompleteMarked, At, Return, scopes, global, local
<1>2. Gives(Top, ret')
  BY <1>1 DEF Gives
<1> QED  BY <1>1, <1>2, ReturnRight

LEMMA CompleteStartRight ==
  ASSUME Inv, FramesRight, Keeps, errors' = {}, CompleteStart
  PROVE  FramesRight'
<1>1. stack # <<>> /\ Top.call = "sema_complete_aggregate" /\ Continue(Here("items"))
  BY DEF CompleteStart, At
<1>2. PICK d, f : d = Top /\ f = Here("items")
  OBVIOUS
<1>3. d \in Frames /\ Placed(d)
  BY <1>1, <1>2, TopRight
<1>4. /\ f \in Frames /\ f.call = d.call /\ f.name = d.name /\ f.expr = d.expr
      /\ f.at = "items" /\ f.item = d.item
  BY <1>2, <1>3, FrameAt DEF Here, Places
<1>5. Placed(f)
  BY <1>1, <1>2, <1>3, <1>4 DEF Placed
<1> QED  BY <1>1, <1>2, <1>4, <1>5, ContinueRight

\* A function that resolves one of the types of its declaration.
LEMMA ItemRight ==
  ASSUME Inv, FramesRight, Keeps, stack # <<>>,
         Top.call \in {"sema_complete_aggregate", "sema_resolve_function_type", "sema_analyze_function"},
         Top.item <= Len(Decl(Top.name).types),
         CallFrom(Here("typed"),
                  Frame("sema_resolve_type", Top.name, Decl(Top.name).types[Top.item]))
  PROVE  FramesRight'
<1>1. PICK d, n, f, t : /\ d = Top /\ n = d.name /\ f = Here("typed")
                        /\ t = Decl(n).types[d.item]
  OBVIOUS
<1>2. d \in Frames /\ Placed(d) /\ n \in DOMAIN entries /\ d.item \in Nat \ {0}
  BY <1>1, TopRight DEF Frames
<1>3. d.item \in 1 .. Len(Decl(n).types) /\ t \in Types
  BY <1>1, <1>2, DeclTyped, LenProperties
<1>4. f.call = d.call /\ f.name = n /\ f.at = "typed" /\ f.item = d.item
  BY <1>1, <1>2, FrameAt DEF Here, Places
<1>5. Placed(f)
  BY <1>1, <1>2, <1>3, <1>4 DEF Placed
<1>6. \A g : g.call = "sema_resolve_type" /\ g.name = n /\ g.expr = t => Asks(f, g)
  BY <1>1, <1>4 DEF Asks, Written
<1>7. CallFrom(Here("typed"), Frame("sema_resolve_type", n, t))
  BY <1>1
<1> QED  BY <1>1, <1>2, <1>3, <1>5, <1>6, <1>7, HereRight DEF Calls, Places

LEMMA CompleteItemRight ==
  ASSUME Inv, FramesRight, Keeps, errors' = {}, CompleteItem
  PROVE  FramesRight'
<1>1. stack # <<>> /\ Top.call = "sema_complete_aggregate" /\ Top.item <= Len(Decl(Top.name).counts)
  BY DEF CompleteItem, At
<1>2. Top.item \in Nat \ {0} /\ Top.name \in DOMAIN entries
  BY <1>1, TopRight DEF Frames
<1>3. Top.item \in DOMAIN Decl(Top.name).counts
  BY <1>1, <1>2, DeclParts
<1>4. Top.item <= Len(Decl(Top.name).types)
  BY <1>2, <1>3, DeclParts, DeclLengths
<1> QED  BY <1>1, <1>4, ItemRight DEF CompleteItem

LEMMA CompleteItemTypedRight ==
  ASSUME Inv, FramesRight, Keeps, errors' = {}, CompleteItemTyped
  PROVE  FramesRight'
<1>1. stack # <<>> /\ Top.call = "sema_complete_aggregate" /\ Top.at = "typed"
  BY DEF CompleteItemTyped, At
<1>2. PICK d, t, w : d = Top /\ t = ret.type /\ w = Written(d)
  OBVIOUS
<1>3. /\ d \in Frames /\ d.name \in DOMAIN entries /\ Known(t) /\ t \in Types
      /\ Settled(w) /\ t = Meaning(w)
      /\ d.item \in 1 .. Len(Decl(d.name).types)
      /\ d.item \in 1 .. Len(Decl(d.name).types) + 1
  BY <1>1, <1>2, TopRight DEF Inv, Scoped, Known, Told, Placed
<1>4. CASE Add(0)
  BY <1>1, <1>4, AddRight
<1>5. CASE Add(SizeOf(t))
  <2>1. PICK size \in Nat : size = SizeOf(t)
    BY <1>3, SizeTyped
  <2>2. Add(size)
    BY <1>5, <2>1
  <2> QED  BY <1>1, <2>2, AddRight
<1>6. CASE /\ IsAggregate(t) \/ SizedOfAggregate(t)
           /\ CallFrom([Here("nested") EXCEPT !.type = t],
                       Frame("sema_complete_aggregate", t.base, NoType))
  <2>1. PICK f, g : /\ f = [[d EXCEPT !.at = "nested"] EXCEPT !.type = t]
                    /\ g = Frame("sema_complete_aggregate", t.base, NoType)
    OBVIOUS
  <2>2. /\ f \in Frames /\ f.call = d.call /\ f.name = d.name /\ f.expr = d.expr
        /\ f.at = "nested" /\ f.type = t /\ f.item = d.item
    BY <1>3, <2>1 DEF Frames, Places
  <2>3. t.base \in DOMAIN aggregates /\ t.base \in DOMAIN entries
    BY <1>3, <1>6, BaseOfElement DEF Inv, TypeOK
  <2>4. /\ g \in Frames /\ g.call = "sema_complete_aggregate" /\ g.name = t.base
        /\ g.at = "start" /\ Placed(g)
    BY <2>1, <2>3, NullKnown, NewPlaced DEF Calls
  <2>5. CallFrom(f, g)
    BY <1>2, <1>6, <2>1 DEF Here
  <2>6. Written(f) = w
    BY <1>1, <1>2, <2>2 DEF Written
  <2>7. Placed(f) /\ Asks(f, g)
    BY <1>1, <1>2, <1>3, <2>2, <2>3, <2>4, <2>6 DEF Placed, Asks
  <2> QED  BY <1>1, <1>2, <2>2, <2>3, <2>4, <2>5, <2>7, CallRight
<1> QED  BY <1>2, <1>4, <1>5, <1>6 DEF CompleteItemTyped

LEMMA CompleteItemNestedRight ==
  ASSUME Inv, FramesRight, Keeps, errors' = {}, CompleteItemNested
  PROVE  FramesRight'
<1>1. stack # <<>> /\ Top.call = "sema_complete_aggregate" /\ Top.at = "nested"
  BY DEF CompleteItemNested, At
<1>2. PICK t : t = Top.type
  OBVIOUS
<1>3. Known(t)
  BY <1>1, <1>2, TopFacts DEF FrameOK
<1>4. PICK size \in Nat : size = SizeOf(t)
  BY <1>3, SizeTyped
<1>5. Add(size) \/ Add(0)
  BY <1>2, <1>4 DEF CompleteItemNested
<1> QED  BY <1>1, <1>5, AddRight

LEMMA CompleteReturnRight ==
  ASSUME Inv, FramesRight, Keeps, errors' = {}, CompleteReturn
  PROVE  FramesRight'
<1>1. /\ stack # <<>> /\ Top.call = "sema_complete_aggregate" /\ stack' = Callers
      /\ aggregates' = [aggregates EXCEPT ![Top.name] =
           [is_complete |-> TRUE, is_resolving |-> FALSE, size |-> Top.size]]
  BY DEF CompleteReturn, At, Return
<1>2. Top.name \in DOMAIN aggregates
  BY <1>1, TopFacts DEF FrameOK
<1>3. Gives(Top, ret') /\ aggregates'[Top.name].is_complete
  BY <1>1, <1>2 DEF Gives
<1> QED  BY <1>1, <1>3, ReturnRight

-----------------------------------------------------------------------------
(* The steps of sema_analyze_initializer and sema_resolve_function_type *)

\* The declared type of a variable, or the name in its initializer.
LEMMA OriginFacts ==
  ASSUME Inv, NEW n \in DOMAIN entries, Decl(n).kind = "variable"
  PROVE  /\ Origin(n) \in Types
         /\ Decl(n).init # None => Origin(n) = Plain(Decl(n).init)
         /\ Says(n) = Meaning(Origin(n)) /\ (Sound(n) <=> Settled(Origin(n)))
<1>1. /\ Decl(n).init \in Names \cup {Builtin, None}
      /\ Decl(n).init = None => Decl(n).types[1] \in Types
  BY DeclTyped
<1>2. Decl(n).init # None => Plain(Decl(n).init) \in Types
  BY <1>1, PlainTyped
<1> QED  BY <1>1, <1>2 DEF Origin, Says, Sound

LEMMA InitializerStartRight ==
  ASSUME Inv, Clear, FramesRight, Keeps, errors' = {}, InitializerStart
  PROVE  FramesRight'
<1>1. stack # <<>> /\ Top.call = "sema_analyze_initializer"
  BY DEF InitializerStart, At
<1>2. PICK d, n : d = Top /\ n = d.name
  OBVIOUS
<1>3. d \in Frames /\ n \in DOMAIN entries /\ Decl(n).kind = "variable"
  BY <1>1, <1>2, TopRight DEF FrameOK
<1>4. /\ Decl(n).name = n
      /\ Decl(n).init = None => Decl(n).types[1] \in Types
  BY <1>3, DeclTyped
<1>5. CASE Decl(n).init = None
  <2>1. PICK f, t : f = Here("typed") /\ t = Decl(n).types[1]
    OBVIOUS
  <2>2. CallFrom(Here("typed"), Frame("sema_resolve_type", n, t))
    BY <1>2, <1>4, <1>5, <2>1, NamesAssumption, InitializerLookup DEF InitializerStart, Inv, TypeOK
  <2>3. f.call = d.call /\ f.at = "typed" /\ f.name = n
    BY <1>2, <1>3, <2>1, FrameAt DEF Here, Places
  <2>4. Written(f) = t
    BY <1>1, <1>2, <1>5, <2>1, <2>3 DEF Written, Origin
  <2>5. /\ Placed(f)
        /\ \A g : g.call = "sema_resolve_type" /\ g.name = n /\ g.expr = t => Asks(f, g)
    BY <1>1, <1>2, <2>3, <2>4 DEF Placed, Asks
  <2> QED  BY <1>1, <1>3, <1>4, <1>5, <2>1, <2>2, <2>5, HereRight DEF Calls, Places
<1>6. CASE /\ Decl(n).init \in DOMAIN entries
           /\ CallFrom(Here("named"), Frame("sema_resolve_entry", Decl(n).init, NoType))
  <2>1. PICK f : f = Here("named")
    OBVIOUS
  <2>2. f.call = d.call /\ f.at = "named"
    BY <1>2, <1>3, <2>1, FrameAt DEF Here, Places
  <2>3. Placed(f) /\ \A g : Asks(f, g)
    BY <1>1, <1>2, <2>2 DEF Placed, Asks
  <2> QED  BY <1>1, <1>6, <2>1, <2>3, NullKnown, HereRight DEF Calls, Places
<1>7. CASE stack' = <<>>
  BY <1>7, NoFrames
<1>8. errors' # errors \cup {<<"undefined symbol", d.name>>}
  OBVIOUS
<1> QED  BY <1>2, <1>5, <1>6, <1>7, <1>8, InitializerLookup DEF Report, End

\* The place behind the initializer, with what it denotes.
LEMMA InitializerFrame ==
  ASSUME Inv, stack # <<>>, Top.call = "sema_analyze_initializer",
         NEW at \in {"return", "completed"}, NEW t \in Types,
         Sound(Top.name), t = Says(Top.name),
         NEW f, f = [[Here("return") EXCEPT !.type = t] EXCEPT !.at = at]
  PROVE  /\ f \in Frames /\ f.call = Top.call /\ f.name = Top.name /\ f.expr = Top.expr
         /\ f.at = at /\ Placed(f)
<1>1. PICK d : d = Top
  OBVIOUS
<1>2. d \in Frames
  BY <1>1, TopFacts
<1>3. /\ f \in Frames /\ f.call = d.call /\ f.name = d.name /\ f.expr = d.expr
      /\ f.at = at /\ f.type = t
  BY <1>1, <1>2 DEF Here, Frames, Places
<1>4. Placed(f)
  BY <1>1, <1>3 DEF Placed
<1> QED  BY <1>1, <1>3, <1>4

LEMMA InitializerReturnsRight ==
  ASSUME Inv, FramesRight, Keeps, stack # <<>>, Top.call = "sema_analyze_initializer",
         NEW t \in Types, Sound(Top.name), t = Says(Top.name),
         Continue([Here("return") EXCEPT !.type = t])
  PROVE  FramesRight'
<1>1. PICK e, f : e = [Here("return") EXCEPT !.type = t] /\ f = [e EXCEPT !.at = "return"]
  OBVIOUS
<1>2. /\ f \in Frames /\ f.call = Top.call /\ f.name = Top.name /\ f.expr = Top.expr
      /\ f.at = "return" /\ Placed(f)
  BY <1>1, InitializerFrame
<1>3. e = f
  <2>1. Top \in Frames
    BY TopFacts
  <2> QED  BY <1>1, <2>1 DEF Here, Frames
<1>4. Continue(f)
  BY <1>1, <1>3
<1> QED  BY <1>2, <1>4, ContinueRight

LEMMA InitializerCompletesRight ==
  ASSUME Inv, FramesRight, Keeps, stack # <<>>, Top.call = "sema_analyze_initializer",
         NEW t \in Types, Sound(Top.name), t = Says(Top.name), NEW n \in DOMAIN entries,
         CallFrom([[Here("return") EXCEPT !.type = t] EXCEPT !.at = "completed"],
                  Frame("sema_complete_aggregate", n, NoType))
  PROVE  FramesRight'
<1>1. PICK f, g : /\ f = [[Here("return") EXCEPT !.type = t] EXCEPT !.at = "completed"]
                  /\ g = Frame("sema_complete_aggregate", n, NoType)
  OBVIOUS
<1>2. /\ f \in Frames /\ f.call = Top.call /\ f.name = Top.name /\ f.expr = Top.expr
      /\ f.at = "completed" /\ Placed(f)
  BY <1>1, InitializerFrame
<1>3. g \in Frames /\ g.name = n /\ g.at = "start" /\ Placed(g)
  BY <1>1, NullKnown, NewPlaced DEF Calls
<1>4. Asks(f, g) /\ CallFrom(f, g)
  BY <1>1, <1>2 DEF Asks
<1> QED  BY <1>2, <1>3, <1>4, CallRight

LEMMA InitializerTypedRight ==
  ASSUME Inv, FramesRight, Keeps, errors' = {}, InitializerTyped
  PROVE  FramesRight'
<1>1. stack # <<>> /\ Top.call = "sema_analyze_initializer" /\ Top.at = "typed"
  BY DEF InitializerTyped, At
<1>2. PICK n, t : n = Top.name /\ t = ret.type
  OBVIOUS
<1>3. n \in DOMAIN entries /\ t \in Types /\ Decl(n).kind = "variable"
  BY <1>1, <1>2, TopRight DEF Inv, TypeOK, FrameOK
<1>4. Sound(n) /\ t = Says(n)
  <2>1. Written(Top) = Origin(n)
    BY <1>1, <1>2 DEF Written
  <2> QED  BY <1>1, <1>2, <1>3, <2>1, TopRight, OriginFacts DEF Told
<1>5. CASE stack' = <<>>
  BY <1>5, NoFrames
<1>6. CASE /\ IsAggregate(t)
           /\ CallFrom([[Here("return") EXCEPT !.type = t] EXCEPT !.at = "completed"],
                       Frame("sema_complete_aggregate", t.base, NoType))
  <2>1. t.base \in DOMAIN entries
    BY <1>6 DEF IsAggregate, Inv, TypeOK
  <2> QED  BY <1>1, <1>2, <1>3, <1>4, <1>6, <2>1, InitializerCompletesRight
<1>7. CASE Continue([Here("return") EXCEPT !.type = t])
  BY <1>1, <1>2, <1>3, <1>4, <1>7, InitializerReturnsRight
<1> QED  BY <1>2, <1>5, <1>6, <1>7 DEF InitializerTyped, End

LEMMA InitializerNamedRight ==
  ASSUME Inv, FramesRight, Keeps, errors' = {}, InitializerNamed
  PROVE  FramesRight'
<1>1. /\ stack # <<>> /\ Top.call = "sema_analyze_initializer" /\ Top.at = "named"
      /\ errors = {}
  BY DEF InitializerNamed, At, Keeps
<1>2. PICK n, m, t : n = Top.name /\ m = Decl(n).init /\ t = entries[m].type
  OBVIOUS
<1>3. /\ n \in DOMAIN entries /\ Decl(n).kind = "variable" /\ m \in DOMAIN entries
      /\ entries[m].state = "RESOLVED"
  BY <1>1, <1>2, TopRight DEF FrameOK, Answered
<1>4. m \in Resolved /\ t \in Types
  BY <1>2, <1>3 DEF Resolved, Inv, TypeOK
<1>5. Sound(n) /\ t = Says(n)
  <2>1. m # None /\ m # Builtin
    BY <1>4, FoundTyped DEF Inv
  <2>2. Settled(Plain(m)) /\ Meaning(Plain(m)) = t
    BY <1>2, <1>4, <2>1, MeaningBase
  <2> QED  BY <1>2, <1>3, <2>1, <2>2, OriginFacts
<1>6. CASE CallFrom([[Here("return") EXCEPT !.type = t] EXCEPT !.at = "completed"],
                    Frame("sema_complete_aggregate", m, NoType))
  BY <1>1, <1>2, <1>3, <1>4, <1>5, <1>6, InitializerCompletesRight
<1>7. CASE Continue([Here("return") EXCEPT !.type = t])
  BY <1>1, <1>2, <1>4, <1>5, <1>7, InitializerReturnsRight
<1> QED  BY <1>2, <1>6, <1>7 DEF InitializerNamed, Report

LEMMA InitializerCompletedRight ==
  ASSUME Inv, FramesRight, Keeps, errors' = {}, InitializerCompleted
  PROVE  FramesRight'
<1>1. /\ stack # <<>> /\ Top.call = "sema_analyze_initializer" /\ Top.at = "completed"
      /\ Continue(Here("return"))
  BY DEF InitializerCompleted, At, Report
<1>2. PICK d, f : d = Top /\ f = Here("return")
  OBVIOUS
<1>3. d \in Frames /\ Placed(d)
  BY <1>1, <1>2, TopRight
<1>4. /\ f \in Frames /\ f.call = d.call /\ f.name = d.name /\ f.expr = d.expr
      /\ f.at = "return" /\ f.type = d.type
  BY <1>2, <1>3, FrameAt DEF Here, Places
<1>5. Placed(f)
  BY <1>1, <1>2, <1>3, <1>4 DEF Placed
<1> QED  BY <1>1, <1>2, <1>4, <1>5, ContinueRight

LEMMA InitializerReturnRight ==
  ASSUME Inv, FramesRight, Keeps, errors' = {}, InitializerReturn
  PROVE  FramesRight'
<1>1. /\ stack # <<>> /\ Top.call = "sema_analyze_initializer" /\ Top.at = "return"
      /\ stack' = Callers /\ ret'.type = Top.type
  BY DEF InitializerReturn, At, Return
<1>2. PICK d : d = Top
  OBVIOUS
<1>3. Placed(d)
  BY <1>1, <1>2, TopRight
<1>4. Gives(d, ret')
  BY <1>1, <1>2, <1>3 DEF Placed, Gives
<1> QED  BY <1>1, <1>2, <1>4, ReturnRight

LEMMA FunctionTypeItemRight ==
  ASSUME Inv, FramesRight, Keeps, errors' = {}, FunctionTypeItem
  PROVE  FramesRight'
BY ItemRight DEF FunctionTypeItem, At

\* On to the next item; no type is held over it.
LEMMA NextItemRight ==
  ASSUME Inv, FramesRight, Keeps, stack # <<>>,
         Top.call \in {"sema_resolve_function_type", "sema_analyze_function"},
         NEW at \in {"start", "parameters"}, Continue([Here(at) EXCEPT !.item = @ + 1])
  PROVE  FramesRight'
<1>1. PICK d : d = Top
  OBVIOUS
<1>2. d \in Frames /\ d.item \in Nat
  BY <1>1, TopFacts DEF Frames
<1>3. PICK k, f : k = d.item + 1 /\ f = [[d EXCEPT !.at = at] EXCEPT !.item = k]
  OBVIOUS
<1>4. Continue(f)
  BY <1>1, <1>2, <1>3 DEF Here, Frames
<1>5. k \in Nat \ {0}
  BY <1>2, <1>3
<1>6. /\ f \in Frames /\ f.call = d.call /\ f.name = d.name /\ f.expr = d.expr /\ f.at = at
  BY <1>2, <1>3, <1>5 DEF Frames, Places
<1>7. Placed(f)
  BY <1>1, <1>6 DEF Placed
<1> QED  BY <1>1, <1>4, <1>6, <1>7, ContinueRight

LEMMA FunctionTypeTypedRight ==
  ASSUME Inv, FramesRight, Keeps, errors' = {}, FunctionTypeTyped
  PROVE  FramesRight'
<1>1. /\ stack # <<>> /\ Top.call = "sema_resolve_function_type" /\ Top.at = "typed"
      /\ errors = {}
  BY DEF FunctionTypeTyped, At, Keeps
<1>2. ret.type # NoType
  BY <1>1, TopRight DEF Answered
<1>3. Continue([Here("start") EXCEPT !.item = @ + 1])
  BY <1>2 DEF FunctionTypeTyped
<1> QED  BY <1>1, <1>3, NextItemRight

LEMMA FunctionTypeReturnRight ==
  ASSUME Inv, FramesRight, Keeps, errors' = {}, FunctionTypeReturn
  PROVE  FramesRight'
<1>1. /\ stack # <<>> /\ Top.call = "sema_resolve_function_type" /\ stack' = Callers
      /\ ret'.type = Wrap(Plain(Top.name), "function")
  BY DEF FunctionTypeReturn, At, Return
<1>2. Gives(Top, ret')
  BY <1>1 DEF Gives, Sound, Says
<1> QED  BY <1>1, <1>2, ReturnRight

-----------------------------------------------------------------------------
(* The steps of sema_analyze *)

LEMMA AnalyzeDeclarationRight ==
  ASSUME Inv, FramesRight, Keeps, errors' = {}, AnalyzeDeclaration
  PROVE  FramesRight'
<1>1. phase = "analyze" /\ stack = <<>> /\ next <= Len(program)
  BY DEF AnalyzeDeclaration
<1>2. PICK n : n = program[next].name
  OBVIOUS
<1>3. n \in DOMAIN entries
  <2>1. next \in DOMAIN program
    BY <1>1, LenProperties DEF Inv, TypeOK
  <2> QED  BY <1>1, <1>2, <2>1 DEF Inv, Started
<1>4. ASSUME NEW call \in {"sema_analyze_variable", "sema_analyze_function"},
             stack' = <<Frame(call, n, NoType)>>
      PROVE  FramesRight'
  <2>1. PICK f : f = Frame(call, n, NoType)
    OBVIOUS
  <2>2. f \in Frames /\ f.call = call /\ f.at = "start"
    BY <1>3, <2>1, NullKnown, NewPlaced DEF Calls
  <2>3. stack' = <<f>>
    BY <1>4, <2>1
  <2>4. /\ DOMAIN stack' = {1} /\ Len(stack') = 1 /\ stack'[1] = f
    BY <2>3
  <2>5. Placed(f)' /\ Told(f)'
    BY <2>2 DEF Placed, Told
  <2>6. Top' = f
    BY <2>4 DEF Top
  <2>7. \A i \in DOMAIN stack' : Placed(stack[i])'
    <3>1. Placed(stack[1])'
      BY <2>4, <2>5
    <3> QED  BY <2>4, <3>1
  <2>8. Told(Top)'
    BY <2>5, <2>6
  <2>9. 1 .. Len(stack') - 1 = {}
    BY <2>4
  <2> QED  BY <2>7, <2>8, <2>9 DEF FramesRight
<1>5. CASE stack' = stack
  BY <1>1, <1>5, NoFrames
<1> QED  BY <1>2, <1>4, <1>5 DEF AnalyzeDeclaration

\* The calls of sema_analyze that ask for no type.
LEMMA AnalyzeCallsRight ==
  ASSUME Inv, FramesRight, Keeps, stack # <<>>,
         Top.call \in {"sema_analyze_variable", "sema_analyze_function"},
         NEW at \in {"named", "type", "completed"},
         NEW call \in Calls, NEW n \in DOMAIN entries,
         CallFrom(Here(at), Frame(call, n, NoType))
  PROVE  FramesRight'
<1>1. PICK f : f = Here(at)
  OBVIOUS
<1>2. f.call = Top.call /\ f.at = at
  BY <1>1, TopFacts, FrameAt DEF Here, Places
<1>3. Placed(f) /\ \A g : Asks(f, g)
  BY <1>2 DEF Placed, Asks
<1> QED  BY <1>1, <1>3, NullKnown, HereRight DEF Places

LEMMA AnalyzeEndsRight ==
  ASSUME Inv, FramesRight, Keeps, stack # <<>>,
         Top.call \in {"sema_analyze_variable", "sema_analyze_function"}, stack' = Callers
  PROVE  FramesRight'
<1>1. Gives(Top, ret')
  BY DEF Gives
<1> QED  BY <1>1, ReturnRight

LEMMA AnalyzeVariableRight ==
  ASSUME Inv, Clear, FramesRight, Keeps, errors' = {}, sema_analyze_variable
  PROVE  FramesRight'
<1>1. stack # <<>> /\ Top.call = "sema_analyze_variable"
  BY DEF sema_analyze_variable, AnalyzeVariableStart, AnalyzeVariableNamed,
     AnalyzeVariableCompleted, At
<1>2. Top.name \in DOMAIN entries
  BY <1>1, TopRight
<1>3. CASE AnalyzeVariableStart
  BY <1>1, <1>2, <1>3, VariableLookup, AnalyzeCallsRight DEF Calls
<1>4. CASE AnalyzeVariableNamed
  <2>1. PICK t : t = entries[Top.name].type
    OBVIOUS
  <2>2. CASE /\ IsAggregate(t)
             /\ CallFrom(Here("completed"), Frame("sema_complete_aggregate", t.base, NoType))
    <3>1. t.base \in DOMAIN entries
      BY <2>2 DEF IsAggregate, Inv, TypeOK
    <3> QED  BY <1>1, <2>2, <3>1, AnalyzeCallsRight DEF Calls
  <2>3. CASE stack' = Callers
    BY <1>1, <2>3, AnalyzeEndsRight
  <2>4. CASE stack' = <<>>
    BY <2>4, NoFrames
  <2> QED  BY <1>4, <2>1, <2>2, <2>3, <2>4 DEF AnalyzeVariableNamed, End
<1>5. CASE AnalyzeVariableCompleted
  BY <1>1, <1>5, AnalyzeEndsRight DEF AnalyzeVariableCompleted
<1> QED  BY <1>3, <1>4, <1>5 DEF sema_analyze_variable

LEMMA AnalyzeFunctionRight ==
  ASSUME Inv, FramesRight, Keeps, errors' = {}, sema_analyze_function
  PROVE  FramesRight'
<1>1. stack # <<>> /\ Top.call = "sema_analyze_function"
  BY DEF sema_analyze_function, AnalyzeFunctionStart, AnalyzeFunctionParameter,
     AnalyzeFunctionTyped, AnalyzeFunctionParameterTyped, AnalyzeFunctionCompleted,
     AnalyzeFunctionReturn, At
<1>2. Top.name \in DOMAIN entries
  BY <1>1, TopRight
<1>3. CASE AnalyzeFunctionStart
  BY <1>1, <1>2, <1>3, AnalyzeCallsRight DEF AnalyzeFunctionStart, Calls
<1>4. CASE AnalyzeFunctionParameter
  <2>1. /\ Top.item <= Len(Decl(Top.name).params)
        /\ CallFrom(Here("typed"),
             Frame("sema_resolve_type", Top.name, Decl(Top.name).types[Top.item]))
    BY <1>4 DEF AnalyzeFunctionParameter
  <2>2. Top.item <= Len(Decl(Top.name).types)
    <3>1. Top.item \in Nat \ {0}
      BY <1>1, TopFacts DEF Frames
    <3>2. Top.item \in DOMAIN Decl(Top.name).params
      BY <1>2, <2>1, <3>1, DeclParts
    <3> QED  BY <1>2, <3>1, <3>2, DeclParts, DeclLengths
  <2> QED  BY <1>1, <2>1, <2>2, ItemRight
<1>5. CASE AnalyzeFunctionTyped
  <2>1. CASE Continue(Here("parameters"))
    <3>1. PICK d, f : d = Top /\ f = Here("parameters")
      OBVIOUS
    <3>2. d \in Frames
      BY <1>1, <3>1, TopRight
    <3>3. /\ f \in Frames /\ f.call = d.call /\ f.name = d.name /\ f.expr = d.expr
          /\ f.at = "parameters"
      BY <3>1, <3>2, FrameAt DEF Here, Places
    <3>4. Placed(f)
      BY <1>1, <3>1, <3>3 DEF Placed
    <3> QED  BY <1>1, <2>1, <3>1, <3>3, <3>4, ContinueRight
  <2>2. CASE stack' = Callers
    BY <1>1, <2>2, AnalyzeEndsRight
  <2> QED  BY <1>5, <2>1, <2>2 DEF AnalyzeFunctionTyped
<1>6. CASE AnalyzeFunctionParameterTyped
  <2>1. PICK t : t = ret.type
    OBVIOUS
  <2>2. CASE /\ IsAggregate(t)
             /\ CallFrom([Here("completed") EXCEPT !.type = t],
                         Frame("sema_complete_aggregate", t.base, NoType))
    <3>1. t.base \in DOMAIN entries
      BY <2>2 DEF IsAggregate, Inv, TypeOK
    <3>2. PICK d, f, g : /\ d = Top /\ f = [[d EXCEPT !.at = "completed"] EXCEPT !.type = t]
                         /\ g = Frame("sema_complete_aggregate", t.base, NoType)
      OBVIOUS
    <3>3. d \in Frames /\ t \in Types
      BY <1>1, <2>1, <3>2, TopRight DEF Inv, TypeOK
    <3>4. /\ f \in Frames /\ f.call = d.call /\ f.name = d.name /\ f.expr = d.expr
          /\ f.at = "completed"
      BY <3>2, <3>3 DEF Frames, Places
    <3>5. Placed(f) /\ Asks(f, g)
      BY <1>1, <3>2, <3>4 DEF Placed, Asks
    <3>6. g \in Frames /\ g.at = "start" /\ Placed(g) /\ g.name \in DOMAIN entries
      BY <3>1, <3>2, NullKnown, NewPlaced DEF Calls
    <3>7. CallFrom(f, g)
      BY <2>2, <3>2 DEF Here
    <3> QED  BY <1>1, <3>2, <3>4, <3>5, <3>6, <3>7, CallRight
  <2>3. CASE stack' = <<>>
    BY <2>3, NoFrames
  <2>4. CASE Continue([Here("parameters") EXCEPT !.item = @ + 1])
    BY <1>1, <2>4, NextItemRight
  <2> QED  BY <1>6, <2>1, <2>2, <2>3, <2>4 DEF AnalyzeFunctionParameterTyped, End, Put
<1>7. CASE AnalyzeFunctionCompleted
  <2>1. CASE stack' = Callers
    BY <1>1, <2>1, AnalyzeEndsRight
  <2>2. CASE Continue([Here("parameters") EXCEPT !.item = @ + 1])
    BY <1>1, <2>2, NextItemRight
  <2> QED  BY <1>7, <2>1, <2>2 DEF AnalyzeFunctionCompleted, Put
<1>8. CASE AnalyzeFunctionReturn
  BY <1>1, <1>8, AnalyzeEndsRight DEF AnalyzeFunctionReturn
<1> QED  BY <1>3, <1>4, <1>5, <1>6, <1>7, <1>8 DEF sema_analyze_function

LEMMA AnalysisRight ==
  ASSUME Inv, Clear, FramesRight, Keeps, errors' = {}, Next, phase = "analyze"
  PROVE  FramesRight'
<1>1. CASE AnalyzeDeclaration \/ Analyzed
  <2>1. CASE Analyzed
    <3>1. stack' = <<>>
      BY <2>1 DEF Analyzed
    <3> QED  BY <3>1, NoFrames
  <2> QED  BY <1>1, <2>1, AnalyzeDeclarationRight
<1>2. CASE sema_resolve_type
  BY <1>2, ResolveTypeNameRight, ResolveTypeNamedRight, ResolveTypeWrapRight,
     ResolveTypeReturnRight DEF sema_resolve_type
<1>3. CASE sema_resolve_entry
  BY <1>3, ResolveEntryMarkedRight, ResolveEntryCallRight, ResolveEntryReturnRight
     DEF sema_resolve_entry
<1>4. CASE sema_complete_aggregate
  BY <1>4, CompleteMarkedRight, CompleteStartRight, CompleteItemRight, CompleteItemTypedRight,
     CompleteItemNestedRight, CompleteReturnRight DEF sema_complete_aggregate
<1>5. CASE sema_analyze_initializer
  BY <1>5, InitializerStartRight, InitializerTypedRight, InitializerNamedRight,
     InitializerCompletedRight, InitializerReturnRight DEF sema_analyze_initializer
<1>6. CASE sema_resolve_function_type
  BY <1>6, FunctionTypeItemRight, FunctionTypeTypedRight, FunctionTypeReturnRight
     DEF sema_resolve_function_type
<1>7. CASE sema_analyze_variable \/ sema_analyze_function
  BY <1>7, AnalyzeVariableRight, AnalyzeFunctionRight
<1>8. ~sema_register /\ ~Registered
  BY DEF sema_register, Registered
<1> QED  BY <1>1, <1>2, <1>3, <1>4, <1>5, <1>6, <1>7, <1>8 DEF Next

-----------------------------------------------------------------------------
(* What is resolved denotes what its declaration says *)

\* After registering without an error, an entry is the declaration of its name.
LEMMA DeclIs ==
  ASSUME Inv, phase = "analyze", Placing, NEW n \in DOMAIN entries
  PROVE  /\ n \in DeclaredIn(program) /\ DeclOf(program, n) = Decl(n)
         /\ DeclaredIn(program) = DOMAIN entries
<1>1. PICK i : i = entries[n].node
  OBVIOUS
<1>2. i \in DOMAIN program /\ program[i].name = n
  BY <1>1 DEF Inv, TypeOK, Scoped
<1>3. \A j \in DOMAIN program : program[j].name = n => j = i
  BY <1>1 DEF Placing
<1>4. DeclOf(program, n) = program[i]
  BY <1>2, <1>3 DEF DeclOf
<1>5. \A m \in DOMAIN entries : m \in DeclaredIn(program)
  BY DEF DeclaredIn, Inv, TypeOK, Scoped
<1>6. \A j \in DOMAIN program : program[j].name \in DOMAIN entries
  BY DEF Inv, Started
<1> QED  BY <1>1, <1>4, <1>5, <1>6 DEF Decl, DeclaredIn

LEMMA ResolvedFinite ==
  ASSUME Inv
  PROVE  /\ Resolved \subseteq Names /\ IsFiniteSet(Resolved)
         /\ Cardinality(Resolved) \in Nat /\ Cardinality(Names) \in Nat
         /\ Cardinality(Resolved) <= Cardinality(Names)
BY FoundTyped, NamesAssumption, FS_Subset, FS_CardinalityType DEF Inv

\* Following names as often as there are resolved ones gives the meaning of every
\* type expression whose name is resolved.
LEMMA DenotedMeaning ==
  ASSUME Inv, Denotes, NEW t, Settled(t),
         NEW k \in Cardinality(Resolved) .. Cardinality(Names)
  PROVE  Denoted(Following(program)[k], t) = Meaning(t)
<1>1. CASE t.base = Builtin
  BY <1>1, NamesAssumption DEF Denoted, Meaning
<1>2. CASE t.base \in Resolved
  <2>1. Following(program)[k][t.base] = Found[t.base]
    BY <1>2, FoundTyped DEF Denotes, Inv
  <2> QED  BY <2>1 DEF Denoted, Meaning
<1> QED  BY <1>1, <1>2 DEF Settled

LEMMA EntryDenotes ==
  ASSUME Inv, Placing, Denotes, phase = "analyze", NEW n \in DOMAIN entries,
         Decl(n).kind # "aggregate", Sound(n), n \notin Resolved,
         NEW k \in Cardinality(Resolved) + 1 .. Cardinality(Names)
  PROVE  Following(program)[k][n] = Says(n)
<1>1. /\ n \in Names /\ n \in DeclaredIn(program) /\ DeclOf(program, n) = Decl(n)
      /\ program \in Seq(Decls) /\ Decl(n).kind \in Kinds
      /\ Decl(n).kind # "variable" => Decl(n).init = None
  BY DeclIs, DeclTyped DEF Inv, TypeOK, Decls
<1>2. k - 1 \in Cardinality(Resolved) .. Cardinality(Names) /\ k \in 1 .. Cardinality(Names)
  BY ResolvedFinite
<1>3. PICK D, d : D = Following(program)[k - 1] /\ d = Decl(n)
  OBVIOUS
<1>4. Following(program)[k] = Followed(program, D)
  BY <1>1, <1>2, <1>3, FollowingUnfolds
<1>5. Followed(program, D)[n] =
        CASE d.kind = "aggregate" -> Plain(n)
          [] d.kind = "function" -> Wrap(Plain(n), "function")
          [] d.init # None -> Denoted(D, Plain(d.init))
          [] OTHER -> Denoted(D, d.types[1])
  BY <1>1, <1>3 DEF Followed
<1>6. CASE d.kind = "function"
  BY <1>1, <1>3, <1>4, <1>5, <1>6 DEF Says
<1>7. CASE d.kind # "function"
  <2>1. Settled(Origin(n)) /\ Says(n) = Meaning(Origin(n))
    BY <1>3, <1>7 DEF Sound, Says
  <2>2. Followed(program, D)[n] = Denoted(D, Origin(n))
    BY <1>1, <1>3, <1>5, <1>7 DEF Origin
  <2>3. PICK t : t = Origin(n)
    OBVIOUS
  <2>4. Denoted(D, t) = Meaning(t)
    BY <1>2, <1>3, <2>1, <2>3, DenotedMeaning
  <2> QED  BY <1>4, <2>1, <2>2, <2>3, <2>4
<1> QED  BY <1>6, <1>7

LEMMA DenotesStays ==
  ASSUME Keeps, Denotes, Resolved' = Resolved
  PROVE  Denotes'
<1>1. program' = program /\ \A n \in Resolved : entries'[n].type = entries[n].type
  BY DEF Keeps, input
<1> QED  BY <1>1 DEF Denotes

\* What ResolveEntryReturn adds to the resolved entries.
LEMMA ResolvesOne ==
  ASSUME Inv, ResolveEntryReturn
  PROVE  /\ phase = "analyze" /\ stack # <<>> /\ Top.call = "sema_resolve_entry"
         /\ Top.at = "typed" /\ Top.name \in DOMAIN entries
         /\ entries[Top.name].state = "RESOLVING" /\ Decl(Top.name).kind # "aggregate"
         /\ Top.name \notin Resolved /\ Resolved' = Resolved \cup {Top.name}
         /\ entries'[Top.name].type = ret.type
<1>1. /\ phase = "analyze" /\ stack # <<>>
      /\ Top.call = "sema_resolve_entry" /\ Top.at = "typed"
      /\ entries' = [entries EXCEPT ![Top.name].state = "RESOLVED", ![Top.name].type = ret.type]
  BY DEF ResolveEntryReturn, At
<1>2. PICK n : n = Top.name
  OBVIOUS
<1>3. n \in DOMAIN entries /\ stack \in Seq(Frames)
  BY <1>1, <1>2, TopFacts DEF FrameOK, Inv, TypeOK
<1>4. entries[n].state = "RESOLVING"
  <2>1. Works(Top, "sema_resolve_entry", n)
    BY <1>1, <1>2 DEF Works, Marked, Marking
  <2>2. Working("sema_resolve_entry", n)
    BY <1>1, <1>3, <2>1, TopWorks
  <2> QED  BY <1>1, <1>3, <2>2 DEF Inv, Marks
<1>5. Decl(n).kind # "aggregate"
  <2>1. entries[n].node \in DOMAIN program /\ program[entries[n].node].name = n
    BY <1>3 DEF Inv, TypeOK, Scoped
  <2> QED  BY <1>1, <1>4, <2>1 DEF Inv, TypeOK, Decl
<1>6. DOMAIN entries' = DOMAIN entries
  BY <1>1
<1>7. entries'[n].state = "RESOLVED" /\ entries'[n].type = ret.type
  <2>1. PICK E : E = [entries EXCEPT ![n].state = "RESOLVED"]
    OBVIOUS
  <2>2. DOMAIN E = DOMAIN entries /\ E[n].state = "RESOLVED" /\ "type" \in DOMAIN E[n]
    BY <1>3, <2>1 DEF Inv, TypeOK
  <2>3. entries' = [E EXCEPT ![n].type = ret.type]
    BY <1>1, <1>2, <2>1
  <2> QED  BY <1>3, <2>2, <2>3
<1>8. \A m \in DOMAIN entries : m # n => entries'[m] = entries[m]
  BY <1>1, <1>2
<1>9. n \notin Resolved /\ Resolved' = Resolved \cup {n}
  BY <1>3, <1>4, <1>6, <1>7, <1>8 DEF Resolved
<1> QED  BY <1>1, <1>2, <1>3, <1>4, <1>5, <1>7, <1>9

LEMMA ResolveEntryReturnDenotes ==
  ASSUME Inv, FramesRight, Placing, Denotes, Keeps, errors' = {}, ResolveEntryReturn
  PROVE  Denotes'
<1>1. PICK n : n = Top.name
  OBVIOUS
<1>2. /\ phase = "analyze" /\ n \in DOMAIN entries /\ Decl(n).kind # "aggregate"
      /\ n \notin Resolved /\ Resolved' = Resolved \cup {n} /\ entries'[n].type = ret.type
      /\ Sound(n) /\ ret.type = Says(n)
  BY <1>1, ResolvesOne, TopRight DEF Told
<1>3. Cardinality(Resolved') = Cardinality(Resolved) + 1
  BY <1>2, ResolvedFinite, FS_AddElement
<1>4. program' = program /\ \A m \in Resolved : entries'[m].type = entries[m].type
  BY DEF Keeps, input
<1>5. ASSUME NEW m \in Resolved', NEW k \in Cardinality(Resolved') .. Cardinality(Names)
      PROVE  Following(program)[k][m] = entries'[m].type
  <2>1. /\ k \in Cardinality(Resolved) .. Cardinality(Names)
        /\ k \in Cardinality(Resolved) + 1 .. Cardinality(Names)
    BY <1>3, ResolvedFinite
  <2>2. CASE m = n
    BY <1>2, <2>1, <2>2, EntryDenotes
  <2>3. CASE m \in Resolved
    BY <1>4, <2>1, <2>3 DEF Denotes
  <2> QED  BY <1>2, <2>2, <2>3
<1> QED  BY <1>4, <1>5 DEF Denotes

\* No other step of the analysis resolves an entry.
LEMMA ResolvedSame ==
  ASSUME Inv, Next, phase = "analyze", ~ResolveEntryReturn
  PROVE  Resolved' = Resolved
<1>1. CASE ResolveEntryCall
  <2>1. /\ entries' = [entries EXCEPT ![Top.name].state = "RESOLVING"]
        /\ entries[Top.name].state = "UNRESOLVED" /\ stack # <<>>
    BY <1>1 DEF ResolveEntryCall, At
  <2>2. Top.name \in DOMAIN entries
    BY <2>1, TopFacts DEF FrameOK
  <2> QED  BY <2>1, <2>2 DEF Resolved, Inv, TypeOK
<1>2. entries' = entries \/ ResolveEntryCall
  <2>1. CASE AnalyzeDeclaration \/ Analyzed
    BY <2>1 DEF AnalyzeDeclaration, Analyzed, scopes, global, local
  <2>2. CASE sema_resolve_type
    BY <2>2 DEF sema_resolve_type, ResolveTypeName, ResolveTypeNamed, ResolveTypeWrap,
       ResolveTypeReturn, scopes, global, local
  <2>3. CASE sema_resolve_entry
    BY <2>3 DEF sema_resolve_entry, ResolveEntryMarked, scopes, global, local
  <2>4. CASE sema_complete_aggregate
    BY <2>4 DEF sema_complete_aggregate, CompleteMarked, CompleteStart, CompleteItem,
       CompleteItemTyped, CompleteItemNested, CompleteReturn, scopes, global, local
  <2>5. CASE sema_analyze_initializer
    BY <2>5 DEF sema_analyze_initializer, InitializerStart, InitializerTyped,
       InitializerNamed, InitializerCompleted, InitializerReturn, scopes, global, local
  <2>6. CASE sema_resolve_function_type
    BY <2>6 DEF sema_resolve_function_type, FunctionTypeItem, FunctionTypeTyped,
       FunctionTypeReturn, scopes, global, local
  <2>7. CASE sema_analyze_variable
    BY <2>7 DEF sema_analyze_variable, AnalyzeVariableStart, AnalyzeVariableNamed,
       AnalyzeVariableCompleted, scopes, global, local
  <2>8. CASE sema_analyze_function
    BY <2>8 DEF sema_analyze_function, AnalyzeFunctionStart, AnalyzeFunctionParameter,
       AnalyzeFunctionTyped, AnalyzeFunctionParameterTyped, AnalyzeFunctionCompleted, AnalyzeFunctionReturn,
       Put, scopes, global, local
  <2>9. ~sema_register /\ ~Registered
    BY DEF sema_register, Registered
  <2> QED  BY <2>1, <2>2, <2>3, <2>4, <2>5, <2>6, <2>7, <2>8, <2>9 DEF Next
<1> QED  BY <1>1, <1>2 DEF Resolved

LEMMA AnalysisDenotes ==
  ASSUME Inv, FramesRight, Placing, Denotes, Keeps, errors' = {}, Next, phase = "analyze"
  PROVE  Denotes'
BY ResolveEntryReturnDenotes, ResolvedSame, DenotesStays

\* The analysis does not go back to registering.
LEMMA StaysAnalyzed ==
  ASSUME Next, phase = "analyze"
  PROVE  phase' # "register"
BY DEF Next, AnalyzeDeclaration, Analyzed, sema_register, Registered,
   sema_resolve_type, ResolveTypeName, ResolveTypeNamed, ResolveTypeWrap, ResolveTypeReturn,
   sema_resolve_entry, ResolveEntryMarked, ResolveEntryCall, ResolveEntryReturn,
   sema_complete_aggregate, CompleteMarked, CompleteStart, CompleteItem, CompleteItemTyped,
   CompleteItemNested, CompleteReturn, sema_analyze_initializer, InitializerStart,
   InitializerTyped, InitializerNamed, InitializerCompleted, InitializerReturn,
   sema_resolve_function_type, FunctionTypeItem, FunctionTypeTyped, FunctionTypeReturn,
   sema_analyze_variable, AnalyzeVariableStart, AnalyzeVariableNamed, AnalyzeVariableCompleted,
   sema_analyze_function, AnalyzeFunctionStart, AnalyzeFunctionParameter, AnalyzeFunctionTyped,
   AnalyzeFunctionParameterTyped, AnalyzeFunctionCompleted, AnalyzeFunctionReturn, End

LEMMA AnalysisTypes ==
  ASSUME Inv, TypesInv, Next, phase = "analyze"
  PROVE  TypesRight'
<1> SUFFICES ASSUME errors' = {} PROVE TypesRight'
  BY DEF TypesInv, TypesRight
<1>1. Keeps
  BY KeepsStep
<1>2. errors = {}
  BY <1>1 DEF Keeps
<1>3. Clear /\ Placing /\ Denotes /\ FramesRight
  BY <1>2 DEF TypesInv, TypesRight, FramesRight
<1>4. phase' # "register"
  BY StaysAnalyzed
<1>5. Placing'
  <2>1. \A i \in DOMAIN program : program[i].name \in DOMAIN entries
    BY DEF Inv, Started
  <2> QED  BY <1>1, <1>3, <2>1 DEF Placing, Keeps, input
<1>6. Denotes' /\ FramesRight'
  BY <1>1, <1>3, AnalysisDenotes, AnalysisRight
<1>7. Owned'
  <2>1. Owned /\ DOMAIN aggregates \subseteq DOMAIN entries
    BY <1>2 DEF TypesInv, TypesRight, Inv, TypeOK
  <2> QED  BY <1>1, <2>1, KeepsDecl DEF Owned, Keeps
<1> QED  BY <1>4, <1>5, <1>6, <1>7 DEF TypesInv, TypesRight, FramesRight

-----------------------------------------------------------------------------
(* Registering *)

LEMMA RegisterTypes ==
  ASSUME Inv, TypesInv, sema_register
  PROVE  TypesRight'
<1> SUFFICES ASSUME errors' = {} PROVE TypesRight'
  BY DEF TypesInv, TypesRight
<1>1. PICK d : d = program[next]
  OBVIOUS
<1>2. /\ phase = "register" /\ errors = {} /\ d.name \notin DOMAIN entries
      /\ next \in DOMAIN program /\ next \in Nat /\ next' = next + 1
      /\ UNCHANGED <<program, phase, stack>> /\ stack = <<>>
  <2>1. program \in Seq(Decls) /\ next \in 1 .. Len(program) /\ DOMAIN program = 1 .. Len(program)
    BY LenProperties DEF sema_register, Inv, TypeOK
  <2>2. /\ phase = "register" /\ next' = next + 1 /\ UNCHANGED <<program, phase, stack>>
        /\ errors' = errors \cup
             (IF d.name \in DOMAIN entries THEN {<<"redefinition", d.name>>} ELSE {})
    BY <1>1 DEF sema_register, input
  <2>3. errors = {} /\ d.name \notin DOMAIN entries
    BY <2>2
  <2>4. stack = <<>>
    BY <2>2 DEF Inv, Started
  <2> QED  BY <2>1, <2>2, <2>3, <2>4
<1>3. PICK e : /\ e = [node |-> next,
                       state |-> IF d.kind = "aggregate" THEN "RESOLVED" ELSE "UNRESOLVED",
                       type |-> IF d.kind = "aggregate" THEN Plain(d.name) ELSE NoType]
               /\ entries' = With(entries, d.name, e)
  BY <1>1, <1>2 DEF sema_register
<1>4. /\ DOMAIN entries' = DOMAIN entries \cup {d.name}
      /\ \A n \in DOMAIN entries : entries'[n] = entries[n]
      /\ entries'[d.name] = e
  BY <1>2, <1>3 DEF With
<1>5. Placing'
  <2>1. ASSUME NEW i \in DOMAIN program, i < next + 1
        PROVE  entries'[program[i].name].node = i
    <3>1. i \in Nat /\ (i < next \/ i = next)
      BY <1>2, <2>1, LenProperties DEF Inv, TypeOK
    <3>2. CASE i < next
      <4>1. entries[program[i].name].node = i
        BY <1>2, <2>1, <3>2 DEF TypesInv, TypesRight, Placing
      <4>2. program[i].name \in DOMAIN entries
        <5>1. i \in 1 .. next - 1
          BY <1>2, <3>1, <3>2, <2>1, LenProperties DEF Inv, TypeOK
        <5> QED  BY <1>2, <5>1 DEF Inv, Started
      <4> QED  BY <1>4, <4>1, <4>2
    <3>3. CASE i = next
      BY <1>1, <1>3, <1>4, <3>3
    <3> QED  BY <3>1, <3>2, <3>3
  <2> QED  BY <1>2, <2>1 DEF Placing
<1>6. \A n \in Resolved' : Decl(n)'.kind = "aggregate" /\ entries'[n].type = Plain(n)
  <2> TAKE n \in Resolved'
  <2>1. CASE n = d.name
    <3>1. d.kind = "aggregate"
      BY <1>3, <1>4, <2>1 DEF Resolved
    <3> QED  BY <1>1, <1>2, <1>3, <1>4, <2>1, <3>1 DEF Decl
  <2>2. CASE n # d.name
    <3>1. n \in Resolved /\ entries'[n] = entries[n]
      BY <1>4, <2>2 DEF Resolved
    <3>2. Decl(n).kind = "aggregate" /\ entries[n].type = Plain(n)
      BY <1>2, <3>1 DEF TypesInv, TypesRight
    <3> QED  BY <1>2, <3>1, <3>2 DEF Decl
  <2> QED  BY <2>1, <2>2
<1>7. FramesRight'
  BY <1>2, NoFrames
<1>8. Owned'
  <2>1. \A n \in DOMAIN aggregates : n \in DOMAIN entries /\ Decl(n).kind = "aggregate"
    BY <1>2 DEF TypesInv, TypesRight, Owned, Inv, TypeOK
  <2>2. \A n \in DOMAIN aggregates : Decl(n)' = Decl(n)
    BY <1>2, <1>4, <2>1 DEF Decl
  <2>3. \A n \in DOMAIN aggregates' : n \in DOMAIN aggregates \/ (n = d.name /\ d.kind = "aggregate")
    BY <1>1, <1>2 DEF sema_register, With
  <2>4. Decl(d.name)' = d
    BY <1>1, <1>2, <1>3, <1>4 DEF Decl
  <2> QED  BY <2>1, <2>2, <2>3, <2>4 DEF Owned
<1> QED  BY <1>2, <1>5, <1>6, <1>7, <1>8 DEF TypesInv, TypesRight, FramesRight

LEMMA RegisteredTypes ==
  ASSUME Inv, TypesInv, Registered
  PROVE  TypesRight'
<1> SUFFICES ASSUME errors' = {} PROVE TypesRight'
  BY DEF TypesInv, TypesRight
<1>1. /\ phase = "register" /\ next > Len(program) /\ phase' = "analyze" /\ errors = {}
      /\ UNCHANGED <<program, entries, stack>> /\ stack = <<>>
  BY DEF Registered, input, scopes, global, local, Inv, Started
<1>2. Len(program) \in Nat /\ DOMAIN program = 1 .. Len(program) /\ next = Len(program) + 1
  BY <1>1, LenProperties DEF Inv, TypeOK
<1>3. \A i \in DOMAIN program : i < next
  BY <1>2
<1>4. Placing /\ \A i \in DOMAIN program : entries[program[i].name].node = i
  BY <1>1, <1>3 DEF TypesInv, TypesRight, Placing
<1>5. Placing'
  BY <1>1, <1>4 DEF Placing
<1>6. ASSUME NEW n \in Resolved, NEW k \in Cardinality(Resolved) .. Cardinality(Names)
      PROVE  Following(program)[k][n] = entries[n].type
  <2>1. Decl(n).kind = "aggregate" /\ entries[n].type = Plain(n) /\ n \in Names
    BY <1>1, FoundTyped DEF TypesInv, TypesRight, Inv
  <2>2. Cardinality(Resolved) # 0
    BY ResolvedFinite, FS_EmptySet
  <2>3. k \in 1 .. Cardinality(Names) /\ k - 1 \in 0 .. Cardinality(Names)
    BY <2>2, ResolvedFinite
  <2>4. PICK D : D = Following(program)[k - 1]
    OBVIOUS
  <2>5. Following(program)[k] = Followed(program, D)
    BY <2>3, <2>4, FollowingUnfolds DEF Inv, TypeOK
  <2>6. DeclOf(program, n) = Decl(n) /\ n \in DeclaredIn(program)
    <3>1. PICK i : i = entries[n].node
      OBVIOUS
    <3>2. i \in DOMAIN program /\ program[i].name = n
      BY <3>1 DEF Inv, TypeOK, Scoped, Resolved
    <3>3. \A j \in DOMAIN program : program[j].name = n => j = i
      BY <1>4, <3>1
    <3>4. DeclOf(program, n) = program[i]
      BY <3>2, <3>3 DEF DeclOf
    <3> QED  BY <3>1, <3>2, <3>4 DEF Decl, DeclaredIn
  <2>7. PICK d : d = Decl(n)
    OBVIOUS
  <2>8. d.kind = "aggregate" /\ d = DeclOf(program, n) /\ d.init = None
    BY <2>1, <2>6, <2>7, DeclTyped DEF Decls, Resolved
  <2>9. Followed(program, D)[n] =
          CASE d.kind = "aggregate" -> Plain(n)
            [] d.kind = "function" -> Wrap(Plain(n), "function")
            [] d.init # None -> Denoted(D, Plain(d.init))
            [] OTHER -> Denoted(D, d.types[1])
    BY <2>1, <2>6, <2>8 DEF Followed
  <2>10. Followed(program, D)[n] = Plain(n)
    BY <2>8, <2>9
  <2> QED  BY <2>1, <2>5, <2>10
<1>7. Denotes'
  BY <1>1, <1>6 DEF Denotes, Resolved
<1>8. FramesRight'
  BY <1>1, NoFrames
<1>9. Owned'
  <2>1. Owned /\ aggregates' = aggregates
    BY <1>1 DEF TypesInv, TypesRight, Registered, scopes, global, local
  <2> QED  BY <1>1, <2>1 DEF Owned, Decl
<1> QED  BY <1>1, <1>5, <1>7, <1>8, <1>9 DEF TypesInv, TypesRight, FramesRight

-----------------------------------------------------------------------------
(* TypesExact *)

LEMMA InitTypes == Init /\ Clear => TypesInv
<1> SUFFICES ASSUME Init, Clear PROVE TypesInv
  OBVIOUS
<1>1. stack = <<>> /\ next = 1 /\ phase = "register" /\ DOMAIN entries = {} /\ program \in Seq(Decls)
      /\ DOMAIN aggregates = {}
  BY ProgramsAssumption DEF Init
<1>2. Len(stack) = 0 /\ DOMAIN stack = {}
  BY <1>1
<1>3. \A i \in DOMAIN program : ~(i < 1)
  BY <1>1, LenProperties
<1> QED  BY <1>1, <1>2, <1>3 DEF TypesInv, TypesRight, Placing, Resolved, Owned

LEMMA StutterTypes == TypesInv /\ UNCHANGED vars => TypesInv'
<1> SUFFICES ASSUME TypesInv, UNCHANGED vars PROVE TypesInv'
  OBVIOUS
<1>1. UNCHANGED <<program, phase, next, entries, aggregates, stack, ret, errors>>
  BY DEF vars, input, scopes, global
<1>2. Resolved' = Resolved /\ Found' = Found /\ \A n : Decl(n)' = Decl(n)
  BY <1>1 DEF Resolved, Found, Decl
<1>3. /\ \A t : (Settled(t)' <=> Settled(t)) /\ Meaning(t)' = Meaning(t)
      /\ \A n : Origin(n)' = Origin(n)
  BY <1>2 DEF Settled, Meaning, Origin
<1>4. /\ \A n : (Sound(n)' <=> Sound(n)) /\ Says(n)' = Says(n)
      /\ \A f : Written(f)' = Written(f)
  BY <1>2, <1>3 DEF Sound, Says, Written
<1>5. \A f : Placed(f)' <=> Placed(f)
  BY <1>1, <1>2, <1>3, <1>4 DEF Placed
<1>6. \A f, g : Asks(f, g)' <=> Asks(f, g)
  BY <1>2, <1>4 DEF Asks
<1>7. \A f : Told(f)' <=> Told(f)
  BY <1>1, <1>3, <1>4 DEF Told
<1>8. (Denotes' <=> Denotes) /\ (Placing' <=> Placing) /\ (Owned' <=> Owned) /\ Top' = Top
      /\ (Clear' <=> Clear)
  BY <1>1, <1>2 DEF Denotes, Placing, Owned, Top, Clear
<1> QED  BY <1>1, <1>2, <1>5, <1>6, <1>7, <1>8 DEF TypesInv, TypesRight

\* The steps of the analysis, and those before it.
LEMMA AnalysisOrRegister == Next => phase = "analyze" \/ sema_register \/ Registered
BY DEF Next, AnalyzeDeclaration, Analyzed, At,
   sema_resolve_type, ResolveTypeName, ResolveTypeNamed, ResolveTypeWrap, ResolveTypeReturn,
   sema_resolve_entry, ResolveEntryMarked, ResolveEntryCall, ResolveEntryReturn,
   sema_complete_aggregate, CompleteMarked, CompleteStart, CompleteItem, CompleteItemTyped,
   CompleteItemNested, CompleteReturn, sema_analyze_initializer, InitializerStart,
   InitializerTyped, InitializerNamed, InitializerCompleted, InitializerReturn,
   sema_resolve_function_type, FunctionTypeItem, FunctionTypeTyped, FunctionTypeReturn,
   sema_analyze_variable, AnalyzeVariableStart, AnalyzeVariableNamed, AnalyzeVariableCompleted,
   sema_analyze_function, AnalyzeFunctionStart, AnalyzeFunctionParameter, AnalyzeFunctionTyped,
   AnalyzeFunctionParameterTyped, AnalyzeFunctionCompleted, AnalyzeFunctionReturn

\* The program is not changed.
LEMMA ClearStays == Inv /\ [Next]_vars => (Clear' <=> Clear)
<1> SUFFICES ASSUME Inv, [Next]_vars PROVE program' = program
  BY DEF Clear
<1>1. CASE UNCHANGED vars
  BY <1>1 DEF vars, input
<1>2. CASE Next
  <2>1. phase = "analyze" => program' = program
    BY <1>2, KeepsStep DEF Keeps, input
  <2>2. sema_register \/ Registered => program' = program
    BY DEF sema_register, Registered, input
  <2> QED  BY <1>2, <2>1, <2>2, AnalysisOrRegister
<1> QED  BY <1>1, <1>2

LEMMA NextTypes == Inv /\ TypesInv /\ [Next]_vars => TypesInv'
<1> SUFFICES ASSUME Inv, TypesInv, Next PROVE TypesInv'
  BY StutterTypes
<1>1. Clear'
  BY ClearStays DEF TypesInv
<1>2. TypesRight'
  BY AnalysisOrRegister, AnalysisTypes, RegisterTypes, RegisteredTypes
<1> QED  BY <1>1, <1>2 DEF TypesInv

LEMMA TypesAlways == Spec => [](Clear => TypesInv)
<1>1. Init => (Clear => TypesInv)
  BY InitTypes
<1>2. Inv /\ (Clear => TypesInv) /\ [Next]_vars => (Clear => TypesInv)'
  BY NextTypes, ClearStays
<1> QED  BY <1>1, <1>2, InvAlways, PTL DEF Spec

\* Every entry that is resolved when the compiler ends without an error has the type
\* that following its declaration, through all aliases, inferred variables and
\* functions, gives it, whatever the declarations are and in whatever order, as
\* long as no parameter takes a name that is used elsewhere.
THEOREM TypesAreExact == Spec => []TypesExact
<1>1. Inv /\ (Clear => TypesInv) => TypesExact
  <2> SUFFICES ASSUME Inv, TypesInv, phase \in Ends, errors = {}, NEW n \in DOMAIN entries,
                      entries[n].state = "RESOLVED"
               PROVE  entries[n].type = Denotations(program)[n]
    BY DEF TypesExact, Clear
  <2>1. n \in Resolved /\ Denotes
    BY DEF Resolved, TypesInv, TypesRight, Ends
  <2>2. Cardinality(Names) \in Cardinality(Resolved) .. Cardinality(Names)
    BY ResolvedFinite
  <2> QED  BY <2>1, <2>2 DEF Denotes, Denotations
<1> QED  BY <1>1, InvAlways, TypesAlways, PTL

-----------------------------------------------------------------------------
(* The sizes of the reference *)

LEMMA SizeOfWrapTyped ==
  ASSUME NEW w \in Wraps, NEW size \in Nat
  PROVE  SizeOfWrap(w, size) \in Nat
<1>1. w = "pointer" \/ w = "sized" \/ w = "slice" \/ w = "function"
  BY DEF Wraps
<1>2. 8 \in Nat /\ 16 \in Nat /\ 2 * size + 8 \in Nat
  OBVIOUS
<1> QED  BY <1>1, <1>2 DEF SizeOfWrap, POINTER_SIZE, Count

\* What a type wraps, and the sizes from the inside out.
BaseSize(sizes, b) == IF b = Builtin THEN 4 ELSE IF b = None THEN 0 ELSE sizes[b]
Sizing(sizes, t, f) ==
  /\ f \in [0 .. Len(t.wraps) -> Nat]
  /\ f[0] = BaseSize(sizes, t.base)
  /\ \A k \in 1 .. Len(t.wraps) : f[k] = SizeOfWrap(t.wraps[k], f[k - 1])

LEMMA BaseSizeTyped ==
  ASSUME NEW sizes \in [Names -> Nat], NEW b \in Names \cup {Builtin, None}
  PROVE  BaseSize(sizes, b) \in Nat
BY DEF BaseSize

\* There is one way to size a type.
AgreeUpTo(r, s, N) == \A k \in 1 .. N : r[k] = s[k]

LEMMA SizingSame ==
  ASSUME NEW sizes \in [Names -> Nat], NEW t \in Types, NEW u \in Types, t.base = u.base,
         NEW f, NEW g, Sizing(sizes, t, f), Sizing(sizes, u, g),
         NEW N \in Nat, N <= Len(t.wraps), N <= Len(u.wraps),
         AgreeUpTo(t.wraps, u.wraps, N)
  PROVE  f[N] = g[N]
<1> USE DEF AgreeUpTo
<1> DEFINE S == {k \in 0 .. N : f[k] = g[k]}
<1>0. Len(t.wraps) \in Nat /\ Len(u.wraps) \in Nat
  BY CutFacts
<1>1. 0 \in S
  BY DEF Sizing
<1>2. ASSUME NEW k \in 1 .. N, k - 1 \in S
      PROVE  k \in S
  <2>1. k \in 1 .. Len(t.wraps) /\ k \in 1 .. Len(u.wraps) /\ k \in 0 .. N
    BY <1>0
  <2>2. f[k - 1] = g[k - 1]
    BY <1>2
  <2>3. f[k] = SizeOfWrap(t.wraps[k], f[k - 1]) /\ g[k] = SizeOfWrap(u.wraps[k], g[k - 1])
    BY <2>1 DEF Sizing
  <2> QED  BY <2>1, <2>2, <2>3
<1>3. \A k \in 0 .. N : k \in S
  <2> HIDE DEF S
  <2> QED  BY <1>1, <1>2, Upwards
<1> QED  BY <1>3

LEMMA SizeByUnfolds ==
  ASSUME NEW sizes \in [Names -> Nat], NEW t \in Types
  PROVE  \E f : Sizing(sizes, t, f) /\ SizeBy(sizes, t) = f[Len(t.wraps)]
<1> DEFINE N == Len(t.wraps)
           V == Nat
           base == BaseSize(sizes, t.base)
           step == [x \in (1 .. N) \X Nat |-> SizeOfWrap(t.wraps[x[1]], x[2])]
           Solves(f) == f = [k \in 0 .. N |-> IF k = 0 THEN base ELSE SizeOfWrap(t.wraps[k], f[k - 1])]
<1>1. N \in Nat /\ base \in V
  BY CutFacts, BaseSizeTyped DEF Types
<1>2. \A k \in 1 .. N : t.wraps[k] \in Wraps
  BY CutFacts
<1>3. KeepsTo(V, step, N)
  BY <1>2, SizeOfWrapTyped DEF KeepsTo
<1>4. \A k \in 1 .. N : \A s \in Nat : step[<<k, s>>] = SizeOfWrap(t.wraps[k], s)
  OBVIOUS
<1>5. PICK f \in [0 .. N -> V] : f[0] = base /\ \A k \in 1 .. N : f[k] = step[<<k, f[k - 1]>>]
  <2> HIDE DEF N, V, base, step
  <2> QED  BY <1>1, <1>3, Iterates DEF Iterated
<1> HIDE DEF step
<1>6. \A k \in 1 .. N : f[k] = SizeOfWrap(t.wraps[k], f[k - 1])
  <2> TAKE k \in 1 .. N
  <2>1. k - 1 \in 0 .. N
    BY <1>1
  <2>2. f[k - 1] \in Nat
    BY <2>1
  <2> QED  BY <1>4, <1>5, <2>2
<1>7. Solves(f)
  <2>1. f = [k \in 0 .. N |-> f[k]]
    OBVIOUS
  <2>2. \A k \in 0 .. N : f[k] = IF k = 0 THEN base ELSE SizeOfWrap(t.wraps[k], f[k - 1])
    BY <1>5, <1>6
  <2> QED  BY <2>1, <2>2
<1>8. PICK g : g = CHOOSE h : Solves(h)
  OBVIOUS
<1>9. Solves(g) /\ SizeBy(sizes, t) = g[N]
  BY <1>7, <1>8 DEF SizeBy, BaseSize
<1>10. g \in [0 .. N -> Nat]
  <2> DEFINE S == {k \in 0 .. N : g[k] \in Nat}
  <2>1. g[0] = base /\ \A k \in 1 .. N : g[k] = SizeOfWrap(t.wraps[k], g[k - 1])
    <3>1. g = [k \in 0 .. N |-> IF k = 0 THEN base ELSE SizeOfWrap(t.wraps[k], g[k - 1])]
      BY <1>9
    <3> HIDE DEF N, base
    <3> QED  BY <1>1, <3>1
  <2>2. 0 \in S
    BY <1>1, <2>1
  <2>3. ASSUME NEW k \in 1 .. N, k - 1 \in S PROVE k \in S
    <3>1. g[k - 1] \in Nat
      BY <2>3
    <3>2. t.wraps[k] \in Wraps /\ g[k] = SizeOfWrap(t.wraps[k], g[k - 1])
      BY <1>2, <2>1
    <3>3. g[k] \in Nat
      BY <3>1, <3>2, SizeOfWrapTyped
    <3>4. k \in 0 .. N
      BY <1>1
    <3> QED  BY <3>3, <3>4
  <2>4. \A k \in 0 .. N : k \in S
    <3> HIDE DEF S, N
    <3> QED  BY <1>1, <2>2, <2>3, Upwards
  <2>5. g = [k \in 0 .. N |-> g[k]]
    BY <1>9
  <2> QED  BY <2>4, <2>5
<1>11. Sizing(sizes, t, g)
  <2>1. g = [k \in 0 .. N |-> IF k = 0 THEN base ELSE SizeOfWrap(t.wraps[k], g[k - 1])]
    BY <1>9
  <2>2. g[0] = base /\ \A k \in 1 .. N : g[k] = SizeOfWrap(t.wraps[k], g[k - 1])
    <3> HIDE DEF N, base
    <3> QED  BY <1>1, <2>1
  <2> QED  BY <1>10, <2>2 DEF Sizing
<1> QED  BY <1>9, <1>11

LEMMA SizeByTyped ==
  ASSUME NEW sizes \in [Names -> Nat], NEW t \in Types
  PROVE  SizeBy(sizes, t) \in Nat
<1>1. PICK f : Sizing(sizes, t, f) /\ SizeBy(sizes, t) = f[Len(t.wraps)]
  BY SizeByUnfolds
<1>2. Len(t.wraps) \in 0 .. Len(t.wraps)
  BY CutFacts
<1> QED  BY <1>1, <1>2 DEF Sizing

LEMMA SizeByPlain ==
  ASSUME NEW sizes \in [Names -> Nat], NEW t \in Types, t.wraps = <<>>
  PROVE  SizeBy(sizes, t) = BaseSize(sizes, t.base)
<1>1. PICK f : Sizing(sizes, t, f) /\ SizeBy(sizes, t) = f[Len(t.wraps)]
  BY SizeByUnfolds
<1>2. Len(t.wraps) = 0
  OBVIOUS
<1> QED  BY <1>1, <1>2 DEF Sizing

LEMMA SizeByWrap ==
  ASSUME NEW sizes \in [Names -> Nat], NEW t \in Types, NEW w \in Wraps
  PROVE  SizeBy(sizes, Wrap(t, w)) = SizeOfWrap(w, SizeBy(sizes, t))
<1>1. PICK u, n : u = Wrap(t, w) /\ n = Len(t.wraps)
  OBVIOUS
<1>2. u \in Types /\ u.base = t.base /\ u.wraps = Append(t.wraps, w) /\ n \in Nat
  BY <1>1, WrapTyped, CutFacts
<1>3. t.wraps \in Seq(Wraps)
  BY DEF Types
<1>4. /\ Len(u.wraps) = n + 1 /\ u.wraps[n + 1] = w
      /\ AgreeUpTo(t.wraps, u.wraps, n)
  BY <1>1, <1>2, <1>3, AppendProperties DEF AgreeUpTo
<1>5. PICK f : Sizing(sizes, t, f) /\ SizeBy(sizes, t) = f[n]
  BY <1>1, SizeByUnfolds
<1>6. PICK g : Sizing(sizes, u, g) /\ SizeBy(sizes, u) = g[n + 1]
  BY <1>2, <1>4, SizeByUnfolds
<1>7. f[n] = g[n]
  <2>1. n <= Len(u.wraps) /\ n <= n
    BY <1>2, <1>4
  <2>2. /\ u \in Types /\ t.base = u.base /\ n \in Nat
        /\ n <= Len(t.wraps) /\ n <= Len(u.wraps) /\ AgreeUpTo(t.wraps, u.wraps, n)
    BY <1>1, <1>2, <1>4, <2>1
  <2>3. Sizing(sizes, t, f) /\ Sizing(sizes, u, g)
    BY <1>5, <1>6
  <2> QED  BY <2>2, <2>3, SizingSame
<1>8. g[n + 1] = SizeOfWrap(w, g[n])
  <2>1. n + 1 \in 1 .. Len(u.wraps) /\ (n + 1) - 1 = n
    BY <1>2, <1>4
  <2> QED  BY <1>4, <1>6, <2>1 DEF Sizing
<1> QED  BY <1>1, <1>5, <1>6, <1>7, <1>8

\* Adding up.
LEMMA SumUnfolds ==
  ASSUME NEW s \in Seq(Nat)
  PROVE  /\ Len(s) \in Nat /\ Sum(s)[0] = 0
         /\ \A k \in 1 .. Len(s) : Sum(s)[k] = Sum(s)[k - 1] + s[k]
         /\ \A k \in 0 .. Len(s) : Sum(s)[k] \in Nat
<1> DEFINE N == Len(s)
           V == Nat
           step == [x \in (1 .. N) \X V |-> x[2] + s[x[1]]]
           Solves(f) == f = [k \in 0 .. N |-> IF k = 0 THEN 0 ELSE f[k - 1] + s[k]]
<1>1. N \in Nat /\ 0 \in V
  BY LenProperties
<1>2. \A k \in 1 .. N : s[k] \in Nat
  BY ElementOfSeq
<1>3. KeepsTo(V, step, N)
  BY <1>2 DEF KeepsTo
<1>4. \A k \in 1 .. N : \A v \in Nat : step[<<k, v>>] = v + s[k]
  OBVIOUS
<1>5. PICK f \in [0 .. N -> V] : f[0] = 0 /\ \A k \in 1 .. N : f[k] = step[<<k, f[k - 1]>>]
  <2> HIDE DEF N, V, step
  <2> QED  BY <1>1, <1>3, Iterates DEF Iterated
<1> HIDE DEF step
<1>6. \A k \in 1 .. N : f[k] = f[k - 1] + s[k]
  <2> TAKE k \in 1 .. N
  <2>1. k - 1 \in 0 .. N
    BY <1>1
  <2>2. f[k - 1] \in Nat
    BY <2>1
  <2> QED  BY <1>4, <1>5, <2>2
<1>7. Solves(f)
  <2>1. f = [k \in 0 .. N |-> f[k]]
    OBVIOUS
  <2>2. \A k \in 0 .. N : f[k] = IF k = 0 THEN 0 ELSE f[k - 1] + s[k]
    BY <1>5, <1>6
  <2> QED  BY <2>1, <2>2
<1>8. PICK g : g = CHOOSE h : Solves(h)
  OBVIOUS
<1>9. Solves(g) /\ Sum(s) = g
  BY <1>7, <1>8 DEF Sum
<1>10. g[0] = 0 /\ \A k \in 1 .. N : g[k] = g[k - 1] + s[k]
  <2>1. g = [k \in 0 .. N |-> IF k = 0 THEN 0 ELSE g[k - 1] + s[k]]
    BY <1>9
  <2> HIDE DEF N
  <2> QED  BY <1>1, <2>1
<1>11. \A k \in 0 .. N : g[k] \in Nat
  <2> DEFINE S == {k \in 0 .. N : g[k] \in Nat}
  <2>1. 0 \in S
    BY <1>1, <1>10
  <2>2. ASSUME NEW k \in 1 .. N, k - 1 \in S PROVE k \in S
    <3>1. g[k - 1] \in Nat /\ s[k] \in Nat
      BY <1>2, <2>2
    <3>2. k \in 0 .. N /\ g[k] = g[k - 1] + s[k]
      BY <1>1, <1>10
    <3> QED  BY <3>1, <3>2
  <2>3. \A k \in 0 .. N : k \in S
    <3> HIDE DEF S, N
    <3> QED  BY <1>1, <2>1, <2>2, Upwards
  <2> QED  BY <2>3
<1> QED  BY <1>1, <1>9, <1>10, <1>11

LEMMA FieldSizesTyped ==
  ASSUME NEW sizes \in [Names -> Nat], NEW D \in [Names -> Types], NEW d \in Decls
  PROVE  /\ FieldSizes(sizes, D, d) \in Seq(Nat) /\ Len(FieldSizes(sizes, D, d)) = Len(d.counts)
         /\ \A i \in 1 .. Len(d.counts) :
              FieldSizes(sizes, D, d)[i] = Counted(d.counts[i], SizeBy(sizes, Denoted(D, d.types[i])))
<1>0. /\ d.types \in Seq(Types) /\ d.counts \in Seq(Nat \ {0})
      /\ Len(d.counts) = Len(d.types) \/ Len(d.counts) = 0
  BY DEF Decls
<1>1. /\ Len(d.counts) \in Nat /\ DOMAIN d.counts = 1 .. Len(d.counts)
      /\ \A i \in 1 .. Len(d.counts) : d.types[i] \in Types /\ d.counts[i] \in Nat
  <2>1. /\ Len(d.counts) \in Nat /\ DOMAIN d.counts = 1 .. Len(d.counts)
        /\ \A i \in 1 .. Len(d.counts) : d.counts[i] \in Nat
    BY <1>0, LenProperties, ElementOfSeq
  <2>2. \A i \in 1 .. Len(d.types) : d.types[i] \in Types
    BY <1>0, ElementOfSeq
  <2>3. 1 .. Len(d.counts) \subseteq 1 .. Len(d.types)
    BY <1>0, <2>1
  <2> QED  BY <2>1, <2>2, <2>3
<1>2. \A i \in 1 .. Len(d.counts) : Counted(d.counts[i], SizeBy(sizes, Denoted(D, d.types[i]))) \in Nat
  <2> TAKE i \in 1 .. Len(d.counts)
  <2>1. PICK t \in Types, c \in Nat : t = d.types[i] /\ c = d.counts[i]
    BY <1>1
  <2>2. PICK u \in Types : u = Denoted(D, t)
    BY DenotedTyped
  <2>3. PICK size \in Nat : size = SizeBy(sizes, u)
    BY SizeByTyped
  <2>4. Counted(c, size) \in Nat
    BY DEF Counted
  <2> QED  BY <2>1, <2>2, <2>3, <2>4
<1> DEFINE e(i) == Counted(d.counts[i], SizeBy(sizes, Denoted(D, d.types[i])))
<1>3. FieldSizes(sizes, D, d) = [i \in 1 .. Len(d.counts) |-> e(i)] /\ \A i \in 1 .. Len(d.counts) : e(i) \in Nat
  BY <1>1, <1>2 DEF FieldSizes
<1> HIDE DEF e
<1>4. /\ FieldSizes(sizes, D, d) \in Seq(Nat) /\ Len(FieldSizes(sizes, D, d)) = Len(d.counts)
      /\ \A i \in 1 .. Len(d.counts) : FieldSizes(sizes, D, d)[i] = e(i)
  BY <1>1, <1>3
<1> QED  BY <1>4 DEF e

LEMMA LaidOutTyped ==
  ASSUME NEW p \in Seq(Decls), NEW D \in [Names -> Types], NEW sizes \in [Names -> Nat]
  PROVE  LaidOut(p, D, sizes) \in [Names -> Nat]
<1> DEFINE F(n) == IF n \notin DeclaredIn(p) \/ DeclOf(p, n).kind # "aggregate" THEN 0
                   ELSE Total(FieldSizes(sizes, D, DeclOf(p, n)))
<1>1. ASSUME NEW n \in Names
      PROVE  F(n) \in Nat
  <2>1. CASE n \in DeclaredIn(p)
    <3>1. PICK s : s = FieldSizes(sizes, D, DeclOf(p, n))
      OBVIOUS
    <3>2. s \in Seq(Nat)
      BY <2>1, <3>1, DeclOfTyped, FieldSizesTyped
    <3>3. Len(s) \in 0 .. Len(s)
      BY <3>2, SumUnfolds
    <3>4. Total(s) \in Nat
      BY <3>2, <3>3, SumUnfolds DEF Total
    <3> QED  BY <2>1, <3>1, <3>4
  <2> QED  BY <2>1
<1>2. LaidOut(p, D, sizes) = [n \in Names |-> F(n)]
  BY DEF LaidOut
<1> HIDE DEF F
<1> QED  BY <1>1, <1>2

LEMMA DenotationsTyped ==
  ASSUME NEW p \in Seq(Decls)
  PROVE  Denotations(p) \in [Names -> Types]
<1>1. Cardinality(Names) \in 0 .. Cardinality(Names)
  BY NamesCount
<1> QED  BY <1>1, FollowingUnfolds DEF Denotations

LEMMA LayingOutUnfolds ==
  ASSUME NEW p \in Seq(Decls)
  PROVE  /\ \A k \in 1 .. Cardinality(Names) :
              LayingOut(p)[k] = LaidOut(p, Denotations(p), LayingOut(p)[k - 1])
         /\ \A k \in 0 .. Cardinality(Names) : LayingOut(p)[k] \in [Names -> Nat]
<1> DEFINE N == Cardinality(Names)
           V == [Names -> Nat]
           none == [n \in Names |-> 0]
           D == Denotations(p)
           step == [x \in (1 .. N) \X V |-> LaidOut(p, D, x[2])]
           Solves(f) == f = [k \in 0 .. N |-> IF k = 0 THEN none ELSE LaidOut(p, D, f[k - 1])]
<1>1. N \in Nat /\ none \in V
  BY NamesCount
<1>2. KeepsTo(V, step, N)
  BY DenotationsTyped, LaidOutTyped DEF KeepsTo
<1>3. \A k \in 1 .. N : \A S \in V : step[<<k, S>>] = LaidOut(p, D, S)
  OBVIOUS
<1>4. PICK f \in [0 .. N -> V] : f[0] = none /\ \A k \in 1 .. N : f[k] = step[<<k, f[k - 1]>>]
  <2> HIDE DEF N, V, none, step
  <2> QED  BY <1>1, <1>2, Iterates DEF Iterated
<1> HIDE DEF step
<1>5. \A k \in 1 .. N : f[k] = LaidOut(p, D, f[k - 1])
  <2> TAKE k \in 1 .. N
  <2>1. k - 1 \in 0 .. N
    BY <1>1
  <2>2. f[k - 1] \in V
    BY <2>1
  <2> QED  BY <1>3, <1>4, <2>2
<1>6. Solves(f)
  <2>1. f = [k \in 0 .. N |-> f[k]]
    OBVIOUS
  <2>2. \A k \in 0 .. N : f[k] = IF k = 0 THEN none ELSE LaidOut(p, D, f[k - 1])
    BY <1>4, <1>5
  <2> QED  BY <2>1, <2>2
<1>7. LayingOut(p) = CHOOSE g : Solves(g)
  BY DEF LayingOut
<1>8. Solves(LayingOut(p))
  BY <1>6, <1>7
<1>9. /\ LayingOut(p)[0] = none
      /\ \A k \in 1 .. N : LayingOut(p)[k] = LaidOut(p, D, LayingOut(p)[k - 1])
  <2>1. PICK g : g = LayingOut(p)
    OBVIOUS
  <2>2. g = [k \in 0 .. N |-> IF k = 0 THEN none ELSE LaidOut(p, D, g[k - 1])]
    BY <1>8, <2>1
  <2>3. g[0] = none /\ \A k \in 1 .. N : g[k] = LaidOut(p, D, g[k - 1])
    BY <1>1, <2>2
  <2> QED  BY <2>1, <2>3
<1>10. \A k \in 0 .. N : LayingOut(p)[k] \in V
  <2> DEFINE S == {k \in 0 .. N : LayingOut(p)[k] \in V}
  <2>1. 0 \in S
    BY <1>1, <1>9
  <2>2. ASSUME NEW k \in 1 .. N, k - 1 \in S PROVE k \in S
    <3>1. PICK E, sizes : E = D /\ sizes = LayingOut(p)[k - 1]
      OBVIOUS
    <3>2. E \in [Names -> Types] /\ sizes \in [Names -> Nat]
      BY <2>2, <3>1, DenotationsTyped
    <3>3. LayingOut(p)[k] \in V
      <4>1. LaidOut(p, E, sizes) \in V
        BY <3>2, LaidOutTyped
      <4>2. LayingOut(p)[k] = LaidOut(p, E, sizes)
        BY <1>9, <3>1
      <4> QED  BY <4>1, <4>2
    <3>4. k \in 0 .. N
      BY <1>1
    <3> QED  BY <3>3, <3>4
  <2>3. \A k \in 0 .. N : k \in S
    <3> HIDE DEF S, V, N
    <3> QED  BY <1>1, <2>1, <2>2, Upwards
  <2> QED  BY <2>3
<1> QED  BY <1>9, <1>10

-----------------------------------------------------------------------------
(* The sizes that sema.c reads *)

EntriesGrounded == \A n \in Resolved : Grounded(entries[n].type)

LEMMA GroundedMeaning ==
  ASSUME Inv, EntriesGrounded, NEW t \in Types, Settled(t)
  PROVE  Grounded(Meaning(t))
<1>1. CASE t.base = Builtin
  BY <1>1, NamesAssumption DEF Meaning, Denoted, Grounded
<1>2. CASE t.base \in Resolved
  <2>1. PICK u : u = entries[t.base].type
    OBVIOUS
  <2>2. u \in Types /\ Grounded(u) /\ t.base \in Names /\ Found[t.base] = u
    BY <1>2, <2>1, FoundTyped DEF EntriesGrounded, Resolved, Inv, TypeOK
  <2>3. Meaning(t).base = u.base /\ Meaning(t).wraps = u.wraps \o t.wraps
    BY <2>2 DEF Meaning, Denoted
  <2>4. u.wraps \in Seq(Wraps) /\ t.wraps \in Seq(Wraps)
    BY <2>2 DEF Types
  <2>5. PICK a, b : a = u.wraps /\ b = t.wraps
    OBVIOUS
  <2>6. a \o b = <<>> => a = <<>>
    <3>1. a \in Seq(Wraps) /\ b \in Seq(Wraps)
      BY <2>4, <2>5
    <3>2. Len(a \o b) = Len(a) + Len(b) /\ Len(a) \in Nat /\ Len(b) \in Nat
      BY <3>1, ConcatProperties, LenProperties
    <3>3. Len(<<>>) = 0
      OBVIOUS
    <3> QED  BY <3>1, <3>2, <3>3, EmptySeq
  <2> QED  BY <2>2, <2>3, <2>5, <2>6 DEF Grounded
<1> QED  BY <1>1, <1>2 DEF Settled

\* What sema.c takes for the size of a type it can ask for is its size.
LEMMA SizeOfRight ==
  ASSUME Inv, NEW sizes \in [Names -> Nat], SizedBy(sizes), NEW t, Known(t), Grounded(t),
         IsAggregate(t) => t.base \in Completed
  PROVE  SizeOf(t) = SizeBy(sizes, t)
<1>1. t \in Types /\ DOMAIN aggregates \subseteq Names
  BY DEF Known, Inv, TypeOK
<1>2. CASE t.wraps = <<>>
  <2>1. SizeBy(sizes, t) = BaseSize(sizes, t.base)
    BY <1>1, <1>2, SizeByPlain
  <2>2. CASE t.base \in DOMAIN aggregates
    <3>1. aggregates[t.base].size = sizes[t.base]
      BY <1>2, <2>2 DEF IsAggregate, SizedBy
    <3>2. t.base # Builtin /\ t.base # None
      BY <1>1, <2>2, NamesAssumption
    <3> QED  BY <1>2, <2>1, <2>2, <3>1, <3>2 DEF SizeOf, BaseSize
  <2>3. CASE t.base = Builtin
    <3>1. t.base \notin DOMAIN aggregates
      BY <1>1, <2>3, NamesAssumption
    <3> QED  BY <1>2, <2>1, <2>3, <3>1 DEF SizeOf, BaseSize
  <2> QED  BY <1>2, <2>2, <2>3 DEF Grounded
<1>3. CASE t.wraps # <<>> /\ ArrayWrap(LastWrap(t))
  BY <1>3 DEF SizeOf, Known, SizedBy
<1>4. CASE t.wraps # <<>> /\ ~ArrayWrap(LastWrap(t))
  <2>1. PICK n, u, w : n = Len(t.wraps) /\ u = Cut(t, n - 1) /\ w = t.wraps[n]
    OBVIOUS
  <2>2. n \in Nat /\ n # 0
    <3>1. t.wraps \in Seq(Wraps)
      BY <1>1 DEF Types
    <3> QED  BY <1>4, <2>1, <3>1, EmptySeq, LenProperties
  <2>3. n \in 1 .. n /\ n - 1 \in 0 .. n
    BY <2>2
  <2>4. u \in Types /\ w \in Wraps /\ t = Wrap(u, w)
    BY <1>1, <2>1, <2>3, CutFacts
  <2>5. SizeBy(sizes, t) = SizeOfWrap(w, SizeBy(sizes, u))
    BY <2>4, SizeByWrap
  <2>6. w \in {"pointer", "function"}
    BY <1>4, <2>1, <2>4 DEF ArrayWrap, LastWrap, Wraps
  <2>7. SizeOfWrap(w, SizeBy(sizes, u)) = POINTER_SIZE
    BY <2>6 DEF SizeOfWrap
  <2> QED  BY <1>4, <2>5, <2>7 DEF SizeOf
<1> QED  BY <1>2, <1>3, <1>4

\* What a field adds to a layout.
LEMMA FieldRight ==
  ASSUME Inv, TypesInv, errors = {}, phase = "analyze", EntriesGrounded,
         NEW sizes \in [Names -> Nat], SizedBy(sizes),
         NEW f, f.name \in DOMAIN entries, f.item \in DOMAIN Decl(f.name).counts,
         NEW t, t = Decl(f.name).types[f.item], Settled(t), Known(Meaning(t)),
         IsAggregate(Meaning(t)) => Meaning(t).base \in Completed
  PROVE  Sum(FieldSizes(sizes, Denotations(program), Decl(f.name)))[f.item] =
           Sum(FieldSizes(sizes, Denotations(program), Decl(f.name)))[f.item - 1]
             + Counted(Decl(f.name).counts[f.item], SizeOf(Meaning(t)))
<1>1. PICK D, d, s, i : /\ D = Denotations(program) /\ d = Decl(f.name)
                        /\ s = FieldSizes(sizes, D, d) /\ i = f.item
  OBVIOUS
<1>2. /\ D \in [Names -> Types] /\ d \in Decls /\ i \in 1 .. Len(d.counts)
      /\ t \in Types /\ t = d.types[i]
  BY <1>1, DenotationsTyped, DeclTyped, DeclParts DEF Inv, TypeOK
<1>3. /\ s \in Seq(Nat) /\ Len(s) = Len(d.counts)
      /\ s[i] = Counted(d.counts[i], SizeBy(sizes, Denoted(D, t)))
  BY <1>1, <1>2, FieldSizesTyped
<1>4. Denoted(D, t) = Meaning(t)
  <2>1. Cardinality(Names) \in Cardinality(Resolved) .. Cardinality(Names) /\ Denotes
    BY ResolvedFinite DEF TypesInv, TypesRight
  <2> QED  BY <1>1, <2>1, DenotedMeaning DEF Denotations
<1>5. Grounded(Meaning(t))
  BY <1>2, GroundedMeaning
<1>6. PICK u : u = Meaning(t)
  OBVIOUS
<1>7. SizeOf(u) = SizeBy(sizes, u)
  BY <1>5, <1>6, SizeOfRight
<1>8. Sum(s)[i] = Sum(s)[i - 1] + s[i]
  BY <1>2, <1>3, SumUnfolds
<1> QED  BY <1>1, <1>3, <1>4, <1>6, <1>7, <1>8

-----------------------------------------------------------------------------
(* What a step of the analysis does to the running totals on the stack *)

\* A frame that starts, one that is where the innermost one is, and the steps that
\* add to its total.
Fresh(g) == g.item = 1 /\ g.size = 0
Kept(f) ==
  /\ f.call = Top.call /\ f.name = Top.name
  /\ f.call = "sema_complete_aggregate" => f.item = Top.item /\ f.size = Top.size
Adds(size) ==
  /\ Add(size)
  /\ \/ /\ CompleteItemTyped
        /\ ret.type # NoType => ~IsAggregate(ret.type) /\ size = SizeOf(ret.type)
     \/ /\ CompleteItemNested
        /\ errors' = {} => ret.ok /\ size = SizeOf(Top.type)

\* What the line the innermost layout is at makes of a size.
Part(size) == Counted(Decl(Top.name).counts[Top.item], size)

Shape ==
  \/ stack' = stack \/ stack' = <<>> \/ (stack # <<>> /\ stack' = Callers)
  \/ \E g : Fresh(g) /\ stack' = <<g>>
  \/ stack # <<>> /\ \E f : Kept(f) /\ Continue(f)
  \/ stack # <<>> /\ \E f, g : Kept(f) /\ Fresh(g) /\ CallFrom(f, g)
  \/ \E size : Adds(size)

LEMMA FreshFrame ==
  ASSUME NEW call, NEW n, NEW t
  PROVE  Fresh(Frame(call, n, t))
BY DEF Fresh, Frame

LEMMA HereKept ==
  ASSUME Inv, stack # <<>>
  PROVE  /\ \A at : Kept(Here(at))
         /\ \A at, t : Kept([Here(at) EXCEPT !.type = t])
         /\ \A at, t, at2 : Kept([[Here(at) EXCEPT !.type = t] EXCEPT !.at = at2])
         /\ Top.call # "sema_complete_aggregate" =>
              /\ \A at : Kept([Here(at) EXCEPT !.item = @ + 1])
              /\ \A t : Kept([Top EXCEPT !.type = t, !.item = @ + 1])
<1>1. PICK d : d = Top
  OBVIOUS
<1>2. d \in Frames
  BY <1>1, TopFacts
<1> QED  BY <1>1, <1>2 DEF Kept, Here, Frames

LEMMA Shapes ==
  ASSUME Inv, Next, phase = "analyze"
  PROVE  Shape
<1>1. CASE AnalyzeDeclaration \/ Analyzed
  BY <1>1, FreshFrame DEF AnalyzeDeclaration, Analyzed, Shape
<1>2. CASE sema_resolve_type
  <2>1. stack # <<>> /\ Top.call = "sema_resolve_type"
    BY <1>2 DEF sema_resolve_type, ResolveTypeName, ResolveTypeNamed, ResolveTypeWrap,
       ResolveTypeReturn, At
  <2>2. CASE ResolveTypeName
    <3>1. \/ Continue([Here("wrap") EXCEPT !.type = scope[Top.expr.base]])
          \/ Continue([Here("wrap") EXCEPT !.type = Plain(Builtin)])
          \/ Continue(Here("wrap"))
          \/ CallFrom(Here("named"), Frame("sema_resolve_entry", Top.expr.base, NoType))
      BY <2>2 DEF ResolveTypeName
    <3> QED  BY <2>1, <3>1, HereKept, FreshFrame DEF Shape
  <2>3. CASE ResolveTypeNamed
    <3>1. \/ Continue([Here("wrap") EXCEPT !.type = entries[Top.expr.base].type])
          \/ Continue(Here("wrap"))
      BY <2>3 DEF ResolveTypeNamed
    <3> QED  BY <2>1, <3>1, HereKept DEF Shape
  <2>4. CASE ResolveTypeWrap
    <3>1. \/ stack' = <<>>
          \/ Continue([Top EXCEPT !.type = Wrap(Top.type, Top.expr.wraps[Top.item]), !.item = @ + 1])
      BY <2>4 DEF ResolveTypeWrap, End
    <3>2. Kept([Top EXCEPT !.type = Wrap(Top.type, Top.expr.wraps[Top.item]), !.item = @ + 1])
      BY <2>1, HereKept
    <3> QED  BY <2>1, <3>1, <3>2 DEF Shape
  <2>5. CASE ResolveTypeReturn
    BY <2>1, <2>5 DEF ResolveTypeReturn, Return, Shape
  <2> QED  BY <1>2, <2>2, <2>3, <2>4, <2>5 DEF sema_resolve_type
<1>3. CASE sema_resolve_entry
  <2>1. stack # <<>>
    BY <1>3 DEF sema_resolve_entry, ResolveEntryMarked, ResolveEntryCall, ResolveEntryReturn, At
  <2>2. CASE ResolveEntryCall
    <3>1. \E call, n, t : CallFrom(Here("typed"), Frame(call, n, t))
      BY <2>2 DEF ResolveEntryCall
    <3> QED  BY <2>1, <3>1, HereKept, FreshFrame DEF Shape
  <2>3. CASE ResolveEntryMarked \/ ResolveEntryReturn
    BY <2>1, <2>3 DEF ResolveEntryMarked, ResolveEntryReturn, Return, Shape
  <2> QED  BY <1>3, <2>2, <2>3 DEF sema_resolve_entry
<1>4. CASE sema_complete_aggregate
  <2>1. stack # <<>>
    BY <1>4 DEF sema_complete_aggregate, CompleteMarked, CompleteStart, CompleteItem,
       CompleteItemTyped, CompleteItemNested, CompleteReturn, At
  <2>2. CASE CompleteMarked \/ CompleteReturn
    BY <2>1, <2>2 DEF CompleteMarked, CompleteReturn, Return, Shape
  <2>3. CASE CompleteStart
    BY <2>1, <2>3, HereKept DEF CompleteStart, Shape
  <2>4. CASE CompleteItem
    <3>1. \E call, n, t : CallFrom(Here("typed"), Frame(call, n, t))
      BY <2>4 DEF CompleteItem
    <3> QED  BY <2>1, <3>1, HereKept, FreshFrame DEF Shape
  <2>5. CASE CompleteItemTyped
    <3>1. PICK t : t = ret.type
      OBVIOUS
    <3>2. \/ \E size : Add(size) /\ (t # NoType => ~IsAggregate(t) /\ size = SizeOf(t))
          \/ CallFrom([Here("nested") EXCEPT !.type = t],
                      Frame("sema_complete_aggregate", t.base, NoType))
      BY <2>5, <3>1 DEF CompleteItemTyped
    <3>3. CASE \E size : Add(size) /\ (t # NoType => ~IsAggregate(t) /\ size = SizeOf(t))
      <4>1. \E size : Adds(size)
        BY <2>5, <3>1, <3>3 DEF Adds
      <4> QED  BY <4>1 DEF Shape
    <3>4. CASE CallFrom([Here("nested") EXCEPT !.type = t],
                        Frame("sema_complete_aggregate", t.base, NoType))
      BY <2>1, <3>4, HereKept, FreshFrame DEF Shape
    <3> QED  BY <3>2, <3>3, <3>4
  <2>6. CASE CompleteItemNested
    <3>1. \/ ret.ok /\ Add(SizeOf(Top.type))
          \/ errors' # {} /\ Add(0)
      BY <2>6 DEF CompleteItemNested, Report
    <3>2. \E size : Adds(size)
      BY <2>6, <3>1 DEF Adds
    <3> QED  BY <3>2 DEF Shape
  <2> QED  BY <1>4, <2>2, <2>3, <2>4, <2>5, <2>6 DEF sema_complete_aggregate
<1>5. CASE sema_analyze_initializer
  <2>1. stack # <<>>
    BY <1>5 DEF sema_analyze_initializer, InitializerStart, InitializerTyped,
       InitializerNamed, InitializerCompleted, InitializerReturn, At
  <2>2. CASE InitializerStart
    <3>1. \/ stack' = <<>> \/ Continue(Here("return"))
          \/ Continue([Here("return") EXCEPT !.type = scope[Decl(Top.name).init]])
          \/ \E at, call, n, t : CallFrom(Here(at), Frame(call, n, t))
      BY <2>2 DEF InitializerStart, End
    <3> QED  BY <2>1, <3>1, HereKept, FreshFrame DEF Shape
  <2>3. CASE InitializerTyped
    <3>1. PICK t : t = ret.type
      OBVIOUS
    <3>2. \/ stack' = <<>>
          \/ Continue([Here("return") EXCEPT !.type = t])
          \/ CallFrom([[Here("return") EXCEPT !.type = t] EXCEPT !.at = "completed"],
                      Frame("sema_complete_aggregate", t.base, NoType))
      BY <2>3, <3>1 DEF InitializerTyped, End
    <3> QED  BY <2>1, <3>2, HereKept, FreshFrame DEF Shape
  <2>4. CASE InitializerNamed
    <3>1. PICK m, t : m = Decl(Top.name).init /\ t = entries[m].type
      OBVIOUS
    <3>2. \/ Continue(Here("return"))
          \/ Continue([Here("return") EXCEPT !.type = t])
          \/ CallFrom([[Here("return") EXCEPT !.type = t] EXCEPT !.at = "completed"],
                      Frame("sema_complete_aggregate", m, NoType))
      BY <2>4, <3>1 DEF InitializerNamed
    <3> QED  BY <2>1, <3>2, HereKept, FreshFrame DEF Shape
  <2>5. CASE InitializerCompleted
    <3>1. \/ Continue(Here("return"))
          \/ Continue([Here("return") EXCEPT !.type = NoType])
      BY <2>5 DEF InitializerCompleted
    <3> QED  BY <2>1, <3>1, HereKept DEF Shape
  <2>6. CASE InitializerReturn
    BY <2>1, <2>6 DEF InitializerReturn, Return, Shape
  <2> QED  BY <1>5, <2>2, <2>3, <2>4, <2>5, <2>6 DEF sema_analyze_initializer
<1>6. CASE sema_resolve_function_type
  <2>1. stack # <<>> /\ Top.call # "sema_complete_aggregate"
    BY <1>6 DEF sema_resolve_function_type, FunctionTypeItem, FunctionTypeTyped,
       FunctionTypeReturn, At
  <2>2. \/ stack' = Callers
        \/ Continue([Here("start") EXCEPT !.item = @ + 1])
        \/ \E call, n, t : CallFrom(Here("typed"), Frame(call, n, t))
    BY <1>6 DEF sema_resolve_function_type, FunctionTypeItem, FunctionTypeTyped,
       FunctionTypeReturn, Return
  <2> QED  BY <2>1, <2>2, HereKept, FreshFrame DEF Shape
<1>7. CASE sema_analyze_variable
  <2>1. stack # <<>>
    BY <1>7 DEF sema_analyze_variable, AnalyzeVariableStart, AnalyzeVariableNamed,
       AnalyzeVariableCompleted, At
  <2>2. \/ stack' = Callers \/ stack' = <<>>
        \/ \E at, call, n, t : CallFrom(Here(at), Frame(call, n, t))
    BY <1>7 DEF sema_analyze_variable, AnalyzeVariableStart, AnalyzeVariableNamed,
       AnalyzeVariableCompleted, End
  <2> QED  BY <2>1, <2>2, HereKept, FreshFrame DEF Shape
<1>8. CASE sema_analyze_function
  <2>1. stack # <<>> /\ Top.call # "sema_complete_aggregate"
    BY <1>8 DEF sema_analyze_function, AnalyzeFunctionStart, AnalyzeFunctionParameter,
       AnalyzeFunctionTyped, AnalyzeFunctionParameterTyped, AnalyzeFunctionCompleted,
       AnalyzeFunctionReturn, At
  <2>2. \/ stack' = Callers \/ stack' = <<>> \/ Continue(Here("parameters"))
        \/ Continue([Here("parameters") EXCEPT !.item = @ + 1])
        \/ \E at, call, n, t : CallFrom(Here(at), Frame(call, n, t))
        \/ \E t, n : CallFrom([Here("completed") EXCEPT !.type = t],
                              Frame("sema_complete_aggregate", n, NoType))
    <3>1. CASE AnalyzeFunctionParameterTyped
      BY <3>1 DEF AnalyzeFunctionParameterTyped, Put, End
    <3>2. CASE ~AnalyzeFunctionParameterTyped
      BY <1>8, <3>2 DEF sema_analyze_function, AnalyzeFunctionStart, AnalyzeFunctionParameter,
         AnalyzeFunctionTyped, AnalyzeFunctionCompleted, AnalyzeFunctionReturn, Put
    <3> QED  BY <3>1, <3>2
  <2> QED  BY <2>1, <2>2, HereKept, FreshFrame DEF Shape
<1>9. ~sema_register /\ ~Registered
  BY DEF sema_register, Registered
<1> QED  BY <1>1, <1>2, <1>3, <1>4, <1>5, <1>6, <1>7, <1>8, <1>9 DEF Next

\* Whatever frame is appended to the callers.
LEMMA AppendedOne ==
  ASSUME stack \in Seq(Frames), stack # <<>>, NEW f
  PROVE  /\ DOMAIN Append(Callers, f) = 1 .. Len(stack) /\ Len(Append(Callers, f)) = Len(stack)
         /\ \A i \in 1 .. Len(stack) - 1 : Append(Callers, f)[i] = stack[i]
         /\ Append(Callers, f)[Len(stack)] = f
<1> DEFINE F == Frames \cup {f}
           c == Append(Callers, f)
<1>1. /\ Len(stack) \in Nat /\ Callers \in Seq(F) /\ Len(Callers) = Len(stack) - 1
      /\ \A i \in 1 .. Len(stack) - 1 : Callers[i] = stack[i]
  <2>1. /\ Len(stack) \in Nat /\ Callers \in Seq(Frames) /\ Len(Callers) = Len(stack) - 1
        /\ \A i \in 1 .. Len(stack) - 1 : Callers[i] = stack[i]
    BY CallersFacts
  <2>2. Callers \in Seq(F)
    BY <2>1, LenProperties, ElementOfSeq
  <2> QED  BY <2>1, <2>2
<1>2. f \in F
  OBVIOUS
<1> HIDE DEF F
<1>3. c \in Seq(F) /\ Len(c) = Len(stack)
  BY <1>1, <1>2, AppendProperties
<1>4. DOMAIN c = 1 .. Len(stack)
  BY <1>3, LenProperties
<1>5. /\ \A i \in 1 .. Len(stack) - 1 : c[i] = stack[i]
      /\ c[Len(stack)] = f
  BY <1>1, <1>2, AppendProperties
<1> QED  BY <1>3, <1>4, <1>5

LEMMA AppendedTwo ==
  ASSUME stack \in Seq(Frames), stack # <<>>, NEW f, NEW g
  PROVE  /\ DOMAIN Append(Append(Callers, f), g) = 1 .. Len(stack) + 1
         /\ \A i \in 1 .. Len(stack) - 1 : Append(Append(Callers, f), g)[i] = stack[i]
         /\ Append(Append(Callers, f), g)[Len(stack)] = f
         /\ Append(Append(Callers, f), g)[Len(stack) + 1] = g
<1> DEFINE F == Frames \cup {f, g}
<1>1. PICK c : c = Append(Callers, f)
  OBVIOUS
<1>2. /\ DOMAIN c = 1 .. Len(stack) /\ Len(c) = Len(stack) /\ Len(stack) \in Nat
      /\ \A i \in 1 .. Len(stack) - 1 : c[i] = stack[i]
      /\ c[Len(stack)] = f
  BY <1>1, AppendedOne, CallersFacts
<1>3. c \in Seq(F) /\ g \in F
  <2>1. Callers \in Seq(Frames)
    BY CallersFacts
  <2>2. Callers \in Seq(F) /\ f \in F
    BY <2>1, LenProperties, ElementOfSeq
  <2> QED  BY <1>1, <2>2, AppendProperties
<1> HIDE DEF F
<1>4. Append(c, g) \in Seq(F) /\ Len(Append(c, g)) = Len(stack) + 1
  BY <1>2, <1>3, AppendProperties
<1>5. DOMAIN Append(c, g) = 1 .. Len(stack) + 1
  BY <1>4, LenProperties
<1>6. (\A i \in 1 .. Len(stack) : Append(c, g)[i] = c[i]) /\ Append(c, g)[Len(stack) + 1] = g
  BY <1>2, <1>3, AppendProperties
<1>7. Len(stack) \in 1 .. Len(stack) /\ 1 .. Len(stack) - 1 \subseteq 1 .. Len(stack)
  BY <1>2, CallersFacts
<1> QED  BY <1>1, <1>2, <1>5, <1>6, <1>7

LEMMA StackParts ==
  ASSUME Inv, Shape, NEW i \in DOMAIN stack', NEW f, f = stack'[i]
  PROVE  \/ \E j \in DOMAIN stack : f = stack[j]
         \/ Fresh(f)
         \/ stack # <<>> /\ Kept(f)
         \/ \E size : Adds(size) /\ f = [Here("items") EXCEPT !.item = @ + 1, !.size = @ + Part(size)]
<1>1. stack \in Seq(Frames)
  BY DEF Inv, TypeOK
<1>0. PICK s : s = stack'
  OBVIOUS
<1>a. i \in DOMAIN s /\ f = s[i]
  BY <1>0
<1>b. stack # <<>> => DOMAIN stack = 1 .. Len(stack) /\ Len(stack) \in Nat
  BY <1>1, CallersFacts
<1>2. CASE stack' = stack
  BY <1>2
<1>3. CASE stack' = <<>>
  <2>1. DOMAIN s = {}
    BY <1>0, <1>3
  <2> QED  BY <1>a, <2>1
<1>4. CASE stack # <<>> /\ stack' = Callers
  <2>1. s = Callers /\ DOMAIN Callers = 1 .. Len(stack) - 1
        /\ \A j \in 1 .. Len(stack) - 1 : Callers[j] = stack[j]
    BY <1>0, <1>1, <1>4, CallersFacts
  <2>2. i \in 1 .. Len(stack) - 1 /\ f = stack[i]
    BY <1>a, <2>1
  <2>3. i \in DOMAIN stack
    BY <1>b, <1>4, <2>2
  <2> QED  BY <2>2, <2>3
<1>5. CASE \E g : Fresh(g) /\ stack' = <<g>>
  <2>1. PICK g : Fresh(g) /\ stack' = <<g>>
    BY <1>5
  <2>2. i = 1
    BY <2>1
  <2> QED  BY <2>1, <2>2
<1>6. CASE stack # <<>> /\ \E g : Kept(g) /\ Continue(g)
  <2>1. PICK g : Kept(g) /\ stack' = Append(Callers, g)
    BY <1>6 DEF Continue
  <2>2. s = Append(Callers, g)
    BY <1>0, <2>1
  <2>3. (i \in DOMAIN stack /\ f = stack[i]) \/ f = g
    <3>a. DOMAIN s = 1 .. Len(stack) /\ Len(stack) \in Nat
      BY <1>1, <1>b, <1>6, <2>2, AppendedOne
    <3>1. i \in 1 .. Len(stack) - 1 \/ i = Len(stack)
      BY <1>a, <3>a
    <3> QED  BY <1>1, <1>a, <1>b, <1>6, <2>2, <3>1, AppendedOne
  <2> QED  BY <1>6, <2>1, <2>3
<1>7. CASE stack # <<>> /\ \E d, g : Kept(d) /\ Fresh(g) /\ CallFrom(d, g)
  <2>1. PICK d, g : Kept(d) /\ Fresh(g) /\ stack' = Append(Append(Callers, d), g)
    BY <1>7 DEF CallFrom
  <2>2. s = Append(Append(Callers, d), g)
    BY <1>0, <2>1
  <2>3. (i \in DOMAIN stack /\ f = stack[i]) \/ f = d \/ f = g
    <3>0. stack \in Seq(Frames) /\ stack # <<>>
      BY <1>1, <1>7
    <3>4. /\ DOMAIN s = 1 .. Len(stack) + 1
          /\ \A k \in 1 .. Len(stack) - 1 : s[k] = stack[k]
          /\ s[Len(stack)] = d /\ s[Len(stack) + 1] = g
      <4>1. /\ DOMAIN Append(Append(Callers, d), g) = 1 .. Len(stack) + 1
            /\ \A k \in 1 .. Len(stack) - 1 : Append(Append(Callers, d), g)[k] = stack[k]
            /\ Append(Append(Callers, d), g)[Len(stack)] = d
            /\ Append(Append(Callers, d), g)[Len(stack) + 1] = g
        BY <3>0, AppendedTwo
      <4> QED  BY <4>1, <2>2
    <3>1. /\ DOMAIN s = 1 .. Len(stack) + 1 /\ Len(stack) \in Nat
          /\ \A k \in 1 .. Len(stack) - 1 : s[k] = stack[k]
          /\ s[Len(stack)] = d /\ s[Len(stack) + 1] = g
      BY <1>b, <1>7, <3>4
    <3>2. i \in 1 .. Len(stack) - 1 \/ i = Len(stack) \/ i = Len(stack) + 1
      BY <1>a, <3>1
    <3>3. 1 .. Len(stack) - 1 \subseteq DOMAIN stack
      BY <1>b, <1>7
    <3> QED  BY <1>a, <3>1, <3>2, <3>3
  <2> QED  BY <1>7, <2>1, <2>3
<1>8. CASE \E size : Adds(size)
  <2>1. PICK size : Adds(size)
    BY <1>8
  <2>2. PICK g : g = [Here("items") EXCEPT !.item = @ + 1, !.size = @ + Part(size)]
    OBVIOUS
  <2>3. s = Append(Callers, g) /\ stack # <<>>
    BY <1>0, <2>1, <2>2 DEF Adds, Add, Part, Continue, CompleteItemTyped, CompleteItemNested, At
  <2>4. (i \in DOMAIN stack /\ f = stack[i]) \/ f = g
    <3>a. DOMAIN s = 1 .. Len(stack) /\ Len(stack) \in Nat
      BY <1>1, <1>b, <2>3, AppendedOne
    <3>1. i \in 1 .. Len(stack) - 1 \/ i = Len(stack)
      BY <1>a, <3>a
    <3> QED  BY <1>1, <1>a, <1>b, <2>3, <3>1, AppendedOne
  <2> QED  BY <2>1, <2>2, <2>4
<1> QED  BY <1>2, <1>3, <1>4, <1>5, <1>6, <1>7, <1>8 DEF Shape

\* The total of a frame that a step leaves alone.
LEMMA FrameSizedStays ==
  ASSUME Keeps, NEW f, f.name \in DOMAIN entries, NEW sizes, FrameSized(sizes, f)
  PROVE  FrameSized(sizes, f)'
<1>1. Decl(f.name)' = Decl(f.name) /\ program' = program
  BY KeepsDecl DEF Keeps, input
<1> QED  BY <1>1 DEF FrameSized

\* Nothing is summed up before the first field.
LEMMA FreshSized ==
  ASSUME Inv, NEW f, Fresh(f), f.name \in DOMAIN entries, NEW sizes \in [Names -> Nat]
  PROVE  FrameSized(sizes, f)
<1>1. PICK D, d, s : /\ D = Denotations(program) /\ d = Decl(f.name)
                     /\ s = FieldSizes(sizes, D, d)
  OBVIOUS
<1>2. D \in [Names -> Types] /\ d \in Decls
  BY <1>1, DenotationsTyped, DeclTyped DEF Inv, TypeOK
<1>3. s \in Seq(Nat)
  BY <1>1, <1>2, FieldSizesTyped
<1>4. Sum(s)[0] = 0
  BY <1>3, SumUnfolds
<1>5. f.item - 1 = 0
  BY DEF Fresh
<1> QED  BY <1>1, <1>4, <1>5 DEF Fresh, FrameSized

\* What a step of a layout adds is the size of the field it is at.
LEMMA AddsField ==
  ASSUME Inv, TypesInv, errors = {}, errors' = {}, phase = "analyze", EntriesGrounded,
         NEW sizes \in [Names -> Nat], SizedBy(sizes), NEW size, Adds(size)
  PROVE  /\ stack # <<>> /\ Top.call = "sema_complete_aggregate" /\ size \in Nat
         /\ Sum(FieldSizes(sizes, Denotations(program), Decl(Top.name)))[Top.item] =
              Sum(FieldSizes(sizes, Denotations(program), Decl(Top.name)))[Top.item - 1]
                + Part(size)
         /\ Part(size) \in Nat
<1>1. /\ stack # <<>> /\ Top.call = "sema_complete_aggregate"
      /\ Top.at \in {"typed", "nested"}
      /\ CompleteItemTyped => Top.at = "typed"
      /\ CompleteItemNested => Top.at = "nested"
  BY DEF Adds, CompleteItemTyped, CompleteItemNested, At
<1>2. FramesRight
  BY DEF TypesInv, TypesRight, FramesRight
<1>3. PICK d, t : d = Top /\ t = Decl(d.name).types[d.item]
  OBVIOUS
<1>4. /\ FrameOK(d) /\ Answered(d) /\ Placed(d) /\ Told(d) /\ d.name \in DOMAIN entries
      /\ d.item \in DOMAIN Decl(d.name).counts /\ Written(d) = t
  BY <1>1, <1>2, <1>3, TopRight DEF Placed, Written, FrameOK
<1>a. \A x \in Nat : Part(x) \in Nat
  <2>1. PICK c : c = Decl(d.name).counts[d.item]
    OBVIOUS
  <2>2. c \in Nat
    BY <1>4, <2>1, DeclParts
  <2>3. \A x \in Nat : Counted(c, x) \in Nat
    BY <2>2 DEF Counted
  <2> QED  BY <1>3, <2>1, <2>3 DEF Part
<1>5. CASE CompleteItemTyped /\ (ret.type # NoType => ~IsAggregate(ret.type) /\ size = SizeOf(ret.type))
  <2>1. /\ Settled(t) /\ Meaning(t) = ret.type /\ ~IsAggregate(ret.type) /\ size = SizeOf(ret.type)
        /\ Known(ret.type)
    BY <1>1, <1>3, <1>4, <1>5 DEF Told, Answered, Inv, Scoped
  <2>2. size \in Nat
    BY <2>1, SizeTyped
  <2> QED  BY <1>1, <1>3, <1>4, <1>a, <2>1, <2>2, FieldRight DEF Part
<1>6. CASE CompleteItemNested /\ (errors' = {} => ret.ok /\ size = SizeOf(Top.type))
  <2>1. /\ Settled(t) /\ Meaning(t) = d.type /\ size = SizeOf(d.type) /\ Known(d.type)
        /\ d.type.base \in Completed
    BY <1>1, <1>3, <1>4, <1>6 DEF Told, Placed, FrameOK, Completed
  <2>2. size \in Nat
    BY <2>1, SizeTyped
  <2> QED  BY <1>1, <1>3, <1>4, <1>a, <2>1, <2>2, FieldRight DEF Part
<1> QED  BY <1>5, <1>6 DEF Adds

LEMMA FramesSizedStep ==
  ASSUME Inv, TypesInv, errors = {}, errors' = {}, Keeps, Next, phase = "analyze",
         EntriesGrounded, NEW sizes \in [Names -> Nat], SizedBy(sizes)
  PROVE  \A i \in DOMAIN stack' : FrameSized(sizes, stack[i])'
<1> SUFFICES ASSUME NEW i \in DOMAIN stack' PROVE FrameSized(sizes, stack[i])'
  OBVIOUS
<1>1. PICK f : f = stack'[i]
  OBVIOUS
<1>2. f.name \in DOMAIN entries
  <2>1. Inv'
    BY NextInv
  <2> QED  BY <1>1, <2>1 DEF Inv, Calling, FrameOK, Keeps
<1>3. \/ \E j \in DOMAIN stack : f = stack[j]
      \/ Fresh(f)
      \/ stack # <<>> /\ Kept(f)
      \/ \E size : Adds(size) /\ f = [Here("items") EXCEPT !.item = @ + 1, !.size = @ + Part(size)]
  BY <1>1, Shapes, StackParts
<1>4. FrameSized(sizes, f)
  <2>1. CASE \E j \in DOMAIN stack : f = stack[j]
    BY <2>1 DEF SizedBy
  <2>2. CASE Fresh(f)
    BY <1>2, <2>2, FreshSized
  <2>3. CASE stack # <<>> /\ Kept(f)
    <3>1. PICK d : d = Top
      OBVIOUS
    <3>2. FrameSized(sizes, d)
      BY <2>3, <3>1, CallersFacts DEF SizedBy, Top, Inv, TypeOK
    <3> QED  BY <2>3, <3>1, <3>2 DEF Kept, FrameSized
  <2>4. CASE \E size : Adds(size) /\ f = [Here("items") EXCEPT !.item = @ + 1, !.size = @ + Part(size)]
    <3>1. PICK size : Adds(size) /\ f = [Here("items") EXCEPT !.item = @ + 1, !.size = @ + Part(size)]
      BY <2>4
    <3>2. PICK d, s, c : /\ d = Top /\ s = Sum(FieldSizes(sizes, Denotations(program), Decl(d.name)))
                         /\ c = Part(size)
      OBVIOUS
    <3>3. /\ stack # <<>> /\ d.call = "sema_complete_aggregate" /\ c \in Nat
          /\ s[d.item] = s[d.item - 1] + c
      BY <3>1, <3>2, AddsField
    <3>4. d \in Frames /\ d.item \in Nat /\ d.size \in Nat
      BY <3>2, <3>3, TopFacts DEF Frames
    <3>5. f.name = d.name /\ f.item = d.item + 1 /\ f.size = d.size + c
      BY <3>1, <3>2, <3>4 DEF Here, Frames
    <3>6. d.size = s[d.item - 1]
      <4>1. FrameSized(sizes, d)
        BY <3>2, <3>3, CallersFacts DEF SizedBy, Top, Inv, TypeOK
      <4> QED  BY <3>2, <3>3, <4>1 DEF FrameSized
    <3>7. f.item - 1 = d.item
      BY <3>4, <3>5
    <3> QED  BY <3>2, <3>3, <3>5, <3>6, <3>7 DEF FrameSized
  <2> QED  BY <1>3, <2>1, <2>2, <2>3, <2>4
<1>5. FrameSized(sizes, f)'
  BY <1>2, <1>4, FrameSizedStays
<1> QED  BY <1>1, <1>5

-----------------------------------------------------------------------------
(* The steps that lay out or make a type *)

\* ResolveTypeWrap alone makes an array type.
LEMMA ArraysSame ==
  ASSUME Next, arrays' # arrays
  PROVE  ResolveTypeWrap
BY DEF Next, AnalyzeDeclaration, Analyzed, sema_register, Registered,
   sema_resolve_type, ResolveTypeName, ResolveTypeNamed, ResolveTypeReturn,
   sema_resolve_entry, ResolveEntryMarked, ResolveEntryCall, ResolveEntryReturn,
   sema_complete_aggregate, CompleteMarked, CompleteStart, CompleteItem, CompleteItemTyped,
   CompleteItemNested, CompleteReturn, sema_analyze_initializer, InitializerStart,
   InitializerTyped, InitializerNamed, InitializerCompleted, InitializerReturn,
   sema_resolve_function_type, FunctionTypeItem, FunctionTypeTyped, FunctionTypeReturn,
   sema_analyze_variable, AnalyzeVariableStart, AnalyzeVariableNamed, AnalyzeVariableCompleted,
   sema_analyze_function, AnalyzeFunctionStart, AnalyzeFunctionParameter, AnalyzeFunctionTyped,
   AnalyzeFunctionParameterTyped, AnalyzeFunctionCompleted, AnalyzeFunctionReturn,
       Put, scopes, global, local

\* The type that is wrapped once more, and its wrap.
LEMMA WrappedOnce ==
  ASSUME Inv, FramesRight, EntriesGrounded, At("sema_resolve_type", "wrap"),
         Top.item <= Len(Top.expr.wraps), NEW t, t = Top.type
  PROVE  /\ t \in Types /\ Known(t) /\ Grounded(t) /\ Top.expr.wraps[Top.item] \in Wraps
<1>1. stack # <<>> /\ Top.call = "sema_resolve_type" /\ Top.at = "wrap"
  BY DEF At
<1>2. PICK d, e, i, c : d = Top /\ e = d.expr /\ i = d.item /\ c = Cut(e, i - 1)
  OBVIOUS
<1>3. d \in Frames /\ Placed(d) /\ FrameOK(d) /\ e \in Types /\ t \in Types /\ Known(t)
  BY <1>1, <1>2, TopRight DEF FrameOK
<1>4. Len(e.wraps) \in Nat /\ i \in 1 .. Len(e.wraps) /\ Settled(e) /\ t = Meaning(c)
  BY <1>1, <1>2, <1>3, CutFacts DEF Placed
<1>5. i - 1 \in 0 .. Len(e.wraps)
  BY <1>4
<1>6. c \in Types /\ Settled(c)
  BY <1>2, <1>3, <1>4, <1>5, CutFacts, CutSettled
<1>7. Grounded(t)
  BY <1>4, <1>6, GroundedMeaning
<1>8. e.wraps[i] \in Wraps
  BY <1>2, <1>3, <1>4, CutFacts
<1> QED  BY <1>2, <1>3, <1>7, <1>8

\* An array type is made with the size of its element in it.
LEMMA ArraysSized ==
  ASSUME Inv, TypesInv, errors = {}, asserts, phase = "analyze", EntriesGrounded, Next,
         NEW sizes \in [Names -> Nat], SizedBy(sizes)
  PROVE  \A t \in DOMAIN arrays' : arrays'[t] = SizeBy(sizes, t)
<1>1. CASE arrays' = arrays
  BY <1>1 DEF SizedBy
<1>2. CASE arrays' # arrays
  <2>0. ResolveTypeWrap
    BY <1>2, ArraysSame
  <2>1. At("sema_resolve_type", "wrap") /\ Top.item <= Len(Top.expr.wraps) /\ FramesRight
    BY <2>0 DEF ResolveTypeWrap, TypesInv, TypesRight, FramesRight
  <2>2. PICK w, t, u : w = Top.expr.wraps[Top.item] /\ t = Top.type /\ u = Wrap(t, w)
    OBVIOUS
  <2>3. t \in Types /\ Known(t) /\ Grounded(t) /\ w \in Wraps
    BY <2>1, <2>2, WrappedOnce
  <2>4. /\ w = "sized" \/ w = "slice"
        /\ w = "sized" /\ IsAggregate(t) => aggregates[t.base].is_complete
        /\ arrays' = With(arrays, u, IF w = "sized" THEN Count * SizeOf(t) + POINTER_SIZE
                                                    ELSE 2 * POINTER_SIZE)
    BY <1>2, <2>0, <2>2 DEF ResolveTypeWrap, ArrayWrap
  <2>5. SizeBy(sizes, u) = SizeOfWrap(w, SizeBy(sizes, t))
    BY <2>2, <2>3, SizeByWrap
  <2>6. w = "sized" => SizeOf(t) = SizeBy(sizes, t)
    <3>1. w = "sized" /\ IsAggregate(t) => t.base \in Completed
      BY <2>4 DEF Completed, IsAggregate
    <3> QED  BY <2>3, <3>1, SizeOfRight
  <2>7. arrays'[u] = SizeBy(sizes, u)
    BY <2>4, <2>5, <2>6 DEF With, SizeOfWrap
  <2>8. \A v \in DOMAIN arrays' : v = u \/ (v \in DOMAIN arrays /\ arrays'[v] = arrays[v])
    BY <2>4 DEF With
  <2> QED  BY <2>7, <2>8 DEF SizedBy
<1> QED  BY <1>1, <1>2

\* CompleteReturn alone completes an aggregate: the one it laid out.
LEMMA CompletedSame ==
  ASSUME Inv, Next, phase = "analyze", ~CompleteReturn
  PROVE  Completed' = Completed
<1>1. aggregates' = aggregates \/ CompleteStart
  BY DEF Next, AnalyzeDeclaration, Analyzed, sema_register, Registered,
     sema_resolve_type, ResolveTypeName, ResolveTypeNamed, ResolveTypeWrap, ResolveTypeReturn,
     sema_resolve_entry, ResolveEntryMarked, ResolveEntryCall, ResolveEntryReturn,
     sema_complete_aggregate, CompleteMarked, CompleteItem, CompleteItemTyped,
     CompleteItemNested, sema_analyze_initializer, InitializerStart,
     InitializerTyped, InitializerNamed, InitializerCompleted, InitializerReturn,
     sema_resolve_function_type, FunctionTypeItem, FunctionTypeTyped, FunctionTypeReturn,
     sema_analyze_variable, AnalyzeVariableStart, AnalyzeVariableNamed, AnalyzeVariableCompleted,
     sema_analyze_function, AnalyzeFunctionStart, AnalyzeFunctionParameter, AnalyzeFunctionTyped,
     AnalyzeFunctionParameterTyped, AnalyzeFunctionCompleted, AnalyzeFunctionReturn,
       Put, scopes, global, local
<1>2. CASE CompleteStart
  <2>1. /\ stack # <<>> /\ aggregates' = [aggregates EXCEPT ![Top.name].is_resolving = TRUE]
        /\ Top.call = "sema_complete_aggregate"
    BY <1>2 DEF CompleteStart, At
  <2>2. Top.name \in DOMAIN aggregates
    BY <2>1, TopFacts DEF FrameOK
  <2> QED  BY <2>1, <2>2 DEF Completed, Inv, TypeOK
<1> QED  BY <1>1, <1>2 DEF Completed

LEMMA CompletesOne ==
  ASSUME Inv, CompleteReturn
  PROVE  /\ phase = "analyze" /\ stack # <<>> /\ Top.call = "sema_complete_aggregate"
         /\ Top.at = "items" /\ Top.item > Len(Decl(Top.name).counts)
         /\ Top.name \in DOMAIN aggregates /\ Top.name \in DOMAIN entries
         /\ Top.name \notin Completed /\ Completed' = Completed \cup {Top.name}
         /\ aggregates'[Top.name].size = Top.size
<1>1. /\ phase = "analyze" /\ stack # <<>> /\ Top.call = "sema_complete_aggregate"
      /\ Top.at = "items" /\ Top.item > Len(Decl(Top.name).counts)
      /\ aggregates' = [aggregates EXCEPT ![Top.name] =
           [is_complete |-> TRUE, is_resolving |-> FALSE, size |-> Top.size]]
  BY DEF CompleteReturn, At
<1>2. PICK n : n = Top.name
  OBVIOUS
<1>3. n \in DOMAIN aggregates /\ n \in DOMAIN entries /\ stack \in Seq(Frames)
  BY <1>1, <1>2, TopFacts DEF FrameOK, Inv, TypeOK
<1>4. n \notin Completed
  <2>1. Works(Top, "sema_complete_aggregate", n)
    BY <1>1, <1>2 DEF Works, Marked, Marking
  <2>2. Working("sema_complete_aggregate", n)
    BY <1>1, <1>3, <2>1, TopWorks
  <2> QED  BY <1>1, <1>3, <2>2 DEF Inv, Marks, Completed
<1>5. DOMAIN aggregates' = DOMAIN aggregates /\ aggregates'[n].is_complete
      /\ aggregates'[n].size = Top.size
      /\ \A m \in DOMAIN aggregates : m # n => aggregates'[m] = aggregates[m]
  BY <1>1, <1>2, <1>3
<1>6. Completed' = Completed \cup {n}
  BY <1>3, <1>5 DEF Completed
<1> QED  BY <1>1, <1>2, <1>3, <1>4, <1>5, <1>6

LEMMA CompletedFinite ==
  ASSUME Inv
  PROVE  /\ Completed \subseteq Names /\ IsFiniteSet(Completed)
         /\ Cardinality(Completed) \in Nat /\ Cardinality(Names) \in Nat
         /\ Cardinality(Completed) <= Cardinality(Names)
<1>1. Completed \subseteq Names
  BY DEF Inv, TypeOK, Completed
<1> QED  BY <1>1, NamesAssumption, FS_Subset, FS_CardinalityType

\* Laying out once more gives the aggregate that is done its total.
LEMMA CompleteReturnSized ==
  ASSUME Inv, TypesInv, errors = {}, CompleteReturn,
         NEW k \in 1 .. Cardinality(Names), SizedBy(LayingOut(program)[k - 1])
  PROVE  aggregates'[Top.name].size = LayingOut(program)[k][Top.name]
<1>1. PICK d, n : d = Top /\ n = Top.name
  OBVIOUS
<1>2. /\ phase = "analyze" /\ stack # <<>> /\ d.call = "sema_complete_aggregate"
      /\ d.item > Len(Decl(n).counts) /\ n \in DOMAIN aggregates /\ n \in DOMAIN entries
      /\ aggregates'[n].size = d.size
  BY <1>1, CompletesOne
<1>3. FramesRight /\ Placing /\ Owned
  BY DEF TypesInv, TypesRight, FramesRight
<1>4. PICK D, sizes, e, s : /\ D = Denotations(program) /\ sizes = LayingOut(program)[k - 1]
                            /\ e = Decl(n) /\ s = FieldSizes(sizes, D, e)
  OBVIOUS
<1>5. /\ program \in Seq(Decls) /\ D \in [Names -> Types] /\ e \in Decls
      /\ n \in Names
  BY <1>2, <1>4, DenotationsTyped, DeclTyped DEF Inv, TypeOK
<1>6. sizes \in [Names -> Nat] /\ LayingOut(program)[k] = LaidOut(program, D, sizes)
  <2>1. k - 1 \in 0 .. Cardinality(Names)
    BY NamesCount
  <2> QED  BY <1>4, <1>5, <2>1, LayingOutUnfolds
<1>7. s \in Seq(Nat) /\ Len(s) = Len(e.counts) /\ Len(s) \in Nat
  BY <1>4, <1>5, <1>6, FieldSizesTyped, LenProperties
<1>8. d.item - 1 = Len(s)
  <2>1. /\ e.kind = "aggregate"
        /\ d.item \in 1 .. Len(e.types) + 1 /\ d.item > Len(e.counts)
    BY <1>1, <1>2, <1>3, <1>4, TopRight DEF Placed, Owned
  <2>2. Len(e.counts) = Len(e.types)
    BY <1>2, <1>4, <2>1, DeclLengths
  <2> QED  BY <1>7, <2>1, <2>2
<1>9. d.size = Sum(s)[Len(s)]
  <2>1. FrameSized(sizes, d)
    <3>1. Len(stack) \in DOMAIN stack
      BY <1>2, CallersFacts DEF Inv, TypeOK
    <3>2. \A i \in DOMAIN stack : FrameSized(sizes, stack[i])
      BY <1>4 DEF SizedBy
    <3> QED  BY <1>1, <3>1, <3>2 DEF Top
  <2> QED  BY <1>1, <1>2, <1>4, <1>8, <2>1 DEF FrameSized
<1>10. LaidOut(program, D, sizes)[n] = Total(s)
  <2>1. /\ n \in DeclaredIn(program) /\ DeclOf(program, n) = Decl(n)
        /\ Decl(n).kind = "aggregate"
    BY <1>2, <1>3, DeclIs DEF Owned
  <2> QED  BY <1>4, <1>5, <2>1 DEF LaidOut
<1> QED  BY <1>1, <1>2, <1>6, <1>9, <1>10 DEF Total

-----------------------------------------------------------------------------
(* SizesInv is inductive *)

LEMMA EntriesGroundedStep ==
  ASSUME Inv, TypesInv, errors = {}, errors' = {}, EntriesGrounded, Keeps, Next, phase = "analyze"
  PROVE  EntriesGrounded'
<1>1. /\ \A n \in Resolved : n \in Resolved' /\ entries'[n].type = entries[n].type
      /\ DOMAIN aggregates' = DOMAIN aggregates
  BY DEF Keeps
<1>2. \A t : Grounded(t) => Grounded(t)'
  BY <1>1 DEF Grounded
<1>3. CASE ~ResolveEntryReturn
  <2>1. Resolved' = Resolved
    BY <1>3, ResolvedSame
  <2> QED  BY <1>1, <1>2, <2>1 DEF EntriesGrounded
<1>4. CASE ResolveEntryReturn
  <2>1. PICK n : n = Top.name
    OBVIOUS
  <2>2. /\ stack # <<>> /\ Top.call = "sema_resolve_entry" /\ Top.at = "typed"
        /\ n \in DOMAIN entries /\ Decl(n).kind # "aggregate"
        /\ Resolved' = Resolved \cup {n} /\ entries'[n].type = ret.type
    BY <1>4, <2>1, ResolvesOne
  <2>3. Told(Top) /\ FrameOK(Top)
    BY <2>2, TopRight DEF TypesInv, TypesRight, FramesRight
  <2>4. Sound(n) /\ ret.type = Says(n)
    BY <2>1, <2>2, <2>3 DEF Told
  <2>5. Grounded(ret.type)
    <3>1. CASE Decl(n).kind = "function"
      <4>1. n \in Names /\ Plain(n) \in Types
        BY <2>2, DeclTyped, PlainTyped
      <4>2. ret.type.wraps # <<>>
        <5>1. ret.type = Wrap(Plain(n), "function") /\ "function" \in Wraps
          BY <2>4, <3>1 DEF Says, Wraps
        <5> QED  BY <4>1, <5>1, WrapType
      <4> QED  BY <4>2 DEF Grounded
    <3>2. CASE Decl(n).kind # "function"
      <4>1. Settled(Origin(n)) /\ ret.type = Meaning(Origin(n))
        BY <2>4, <3>2 DEF Sound, Says
      <4>2. Origin(n) \in Types
        <5>1. CASE Decl(n).init # None
          BY <2>2, <5>1, DeclTyped, PlainTyped DEF Origin
        <5>2. CASE Decl(n).init = None
          BY <2>2, <3>2, <5>2, DeclTyped DEF Origin, Decls, Kinds
        <5> QED  BY <5>1, <5>2
      <4> QED  BY <4>1, <4>2, GroundedMeaning
    <3> QED  BY <3>1, <3>2
  <2> QED  BY <1>1, <1>2, <2>2, <2>5 DEF EntriesGrounded
<1> QED  BY <1>3, <1>4

LEMMA AnalysisSizes ==
  ASSUME Inv, TypesInv, SizesInv, Next, phase = "analyze"
  PROVE  SizesInv'
<1> SUFFICES ASSUME errors' = {}, asserts' PROVE SizesInv'
  BY DEF SizesInv
<1>1. Keeps /\ phase' # "register"
  BY KeepsStep, StaysAnalyzed
<1>2. errors = {} /\ asserts /\ program' = program
  BY <1>1 DEF Keeps, input
<1>3. /\ EntriesGrounded
      /\ \A k \in Cardinality(Completed) .. Cardinality(Names) : SizedBy(LayingOut(program)[k])
  BY <1>2 DEF SizesInv, EntriesGrounded
<1>4. EntriesGrounded'
  BY <1>1, <1>2, <1>3, EntriesGroundedStep
<1>5. Inv'
  BY NextInv
<1>6. /\ Completed \subseteq Names /\ IsFiniteSet(Completed)
      /\ Cardinality(Completed) \in Nat /\ Cardinality(Names) \in Nat
  BY CompletedFinite
<1>7. program \in Seq(Decls)
  BY DEF Inv, TypeOK
<1>8. ASSUME NEW sizes \in [Names -> Nat], SizedBy(sizes),
             \A n \in Completed' : aggregates'[n].size = sizes[n]
      PROVE  SizedBy(sizes)'
  <2>1. \A i \in DOMAIN stack' : FrameSized(sizes, stack[i])'
    BY <1>1, <1>2, <1>3, <1>8, FramesSizedStep
  <2>2. \A t \in DOMAIN arrays' : arrays'[t] = SizeBy(sizes, t)
    BY <1>2, <1>3, <1>8, ArraysSized
  <2> QED  BY <1>8, <2>1, <2>2 DEF SizedBy
<1>9. ASSUME NEW k \in Cardinality(Completed') .. Cardinality(Names)
      PROVE  SizedBy(LayingOut(program)[k])'
  <2>1. PICK sizes : sizes = LayingOut(program)[k]
    OBVIOUS
  <2>2. CASE ~CompleteReturn
    <3>1. Completed' = Completed
      BY <2>2, CompletedSame
    <3>2. SizedBy(sizes) /\ k \in 0 .. Cardinality(Names)
      BY <1>3, <1>6, <2>1, <3>1
    <3>3. sizes \in [Names -> Nat]
      BY <1>7, <2>1, <3>2, LayingOutUnfolds
    <3>4. \A n \in Completed' : aggregates'[n].size = sizes[n]
      BY <1>1, <3>1, <3>2 DEF SizedBy, Keeps
    <3> QED  BY <1>2, <1>8, <2>1, <3>2, <3>3, <3>4
  <2>3. CASE CompleteReturn
    <3>1. Top.name \notin Completed /\ Completed' = Completed \cup {Top.name}
      BY <2>3, CompletesOne
    <3>2. Cardinality(Completed') = Cardinality(Completed) + 1
      BY <1>6, <3>1, FS_AddElement
    <3>3. /\ k \in 1 .. Cardinality(Names) /\ k \in 0 .. Cardinality(Names)
          /\ k - 1 \in Cardinality(Completed) .. Cardinality(Names)
          /\ k \in Cardinality(Completed) .. Cardinality(Names)
      BY <1>6, <3>2
    <3>4. SizedBy(sizes) /\ SizedBy(LayingOut(program)[k - 1])
      BY <1>3, <2>1, <3>3
    <3>5. sizes \in [Names -> Nat]
      BY <1>7, <2>1, <3>3, LayingOutUnfolds
    <3>6. aggregates'[Top.name].size = sizes[Top.name]
      BY <1>2, <2>1, <2>3, <3>3, <3>4, CompleteReturnSized
    <3>7. \A n \in Completed : aggregates'[n].size = sizes[n]
      BY <1>1, <3>4 DEF SizedBy, Keeps
    <3> QED  BY <1>2, <1>8, <2>1, <3>1, <3>4, <3>5, <3>6, <3>7
  <2> QED  BY <2>2, <2>3
<1> QED  BY <1>1, <1>2, <1>4, <1>9 DEF SizesInv, EntriesGrounded

LEMMA RegisterSizes ==
  ASSUME Inv, SizesInv, sema_register
  PROVE  SizesInv'
<1> SUFFICES ASSUME errors' = {}, asserts' PROVE SizesInv'
  BY DEF SizesInv
<1>1. /\ phase = "register" /\ phase' = "register" /\ errors = {} /\ asserts
      /\ arrays' = arrays
  BY DEF sema_register, input
<1>2. Completed = {} /\ DOMAIN arrays = {}
  BY <1>1 DEF SizesInv
<1>3. PICK n : \/ aggregates' = aggregates
               \/ aggregates' = With(aggregates, n,
                    [is_complete |-> FALSE, is_resolving |-> FALSE, size |-> 0])
  BY DEF sema_register
<1>4. Completed' = {}
  BY <1>2, <1>3 DEF Completed, With
<1> QED  BY <1>1, <1>2, <1>4 DEF SizesInv

LEMMA RegisteredSizes ==
  ASSUME Inv, TypesInv, SizesInv, Registered
  PROVE  SizesInv'
<1> SUFFICES ASSUME errors' = {}, asserts' PROVE SizesInv'
  BY DEF SizesInv
<1>1. /\ phase = "register" /\ phase' = "analyze" /\ errors = {} /\ asserts
      /\ UNCHANGED <<program, entries, aggregates, arrays, stack>> /\ stack = <<>>
  BY DEF Registered, input, scopes, global, local, Inv, Started
<1>2. Completed = {} /\ DOMAIN arrays = {}
  BY <1>1 DEF SizesInv
<1>3. Inv'
  BY NextInv DEF Next
<1>4. \A n \in Resolved : Decl(n).kind = "aggregate" /\ entries[n].type = Plain(n)
  BY <1>1 DEF TypesInv, TypesRight
<1>5. \A n \in Resolved : n \in DOMAIN aggregates
  <2> TAKE n \in Resolved
  <2>1. PICK i : i = entries[n].node
    OBVIOUS
  <2>2. n \in DOMAIN entries /\ i \in DOMAIN program /\ program[i] = Decl(n)
        /\ program[i].name = n
    BY <2>1, DeclTyped DEF Resolved, Inv, TypeOK, Decl
  <2>3. program[i].kind = "aggregate"
    BY <1>4, <2>2
  <2> QED  BY <1>1, <1>3, <2>2, <2>3 DEF Inv, TypeOK
<1>6. \A n \in Resolved : Grounded(entries[n].type)
  <2> TAKE n \in Resolved
  <2>1. entries[n].type = Plain(n) /\ n \in DOMAIN aggregates
    BY <1>4, <1>5
  <2>2. Plain(n).base = n
    BY DEF Plain
  <2> QED  BY <2>1, <2>2 DEF Grounded
<1>7. \A sizes : SizedBy(sizes)'
  <2>1. Completed' = {} /\ DOMAIN arrays' = {} /\ DOMAIN stack' = {}
    BY <1>1, <1>2 DEF Completed
  <2> QED  BY <2>1 DEF SizedBy
<1>8. Resolved' = Resolved /\ \A t : Grounded(t)' <=> Grounded(t)
  BY <1>1 DEF Resolved, Grounded
<1> QED  BY <1>1, <1>6, <1>7, <1>8 DEF SizesInv

LEMMA InitSizes == Init => SizesInv
BY DEF Init, SizesInv, Completed

LEMMA StutterSizes == SizesInv /\ UNCHANGED vars => SizesInv'
<1> SUFFICES ASSUME SizesInv, UNCHANGED vars PROVE SizesInv'
  OBVIOUS
<1>1. UNCHANGED <<program, asserts, phase, entries, aggregates, arrays, stack, errors>>
  BY DEF vars, input, scopes, global, local
<1>2. Resolved' = Resolved /\ Completed' = Completed /\ \A n : Decl(n)' = Decl(n)
  BY <1>1 DEF Resolved, Completed, Decl
<1>3. /\ \A t : Grounded(t)' <=> Grounded(t)
      /\ \A sizes, f : FrameSized(sizes, f)' <=> FrameSized(sizes, f)
  BY <1>1, <1>2 DEF Grounded, FrameSized
<1>4. \A sizes : SizedBy(sizes)' <=> SizedBy(sizes)
  BY <1>1, <1>2, <1>3 DEF SizedBy
<1> QED  BY <1>1, <1>2, <1>3, <1>4 DEF SizesInv

LEMMA NextSizes == Inv /\ TypesInv /\ SizesInv /\ [Next]_vars => SizesInv'
<1> SUFFICES ASSUME Inv, TypesInv, SizesInv, Next PROVE SizesInv'
  BY StutterSizes
<1> QED  BY AnalysisOrRegister, AnalysisSizes, RegisterSizes, RegisteredSizes

LEMMA SizesAlways == Spec => [](Clear => SizesInv)
<1>1. Init => (Clear => SizesInv)
  BY InitSizes
<1>2. Inv /\ (Clear => TypesInv) /\ (Clear => SizesInv) /\ [Next]_vars => (Clear => SizesInv)'
  BY NextSizes, ClearStays
<1> QED  BY <1>1, <1>2, InvAlways, TypesAlways, PTL DEF Spec

\* Without an error, in a build with assert(), the size sema.c remembers of an
\* aggregate and of an array type is the one that laying out the declarations
\* from their sizes up gives: none was read before it was known.  Programs with
\* a parameter that takes a name used elsewhere are left out.
THEOREM SizesAreExact == Spec => []SizesExact
<1>1. Inv /\ (Clear => SizesInv) => SizesExact
  <2> SUFFICES ASSUME Inv, SizesInv, phase \in Ends, errors = {}, asserts PROVE SizesExact
    BY DEF SizesExact, Clear
  <2>1. Cardinality(Names) \in Cardinality(Completed) .. Cardinality(Names)
    BY CompletedFinite
  <2>2. SizedBy(Sizes(program))
    BY <2>1 DEF SizesInv, Ends, Sizes
  <2> QED  BY <2>2 DEF SizesExact, SizedBy, Completed
<1> QED  BY <1>1, InvAlways, SizesAlways, PTL

-----------------------------------------------------------------------------
(* Everything that is needed *)

\* The nodes that can be needed: of two names more, a builtin's and that of no type.
Nodes == ({"name"} \X (Names \cup {Builtin, None})) \cup ({"layout"} \X Names)

LEMMA NodesCount ==
  /\ IsFiniteSet(Nodes) /\ Cardinality(Nodes) = 2 * Cardinality(Names) + 2
  /\ Steps \in Nat /\ Cardinality(Nodes) = Steps + 1
<1>1. PICK R, S : R = Names \cup {Builtin} /\ S = R \cup {None}
  OBVIOUS
<1>0. S = Names \cup {Builtin, None}
  BY <1>1
<1>2. /\ IsFiniteSet(Names) /\ IsFiniteSet(S) /\ Cardinality(S) = Cardinality(Names) + 2
      /\ Cardinality(Names) \in Nat
  <2>1. IsFiniteSet(Names) /\ Cardinality(Names) \in Nat
    BY NamesAssumption, NamesCount
  <2>2. IsFiniteSet(R) /\ Cardinality(R) = Cardinality(Names) + 1
    BY <1>1, <2>1, NamesAssumption, FS_AddElement
  <2>3. None \notin R
    BY <1>1, NamesAssumption
  <2>4. IsFiniteSet(S) /\ Cardinality(S) = Cardinality(R) + 1
    BY <1>1, <2>2, <2>3, FS_AddElement
  <2> QED  BY <2>1, <2>2, <2>4
<1>3. PICK a, b : a = {"name"} \X S /\ b = {"layout"} \X Names
  OBVIOUS
<1>4. /\ IsFiniteSet({"name"}) /\ Cardinality({"name"}) = 1
      /\ IsFiniteSet({"layout"}) /\ Cardinality({"layout"}) = 1
  BY FS_Singleton
<1>5. /\ IsFiniteSet(a) /\ Cardinality(a) = Cardinality(Names) + 2
      /\ IsFiniteSet(b) /\ Cardinality(b) = Cardinality(Names)
  <2>1. IsFiniteSet(a) /\ Cardinality(a) = 1 * Cardinality(S)
    BY <1>2, <1>3, <1>4, FS_Product
  <2>2. IsFiniteSet(b) /\ Cardinality(b) = 1 * Cardinality(Names)
    BY <1>2, <1>3, <1>4, FS_Product
  <2> QED  BY <1>2, <2>1, <2>2
<1>6. a \cap b = {}
  <2>1. \A x \in a : x[1] = "name"
    BY <1>3
  <2>2. \A x \in b : x[1] = "layout"
    BY <1>3
  <2> QED  BY <2>1, <2>2
<1>7. /\ IsFiniteSet(a \cup b)
      /\ Cardinality(a \cup b) = Cardinality(a) + Cardinality(b) - Cardinality(a \cap b)
  BY <1>5, FS_Union
<1>8. Cardinality(a \cap b) = 0
  BY <1>6, FS_EmptySet
<1>9. Nodes = a \cup b
  BY <1>0, <1>3 DEF Nodes
<1> QED  BY <1>2, <1>5, <1>7, <1>8, <1>9 DEF Steps

LEMMA LayoutsInNodes ==
  ASSUME NEW D, NEW ts
  PROVE  LayoutsIn(D, ts) \subseteq {"layout"} \X Names
<1>1. \A t : Contains(t) \subseteq Names
  BY DEF Contains
<1> QED  BY <1>1 DEF LayoutsIn

LEMMA NamesInNodes ==
  ASSUME NEW ts \in Seq(Types)
  PROVE  NamesIn(ts) \subseteq {"name"} \X (Names \cup {Builtin, None})
<1>1. \A t \in ElementsOf(ts) : t \in Types
  BY ElementOfSeq, LenProperties DEF ElementsOf
<1>2. \A t \in ElementsOf(ts) : t.base # Builtin => t.base \in Names \cup {Builtin, None}
  BY <1>1 DEF Types
<1> QED  BY <1>2 DEF NamesIn

LEMMA NeedsTyped ==
  ASSUME NEW p \in Seq(Decls), NEW D, NEW node
  PROVE  Needs(p, D, node) \subseteq Nodes
<1>1. CASE node[2] \notin DeclaredIn(p)
  BY <1>1 DEF Needs
<1>2. CASE node[2] \in DeclaredIn(p)
  <2>1. PICK d : d = DeclOf(p, node[2])
    OBVIOUS
  <2>2. d.types \in Seq(Types) /\ d.init \in Names \cup {Builtin, None}
    BY <1>2, <2>1, DeclOfTyped
  <2>3. NamesIn(d.types) \subseteq Nodes /\ LayoutsIn(D, d.types) \subseteq Nodes
    BY <2>2, NamesInNodes, LayoutsInNodes DEF Nodes
  <2>4. d.init # None => <<"name", d.init>> \in Nodes
    BY <2>2 DEF Nodes
  <2>5. Needs(p, D, node) =
          IF node[1] = "layout" THEN NamesIn(d.types) \cup LayoutsIn(D, d.types)
          ELSE IF d.kind = "aggregate" THEN {}
          ELSE IF d.init # None
            THEN {<<"name", d.init>>}
                   \cup {<<"layout", n>> : n \in {d.init} \cap AggregatesIn(p)}
          ELSE NamesIn(d.types)
                 \cup (IF d.kind = "variable" THEN LayoutsIn(D, d.types) ELSE {})
    BY <1>2, <2>1 DEF Needs
  <2>6. {<<"layout", n>> : n \in {d.init} \cap AggregatesIn(p)} \subseteq Nodes
    <3>1. \A i \in DOMAIN p : p[i].name \in Names
      BY ElementOfSeq, LenProperties DEF Decls
    <3>2. AggregatesIn(p) \subseteq Names
      BY <3>1 DEF AggregatesIn
    <3> QED  BY <3>2 DEF Nodes
  <2> QED  BY <2>3, <2>4, <2>5, <2>6
<1> QED  BY <1>1, <1>2

LEMMA NeededByTyped ==
  ASSUME NEW p \in Seq(Decls), NEW D, NEW S
  PROVE  NeededBy(p, D, S) \in SUBSET Nodes
BY NeedsTyped DEF NeededBy

LEMMA ClosureUnfolds ==
  ASSUME NEW p \in Seq(Decls), NEW D, NEW S
  PROVE  /\ Closure(p, D, S)[0] = NeededBy(p, D, S)
         /\ \A k \in 1 .. Steps :
              Closure(p, D, S)[k] =
                Closure(p, D, S)[k - 1] \cup NeededBy(p, D, Closure(p, D, S)[k - 1])
         /\ \A k \in 0 .. Steps : Closure(p, D, S)[k] \in SUBSET Nodes
<1> DEFINE N == Steps
           V == SUBSET Nodes
           first == NeededBy(p, D, S)
           next1(B) == B \cup NeededBy(p, D, B)
           step == [x \in (1 .. N) \X V |-> next1(x[2])]
           Solves(f) == f = [k \in 0 .. N |-> IF k = 0 THEN first ELSE next1(f[k - 1])]
<1>1. N \in Nat /\ first \in V
  BY NodesCount, NeededByTyped
<1>2. \A B \in V : next1(B) \in V
  BY NeededByTyped
<1> HIDE DEF next1, V
<1>3. KeepsTo(V, step, N)
  BY <1>2 DEF KeepsTo
<1>4. \A k \in 1 .. N : \A B \in V : step[<<k, B>>] = next1(B)
  OBVIOUS
<1>5. PICK f \in [0 .. N -> V] : f[0] = first /\ \A k \in 1 .. N : f[k] = step[<<k, f[k - 1]>>]
  <2> HIDE DEF N, first, step
  <2> QED  BY <1>1, <1>3, Iterates DEF Iterated
<1> HIDE DEF step, first
<1>6. \A k \in 1 .. N : f[k] = next1(f[k - 1])
  <2> TAKE k \in 1 .. N
  <2>1. k - 1 \in 0 .. N
    BY <1>1
  <2>2. f[k - 1] \in V
    BY <2>1
  <2> QED  BY <1>4, <1>5, <2>2
<1>7. Solves(f)
  <2>1. f = [k \in 0 .. N |-> f[k]]
    OBVIOUS
  <2>2. \A k \in 0 .. N : f[k] = IF k = 0 THEN first ELSE next1(f[k - 1])
    BY <1>5, <1>6
  <2> QED  BY <2>1, <2>2
<1>8. Closure(p, D, S) = CHOOSE g : Solves(g)
  BY DEF Closure, first, next1
<1>9. Solves(Closure(p, D, S))
  BY <1>7, <1>8
<1>10. PICK g : g = Closure(p, D, S)
  OBVIOUS
<1>11. g[0] = first /\ \A k \in 1 .. N : g[k] = next1(g[k - 1])
  <2>1. g = [k \in 0 .. N |-> IF k = 0 THEN first ELSE next1(g[k - 1])]
    BY <1>9, <1>10
  <2> QED  BY <1>1, <2>1
<1>12. \A k \in 0 .. N : g[k] \in V
  <2> DEFINE T == {k \in 0 .. N : g[k] \in V}
  <2>1. 0 \in T
    BY <1>1, <1>11
  <2>2. ASSUME NEW k \in 1 .. N, k - 1 \in T PROVE k \in T
    <3>1. g[k] \in V
      BY <1>2, <1>11, <2>2
    <3>2. k \in 0 .. N
      BY <1>1
    <3> QED  BY <3>1, <3>2
  <2>3. \A k \in 0 .. N : k \in T
    <3> HIDE DEF T, N
    <3> QED  BY <1>1, <2>1, <2>2, Upwards
  <2> QED  BY <2>3
<1> QED  BY <1>10, <1>11, <1>12 DEF first, next1, V

LEMMA NeededByGrows ==
  ASSUME NEW p, NEW D, NEW S, NEW T, S \subseteq T
  PROVE  NeededBy(p, D, S) \subseteq NeededBy(p, D, T)
BY DEF NeededBy

\* What is needed is the least set that has what is needed by its own members.
LEMMA NeededLeast ==
  ASSUME NEW p \in Seq(Decls), NEW D, NEW S, NEW V,
         NeededBy(p, D, S) \subseteq V, NeededBy(p, D, V) \subseteq V
  PROVE  Needed(p, D, S) \subseteq V
<1> DEFINE N == Steps
<1>1. N \in Nat
  BY NodesCount
<1>2. PICK C : C = Closure(p, D, S)
  OBVIOUS
<1>3. /\ C[0] = NeededBy(p, D, S)
      /\ \A k \in 1 .. N : C[k] = C[k - 1] \cup NeededBy(p, D, C[k - 1])
  BY <1>2, ClosureUnfolds
<1> DEFINE T == {k \in 0 .. N : C[k] \subseteq V}
<1>4. 0 \in T
  BY <1>1, <1>3
<1>5. ASSUME NEW k \in 1 .. N, k - 1 \in T PROVE k \in T
  <2>1. k \in 0 .. N /\ C[k - 1] \subseteq V
    BY <1>1, <1>5
  <2>2. NeededBy(p, D, C[k - 1]) \subseteq V
    BY <2>1, NeededByGrows
  <2> QED  BY <1>3, <2>1, <2>2
<1>6. N \in T
  <2>1. \A k \in 0 .. N : k \in T
    <3> HIDE DEF T, N
    <3> QED  BY <1>1, <1>4, <1>5, Upwards
  <2> QED  BY <1>1, <2>1
<1> QED  BY <1>2, <1>6 DEF Needed

\* The closure has grown to its end: each step but the last adds a node.
LEMMA NeededClosed ==
  ASSUME NEW p \in Seq(Decls), NEW D, NEW S
  PROVE  /\ NeededBy(p, D, S) \subseteq Needed(p, D, S)
         /\ NeededBy(p, D, Needed(p, D, S)) \subseteq Needed(p, D, S)
<1> DEFINE N == Steps
<1>1. N \in Nat
  BY NodesCount
<1>2. PICK C : C = Closure(p, D, S)
  OBVIOUS
<1>3. /\ C[0] = NeededBy(p, D, S)
      /\ \A k \in 1 .. N : C[k] = C[k - 1] \cup NeededBy(p, D, C[k - 1])
      /\ \A k \in 0 .. N : C[k] \in SUBSET Nodes
  BY <1>2, ClosureUnfolds
<1>4. \A k \in 0 .. N : IsFiniteSet(C[k]) /\ Cardinality(C[k]) \in Nat
  <2> TAKE k \in 0 .. N
  <2>1. IsFiniteSet(C[k])
    BY <1>3, NodesCount, FS_Subset
  <2> QED  BY <2>1, FS_CardinalityType
<1> DEFINE Full(k) == NeededBy(p, D, C[k]) \subseteq C[k]
           T == {k \in 0 .. N : C[0] \subseteq C[k] /\ (Full(k) \/ Cardinality(C[k]) >= k + 1)}
<1>5. 0 \in T
  <2>1. 0 \in 0 .. N
    BY <1>1
  <2>2. CASE C[0] = {}
    <3>1. NeededBy(p, D, {}) = {}
      BY DEF NeededBy
    <3> QED  BY <2>1, <2>2, <3>1
  <2>3. CASE C[0] # {}
    <3>1. Cardinality(C[0]) # 0
      BY <1>4, <2>1, <2>3, FS_EmptySet
    <3>2. Cardinality(C[0]) >= 0 + 1
      BY <1>4, <2>1, <3>1
    <3> QED  BY <2>1, <3>2
  <2> QED  BY <2>2, <2>3
<1>6. ASSUME NEW k \in 1 .. N, k - 1 \in T PROVE k \in T
  <2>1. k \in 0 .. N /\ k - 1 \in 0 .. N /\ k \in Nat
    BY <1>1
  <2>2. PICK A, B : A = C[k - 1] /\ B = C[k]
    OBVIOUS
  <2>3. A \subseteq B /\ C[0] \subseteq B
    BY <1>3, <1>6, <2>2
  <2>4. CASE Full(k - 1)
    <3>1. B = A
      BY <1>3, <2>2, <2>4
    <3> QED  BY <2>1, <2>2, <2>3, <2>4, <3>1
  <2>5. CASE ~Full(k - 1)
    <3>1. Cardinality(A) >= k /\ A # B
      BY <1>3, <1>6, <2>1, <2>2, <2>5
    <3>2. IsFiniteSet(B) /\ Cardinality(B) \in Nat /\ Cardinality(A) \in Nat
      BY <1>4, <2>1, <2>2
    <3>3. Cardinality(A) <= Cardinality(B) /\ Cardinality(A) # Cardinality(B)
      BY <2>3, <3>1, <3>2, FS_Subset
    <3>4. Cardinality(B) >= k + 1
      BY <2>1, <3>1, <3>2, <3>3
    <3> QED  BY <2>1, <2>2, <2>3, <3>4
  <2> QED  BY <2>4, <2>5
<1>7. N \in T
  <2>1. \A k \in 0 .. N : k \in T
    <3> HIDE DEF T, N
    <3> QED  BY <1>1, <1>5, <1>6, Upwards
  <2> QED  BY <1>1, <2>1
<1>8. Full(N)
  <2>1. CASE Cardinality(C[N]) >= N + 1
    <3>1. C[N] \in SUBSET Nodes /\ Cardinality(C[N]) \in Nat
      BY <1>1, <1>3, <1>4
    <3>2. Cardinality(C[N]) <= Cardinality(Nodes) /\ Cardinality(Nodes) = N + 1
      BY <3>1, NodesCount, FS_Subset
    <3>3. Cardinality(C[N]) = Cardinality(Nodes)
      BY <1>1, <2>1, <3>1, <3>2
    <3>4. C[N] = Nodes
      BY <3>1, <3>3, NodesCount, FS_Subset
    <3> QED  BY <3>4, NeededByTyped
  <2> QED  BY <1>7, <2>1
<1> QED  BY <1>2, <1>3, <1>7, <1>8 DEF Needed

-----------------------------------------------------------------------------
(* What is needed, and by which call *)

NeedsOf(node) == Needs(program, Denotations(program), node)
NeededFrom(nodes) == Needed(program, Denotations(program), nodes)
RootNodes == Roots(program, Denotations(program))
Wrong == Redefines(program) \/ Meaningless(program)

BuiltinNode == <<"name", Builtin>>

Analyzing(f) == f.call \in {"sema_analyze_variable", "sema_analyze_function"}

\* The meaning a call is after: of a name, or of a layout.
Node(g) ==
  CASE g.call = "sema_complete_aggregate" -> <<"layout", g.name>>
    [] g.call = "sema_resolve_type" -> <<"name", g.expr.base>>
    [] OTHER -> <<"name", g.name>>

\* The call g goes on to something that f needs, or is after the same as f.
Goes(f, g) ==
  \/ g.call \in {"sema_resolve_type", "sema_complete_aggregate"}
  \/ f.call = "sema_analyze_initializer"
Linked(f, g) ==
  /\ ~Analyzing(g)
  /\ f.at \in {"nested", "completed"} => g.call = "sema_complete_aggregate"
  /\ g.call = "sema_resolve_entry" =>
       f.call \in {"sema_resolve_type", "sema_analyze_initializer", "sema_analyze_variable"}
  /\ IF Goes(f, g)
       THEN \/ Node(g) \in NeedsOf(Node(f))
            \/ Analyzing(f) /\ Node(g) \in RootNodes
            \/ Node(g) = BuiltinNode
       ELSE Node(g) = Node(f)

\* What a call has been asked about, and where that leaves it.
Standing(f) ==
  /\ f.call \in {"sema_resolve_function_type", "sema_analyze_function"} =>
       Decl(f.name).kind = "function"
  /\ f.call = "sema_analyze_variable" => Decl(f.name).kind = "variable"
  /\ f.call = "sema_analyze_initializer" /\ f.at = "typed" => Decl(f.name).init = None
  /\ f.call = "sema_analyze_function" /\ f.at = "typed" => f.item < Len(Decl(f.name).types)

\* A layout is refused when it is in progress.
Refused(f) ==
  f.at \in {"nested", "completed"} /\ ~ret.ok =>
    \E m \in Names : /\ Working("sema_complete_aggregate", m)
                     /\ Analyzing(f) \/ <<"layout", m>> \in NeedsOf(Node(f))

\* The calls on the stack lead from a variable or function to what it needs.
Leading ==
  /\ Analyzing(stack[1]) /\ Node(stack[1]) \in RootNodes
  /\ \A i \in DOMAIN stack : Standing(stack[i])
  /\ \A i \in 1 .. Len(stack) - 1 : Linked(stack[i], stack[i + 1])

\* An error is reported in a wrong program only.
MistakesInv ==
  IF errors # {} THEN Wrong
  ELSE /\ phase = "register" => \A n \in DOMAIN entries : entries[n].node < next
       /\ phase = "analyze" /\ stack # <<>> => Leading /\ Refused(Top)

Good == Inv /\ TypesInv /\ errors = {} /\ phase = "analyze"

LEMMA GoodFacts ==
  ASSUME Good
  PROVE  /\ Inv /\ TypesInv /\ Clear /\ FramesRight /\ Placing /\ Owned /\ Denotes
         /\ errors = {} /\ phase = "analyze" /\ program \in Seq(Decls)
BY DEF Good, TypesInv, TypesRight, FramesRight, Inv, TypeOK

\* The needs of a declaration, by its kind.
LEMMA NeedsAre ==
  ASSUME Good, NEW n \in DOMAIN entries, NEW d, d = Decl(n),
         NEW D, D = Denotations(program)
  PROVE  /\ NeedsOf(<<"layout", n>>) = NamesIn(d.types) \cup LayoutsIn(D, d.types)
         /\ d.kind = "aggregate" => NeedsOf(<<"name", n>>) = {}
         /\ d.kind # "aggregate" /\ d.init # None =>
              NeedsOf(<<"name", n>>) =
                {<<"name", d.init>>}
                  \cup {<<"layout", m>> : m \in {d.init} \cap AggregatesIn(program)}
         /\ d.kind # "aggregate" /\ d.init = None =>
              NeedsOf(<<"name", n>>) =
                NamesIn(d.types)
                  \cup (IF d.kind = "variable" THEN LayoutsIn(D, d.types) ELSE {})
<1>1. n \in DeclaredIn(program) /\ DeclOf(program, n) = d
  BY GoodFacts, DeclIs
<1>2. <<"layout", n>>[1] = "layout" /\ <<"layout", n>>[2] = n
      /\ <<"name", n>>[1] = "name" /\ <<"name", n>>[2] = n
  OBVIOUS
<1>3. \A node : node[2] = n =>
        NeedsOf(node) =
          IF node[1] = "layout" THEN NamesIn(d.types) \cup LayoutsIn(D, d.types)
          ELSE IF d.kind = "aggregate" THEN {}
          ELSE IF d.init # None
            THEN {<<"name", d.init>>}
                   \cup {<<"layout", m>> : m \in {d.init} \cap AggregatesIn(program)}
          ELSE NamesIn(d.types)
                 \cup (IF d.kind = "variable" THEN LayoutsIn(D, d.types) ELSE {})
  BY <1>1 DEF NeedsOf, Needs
<1> QED  BY <1>2, <1>3

LEMMA NamesInHas ==
  ASSUME NEW ts, NEW i \in DOMAIN ts, NEW t, t = ts[i]
  PROVE  t.base = Builtin \/ <<"name", t.base>> \in NamesIn(ts)
BY DEF NamesIn, ElementsOf

\* Following names all the way gives the meaning of what is settled.
LEMMA MeaningDenoted ==
  ASSUME Good, NEW t, Settled(t)
  PROVE  Denoted(Denotations(program), t) = Meaning(t)
<1>1. Cardinality(Names) \in Cardinality(Resolved) .. Cardinality(Names)
  BY GoodFacts, ResolvedFinite
<1> QED  BY <1>1, GoodFacts, DenotedMeaning DEF Denotations

LEMMA LayoutsInHas ==
  ASSUME Good, NEW ts, NEW i \in DOMAIN ts, Settled(ts[i]), NEW m \in Contains(Meaning(ts[i]))
  PROVE  <<"layout", m>> \in LayoutsIn(Denotations(program), ts)
<1>1. PICK t : t = ts[i]
  OBVIOUS
<1>2. t \in ElementsOf(ts) /\ m \in Contains(Denoted(Denotations(program), t))
  BY <1>1, MeaningDenoted DEF ElementsOf
<1> QED  BY <1>2 DEF LayoutsIn

LEMMA HoldsAggregate ==
  ASSUME Inv, NEW t \in Types, IsAggregate(t) \/ SizedOfAggregate(t)
  PROVE  t.base \in Contains(t) /\ t.base \in DOMAIN aggregates
<1>1. t.base \in DOMAIN aggregates /\ t.base \in Names
  BY BaseOfElement DEF Inv, TypeOK
<1>2. PICK w : w = t.wraps
  OBVIOUS
<1>3. w \in Seq(Wraps)
  BY <1>2 DEF Types
<1>4. ElementsOf(w) \subseteq {"sized"}
  <2>1. CASE IsAggregate(t)
    BY <1>2, <2>1 DEF IsAggregate, ElementsOf
  <2>2. CASE SizedOfAggregate(t)
    <3>1. w # <<>> /\ w[Len(w)] = "sized" /\ SubSeq(w, 1, Len(w) - 1) = <<>>
      BY <1>2, <2>2 DEF SizedOfAggregate, LastWrap, Element, IsAggregate, Types
    <3>2. Len(w) \in Nat /\ Len(w) >= 1
      BY <1>3, <3>1, EmptySeq, LenProperties
    <3>3. Len(SubSeq(w, 1, Len(w) - 1)) = Len(w) - 1
      BY <1>3, <3>2, SubSeqProperties
    <3>4. Len(SubSeq(w, 1, Len(w) - 1)) = 0
      <4>1. PICK u : u = SubSeq(w, 1, Len(w) - 1)
        OBVIOUS
      <4>2. Len(u) = 0
        BY <3>1, <4>1
      <4> QED  BY <4>1, <4>2, Zenon
    <3>5. Len(w) = 1
      BY <3>2, <3>3, <3>4
    <3> QED  BY <1>3, <3>1, <3>5, LenProperties DEF ElementsOf
  <2> QED  BY <2>1, <2>2
<1> QED  BY <1>1, <1>2, <1>4 DEF Contains

-----------------------------------------------------------------------------
(* Where a step without errors leaves the calls *)

\* The innermost call, at another place.
Same(f, at) ==
  f.call = Top.call /\ f.name = Top.name /\ f.expr = Top.expr /\ f.at = at

LEMMA HereIs ==
  ASSUME Inv, stack # <<>>
  PROVE  /\ \A at : Same(Here(at), at) /\ Here(at).item = Top.item
         /\ \A at, t : Same([Here(at) EXCEPT !.type = t], at)
         /\ \A at, t, at2 : Same([[Here(at) EXCEPT !.type = t] EXCEPT !.at = at2], at2)
         /\ \A at : Same([Here(at) EXCEPT !.item = @ + 1], at)
         /\ \A t : Same([Top EXCEPT !.type = t, !.item = @ + 1], Top.at)
         /\ \A at, size : Same([Here(at) EXCEPT !.item = @ + 1, !.size = @ + Part(size)], at)
<1>1. PICK d : d = Top
  OBVIOUS
<1>2. d \in Frames
  BY <1>1, TopFacts
<1> QED  BY <1>1, <1>2 DEF Same, Here, Frames

LEMMA NewCall ==
  ASSUME NEW call, NEW n, NEW t, NEW g, g = Frame(call, n, t)
  PROVE  g.call = call /\ g.name = n /\ g.expr = t /\ g.at = "start"
BY DEF Frame

LEMMA StandingOn ==
  ASSUME stack # <<>>, Standing(Top), NEW f, NEW at, Same(f, at), at # "typed"
  PROVE  Standing(f)
BY DEF Standing, Same

\* A call g that the innermost call makes from f.
Calls2(f, g) ==
  /\ \E at : Same(f, at)
  /\ Standing(f) /\ Standing(g) /\ Linked(f, g)
  /\ g.at = "start"

Moves ==
  \/ stack' = <<>>
  \/ /\ stack # <<>> /\ stack' = Callers
     /\ Top.call = "sema_complete_aggregate" /\ ~ret'.ok =>
          Working("sema_complete_aggregate", Top.name) /\ ~Marked(Top)
  \/ /\ stack # <<>>
     /\ \E f, at : Same(f, at) /\ at \notin {"typed", "nested", "completed"} /\ Continue(f)
  \/ stack # <<>> /\ \E f, g : Calls2(f, g) /\ CallFrom(f, g)
  \/ \E g : /\ stack' = <<g>>
            /\ Analyzing(g) /\ Node(g) \in RootNodes /\ Standing(g) /\ g.at = "start"

\* What the name in the type expression t of a declaration is needed for.
LEMMA LinkName ==
  ASSUME Good, NEW f, NEW g, NEW ts, NEW i \in DOMAIN ts,
         g.call = "sema_resolve_type", g.expr = ts[i],
         NamesIn(ts) \subseteq NeedsOf(Node(f)), f.at \notin {"nested", "completed"}
  PROVE  Linked(f, g)
<1>1. Node(g) = <<"name", ts[i].base>> /\ Goes(f, g) /\ ~Analyzing(g)
  BY DEF Node, Goes, Analyzing
<1>2. Node(g) \in NeedsOf(Node(f)) \/ Node(g) = <<"name", Builtin>>
  BY <1>1, NamesInHas
<1> QED  BY <1>1, <1>2 DEF Linked, BuiltinNode

LEMMA LinkLayout ==
  ASSUME NEW f, NEW g, NEW m, g.call = "sema_complete_aggregate", g.name = m,
         \/ <<"layout", m>> \in NeedsOf(Node(f))
         \/ Analyzing(f) /\ <<"layout", m>> \in RootNodes
  PROVE  Linked(f, g)
<1>1. Node(g) = <<"layout", m>> /\ Goes(f, g) /\ ~Analyzing(g)
  BY DEF Node, Goes, Analyzing
<1> QED  BY <1>1 DEF Linked, BuiltinNode

LEMMA ContinueMoves ==
  ASSUME stack # <<>>, NEW f, NEW at, Same(f, at), at \notin {"typed", "nested", "completed"},
         Continue(f)
  PROVE  Moves
BY DEF Moves

LEMMA CallMoves ==
  ASSUME stack # <<>>, NEW f, NEW at, Same(f, at), Standing(f), NEW g, Standing(g), Linked(f, g),
         g.at = "start", CallFrom(f, g)
  PROVE  Moves
BY DEF Moves, Calls2

LEMMA ReturnMoves ==
  ASSUME stack # <<>>, stack' = Callers, Top.call # "sema_complete_aggregate" \/ ret'.ok
  PROVE  Moves
BY DEF Moves

LEMMA TypeMoves ==
  ASSUME Good, stack # <<>> => Standing(Top), errors' = {}, sema_resolve_type
  PROVE  Moves
<1>1. stack # <<>> /\ Top.call = "sema_resolve_type" /\ Inv /\ Standing(Top)
  BY GoodFacts DEF sema_resolve_type, ResolveTypeName, ResolveTypeNamed, ResolveTypeWrap,
     ResolveTypeReturn, At
<1>2. CASE ResolveTypeName
  <2>1. \/ Continue([Here("wrap") EXCEPT !.type = Plain(Builtin)])
        \/ Continue(Here("wrap"))
        \/ CallFrom(Here("named"), Frame("sema_resolve_entry", Top.expr.base, NoType))
    BY <1>2, GoodFacts, NameLookup
  <2>2. CASE CallFrom(Here("named"), Frame("sema_resolve_entry", Top.expr.base, NoType))
    <3>1. PICK f, g, n : f = Here("named") /\ g = Frame("sema_resolve_entry", n, NoType)
                         /\ n = Top.expr.base
      OBVIOUS
    <3>2. Same(f, "named") /\ g.call = "sema_resolve_entry" /\ g.name = n /\ g.at = "start"
      <4>1. Same(f, "named")
        BY <1>1, <3>1, HereIs
      <4> QED  BY <3>1, <4>1, NewCall
    <3>3. f.call = "sema_resolve_type" /\ f.at = "named" /\ f.expr.base = n
      BY <1>1, <3>1, <3>2 DEF Same
    <3>4. Node(f) = <<"name", n>> /\ Node(g) = <<"name", n>>
      BY <3>2, <3>3 DEF Node
    <3>5. Linked(f, g)
      BY <3>2, <3>3, <3>4 DEF Linked, Goes, Analyzing
    <3>6. Standing(f) /\ Standing(g)
      BY <3>2, <3>3 DEF Standing
    <3> QED  BY <1>1, <2>2, <3>1, <3>2, <3>5, <3>6, CallMoves
  <2>3. Same([Here("wrap") EXCEPT !.type = Plain(Builtin)], "wrap") /\ Same(Here("wrap"), "wrap")
    BY <1>1, HereIs
  <2>4. CASE Continue([Here("wrap") EXCEPT !.type = Plain(Builtin)])
    BY <1>1, <2>3, <2>4, ContinueMoves
  <2>5. CASE Continue(Here("wrap"))
    BY <1>1, <2>3, <2>5, ContinueMoves
  <2> QED  BY <2>1, <2>2, <2>4, <2>5
<1>3. CASE ResolveTypeNamed
  <2>1. PICK t : t = entries[Top.expr.base].type
    OBVIOUS
  <2>2. Continue([Here("wrap") EXCEPT !.type = t]) \/ Continue(Here("wrap"))
    BY <1>3, <2>1 DEF ResolveTypeNamed
  <2>3. Same([Here("wrap") EXCEPT !.type = t], "wrap") /\ Same(Here("wrap"), "wrap")
    BY <1>1, HereIs
  <2>4. CASE Continue([Here("wrap") EXCEPT !.type = t])
    BY <1>1, <2>3, <2>4, ContinueMoves
  <2>5. CASE Continue(Here("wrap"))
    BY <1>1, <2>3, <2>5, ContinueMoves
  <2> QED  BY <2>2, <2>4, <2>5
<1>4. CASE ResolveTypeWrap
  <2>1. /\ Top.at = "wrap"
        /\ \/ stack' = <<>>
           \/ Continue([Top EXCEPT !.type = Wrap(Top.type, Top.expr.wraps[Top.item]), !.item = @ + 1])
    BY <1>4 DEF ResolveTypeWrap, End, At
  <2>2. Same([Top EXCEPT !.type = Wrap(Top.type, Top.expr.wraps[Top.item]), !.item = @ + 1], "wrap")
    BY <1>1, <2>1, HereIs
  <2>3. CASE stack' = <<>>
    BY <2>3 DEF Moves
  <2> QED  BY <1>1, <2>1, <2>2, <2>3, ContinueMoves
<1>5. CASE ResolveTypeReturn
  BY <1>1, <1>5, ReturnMoves DEF ResolveTypeReturn, Return
<1> QED  BY <1>2, <1>3, <1>4, <1>5 DEF sema_resolve_type

LEMMA EntryMoves ==
  ASSUME Good, stack # <<>> => Standing(Top), errors' = {}, sema_resolve_entry
  PROVE  Moves
<1>1. stack # <<>> /\ Top.call = "sema_resolve_entry" /\ Inv /\ FramesRight
  BY GoodFacts DEF sema_resolve_entry, ResolveEntryMarked, ResolveEntryCall, ResolveEntryReturn, At
<1>2. CASE ResolveEntryCall
  <2>1. PICK n, d, f : n = Top.name /\ d = Decl(n) /\ f = Here("typed")
    OBVIOUS
  <2>2. n \in DOMAIN entries /\ d.name = n /\ d.kind \in Kinds
        /\ (d.kind = "alias" => d.init = None /\ Len(d.types) = 1)
    <3>1. n \in DOMAIN entries
      BY <1>1, <2>1, TopRight
    <3>2. d \in Decls /\ d.name = n
      BY <1>1, <2>1, <3>1, DeclTyped
    <3> QED  BY <3>1, <3>2 DEF Decls
  <2>3. Same(f, "typed") /\ f.call = "sema_resolve_entry" /\ f.name = n /\ f.at = "typed"
    BY <1>1, <2>1, HereIs DEF Same
  <2>4. Node(f) = <<"name", n>> /\ Standing(f)
    BY <2>3 DEF Node, Standing
  <2>5. \/ /\ d.kind = "alias"
           /\ CallFrom(f, Frame("sema_resolve_type", n, d.types[1]))
        \/ /\ d.kind = "variable"
           /\ CallFrom(f, Frame("sema_analyze_initializer", n, NoType))
        \/ /\ d.kind = "function"
           /\ CallFrom(f, Frame("sema_resolve_function_type", n, NoType))
    BY <1>2, <2>1, <2>2 DEF ResolveEntryCall
  <2>6. CASE d.kind = "alias" /\ CallFrom(f, Frame("sema_resolve_type", n, d.types[1]))
    <3>1. PICK g, ts : g = Frame("sema_resolve_type", n, d.types[1]) /\ ts = d.types
      OBVIOUS
    <3>2. g.call = "sema_resolve_type" /\ g.expr = ts[1] /\ g.at = "start"
      BY <3>1, NewCall
    <3>3. NamesIn(ts) \subseteq NeedsOf(Node(f))
      <4>1. NeedsOf(<<"name", n>>) = NamesIn(d.types) \cup {}
        BY <2>1, <2>2, <2>6, NeedsAre
      <4> QED  BY <2>4, <3>1, <4>1
    <3>4. 1 \in DOMAIN ts
      <4>1. ts \in Seq(Types)
        BY <1>1, <2>1, <2>2, <3>1, DeclTyped
      <4> QED  BY <2>2, <2>6, <3>1, <4>1, LenProperties
    <3>5. Linked(f, g)
      BY <2>3, <3>2, <3>3, <3>4, LinkName
    <3>6. Standing(g)
      BY <3>2 DEF Standing
    <3> QED  BY <1>1, <2>3, <2>4, <2>6, <3>1, <3>2, <3>5, <3>6, CallMoves
  <2>7. ASSUME NEW call \in {"sema_analyze_initializer", "sema_resolve_function_type"},
               call = "sema_resolve_function_type" => d.kind = "function",
               CallFrom(f, Frame(call, n, NoType))
        PROVE  Moves
    <3>1. PICK g : g = Frame(call, n, NoType)
      OBVIOUS
    <3>2. g.call = call /\ g.name = n /\ g.at = "start"
      BY <3>1, NewCall
    <3>3. Node(g) = <<"name", n>>
      BY <3>2 DEF Node
    <3>4. Linked(f, g)
      BY <2>3, <2>4, <3>2, <3>3 DEF Linked, Goes, Analyzing
    <3>5. Standing(g)
      BY <2>1, <2>7, <3>2 DEF Standing
    <3> QED  BY <1>1, <2>3, <2>4, <2>7, <3>1, <3>2, <3>4, <3>5, CallMoves
  <2> QED  BY <2>5, <2>6, <2>7
<1>3. CASE ResolveEntryMarked \/ ResolveEntryReturn
  BY <1>1, <1>3, ReturnMoves DEF ResolveEntryMarked, ResolveEntryReturn, Return
<1> QED  BY <1>2, <1>3 DEF sema_resolve_entry

LEMMA ItemsMoves ==
  ASSUME Inv, stack # <<>>, NEW size,
         Continue([Here("items") EXCEPT !.item = @ + 1, !.size = @ + Part(size)])
  PROVE  Moves
<1>1. PICK f : f = [Here("items") EXCEPT !.item = @ + 1, !.size = @ + Part(size)]
  OBVIOUS
<1>2. Same(f, "items")
  BY <1>1, HereIs
<1> QED  BY <1>1, <1>2, ContinueMoves

LEMMA LayoutMoves ==
  ASSUME Good, stack # <<>> => Standing(Top), errors' = {}, sema_complete_aggregate
  PROVE  Moves
<1>1. stack # <<>> /\ Top.call = "sema_complete_aggregate" /\ Inv /\ FramesRight
  BY GoodFacts DEF sema_complete_aggregate, CompleteMarked, CompleteStart, CompleteItem,
     CompleteItemTyped, CompleteItemNested, CompleteReturn, At
<1>2. PICK d, n, ts, D : d = Top /\ n = d.name /\ ts = Decl(n).types /\ D = Denotations(program)
  OBVIOUS
<1>3. /\ d \in Frames /\ n \in DOMAIN entries /\ ts \in Seq(Types) /\ n \in DOMAIN aggregates
      /\ Placed(d) /\ Told(d) /\ Answered(d)
      /\ NeedsOf(<<"layout", n>>) = NamesIn(ts) \cup LayoutsIn(D, ts)
  BY <1>1, <1>2, TopRight, DeclTyped, NeedsAre DEF FrameOK
<1>4. CASE CompleteMarked
  <2>1. /\ stack' = Callers /\ d.at = "start"
        /\ ret'.ok \/ (~ret'.ok /\ aggregates[n].is_resolving)
    BY <1>2, <1>4 DEF CompleteMarked, Return, At
  <2>2. aggregates[n].is_resolving => Working("sema_complete_aggregate", n)
    BY <1>1, <1>3, GoodFacts DEF Inv, Marks
  <2> QED  BY <1>1, <1>2, <2>1, <2>2 DEF Moves, Marked
<1>5. CASE CompleteStart
  BY <1>1, <1>5, HereIs, ContinueMoves DEF CompleteStart
<1>6. CASE CompleteItem
  <2>1. PICK f, g, i : f = Here("typed") /\ g = Frame("sema_resolve_type", n, ts[i]) /\ i = d.item
    OBVIOUS
  <2>2. CallFrom(f, g) /\ i <= Len(Decl(n).counts)
    BY <1>2, <1>6, <2>1 DEF CompleteItem
  <2>3. /\ Same(f, "typed") /\ f.call = "sema_complete_aggregate" /\ f.name = n /\ f.at = "typed"
        /\ g.call = "sema_resolve_type" /\ g.expr = ts[i] /\ g.at = "start"
    BY <1>1, <1>2, <2>1, HereIs, NewCall DEF Same
  <2>4. i \in DOMAIN ts
    <3>1. i \in Nat \ {0} /\ Len(ts) \in Nat /\ DOMAIN ts = 1 .. Len(ts)
      BY <1>3, <2>1, LenProperties DEF Frames
    <3>2. i \in 1 .. Len(ts)
      BY <1>1, <1>2, <1>3, <2>2, <3>1, DeclParts
    <3> QED  BY <3>1, <3>2
  <2>5. Node(f) = <<"layout", n>>
    BY <2>3 DEF Node
  <2>6. Linked(f, g)
    BY <1>3, <2>3, <2>4, <2>5, LinkName
  <2>7. Standing(f) /\ Standing(g)
    BY <2>3 DEF Standing
  <2> QED  BY <1>1, <2>2, <2>3, <2>6, <2>7, CallMoves
<1>7. CASE CompleteItemTyped
  <2>1. PICK t : t = ret.type
    OBVIOUS
  <2>2. \/ \E size : Continue([Here("items") EXCEPT !.item = @ + 1, !.size = @ + Part(size)])
        \/ /\ IsAggregate(t) \/ SizedOfAggregate(t)
           /\ CallFrom([Here("nested") EXCEPT !.type = t],
                       Frame("sema_complete_aggregate", t.base, NoType))
    BY <1>7, <2>1 DEF CompleteItemTyped, Add, Part
  <2>3. CASE /\ IsAggregate(t) \/ SizedOfAggregate(t)
             /\ CallFrom([Here("nested") EXCEPT !.type = t],
                         Frame("sema_complete_aggregate", t.base, NoType))
    <3>1. PICK f, g, m, i : /\ f = [Here("nested") EXCEPT !.type = t] /\ m = t.base /\ i = d.item
                            /\ g = Frame("sema_complete_aggregate", m, NoType)
      OBVIOUS
    <3>2. /\ Same(f, "nested") /\ f.call = "sema_complete_aggregate" /\ f.name = n
          /\ g.call = "sema_complete_aggregate" /\ g.name = m /\ g.at = "start"
      BY <1>1, <1>2, <3>1, HereIs, NewCall DEF Same
    <3>3. Node(f) = <<"layout", n>>
      BY <3>2 DEF Node
    <3>4. d.at = "typed"
      BY <1>2, <1>7 DEF CompleteItemTyped, At
    <3>5. Settled(ts[i]) /\ t = Meaning(ts[i]) /\ t \in Types
      BY <1>1, <1>2, <1>3, <2>1, <3>1, <3>4 DEF Told, Written, Inv, TypeOK
    <3>6. i \in DOMAIN ts
      BY <1>1, <1>2, <1>3, <3>1, <3>4, LenProperties DEF Placed
    <3>7. m \in Contains(t)
      BY <1>1, <2>3, <3>1, <3>5, HoldsAggregate
    <3>8. <<"layout", m>> \in NeedsOf(Node(f))
      BY <1>2, <1>3, <3>3, <3>5, <3>6, <3>7, LayoutsInHas
    <3>9. Linked(f, g)
      BY <3>2, <3>8, LinkLayout
    <3>10. Standing(f) /\ Standing(g)
      BY <3>2 DEF Standing
    <3> QED  BY <1>1, <2>3, <3>1, <3>2, <3>9, <3>10, CallMoves
  <2>4. ASSUME NEW size, Continue([Here("items") EXCEPT !.item = @ + 1, !.size = @ + Part(size)])
        PROVE  Moves
    BY <1>1, <2>4, ItemsMoves
  <2> QED  BY <2>2, <2>3, <2>4
<1>8. CASE CompleteItemNested
  <2>1. \E size : Continue([Here("items") EXCEPT !.item = @ + 1, !.size = @ + Part(size)])
    BY <1>8 DEF CompleteItemNested, Add, Part
  <2> QED  BY <1>1, <2>1, ItemsMoves
<1>9. CASE CompleteReturn
  BY <1>1, <1>9, ReturnMoves DEF CompleteReturn, Return
<1> QED  BY <1>4, <1>5, <1>6, <1>7, <1>8, <1>9 DEF sema_complete_aggregate

LEMMA InitializerMoves ==
  ASSUME Good, stack # <<>> => Standing(Top), errors' = {}, sema_analyze_initializer
  PROVE  Moves
<1>1. stack # <<>> /\ Top.call = "sema_analyze_initializer" /\ Inv /\ FramesRight /\ Standing(Top)
  BY GoodFacts DEF sema_analyze_initializer, InitializerStart, InitializerTyped,
     InitializerNamed, InitializerCompleted, InitializerReturn, At
<1>2. PICK d, n, e, ts, D : /\ d = Top /\ n = d.name /\ e = Decl(n) /\ ts = e.types
                            /\ D = Denotations(program)
  OBVIOUS
<1>3. /\ d \in Frames /\ n \in DOMAIN entries /\ ts \in Seq(Types) /\ e.name = n
      /\ Told(d) /\ Answered(d) /\ FrameOK(d) /\ e.kind = "variable"
      /\ e.init = None => 1 \in DOMAIN ts
  <2>1. d \in Frames /\ n \in DOMAIN entries /\ Told(d) /\ Answered(d) /\ FrameOK(d)
    BY <1>1, <1>2, TopRight
  <2>2. ts \in Seq(Types) /\ e.name = n /\ e.kind = "variable"
    BY <1>1, <1>2, <2>1, DeclTyped DEF FrameOK
  <2>3. e.init = None => Len(ts) = 1
    BY <1>1, <1>2, <2>1, <2>2, DeclTyped
  <2>4. e.init = None => 1 \in DOMAIN ts
    BY <2>2, <2>3, LenProperties
  <2> QED  BY <2>1, <2>2, <2>4
<1>4. /\ e.init = None => NeedsOf(<<"name", n>>) = NamesIn(ts) \cup LayoutsIn(D, ts)
      /\ e.init # None =>
           NeedsOf(<<"name", n>>) =
             {<<"name", e.init>>} \cup {<<"layout", m>> : m \in {e.init} \cap AggregatesIn(program)}
  BY <1>2, <1>3, NeedsAre
<1>5. \A f, at : Same(f, at) =>
        /\ f.call = "sema_analyze_initializer" /\ f.name = n /\ f.at = at
        /\ Node(f) = <<"name", n>> /\ (at # "typed" => Standing(f))
  BY <1>1, <1>2 DEF Same, Node, Standing
<1>6. CASE InitializerStart
  <2>1. \/ e.init = None /\ CallFrom(Here("typed"), Frame("sema_resolve_type", n, ts[1]))
        \/ /\ e.init \in DOMAIN entries
           /\ CallFrom(Here("named"), Frame("sema_resolve_entry", e.init, NoType))
        \/ Continue(Here("return"))
        \/ stack' = <<>>
    BY <1>1, <1>2, <1>3, <1>6, GoodFacts, InitializerLookup DEF End
  <2>2. CASE e.init = None /\ CallFrom(Here("typed"), Frame("sema_resolve_type", n, ts[1]))
    <3>1. PICK f, g : f = Here("typed") /\ g = Frame("sema_resolve_type", n, ts[1])
      OBVIOUS
    <3>2. Same(f, "typed")
      BY <1>1, <3>1, HereIs
    <3>3. g.call = "sema_resolve_type" /\ g.expr = ts[1] /\ g.at = "start"
      BY <3>1, NewCall
    <3>4. NamesIn(ts) \subseteq NeedsOf(Node(f)) /\ f.at = "typed"
      BY <1>4, <1>5, <2>2, <3>2
    <3>5. Linked(f, g)
      BY <1>3, <2>2, <3>3, <3>4, LinkName
    <3>6. Standing(f) /\ Standing(g)
      BY <1>2, <1>5, <2>2, <3>2, <3>3 DEF Standing
    <3> QED  BY <1>1, <2>2, <3>1, <3>2, <3>3, <3>5, <3>6, CallMoves
  <2>3. CASE /\ e.init \in DOMAIN entries
             /\ CallFrom(Here("named"), Frame("sema_resolve_entry", e.init, NoType))
    <3>1. PICK f, g : f = Here("named") /\ g = Frame("sema_resolve_entry", e.init, NoType)
      OBVIOUS
    <3>2. Same(f, "named")
      BY <1>1, <3>1, HereIs
    <3>3. g.call = "sema_resolve_entry" /\ g.name = e.init /\ g.at = "start"
      BY <3>1, NewCall
    <3>4. e.init # None
      BY <1>1, <2>3, NamesAssumption DEF Inv, TypeOK
    <3>5. Node(g) \in NeedsOf(Node(f))
      BY <1>4, <1>5, <3>2, <3>3, <3>4 DEF Node
    <3>6. Linked(f, g)
      BY <1>5, <3>2, <3>3, <3>5 DEF Linked, Goes, Analyzing
    <3>7. Standing(f) /\ Standing(g)
      BY <1>5, <3>2, <3>3 DEF Standing
    <3> QED  BY <1>1, <2>3, <3>1, <3>2, <3>3, <3>6, <3>7, CallMoves
  <2>4. CASE Continue(Here("return"))
    BY <1>1, <2>4, HereIs, ContinueMoves
  <2>5. CASE stack' = <<>>
    BY <2>5 DEF Moves
  <2> QED  BY <2>1, <2>2, <2>3, <2>4, <2>5
<1>7. ASSUME NEW t, NEW m, <<"layout", m>> \in NeedsOf(<<"name", n>>),
             CallFrom([[Here("return") EXCEPT !.type = t] EXCEPT !.at = "completed"],
                      Frame("sema_complete_aggregate", m, NoType))
      PROVE  Moves
  <2>1. PICK f, g : /\ f = [[Here("return") EXCEPT !.type = t] EXCEPT !.at = "completed"]
                    /\ g = Frame("sema_complete_aggregate", m, NoType)
    OBVIOUS
  <2>2. Same(f, "completed")
    BY <1>1, <2>1, HereIs
  <2>3. g.call = "sema_complete_aggregate" /\ g.name = m /\ g.at = "start"
    BY <2>1, NewCall
  <2>4. Linked(f, g)
    BY <1>5, <1>7, <2>2, <2>3, LinkLayout
  <2>5. Standing(f) /\ Standing(g)
    BY <1>5, <2>2, <2>3 DEF Standing
  <2> QED  BY <1>1, <1>7, <2>1, <2>2, <2>3, <2>4, <2>5, CallMoves
<1>8. ASSUME NEW t, Continue([Here("return") EXCEPT !.type = t])
      PROVE  Moves
  <2>1. PICK f : f = [Here("return") EXCEPT !.type = t]
    OBVIOUS
  <2>2. Same(f, "return")
    BY <1>1, <2>1, HereIs
  <2> QED  BY <1>1, <1>8, <2>1, <2>2, ContinueMoves
<1>9. CASE InitializerTyped
  <2>1. PICK t : t = ret.type
    OBVIOUS
  <2>2. \/ stack' = <<>>
        \/ Continue([Here("return") EXCEPT !.type = t])
        \/ /\ IsAggregate(t)
           /\ CallFrom([[Here("return") EXCEPT !.type = t] EXCEPT !.at = "completed"],
                       Frame("sema_complete_aggregate", t.base, NoType))
    BY <1>9, <2>1 DEF InitializerTyped, End
  <2>3. CASE IsAggregate(t)
    <3>1. d.at = "typed" /\ e.init = None
      BY <1>1, <1>2, <1>9 DEF InitializerTyped, At, Standing
    <3>2. Settled(ts[1]) /\ t = Meaning(ts[1]) /\ t \in Types
      BY <1>1, <1>2, <1>3, <2>1, <3>1 DEF Told, Written, Origin, Inv, TypeOK
    <3>3. t.base \in Contains(t)
      BY <1>1, <2>3, <3>2, HoldsAggregate
    <3>4. <<"layout", t.base>> \in LayoutsIn(D, ts)
      BY <1>2, <1>3, <3>1, <3>2, <3>3, LayoutsInHas
    <3>5. <<"layout", t.base>> \in NeedsOf(<<"name", n>>)
      BY <1>4, <3>1, <3>4
    <3> QED  BY <1>7, <1>8, <2>2, <3>5 DEF Moves
  <2> QED  BY <1>8, <2>2, <2>3 DEF Moves
<1>10. CASE InitializerNamed
  <2>1. PICK m, t : m = e.init /\ t = entries[m].type
    OBVIOUS
  <2>2. \/ Continue(Here("return"))
        \/ Continue([Here("return") EXCEPT !.type = t])
        \/ /\ Decl(m).kind = "aggregate"
           /\ CallFrom([[Here("return") EXCEPT !.type = t] EXCEPT !.at = "completed"],
                       Frame("sema_complete_aggregate", m, NoType))
    BY <1>2, <1>10, <2>1 DEF InitializerNamed
  <2>3. CASE Decl(m).kind = "aggregate"
    <3>1. m \in DOMAIN entries /\ m # None
      BY <1>1, <1>2, <1>3, <1>10, <2>1, NamesAssumption
         DEF InitializerNamed, At, FrameOK, Inv, TypeOK
    <3>2. m \in AggregatesIn(program)
      <4>1. entries[m].node \in DOMAIN program /\ program[entries[m].node].name = m
        BY <1>1, <3>1 DEF Inv, TypeOK, Scoped
      <4> QED  BY <2>3, <4>1 DEF AggregatesIn, Decl
    <3>3. <<"layout", m>> \in NeedsOf(<<"name", n>>)
      BY <1>4, <2>1, <3>1, <3>2
    <3> QED  BY <1>1, <1>7, <1>8, <2>2, <3>3, HereIs, ContinueMoves
  <2> QED  BY <1>1, <1>8, <2>2, <2>3, HereIs, ContinueMoves
<1>11. CASE InitializerCompleted
  <2>1. Continue(Here("return")) \/ Continue([Here("return") EXCEPT !.type = NoType])
    BY <1>11 DEF InitializerCompleted
  <2> QED  BY <1>1, <1>8, <2>1, HereIs, ContinueMoves
<1>12. CASE InitializerReturn
  BY <1>1, <1>12, ReturnMoves DEF InitializerReturn, Return
<1> QED  BY <1>6, <1>9, <1>10, <1>11, <1>12 DEF sema_analyze_initializer

LEMMA ParameterMoves ==
  ASSUME Good, stack # <<>>, Standing(Top),
         Top.call \in {"sema_resolve_function_type", "sema_analyze_function"},
         Top.item <= Len(Decl(Top.name).types),
         Top.call = "sema_analyze_function" => Top.item < Len(Decl(Top.name).types),
         CallFrom(Here("typed"),
                  Frame("sema_resolve_type", Top.name, Decl(Top.name).types[Top.item]))
  PROVE  Moves
<1>1. Inv /\ FramesRight
  BY GoodFacts
<1>2. PICK d, n, e, ts, i : d = Top /\ n = d.name /\ e = Decl(n) /\ ts = e.types /\ i = d.item
  OBVIOUS
<1>3. d \in Frames /\ n \in DOMAIN entries /\ ts \in Seq(Types) /\ e.kind = "function" /\ e.init = None
  <2>1. d \in Frames /\ n \in DOMAIN entries
    BY <1>1, <1>2, TopRight
  <2>2. e \in Decls /\ ts \in Seq(Types) /\ e.kind = "function"
    BY <1>1, <1>2, <2>1, DeclTyped DEF Standing
  <2> QED  BY <2>1, <2>2 DEF Decls
<1>4. i \in DOMAIN ts
  <2>1. i \in Nat \ {0} /\ Len(ts) \in Nat /\ DOMAIN ts = 1 .. Len(ts) /\ i <= Len(ts)
    BY <1>2, <1>3, LenProperties DEF Frames
  <2> QED  BY <2>1
<1>5. PICK f, g : f = Here("typed") /\ g = Frame("sema_resolve_type", n, ts[i])
  OBVIOUS
<1>6. Same(f, "typed") /\ f.item = i
  BY <1>1, <1>2, <1>5, HereIs
<1>7. g.call = "sema_resolve_type" /\ g.expr = ts[i] /\ g.at = "start"
  BY <1>5, NewCall
<1>8. NeedsOf(<<"name", n>>) = NamesIn(ts) \cup {}
  BY <1>2, <1>3, NeedsAre
<1>9. Node(f) = <<"name", n>> /\ f.at = "typed"
  BY <1>2, <1>6 DEF Same, Node
<1>10. Linked(f, g)
  BY <1>4, <1>7, <1>8, <1>9, LinkName
<1>11. Standing(f) /\ Standing(g)
  BY <1>2, <1>3, <1>6, <1>7 DEF Standing, Same
<1> QED  BY <1>2, <1>5, <1>6, <1>7, <1>10, <1>11, CallMoves

LEMMA FunctionTypeMoves ==
  ASSUME Good, stack # <<>> => Standing(Top), errors' = {}, sema_resolve_function_type
  PROVE  Moves
<1>1. stack # <<>> /\ Top.call = "sema_resolve_function_type" /\ Inv /\ FramesRight /\ Standing(Top)
  BY GoodFacts DEF sema_resolve_function_type, FunctionTypeItem, FunctionTypeTyped,
     FunctionTypeReturn, At
<1>2. CASE FunctionTypeItem
  <2>1. CallFrom(Here("typed"), Frame("sema_resolve_type", Top.name, Decl(Top.name).types[Top.item]))
        /\ Top.item <= Len(Decl(Top.name).types)
    BY <1>2 DEF FunctionTypeItem
  <2> QED  BY <1>1, <2>1, ParameterMoves DEF Standing
<1>3. CASE FunctionTypeTyped
  <2>1. stack' = Callers \/ Continue([Here("start") EXCEPT !.item = @ + 1])
    BY <1>3 DEF FunctionTypeTyped, Return
  <2>2. PICK f : f = [Here("start") EXCEPT !.item = @ + 1]
    OBVIOUS
  <2>3. Same(f, "start")
    BY <1>1, <2>2, HereIs
  <2> QED  BY <1>1, <2>1, <2>2, <2>3, ContinueMoves, ReturnMoves
<1>4. CASE FunctionTypeReturn
  BY <1>1, <1>4, ReturnMoves DEF FunctionTypeReturn, Return
<1> QED  BY <1>2, <1>3, <1>4 DEF sema_resolve_function_type

\* The declaration of a name, as one of the program.
LEMMA DeclAt ==
  ASSUME Inv, NEW n \in DOMAIN entries
  PROVE  \E i \in DOMAIN program : program[i] = Decl(n) /\ program[i].name = n
BY DEF Inv, TypeOK, Scoped, Decl

LEMMA RootsHave ==
  ASSUME NEW i \in DOMAIN program, NEW d, d = program[i], NEW D, D = Denotations(program)
  PROVE  /\ d.kind = "variable" =>
              {<<"name", d.name>>} \cup LayoutsIn(D, <<Plain(d.name)>>) \subseteq RootNodes
         /\ d.kind = "function" =>
              {<<"name", d.name>>} \cup LayoutsIn(D, SubSeq(d.types, 1, Len(d.types) - 1))
                \subseteq RootNodes
BY DEF RootNodes, Roots

LEMMA DeclarationMoves ==
  ASSUME Good, AnalyzeDeclaration
  PROVE  Moves
<1>1. Inv /\ phase = "analyze" /\ stack = <<>> /\ next <= Len(program)
  BY GoodFacts DEF AnalyzeDeclaration
<1>2. PICK i, d : i = next /\ d = program[i]
  OBVIOUS
<1>3. i \in DOMAIN program
  BY <1>1, <1>2, LenProperties DEF Inv, TypeOK
<1>4. d.name \in DOMAIN entries /\ Decl(d.name) = d
  BY <1>1, <1>2, <1>3, GoodFacts DEF Placing, Decl, Inv, Started
<1>5. ASSUME NEW call \in {"sema_analyze_variable", "sema_analyze_function"},
             d.kind = IF call = "sema_analyze_variable" THEN "variable" ELSE "function",
             stack' = <<Frame(call, d.name, NoType)>>
      PROVE  Moves
  <2>1. PICK g : g = Frame(call, d.name, NoType)
    OBVIOUS
  <2>2. g.call = call /\ g.name = d.name /\ g.at = "start"
    BY <2>1, NewCall
  <2>3. Node(g) = <<"name", d.name>> /\ Analyzing(g) /\ Standing(g)
    BY <1>4, <1>5, <2>2 DEF Node, Analyzing, Standing
  <2>4. Node(g) \in RootNodes
    BY <1>2, <1>3, <1>5, <2>3, RootsHave
  <2> QED  BY <1>5, <2>1, <2>2, <2>3, <2>4 DEF Moves
<1>6. CASE stack' = stack
  BY <1>1, <1>6 DEF Moves
<1> QED  BY <1>2, <1>5, <1>6 DEF AnalyzeDeclaration

LEMMA VariableMoves ==
  ASSUME Good, stack # <<>> => Standing(Top), errors' = {}, sema_analyze_variable
  PROVE  Moves
<1>1. stack # <<>> /\ Top.call = "sema_analyze_variable" /\ Inv /\ FramesRight /\ Standing(Top)
  BY GoodFacts DEF sema_analyze_variable, AnalyzeVariableStart, AnalyzeVariableNamed,
     AnalyzeVariableCompleted, At
<1>2. PICK n : n = Top.name
  OBVIOUS
<1>3. n \in DOMAIN entries /\ Decl(n).kind = "variable" /\ Answered(Top)
  BY <1>1, <1>2, TopRight DEF Standing
<1>4. \A f, at : Same(f, at) =>
        f.call = "sema_analyze_variable" /\ f.name = n /\ f.at = at /\ Node(f) = <<"name", n>>
        /\ Analyzing(f) /\ Standing(f)
  BY <1>1, <1>2, <1>3 DEF Same, Node, Standing, Analyzing
<1>5. CASE AnalyzeVariableStart
  <2>1. PICK f, g : f = Here("named") /\ g = Frame("sema_resolve_entry", n, NoType)
    OBVIOUS
  <2>2. CallFrom(f, g)
    BY <1>1, <1>2, <1>5, <2>1, GoodFacts, VariableLookup
  <2>3. Same(f, "named")
    BY <1>1, <2>1, HereIs
  <2>4. g.call = "sema_resolve_entry" /\ g.name = n /\ g.at = "start"
    BY <2>1, NewCall
  <2>5. Node(g) = <<"name", n>> /\ Standing(g)
    BY <2>4 DEF Node, Standing
  <2>6. Linked(f, g)
    BY <1>4, <2>3, <2>4, <2>5 DEF Linked, Goes, Analyzing
  <2> QED  BY <1>1, <1>4, <2>2, <2>3, <2>4, <2>5, <2>6, CallMoves
<1>6. CASE AnalyzeVariableNamed
  <2>1. PICK t, m : t = entries[n].type /\ m = t.base
    OBVIOUS
  <2>2. \/ stack' = <<>> \/ stack' = Callers
        \/ /\ IsAggregate(t)
           /\ CallFrom(Here("completed"), Frame("sema_complete_aggregate", m, NoType))
    BY <1>2, <1>6, <2>1 DEF AnalyzeVariableNamed, End
  <2>3. CASE /\ IsAggregate(t)
             /\ CallFrom(Here("completed"), Frame("sema_complete_aggregate", m, NoType))
    <3>1. PICK f, g : f = Here("completed") /\ g = Frame("sema_complete_aggregate", m, NoType)
      OBVIOUS
    <3>2. Same(f, "completed")
      BY <1>1, <3>1, HereIs
    <3>3. g.call = "sema_complete_aggregate" /\ g.name = m /\ g.at = "start"
      BY <3>1, NewCall
    <3>4. n \in Resolved
      BY <1>1, <1>2, <1>3, <1>6, GoodFacts DEF AnalyzeVariableNamed, At, Answered, Resolved
    <3>5. PICK ts : ts = <<Plain(n)>>
      OBVIOUS
    <3>6. 1 \in DOMAIN ts /\ ts[1] = Plain(n)
      BY <3>5
    <3>7. Settled(ts[1]) /\ Meaning(ts[1]) = t
      <4>1. n # Builtin
        BY <1>1, <1>3, NamesAssumption DEF Inv, TypeOK
      <4> QED  BY <1>1, <2>1, <3>4, <3>6, <4>1, MeaningBase
    <3>8. m \in Contains(Meaning(ts[1]))
      <4>1. t \in Types
        BY <1>1, <1>3, <2>1 DEF Inv, TypeOK
      <4> QED  BY <1>1, <2>1, <2>3, <3>7, <4>1, HoldsAggregate
    <3>9. <<"layout", m>> \in LayoutsIn(Denotations(program), ts)
      BY <3>6, <3>7, <3>8, LayoutsInHas
    <3>10. <<"layout", m>> \in RootNodes
      BY <1>1, <1>3, <3>5, <3>9, DeclAt, RootsHave
    <3>11. Linked(f, g)
      BY <1>4, <3>2, <3>3, <3>10, LinkLayout
    <3>12. Standing(g)
      BY <3>3 DEF Standing
    <3> QED  BY <1>1, <1>4, <2>3, <3>1, <3>2, <3>3, <3>11, <3>12, CallMoves
  <2> QED  BY <1>1, <2>2, <2>3, ReturnMoves DEF Moves
<1>7. CASE AnalyzeVariableCompleted
  BY <1>1, <1>7, ReturnMoves DEF AnalyzeVariableCompleted
<1> QED  BY <1>5, <1>6, <1>7 DEF sema_analyze_variable

LEMMA FunctionMoves ==
  ASSUME Good, stack # <<>> => Standing(Top), errors' = {}, sema_analyze_function
  PROVE  Moves
<1>1. stack # <<>> /\ Top.call = "sema_analyze_function" /\ Inv /\ FramesRight /\ Standing(Top)
  BY GoodFacts DEF sema_analyze_function, AnalyzeFunctionStart, AnalyzeFunctionParameter,
     AnalyzeFunctionTyped, AnalyzeFunctionParameterTyped, AnalyzeFunctionCompleted,
     AnalyzeFunctionReturn, At
<1>2. PICK d, n, ts, i : d = Top /\ n = d.name /\ ts = Decl(n).types /\ i = d.item
  OBVIOUS
<1>3. /\ n \in DOMAIN entries /\ Decl(n).kind = "function" /\ Answered(d) /\ Told(d)
      /\ ts \in Seq(Types) /\ d \in Frames
  BY <1>1, <1>2, TopRight, DeclTyped DEF Standing
<1>4. \A f, at : Same(f, at) =>
        f.call = "sema_analyze_function" /\ f.name = n /\ f.at = at /\ Node(f) = <<"name", n>>
        /\ Analyzing(f) /\ (at # "typed" => Standing(f))
  BY <1>1, <1>2, <1>3 DEF Same, Node, Standing, Analyzing
<1>5. CASE AnalyzeFunctionStart
  <2>1. PICK f, g : f = Here("type") /\ g = Frame("sema_resolve_function_type", n, NoType)
    OBVIOUS
  <2>2. CallFrom(f, g)
    BY <1>2, <1>5, <2>1 DEF AnalyzeFunctionStart
  <2>3. Same(f, "type")
    BY <1>1, <2>1, HereIs
  <2>4. g.call = "sema_resolve_function_type" /\ g.name = n /\ g.at = "start"
    BY <2>1, NewCall
  <2>5. Node(g) = <<"name", n>> /\ Standing(g)
    BY <1>3, <2>4 DEF Node, Standing
  <2>6. Linked(f, g)
    BY <1>4, <2>3, <2>4, <2>5 DEF Linked, Goes, Analyzing
  <2> QED  BY <1>1, <1>4, <2>2, <2>3, <2>4, <2>5, <2>6, CallMoves
<1>0. Len(ts) = Len(Decl(n).params) + 1 /\ Len(Decl(n).params) \in Nat
  BY <1>1, <1>2, <1>3, DeclLengths
<1>6. CASE AnalyzeFunctionParameter
  <2>1. /\ Top.item <= Len(Decl(Top.name).params)
        /\ CallFrom(Here("typed"),
                    Frame("sema_resolve_type", Top.name, Decl(Top.name).types[Top.item]))
    BY <1>6 DEF AnalyzeFunctionParameter
  <2>2. Top.item < Len(Decl(Top.name).types) /\ Top.item <= Len(Decl(Top.name).types)
    <3>1. i \in Nat /\ i <= Len(Decl(n).params)
      BY <1>2, <1>3, <2>1 DEF Frames
    <3>2. i < Len(ts) /\ i <= Len(ts)
      BY <1>0, <3>1
    <3> QED  BY <1>2, <3>2
  <2> QED  BY <1>1, <2>1, <2>2, ParameterMoves
<1>7. CASE AnalyzeFunctionTyped
  <2>1. stack' = Callers \/ Continue(Here("parameters"))
    BY <1>7 DEF AnalyzeFunctionTyped
  <2> QED  BY <1>1, <2>1, HereIs, ContinueMoves, ReturnMoves
<1>8. ASSUME Continue([Here("parameters") EXCEPT !.item = @ + 1])
      PROVE  Moves
  <2>1. PICK f : f = [Here("parameters") EXCEPT !.item = @ + 1]
    OBVIOUS
  <2>2. Same(f, "parameters")
    BY <1>1, <2>1, HereIs
  <2> QED  BY <1>1, <1>8, <2>1, <2>2, ContinueMoves
<1>9. CASE AnalyzeFunctionParameterTyped
  <2>1. PICK t, m : t = ret.type /\ m = t.base
    OBVIOUS
  <2>2. \/ stack' = <<>> \/ Continue([Here("parameters") EXCEPT !.item = @ + 1])
        \/ /\ IsAggregate(t)
           /\ CallFrom([Here("completed") EXCEPT !.type = t],
                       Frame("sema_complete_aggregate", m, NoType))
    BY <1>9, <2>1 DEF AnalyzeFunctionParameterTyped, Put, End
  <2>3. CASE /\ IsAggregate(t)
             /\ CallFrom([Here("completed") EXCEPT !.type = t],
                         Frame("sema_complete_aggregate", m, NoType))
    <3>1. PICK f, g : /\ f = [Here("completed") EXCEPT !.type = t]
                      /\ g = Frame("sema_complete_aggregate", m, NoType)
      OBVIOUS
    <3>2. Same(f, "completed")
      BY <1>1, <3>1, HereIs
    <3>3. g.call = "sema_complete_aggregate" /\ g.name = m /\ g.at = "start"
      BY <3>1, NewCall
    <3>4. d.at = "typed" /\ i < Len(ts)
      BY <1>1, <1>2, <1>9 DEF AnalyzeFunctionParameterTyped, At, Standing
    <3>5. PICK s : s = SubSeq(ts, 1, Len(ts) - 1)
      OBVIOUS
    <3>6. i \in DOMAIN s /\ s[i] = ts[i]
      <4>1. i \in Nat \ {0} /\ Len(ts) \in Nat
        BY <1>2, <1>3, LenProperties DEF Frames
      <4>2. /\ s \in Seq(Types) /\ Len(s) = Len(ts) - 1
            /\ \A j \in 1 .. Len(ts) - 1 : s[j] = ts[j]
        BY <1>3, <3>4, <3>5, <4>1, SubSeqProperties
      <4>3. DOMAIN s = 1 .. Len(s)
        BY <4>2, LenProperties
      <4> QED  BY <3>4, <4>1, <4>2, <4>3
    <3>7. Settled(s[i]) /\ Meaning(s[i]) = t /\ t \in Types
      BY <1>1, <1>2, <1>3, <2>1, <3>4, <3>6 DEF Told, Written, Inv, TypeOK
    <3>8. m \in Contains(Meaning(s[i]))
      BY <1>1, <2>1, <2>3, <3>7, HoldsAggregate
    <3>9. <<"layout", m>> \in LayoutsIn(Denotations(program), s)
      BY <3>6, <3>7, <3>8, LayoutsInHas
    <3>10. <<"layout", m>> \in RootNodes
      BY <1>1, <1>2, <1>3, <3>5, <3>9, DeclAt, RootsHave
    <3>11. Linked(f, g)
      BY <1>4, <3>2, <3>3, <3>10, LinkLayout
    <3>12. Standing(f) /\ Standing(g)
      BY <1>4, <3>2, <3>3 DEF Standing
    <3> QED  BY <1>1, <2>3, <3>1, <3>2, <3>3, <3>11, <3>12, CallMoves
  <2> QED  BY <1>8, <2>2, <2>3 DEF Moves
<1>10. CASE AnalyzeFunctionCompleted
  <2>1. stack' = Callers \/ Continue([Here("parameters") EXCEPT !.item = @ + 1])
    BY <1>10 DEF AnalyzeFunctionCompleted, Put
  <2> QED  BY <1>1, <1>8, <2>1, ReturnMoves
<1>11. CASE AnalyzeFunctionReturn
  BY <1>1, <1>11, ReturnMoves DEF AnalyzeFunctionReturn
<1> QED  BY <1>5, <1>6, <1>7, <1>9, <1>10, <1>11 DEF sema_analyze_function

LEMMA AnalysisMoves ==
  ASSUME Good, stack # <<>> => Standing(Top), errors' = {}, Next
  PROVE  Moves
<1>1. CASE Analyzed
  BY <1>1 DEF Analyzed, Moves
<1>2. ~sema_register /\ ~Registered
  BY GoodFacts DEF sema_register, Registered
<1> QED  BY <1>1, <1>2, DeclarationMoves, TypeMoves, EntryMoves, LayoutMoves, InitializerMoves,
            FunctionTypeMoves, VariableMoves, FunctionMoves DEF Next

-----------------------------------------------------------------------------
(* The calls on the stack in a step without errors *)

LEMMA NeedsStay ==
  ASSUME Keeps
  PROVE  /\ RootNodes' = RootNodes /\ (Wrong' <=> Wrong)
         /\ \A node : NeedsOf(node)' = NeedsOf(node)
BY DEF Keeps, input, RootNodes, NeedsOf, Wrong

LEMMA StandingStays ==
  ASSUME Keeps, NEW f, f.name \in DOMAIN entries, Standing(f)
  PROVE  Standing(f)'
<1>1. Decl(f.name)' = Decl(f.name)
  BY KeepsDecl
<1> QED  BY <1>1 DEF Standing

LEMMA LinkedStays ==
  ASSUME Keeps, NEW f, NEW g, Linked(f, g)
  PROVE  Linked(f, g)'
BY NeedsStay DEF Linked

LEMMA SameLinked ==
  ASSUME NEW f, NEW at, Same(f, at)
  PROVE  /\ Node(f) = Node(Top) /\ (Analyzing(f) <=> Analyzing(Top))
         /\ \A c : Linked(c, Top) => Linked(c, f)
<1>1. Node(f) = Node(Top) /\ (Analyzing(f) <=> Analyzing(Top)) /\ f.call = Top.call
  BY DEF Same, Node, Analyzing
<1> QED  BY <1>1 DEF Linked, Goes

\* The stack s has f where the innermost call was, or g above it, or neither.
LEMMA LeadStep ==
  ASSUME Good, Inv', stack # <<>>, Leading, Keeps,
         NEW s, s = stack', NEW m \in Nat, DOMAIN s = 1 .. m, Len(s) = m, m >= 1,
         NEW k \in Nat, k = Len(stack), m >= k - 1, m <= k + 1,
         \A i \in 1 .. k - 1 : s[i] = stack[i],
         NEW f, NEW at, Same(f, at), Standing(f), m >= k => s[k] = f,
         NEW g, m = k + 1 => s[k + 1] = g /\ Standing(g) /\ Linked(f, g)
  PROVE  Leading'
<1>1. stack \in Seq(Frames) /\ Inv
  BY GoodFacts DEF Inv, TypeOK
<1>2. k >= 1 /\ DOMAIN stack = 1 .. k /\ Top = stack[k]
  BY <1>1, CallersFacts DEF Top
<1>3. /\ Node(f) = Node(Top) /\ (Analyzing(f) <=> Analyzing(Top))
      /\ \A c : Linked(c, Top) => Linked(c, f)
  BY SameLinked
<1>4. \A i \in 1 .. m : s[i].name \in DOMAIN entries
  BY DEF Inv, Calling, FrameOK, Keeps
<1>5. \A i \in 1 .. m : i \in 1 .. k - 1 \/ i = k \/ i = k + 1
  OBVIOUS
<1>6. ASSUME NEW i \in 1 .. m
      PROVE  Standing(stack[i])'
  <2>1. PICK c : c = s[i]
    OBVIOUS
  <2>2. Standing(c)
    <3>1. CASE i \in 1 .. k - 1
      <4>1. c = stack[i] /\ i \in DOMAIN stack
        BY <1>2, <2>1, <3>1
      <4> QED  BY <4>1 DEF Leading
    <3>2. CASE i = k
      BY <2>1, <3>2
    <3>3. CASE i = k + 1
      <4>1. m = k + 1
        BY <3>3
      <4> QED  BY <2>1, <3>3, <4>1
    <3> QED  BY <1>5, <3>1, <3>2, <3>3
  <2>3. Standing(c)'
    BY <1>4, <2>1, <2>2, StandingStays
  <2> QED  BY <2>1, <2>3
<1>7. ASSUME NEW i \in 1 .. m - 1
      PROVE  Linked(stack[i], stack[i + 1])'
  <2>1. PICK c, d : c = s[i] /\ d = s[i + 1]
    OBVIOUS
  <2>2. Linked(c, d)
    <3>1. CASE i <= k - 2
      <4>1. i \in 1 .. k - 1 /\ i + 1 \in 1 .. k - 1
        BY <3>1
      <4>2. c = stack[i] /\ d = stack[i + 1]
        BY <2>1, <4>1
      <4> QED  BY <4>1, <4>2 DEF Leading
    <3>2. CASE i = k - 1
      <4>1. i \in 1 .. k - 1 /\ i + 1 = k /\ m >= k
        BY <3>2
      <4>2. c = stack[i] /\ d = f
        BY <2>1, <4>1
      <4>3. Linked(c, Top)
        BY <1>2, <4>1, <4>2 DEF Leading
      <4> QED  BY <1>3, <4>2, <4>3
    <3>3. CASE i = k
      <4>1. m = k + 1
        BY <3>3
      <4> QED  BY <2>1, <3>3, <4>1
    <3>4. i <= k - 2 \/ i = k - 1 \/ i = k
      OBVIOUS
    <3> QED  BY <3>1, <3>2, <3>3, <3>4
  <2>3. Linked(c, d)'
    BY <2>2, LinkedStays
  <2> QED  BY <2>1, <2>3
<1>8. Analyzing(s[1]) /\ Node(s[1]) \in RootNodes
  <2>1. CASE k >= 2
    <3>1. 1 \in 1 .. k - 1
      BY <2>1
    <3> QED  BY <3>1 DEF Leading
  <2>2. CASE k = 1
    BY <1>2, <1>3, <2>2 DEF Leading
  <2> QED  BY <1>2, <2>1, <2>2
<1>9. RootNodes' = RootNodes
  BY NeedsStay
<1>10. PICK c : c = s[1]
  OBVIOUS
<1>11. Analyzing(c)' /\ (Node(c) \in RootNodes)'
  BY <1>8, <1>9, <1>10 DEF Analyzing, Node
<1> QED  BY <1>6, <1>7, <1>10, <1>11 DEF Leading

LEMMA LeadReturn ==
  ASSUME Good, Inv', stack # <<>>, Leading, Keeps, stack' = Callers, stack' # <<>>,
         Top.call = "sema_complete_aggregate" /\ ~ret'.ok =>
           Working("sema_complete_aggregate", Top.name) /\ ~Marked(Top)
  PROVE  Leading' /\ Refused(Top)'
<1>1. stack \in Seq(Frames) /\ Inv /\ phase = "analyze"
  BY GoodFacts DEF Inv, TypeOK
<1>2. PICK s, k, d : s = stack' /\ k = Len(stack) /\ d = Top
  OBVIOUS
<1>3. /\ k \in Nat /\ k >= 1 /\ DOMAIN stack = 1 .. k
      /\ Len(s) = k - 1 /\ DOMAIN s = 1 .. k - 1 /\ s \in Seq(Frames)
      /\ \A i \in 1 .. k - 1 : s[i] = stack[i]
  BY <1>1, <1>2, CallersFacts
<1>4. k - 1 >= 1
  BY <1>2, <1>3, EmptySeq
<1>5. Same(d, d.at) /\ Standing(d)
  BY <1>2, <1>3 DEF Same, Leading, Top
<1>6. Leading'
  <2>1. PICK m : m = k - 1
    OBVIOUS
  <2>2. /\ m \in Nat /\ DOMAIN s = 1 .. m /\ Len(s) = m /\ m >= 1 /\ m >= k - 1 /\ m <= k + 1
        /\ ~(m >= k) /\ m # k + 1
    BY <1>3, <1>4, <2>1
  <2> QED  BY <1>2, <1>3, <1>5, <2>2, LeadStep
<1>7. Refused(Top)'
  <2>1. PICK c : c = s[k - 1]
    OBVIOUS
  <2>2. Top' = c /\ Linked(c, d)
    BY <1>2, <1>3, <1>4, <2>1 DEF Top, Leading
  <2>3. ASSUME c.at \in {"nested", "completed"}, ~ret'.ok
        PROVE  \E m \in Names : /\ Working("sema_complete_aggregate", m)'
                                /\ Analyzing(c) \/ <<"layout", m>> \in NeedsOf(Node(c))
    <3>1. d.call = "sema_complete_aggregate" /\ Node(d) = <<"layout", d.name>> /\ Goes(c, d)
      BY <2>2, <2>3 DEF Linked, Node, Goes
    <3>2. Analyzing(c) \/ <<"layout", d.name>> \in NeedsOf(Node(c))
      BY <2>2, <3>1 DEF Linked, BuiltinNode
    <3>3. Working("sema_complete_aggregate", d.name) /\ ~Works(d, "sema_complete_aggregate", d.name)
      BY <1>2, <2>3, <3>1 DEF Works
    <3>4. Alone
      BY <1>1 DEF Inv, Marks
    <3>5. Working("sema_complete_aggregate", d.name)'
      BY <1>1, <1>2, <3>3, <3>4, WorkReturn
    <3>6. d.name \in Names
      BY <1>1, <1>2, TopFacts DEF FrameOK, Inv, TypeOK
    <3> QED  BY <3>2, <3>5, <3>6
  <2>4. Refused(c)'
    <3>1. \A node : NeedsOf(node)' = NeedsOf(node)
      BY NeedsStay
    <3> QED  BY <2>3, <3>1 DEF Refused
  <2> QED  BY <2>2, <2>4
<1> QED  BY <1>6, <1>7

LEMMA LeadContinue ==
  ASSUME Good, Inv', stack # <<>>, Leading, Keeps,
         NEW f, NEW at, Same(f, at), at \notin {"typed", "nested", "completed"}, Continue(f)
  PROVE  Leading' /\ Refused(Top)'
<1>1. stack \in Seq(Frames)
  BY GoodFacts DEF Inv, TypeOK
<1>2. PICK s, k : s = stack' /\ k = Len(stack)
  OBVIOUS
<1>3. k \in Nat /\ k >= 1 /\ Len(s) = k /\ DOMAIN s = 1 .. k /\ s[k] = f
      /\ \A i \in 1 .. k - 1 : s[i] = stack[i]
  <2>1. s = Append(Callers, f)
    BY <1>2 DEF Continue
  <2> QED  BY <1>1, <1>2, <2>1, AppendedOne, CallersFacts
<1>4. Standing(f)
  <2>1. Standing(Top)
    BY <1>1, CallersFacts DEF Leading, Top
  <2> QED  BY <2>1, StandingOn
<1>5. k >= k - 1 /\ k <= k + 1 /\ k # k + 1
  BY <1>3
<1>6. Leading'
  BY <1>2, <1>3, <1>4, <1>5, LeadStep
<1>7. Top' = f
  BY <1>2, <1>3 DEF Top
<1>8. Refused(f)'
  BY DEF Refused, Same
<1> QED  BY <1>6, <1>7, <1>8

LEMMA LeadCall ==
  ASSUME Good, Inv', stack # <<>>, Leading, Keeps, NEW f, NEW g, Calls2(f, g), CallFrom(f, g)
  PROVE  Leading' /\ Refused(Top)'
<1>1. stack \in Seq(Frames)
  BY GoodFacts DEF Inv, TypeOK
<1>2. PICK s, k : s = stack' /\ k = Len(stack)
  OBVIOUS
<1>3. k \in Nat /\ k >= 1 /\ Len(s) = k + 1 /\ DOMAIN s = 1 .. k + 1 /\ s[k] = f /\ s[k + 1] = g
      /\ \A i \in 1 .. k - 1 : s[i] = stack[i]
  <2>1. s = Append(Append(Callers, f), g)
    BY <1>2 DEF CallFrom
  <2>2. /\ DOMAIN Append(Append(Callers, f), g) = 1 .. k + 1
        /\ \A i \in 1 .. k - 1 : Append(Append(Callers, f), g)[i] = stack[i]
        /\ Append(Append(Callers, f), g)[k] = f
        /\ Append(Append(Callers, f), g)[k + 1] = g
    BY <1>1, <1>2, AppendedTwo
  <2>3. /\ DOMAIN s = 1 .. k + 1 /\ s[k] = f /\ s[k + 1] = g
        /\ \A i \in 1 .. k - 1 : s[i] = stack[i]
    BY <2>1, <2>2
  <2>4. k \in Nat /\ k >= 1
    BY <1>1, <1>2, CallersFacts
  <2>5. s \in Seq(Frames)
    BY <1>2 DEF Inv, TypeOK
  <2>6. Len(s) = k + 1
    <3>1. Len(s) \in Nat /\ DOMAIN s = 1 .. Len(s)
      BY <2>5, LenProperties
    <3> QED  BY <2>3, <2>4, <3>1
  <2> QED  BY <2>3, <2>4, <2>6
<1>4. PICK at, m : Same(f, at) /\ m = k + 1
  BY DEF Calls2
<1>5. m \in Nat /\ m >= 1 /\ m >= k - 1 /\ m <= k + 1 /\ m >= k
  BY <1>3, <1>4
<1>6. Standing(f) /\ Standing(g) /\ Linked(f, g) /\ g.at = "start"
  BY DEF Calls2
<1>7. Leading'
  BY <1>2, <1>3, <1>4, <1>5, <1>6, LeadStep
<1>8. Top' = g
  BY <1>2, <1>3 DEF Top
<1>9. Refused(g)'
  BY <1>6 DEF Refused
<1> QED  BY <1>7, <1>8, <1>9

LEMMA LeadNew ==
  ASSUME Good, Inv', Keeps,
         NEW g, stack' = <<g>>, Analyzing(g), Node(g) \in RootNodes, Standing(g), g.at = "start"
  PROVE  Leading' /\ Refused(Top)'
<1>1. PICK s : s = stack'
  OBVIOUS
<1>2. DOMAIN s = {1} /\ Len(s) = 1 /\ s[1] = g
  BY <1>1
<1>3. Top' = g
  BY <1>1, <1>2 DEF Top
<1>4. g.name \in DOMAIN entries
  BY <1>1, <1>2 DEF Inv, Calling, FrameOK, Keeps
<1>5. Standing(g)' /\ Refused(g)' /\ Analyzing(g)'
  BY <1>4, StandingStays DEF Refused, Analyzing
<1>6. (Node(g) \in RootNodes)'
  BY NeedsStay DEF Node
<1>7. \A i \in DOMAIN s : Standing(s[i])'
  BY <1>2, <1>5
<1>8. 1 .. Len(s) - 1 = {}
  BY <1>2
<1>9. Leading'
  BY <1>1, <1>2, <1>5, <1>6, <1>7, <1>8 DEF Leading
<1> QED  BY <1>3, <1>5, <1>9

LEMMA Leads ==
  ASSUME Good, Inv', Next, errors' = {}, stack # <<>> => Leading, stack' # <<>>
  PROVE  Leading' /\ Refused(Top)'
<1>1. Keeps /\ stack \in Seq(Frames)
  BY GoodFacts, KeepsStep DEF Inv, TypeOK
<1>2. stack # <<>> => Standing(Top)
  BY <1>1, CallersFacts DEF Leading, Top
<1>3. Moves
  BY <1>2, AnalysisMoves
<1> QED  BY <1>1, <1>3, LeadReturn, LeadContinue, LeadCall, LeadNew DEF Moves

-----------------------------------------------------------------------------
(* An error is reported in a wrong program *)

\* What the calls above the i-th are after is in every set that has all its members
\* need.
LEMMA Climb ==
  ASSUME Good, stack # <<>>, Leading, NEW V, \A v \in V : NeedsOf(v) \subseteq V,
         BuiltinNode \in V,
         NEW i \in DOMAIN stack, Node(stack[i]) \in V, Analyzing(stack[i]) => RootNodes \subseteq V
  PROVE  \A j \in i .. Len(stack) : Node(stack[j]) \in V
<1>1. PICK k : k = Len(stack)
  OBVIOUS
<1>2. k \in Nat /\ k >= 1 /\ DOMAIN stack = 1 .. k
  BY <1>1, GoodFacts, CallersFacts DEF Inv, TypeOK
<1> DEFINE T == {j \in 0 .. k - i : /\ Node(stack[i + j]) \in V
                                    /\ Analyzing(stack[i + j]) => RootNodes \subseteq V}
<1>3. 0 \in T
  <2>1. 0 \in 0 .. k - i /\ i + 0 = i
    BY <1>2
  <2> QED  BY <2>1
<1>4. ASSUME NEW j \in 1 .. k - i, j - 1 \in T
      PROVE  j \in T
  <2>1. PICK f, g, a : f = stack[a] /\ g = stack[a + 1] /\ a = i + (j - 1)
    OBVIOUS
  <2>2. a \in 1 .. k - 1 /\ a + 1 = i + j /\ j \in 0 .. k - i
    BY <1>2, <2>1
  <2>3. Linked(f, g)
    BY <1>1, <2>1, <2>2 DEF Leading
  <2>4. Node(f) \in V /\ (Analyzing(f) => RootNodes \subseteq V)
    BY <1>4, <2>1
  <2>5. Node(g) \in V
    <3>1. NeedsOf(Node(f)) \subseteq V
      BY <2>4
    <3>2. \/ Node(g) \in NeedsOf(Node(f))
          \/ Analyzing(f) /\ Node(g) \in RootNodes
          \/ Node(g) = BuiltinNode
          \/ Node(g) = Node(f)
      BY <2>3 DEF Linked
    <3> QED  BY <2>4, <3>1, <3>2
  <2>6. ~Analyzing(g)
    BY <2>3 DEF Linked
  <2>7. stack[i + j] = g
    BY <2>1, <2>2
  <2> QED  BY <2>2, <2>5, <2>6, <2>7
<1>5. \A j \in 0 .. k - i : j \in T
  <2>1. k - i \in Nat
    BY <1>2
  <2> HIDE DEF T
  <2> QED  BY <1>3, <1>4, <2>1, Upwards
<1> QED
  <2>1. ASSUME NEW j \in i .. k PROVE Node(stack[j]) \in V
    <3>1. PICK a : a = j - i
      OBVIOUS
    <3>2. a \in 0 .. k - i /\ i + a = j
      BY <1>2, <3>1
    <3> QED  BY <1>5, <3>2
  <2> QED  BY <1>1, <2>1

\* The scalar type is not declared and needs nothing.
LEMMA BuiltinNeeds ==
  ASSUME Inv
  PROVE  NeedsOf(BuiltinNode) = {}
<1>1. \A i \in DOMAIN program : program[i] \in Decls
  BY ElementOfSeq, LenProperties DEF Inv, TypeOK
<1>2. Builtin \notin DeclaredIn(program)
  BY <1>1, NamesAssumption DEF DeclaredIn, Decls
<1>3. BuiltinNode[2] = Builtin
  BY DEF BuiltinNode
<1> QED  BY <1>2, <1>3 DEF NeedsOf, Needs

LEMMA NeededFromClosed ==
  ASSUME Inv, NEW S
  PROVE  /\ \A v \in S : NeedsOf(v) \subseteq NeededFrom(S)
         /\ \A v \in NeededFrom(S) : NeedsOf(v) \subseteq NeededFrom(S)
<1>1. /\ NeededBy(program, Denotations(program), S) \subseteq NeededFrom(S)
      /\ NeededBy(program, Denotations(program), NeededFrom(S)) \subseteq NeededFrom(S)
  BY NeededClosed DEF NeededFrom, Inv, TypeOK
<1>2. \A A, B : NeededBy(program, Denotations(program), A) \subseteq B =>
                  \A v \in A : NeedsOf(v) \subseteq B
  BY DEF NeededBy, NeedsOf
<1> QED  BY <1>1, <1>2

Everything == RootNodes \cup NeededFrom(RootNodes)

\* What any call on the stack is after is needed.
LEMMA NodeNeeded ==
  ASSUME Good, stack # <<>>, Leading
  PROVE  /\ Node(Top) \in Everything \cup {BuiltinNode}
         /\ \A i \in DOMAIN stack : Node(stack[i]) \in Everything \cup {BuiltinNode}
         /\ \A v \in Everything \cup {BuiltinNode} : NeedsOf(v) \subseteq Everything
<1>1. \A v \in Everything : NeedsOf(v) \subseteq Everything
  BY GoodFacts, NeededFromClosed DEF Everything
<1>2. NeedsOf(BuiltinNode) = {}
  BY GoodFacts, BuiltinNeeds
<1>3. PICK V : V = Everything \cup {BuiltinNode}
  OBVIOUS
<1>4. \A v \in V : NeedsOf(v) \subseteq V
  BY <1>1, <1>2, <1>3
<1>5. RootNodes \subseteq V /\ BuiltinNode \in V
  BY <1>3 DEF Everything
<1>6. 1 \in DOMAIN stack /\ DOMAIN stack = 1 .. Len(stack) /\ Top = stack[Len(stack)]
      /\ Len(stack) \in DOMAIN stack
  BY GoodFacts, CallersFacts DEF Inv, TypeOK, Top
<1>7. Node(stack[1]) \in V
  BY <1>5 DEF Leading
<1>8. \A j \in 1 .. Len(stack) : Node(stack[j]) \in V
  BY <1>4, <1>5, <1>6, <1>7, Climb
<1> QED  BY <1>1, <1>2, <1>3, <1>6, <1>8

LEMMA UndeclaredIsWrong ==
  ASSUME NEW v \in Everything, v[2] \notin DeclaredIn(program)
  PROVE  Wrong
BY DEF Everything, RootNodes, NeededFrom, Wrong, Meaningless

LEMMA CyclicIsWrong ==
  ASSUME NEW v \in Everything, v \in NeededFrom({v})
  PROVE  Wrong
BY DEF Everything, RootNodes, NeededFrom, Wrong, Meaningless

\* What the calls above the i-th are after is needed by what that is after, or is the
\* same.
LEMMA ClimbFrom ==
  ASSUME Good, stack # <<>>, Leading, NEW i \in DOMAIN stack, ~Analyzing(stack[i]),
         NEW v, v = Node(stack[i])
  PROVE  \A j \in i .. Len(stack) :
           /\ Node(stack[j]) \in {v, BuiltinNode} \cup NeededFrom({v})
           /\ NeedsOf(Node(stack[j])) \subseteq NeededFrom({v})
<1>1. PICK V : V = {v, BuiltinNode} \cup NeededFrom({v})
  OBVIOUS
<1>2. \A u \in V : NeedsOf(u) \subseteq NeededFrom({v})
  BY <1>1, GoodFacts, NeededFromClosed, BuiltinNeeds
<1>3. \A u \in V : NeedsOf(u) \subseteq V
  BY <1>1, <1>2
<1>4. Node(stack[i]) \in V /\ BuiltinNode \in V
  BY <1>1
<1>5. \A j \in i .. Len(stack) : Node(stack[j]) \in V
  BY <1>3, <1>4, Climb
<1> QED  BY <1>1, <1>2, <1>5

LEMMA OnlyFirstAnalyzes ==
  ASSUME Good, Leading, NEW i \in DOMAIN stack, i # 1
  PROVE  ~Analyzing(stack[i])
<1>1. Len(stack) \in Nat /\ DOMAIN stack = 1 .. Len(stack)
  BY GoodFacts, LenProperties DEF Inv, TypeOK
<1>2. PICK j : j = i - 1
  OBVIOUS
<1>3. j \in 1 .. Len(stack) - 1 /\ j + 1 = i
  BY <1>1, <1>2
<1>4. Linked(stack[j], stack[j + 1])
  BY <1>3 DEF Leading
<1> QED  BY <1>3, <1>4 DEF Linked

LEMMA TopAt ==
  ASSUME Good, stack # <<>>
  PROVE  /\ Len(stack) \in Nat /\ Len(stack) >= 1 /\ DOMAIN stack = 1 .. Len(stack)
         /\ Top = stack[Len(stack)] /\ FrameOK(Top) /\ Answered(Top) /\ Top.name \in DOMAIN entries
         /\ Top \in Frames
BY GoodFacts, CallersFacts, TopFacts DEF Inv, TypeOK, Top, FrameOK

\* A name that is not there.
LEMMA UndefinedReport ==
  ASSUME Good, stack # <<>>, Leading, NEW n, n \notin DOMAIN entries, n # Builtin,
         <<"name", n>> = Node(Top) \/ <<"name", n>> \in NeedsOf(Node(Top))
  PROVE  Wrong
<1>1. PICK v : v = <<"name", n>>
  OBVIOUS
<1>2. v[2] = n /\ v # BuiltinNode
  BY <1>1 DEF BuiltinNode
<1>3. v \in Everything
  BY <1>1, <1>2, NodeNeeded
<1>4. n \notin DeclaredIn(program)
  BY GoodFacts DEF DeclaredIn, Inv, Started
<1> QED  BY <1>2, <1>3, <1>4, UndeclaredIsWrong

\* A name that is being resolved: the call before the last one goes on to what is
\* needed.
LEMMA CyclicReport ==
  ASSUME Good, stack # <<>>, Leading, Top.call = "sema_resolve_entry", Top.at = "start",
         entries[Top.name].state = "RESOLVING"
  PROVE  Wrong
<1>1. PICK d, n, k, v : d = Top /\ n = d.name /\ k = Len(stack) /\ v = <<"name", n>>
  OBVIOUS
<1>2. k \in Nat /\ k >= 1 /\ DOMAIN stack = 1 .. k /\ d = stack[k] /\ n \in DOMAIN entries
      /\ d.call = "sema_resolve_entry" /\ d.at = "start"
  BY <1>1, TopAt
<1>3. Working("sema_resolve_entry", n)
  BY <1>1, <1>2, GoodFacts DEF Inv, Marks
<1>4. PICK i \in 1 .. k : Works(stack[i], "sema_resolve_entry", n)
  BY <1>1, <1>3 DEF Working, WorkingIn
<1>5. i # k
  BY <1>2, <1>4 DEF Works, Marked
<1>6. Node(stack[i]) = v /\ Node(d) = v /\ ~Analyzing(stack[i]) /\ stack[i].call = "sema_resolve_entry"
  BY <1>1, <1>2, <1>4 DEF Works, Node, Analyzing
<1>7. \A j \in i .. k :
        /\ Node(stack[j]) \in {v, BuiltinNode} \cup NeededFrom({v})
        /\ NeedsOf(Node(stack[j])) \subseteq NeededFrom({v})
  BY <1>1, <1>2, <1>6, ClimbFrom
<1>8. PICK a, c : a = k - 1 /\ c = stack[a]
  OBVIOUS
<1>9. a \in 1 .. k - 1 /\ a + 1 = k /\ a \in i .. k
  BY <1>2, <1>5, <1>8
<1>10. Linked(c, d)
  BY <1>1, <1>2, <1>8, <1>9 DEF Leading
<1>11. c.call \in {"sema_resolve_type", "sema_analyze_initializer", "sema_analyze_variable"}
  BY <1>2, <1>10 DEF Linked
<1>12. a # i /\ a # 1
  BY <1>4, <1>6, <1>8, <1>9, <1>11
<1>13. ~Analyzing(c)
  BY <1>2, <1>8, <1>9, <1>12, OnlyFirstAnalyzes
<1>14. v # BuiltinNode
  BY <1>1, <1>2, GoodFacts, NamesAssumption DEF BuiltinNode, Inv, TypeOK
<1>15. CASE c.call = "sema_analyze_initializer"
  <2>1. Goes(c, d)
    BY <1>15 DEF Goes
  <2>2. v \in NeedsOf(Node(c))
    BY <1>6, <1>10, <1>13, <1>14, <2>1 DEF Linked, BuiltinNode
  <2>3. v \in NeededFrom({v})
    BY <1>7, <1>8, <1>9, <2>2
  <2> QED  BY <1>1, <1>6, <1>14, <2>3, NodeNeeded, CyclicIsWrong
<1>16. CASE c.call = "sema_resolve_type"
  <2>1. ~Goes(c, d)
    BY <1>2, <1>16 DEF Goes
  <2>2. Node(d) = Node(c)
    BY <1>10, <2>1 DEF Linked
  <2>3. PICK b, e : b = a - 1 /\ e = stack[b]
    OBVIOUS
  <2>4. b \in 1 .. k - 1 /\ b + 1 = a /\ b \in i .. k
    BY <1>2, <1>9, <1>12, <2>3
  <2>5. Linked(e, c)
    BY <1>1, <1>8, <2>3, <2>4 DEF Leading
  <2>6. Goes(e, c)
    BY <1>16 DEF Goes
  <2>7. ~Analyzing(e)
    <3>1. b # 1 \/ i = 1
      BY <2>4, <1>4
    <3>2. CASE b = i
      BY <1>6, <2>3, <3>2
    <3>3. CASE b # i
      <4>1. b # 1
        BY <1>4, <2>4, <3>3
      <4> QED  BY <1>2, <2>3, <2>4, <4>1, OnlyFirstAnalyzes
    <3> QED  BY <3>2, <3>3
  <2>8. v \in NeedsOf(Node(e))
    BY <1>6, <1>14, <2>2, <2>5, <2>6, <2>7 DEF Linked, BuiltinNode
  <2>9. v \in NeededFrom({v})
    BY <1>7, <2>3, <2>4, <2>8
  <2> QED  BY <1>1, <1>6, <1>14, <2>9, NodeNeeded, CyclicIsWrong
<1> QED  BY <1>11, <1>13, <1>15, <1>16 DEF Analyzing

\* A layout that is in progress.
LEMMA RefusedReport ==
  ASSUME Good, stack # <<>>, Leading, Refused(Top), Top.at \in {"nested", "completed"}, ~ret.ok
  PROVE  Wrong
<1>1. PICK m \in Names : /\ Working("sema_complete_aggregate", m)
                         /\ Analyzing(Top) \/ <<"layout", m>> \in NeedsOf(Node(Top))
  BY DEF Refused
<1>2. PICK k, v : k = Len(stack) /\ v = <<"layout", m>>
  OBVIOUS
<1>3. k \in Nat /\ k >= 1 /\ DOMAIN stack = 1 .. k /\ Top = stack[k]
  BY <1>2, TopAt
<1>4. PICK i \in 1 .. k : Works(stack[i], "sema_complete_aggregate", m)
  BY <1>1, <1>2 DEF Working, WorkingIn
<1>5. Node(stack[i]) = v /\ ~Analyzing(stack[i]) /\ stack[i].call = "sema_complete_aggregate"
  BY <1>2, <1>4 DEF Works, Node, Analyzing
<1>6. i # 1
  BY <1>5 DEF Leading
<1>7. ~Analyzing(Top)
  BY <1>3, <1>4, <1>6, OnlyFirstAnalyzes
<1>8. v \in NeedsOf(Node(Top))
  BY <1>1, <1>2, <1>7
<1>9. \A j \in i .. k : NeedsOf(Node(stack[j])) \subseteq NeededFrom({v})
  BY <1>2, <1>3, <1>5, ClimbFrom
<1>10. v \in NeededFrom({v})
  <2>1. k \in i .. k
    BY <1>3, <1>4
  <2> QED  BY <1>3, <1>8, <1>9, <2>1
<1>11. v \in Everything
  BY <1>8, NodeNeeded
<1> QED  BY <1>10, <1>11, CyclicIsWrong

LEMMA Reports ==
  ASSUME Good, Next, stack # <<>> => Leading /\ Refused(Top), errors' # {}
  PROVE  Wrong
<1>0. errors = {}
  BY GoodFacts
<1>1. CASE ResolveTypeName
  <2>1. /\ stack # <<>> /\ Top.call = "sema_resolve_type"
        /\ Top.expr.base # Builtin /\ Top.expr.base \notin DOMAIN entries
    <3>1. stack # <<>> /\ Top.call = "sema_resolve_type"
      BY <1>1 DEF ResolveTypeName, At
    <3>2. errors' # errors
      BY <1>0
    <3> QED  BY <1>1, <3>1, <3>2, GoodFacts, NameLookup
  <2>2. Node(Top) = <<"name", Top.expr.base>>
    BY <2>1 DEF Node
  <2> QED  BY <2>1, <2>2, UndefinedReport
<1>2. CASE ResolveTypeNamed
  <2>1. stack # <<>> /\ Top.at = "named" /\ ~ret.ok
    BY <1>0, <1>2 DEF ResolveTypeNamed, At
  <2> QED  BY <1>0, <2>1, TopAt DEF Answered
<1>3. CASE ResolveEntryMarked
  <2>1. /\ stack # <<>> /\ Top.call = "sema_resolve_entry" /\ Top.at = "start"
        /\ entries[Top.name].state = "RESOLVING"
    BY <1>0, <1>3 DEF ResolveEntryMarked, At
  <2> QED  BY <2>1, CyclicReport
<1>4. CASE CompleteItemNested
  <2>1. stack # <<>> /\ Top.at = "nested" /\ ~ret.ok
    BY <1>0, <1>4 DEF CompleteItemNested, At
  <2> QED  BY <2>1, RefusedReport
<1>5. CASE InitializerStart
  <2>1. PICK d, n, e : d = Top /\ n = d.name /\ e = Decl(n)
    OBVIOUS
  <2>2. /\ stack # <<>> /\ d.call = "sema_analyze_initializer"
        /\ e.init # None /\ e.init # Builtin /\ e.init \notin DOMAIN entries
    <3>1. stack # <<>> /\ d.call = "sema_analyze_initializer"
      BY <1>5, <2>1 DEF InitializerStart, At
    <3>2. errors' # errors
      BY <1>0
    <3> QED  BY <1>5, <2>1, <3>1, <3>2, GoodFacts, InitializerLookup
  <2>3. n \in DOMAIN entries /\ e.kind = "variable" /\ e.init # Builtin
    BY <2>1, <2>2, TopAt DEF FrameOK
  <2>4. <<"name", e.init>> \in NeedsOf(<<"name", n>>)
    <3>1. NeedsOf(<<"name", n>>) =
            {<<"name", e.init>>} \cup {<<"layout", m>> : m \in {e.init} \cap AggregatesIn(program)}
      BY <2>1, <2>2, <2>3, NeedsAre
    <3> QED  BY <3>1
  <2>5. Node(Top) = <<"name", n>>
    BY <2>1, <2>2 DEF Node
  <2> QED  BY <2>2, <2>3, <2>4, <2>5, UndefinedReport
<1>6. CASE InitializerNamed
  <2>1. stack # <<>> /\ Top.at = "named" /\ ~ret.ok
    BY <1>0, <1>6 DEF InitializerNamed, At
  <2> QED  BY <1>0, <2>1, TopAt DEF Answered
<1>7. CASE InitializerCompleted \/ AnalyzeVariableCompleted \/ AnalyzeFunctionCompleted
  <2>1. stack # <<>> /\ Top.at = "completed" /\ ~ret.ok
    BY <1>0, <1>7 DEF InitializerCompleted, AnalyzeVariableCompleted, AnalyzeFunctionCompleted, At
  <2> QED  BY <2>1, RefusedReport
<1>8. CASE errors' = errors
  BY <1>0, <1>8
<1>9. sema_resolve_type => ResolveTypeName \/ ResolveTypeNamed \/ errors' = errors
  BY DEF sema_resolve_type, ResolveTypeWrap, ResolveTypeReturn
<1>10. sema_resolve_entry => ResolveEntryMarked \/ errors' = errors
  BY DEF sema_resolve_entry, ResolveEntryCall, ResolveEntryReturn
<1>11. sema_complete_aggregate => CompleteItemNested \/ errors' = errors
  BY DEF sema_complete_aggregate, CompleteMarked, CompleteStart, CompleteItem,
     CompleteItemTyped, CompleteReturn
<1>12. sema_analyze_initializer =>
         InitializerStart \/ InitializerNamed \/ InitializerCompleted \/ errors' = errors
  BY DEF sema_analyze_initializer, InitializerTyped, InitializerReturn
<1>13. sema_resolve_function_type => errors' = errors
  BY DEF sema_resolve_function_type, FunctionTypeItem, FunctionTypeTyped, FunctionTypeReturn
<1>14. sema_analyze_variable => AnalyzeVariableCompleted \/ errors' = errors
  BY DEF sema_analyze_variable, AnalyzeVariableStart, AnalyzeVariableNamed
<1>15. sema_analyze_function => AnalyzeFunctionCompleted \/ errors' = errors
  BY DEF sema_analyze_function, AnalyzeFunctionStart, AnalyzeFunctionParameter,
     AnalyzeFunctionTyped, AnalyzeFunctionParameterTyped, AnalyzeFunctionReturn
<1>16. AnalyzeDeclaration \/ Analyzed => errors' = errors
  BY DEF AnalyzeDeclaration, Analyzed
<1>17. ~sema_register /\ ~Registered
  BY GoodFacts DEF sema_register, Registered
<1> QED  BY <1>1, <1>2, <1>3, <1>4, <1>5, <1>6, <1>7, <1>8, <1>9, <1>10, <1>11, <1>12, <1>13,
            <1>14, <1>15, <1>16, <1>17 DEF Next

LEMMA RegisterMistakes ==
  ASSUME Inv, MistakesInv, sema_register
  PROVE  MistakesInv'
<1>1. PICK d, n : d = program[next] /\ n = d.name
  OBVIOUS
<1>2. /\ phase = "register" /\ phase' = phase /\ next' = next + 1 /\ next \in DOMAIN program
      /\ next \in Nat /\ program' = program
      /\ errors' = errors \cup (IF n \in DOMAIN entries THEN {<<"redefinition", n>>} ELSE {})
      /\ DOMAIN entries' = DOMAIN entries \cup {n}
      /\ entries'[n].node = next
      /\ \A m \in DOMAIN entries : m # n => entries'[m] = entries[m]
  <2>1. next \in DOMAIN program /\ next \in Nat
    BY LenProperties DEF sema_register, Inv, TypeOK
  <2>2. PICK e : e.node = next /\ entries' = With(entries, n, e)
    BY <1>1 DEF sema_register
  <2> QED  BY <1>1, <2>1, <2>2 DEF sema_register, With, input
<1>3. Wrong' <=> Wrong
  BY <1>2 DEF Wrong
<1>4. CASE errors # {}
  BY <1>2, <1>3, <1>4 DEF MistakesInv
<1>5. CASE errors = {} /\ n \in DOMAIN entries
  <2>1. PICK j : j = entries[n].node
    OBVIOUS
  <2>2. j \in DOMAIN program /\ program[j].name = n /\ j < next /\ j \in Nat
    <3>1. j \in DOMAIN program /\ program[j].name = n
      BY <1>5, <2>1 DEF Inv, TypeOK, Scoped
    <3>2. j < next
      BY <1>2, <1>5, <2>1 DEF MistakesInv
    <3> QED  BY <3>1, <3>2, LenProperties DEF Inv, TypeOK
  <2>3. Wrong
    BY <1>1, <1>2, <2>2 DEF Wrong, Redefines
  <2> QED  BY <1>2, <1>3, <1>5, <2>3 DEF MistakesInv
<1>6. CASE errors = {} /\ n \notin DOMAIN entries
  <2>1. ASSUME NEW m \in DOMAIN entries'
        PROVE  entries'[m].node < next + 1
    <3>1. CASE m = n
      BY <1>2, <3>1
    <3>2. CASE m # n
      <4>1. m \in DOMAIN entries /\ entries'[m] = entries[m]
        BY <1>2, <2>1, <3>2
      <4>2. entries[m].node < next /\ entries[m].node \in Nat
        BY <1>2, <1>6, <4>1, LenProperties DEF MistakesInv, Inv, TypeOK
      <4> QED  BY <1>2, <4>1, <4>2
    <3> QED  BY <3>1, <3>2
  <2> QED  BY <1>2, <1>6, <2>1 DEF MistakesInv
<1> QED  BY <1>4, <1>5, <1>6

LEMMA NextMistakes == Inv /\ TypesInv /\ MistakesInv /\ [Next]_vars => MistakesInv'
<1> SUFFICES ASSUME Inv, TypesInv, MistakesInv, [Next]_vars PROVE MistakesInv'
  OBVIOUS
<1>1. Inv'
  BY NextInv
<1>2. CASE UNCHANGED vars
  <2>1. UNCHANGED <<program, phase, next, entries, aggregates, stack, ret, errors>>
    BY <1>2 DEF vars, input, scopes, global, local
  <2>2. Wrong' <=> Wrong
    BY <2>1 DEF Wrong
  <2>3. Leading' <=> Leading
    BY <2>1 DEF Leading, Analyzing, Node, RootNodes, Standing, Decl, Linked, Goes, NeedsOf
  <2>4. Top' = Top
    BY <2>1 DEF Top
  <2>5. Refused(Top)' <=> Refused(Top)
    BY <2>1, <2>4 DEF Refused, Analyzing, Node, NeedsOf, Working
  <2> QED  BY <2>1, <2>2, <2>3, <2>5 DEF MistakesInv
<1>3. CASE sema_register
  BY <1>3, RegisterMistakes
<1>4. CASE Registered
  <2>1. stack = <<>>
    BY <1>4 DEF Registered, Inv, Started
  <2>2. UNCHANGED <<program, entries, stack, errors>> /\ phase' # "register"
    BY <1>4 DEF Registered, scopes, global, local, input
  <2>3. Wrong' <=> Wrong
    BY <2>2 DEF Wrong
  <2> QED  BY <2>1, <2>2, <2>3 DEF MistakesInv
<1>5. CASE Next /\ phase = "analyze"
  <2>1. Keeps
    BY <1>5, KeepsStep
  <2>2. Wrong' <=> Wrong
    BY <2>1, NeedsStay
  <2>3. CASE errors # {}
    BY <2>1, <2>2, <2>3 DEF MistakesInv, Keeps
  <2>4. CASE errors = {}
    <3>1. Good /\ (stack # <<>> => Leading /\ Refused(Top))
      BY <1>5, <2>4 DEF Good, MistakesInv
    <3>2. CASE errors' # {}
      BY <1>5, <2>2, <3>1, <3>2, Reports DEF MistakesInv
    <3>3. CASE errors' = {}
      <4>1. stack' # <<>> => Leading' /\ Refused(Top)'
        BY <1>1, <1>5, <3>1, <3>3, Leads
      <4>2. phase' # "register"
        BY <1>5, StaysAnalyzed
      <4> QED  BY <3>3, <4>1, <4>2 DEF MistakesInv
    <3> QED  BY <3>2, <3>3
  <2> QED  BY <2>3, <2>4
<1> QED  BY <1>2, <1>3, <1>4, <1>5, AnalysisOrRegister

LEMMA MistakesAlways == Spec => [](Clear => MistakesInv)
<1>1. Init => (Clear => MistakesInv)
  BY DEF Init, MistakesInv
<1>2. Inv /\ (Clear => TypesInv) /\ (Clear => MistakesInv) /\ [Next]_vars => (Clear => MistakesInv)'
  BY NextMistakes, ClearStays
<1> QED  BY <1>1, <1>2, InvAlways, TypesAlways, PTL DEF Spec

-----------------------------------------------------------------------------
(* What has been seen to *)

\* All that is laid out inside the type t has been; what the type expression t
\* means is known, and laid out.
Laid(t) == Contains(t) \subseteq Completed
Had(t) == Settled(t) /\ Laid(Meaning(t))

\* A function has its type when its node has it.
Named == functions \cup {n \in Resolved : Decl(n).kind # "function"}
Seen == {<<"name", n>> : n \in Named} \cup {<<"layout", n>> : n \in Completed}

\* The layouts that resolving the variable n asks for.
NameLaid(n) ==
  IF Decl(n).init = None THEN Had(Decl(n).types[1])
  ELSE /\ Decl(n).init # Builtin
       /\ Decl(n).init \in DOMAIN aggregates => Decl(n).init \in Completed

\* The type whose aggregate f has laid out.
Held(f) ==
  CASE f.call = "sema_analyze_variable" -> entries[f.name].type
    [] f.call = "sema_analyze_function" -> Meaning(Decl(f.name).types[f.item])
    [] OTHER -> f.type

\* What a call is past.
Past(f) ==
  /\ f.call \in {"sema_complete_aggregate", "sema_analyze_function"} =>
       \A j \in 1 .. f.item - 1 : Had(Decl(f.name).types[j])
  /\ f.call = "sema_resolve_function_type" =>
       \A j \in 1 .. f.item - 1 : Settled(Decl(f.name).types[j])
  /\ f.call = "sema_analyze_function" =>
       /\ f.at \notin {"start", "type"} => f.name \in functions
       /\ f.at = "completed" => Settled(Decl(f.name).types[f.item])
  /\ f.call = "sema_analyze_initializer" =>
       /\ f.at = "return" => NameLaid(f.name)
       /\ f.at = "completed" => Decl(f.name).init # Builtin
  /\ f.call = "sema_analyze_variable" /\ f.at = "completed" => f.name \in Resolved

\* The call g lays out what f holds, or gives its function a type.
Orders(f, g) ==
  /\ f.at = "completed" => g.call = "sema_complete_aggregate" /\ g.name = Held(f).base
  /\ f.at = "type" => g.call = "sema_resolve_function_type" /\ g.name = f.name

\* That has been done for f.
Served(f) ==
  /\ f.at = "completed" /\ ret.ok => Held(f).base \in Completed
  /\ f.at = "type" => ret.ok /\ f.name \in functions
  /\ f.call = "sema_resolve_entry" /\ f.at = "typed" =>
       /\ Decl(f.name).kind = "variable" => NameLaid(f.name)
       /\ Decl(f.name).kind = "function" => f.name \in functions

FramesPast ==
  /\ \A i \in DOMAIN stack : Past(stack[i])
  /\ \A i \in 1 .. Len(stack) - 1 : Orders(stack[i], stack[i + 1])
  /\ stack # <<>> => Served(Top)

\* What has been seen to needs nothing that has not been, and never itself.
Whole == \A v \in Seen : NeedsOf(v) \subseteq Seen /\ v \notin NeededFrom({v})
FunctionsTyped ==
  /\ \A n \in Resolved : Decl(n).kind = "function" => n \in functions
  /\ \A n \in functions : Decl(n).kind = "function"
ArraysLaid == \A t \in DOMAIN arrays : Laid(t)

\* What the i-th declaration is analysed for.
RootsAt(i) ==
  LET d == program[i]
      D == Denotations(program)
  IN  IF d.kind = "variable"
        THEN {<<"name", d.name>>} \cup LayoutsIn(D, <<Plain(d.name)>>)
      ELSE IF d.kind = "function"
        THEN {<<"name", d.name>>} \cup LayoutsIn(D, SubSeq(d.types, 1, Len(d.types) - 1))
      ELSE {}

\* It is seen to once the analysis is past the declaration.
RootsSeen ==
  \A i \in 1 .. next - 1 :
    \/ RootsAt(i) \subseteq Seen
    \/ stack # <<>> /\ i = next - 1 /\ stack[1].name = program[i].name

SeenInv ==
  errors = {} /\ asserts =>
    /\ phase = "register" => functions = {}
    /\ phase = "done" => next > Len(program)
    /\ phase \in {"analyze", "done"} =>
         Whole /\ FunctionsTyped /\ ArraysLaid /\ FramesPast /\ RootsSeen

-----------------------------------------------------------------------------
(* What has been seen to stays so *)

Further == Keeps /\ functions \subseteq functions'

LEMMA FunctionsSame ==
  ASSUME Next, phase = "analyze", ~FunctionTypeReturn
  PROVE  functions' = functions
<1>1. CASE AnalyzeDeclaration \/ Analyzed
  BY <1>1 DEF AnalyzeDeclaration, Analyzed, scopes, global, local
<1>2. CASE sema_resolve_type
  BY <1>2 DEF sema_resolve_type, ResolveTypeName, ResolveTypeNamed, ResolveTypeWrap,
     ResolveTypeReturn, scopes, global, local
<1>3. CASE sema_resolve_entry
  BY <1>3 DEF sema_resolve_entry, ResolveEntryMarked, ResolveEntryCall, ResolveEntryReturn, scopes, global, local
<1>4. CASE sema_complete_aggregate
  BY <1>4 DEF sema_complete_aggregate, CompleteMarked, CompleteStart, CompleteItem,
     CompleteItemTyped, CompleteItemNested, CompleteReturn, scopes, global, local
<1>5. CASE sema_analyze_initializer
  BY <1>5 DEF sema_analyze_initializer, InitializerStart, InitializerTyped,
     InitializerNamed, InitializerCompleted, InitializerReturn, scopes, global, local
<1>6. CASE sema_resolve_function_type
  BY <1>6 DEF sema_resolve_function_type, FunctionTypeItem, FunctionTypeTyped, scopes, global, local
<1>7. CASE sema_analyze_variable
  BY <1>7 DEF sema_analyze_variable, AnalyzeVariableStart, AnalyzeVariableNamed,
     AnalyzeVariableCompleted, scopes, global, local
<1>8. CASE sema_analyze_function
  BY <1>8 DEF sema_analyze_function, AnalyzeFunctionStart, AnalyzeFunctionParameter,
     AnalyzeFunctionTyped, AnalyzeFunctionParameterTyped, AnalyzeFunctionCompleted, AnalyzeFunctionReturn,
       Put, scopes, global, local
<1>9. ~sema_register /\ ~Registered
  BY DEF sema_register, Registered
<1> QED  BY <1>1, <1>2, <1>3, <1>4, <1>5, <1>6, <1>7, <1>8, <1>9 DEF Next

LEMMA FurtherStep ==
  ASSUME Inv, Next, phase = "analyze"
  PROVE  Further
<1>1. Keeps
  BY KeepsStep
<1>2. functions \subseteq functions'
  BY FunctionsSame DEF FunctionTypeReturn
<1> QED  BY <1>1, <1>2 DEF Further

LEMMA HadStays ==
  ASSUME Inv, Keeps, NEW t, Had(t)
  PROVE  Had(t)'
<1>1. Settled(t)' /\ Meaning(t)' = Meaning(t)
  BY MeaningStays DEF Had
<1>2. Laid(Meaning(t))'
  BY <1>1 DEF Had, Laid, Keeps
<1> QED  BY <1>1, <1>2 DEF Had

LEMMA NameLaidStays ==
  ASSUME Inv, Keeps, NEW n \in DOMAIN entries, NameLaid(n)
  PROVE  NameLaid(n)'
<1>1. PICK d, t : d = Decl(n) /\ t = d.types[1]
  OBVIOUS
<1>2. Decl(n)' = d
  BY <1>1, KeepsDecl
<1>3. Had(t) => Had(t)'
  BY HadStays
<1> QED  BY <1>1, <1>2, <1>3 DEF NameLaid, Keeps

LEMMA HeldStays ==
  ASSUME Inv, Keeps, NEW f, f.name \in DOMAIN entries, f.at = "completed", Past(f)
  PROVE  Held(f)' = Held(f)
<1>1. CASE f.call = "sema_analyze_variable"
  BY <1>1 DEF Held, Past, Keeps
<1>2. CASE f.call = "sema_analyze_function"
  <2>1. PICK t : t = Decl(f.name).types[f.item]
    OBVIOUS
  <2>2. Settled(t) /\ Decl(f.name)' = Decl(f.name)
    BY <1>2, <2>1, KeepsDecl DEF Past
  <2>3. Meaning(t)' = Meaning(t)
    BY <2>2, MeaningStays
  <2> QED  BY <1>2, <2>1, <2>2, <2>3 DEF Held
<1>3. CASE f.call \notin {"sema_analyze_variable", "sema_analyze_function"}
  BY <1>3 DEF Held
<1> QED  BY <1>1, <1>2, <1>3

LEMMA PastStays ==
  ASSUME Inv, Further, NEW f, f.name \in DOMAIN entries, Past(f)
  PROVE  Past(f)'
<1>1. PICK d : d = Decl(f.name)
  OBVIOUS
<1>2. Keeps /\ functions \subseteq functions' /\ Decl(f.name)' = d
  BY <1>1, KeepsDecl DEF Further
<1>3. \A j : Had(d.types[j]) => Had(d.types[j])'
  <2> TAKE j
  <2>1. PICK t : t = d.types[j]
    OBVIOUS
  <2> QED  BY <1>2, <2>1, HadStays
<1>4. \A j : Settled(d.types[j]) => Settled(d.types[j])'
  BY <1>2 DEF Settled, Keeps
<1>5. NameLaid(f.name) => NameLaid(f.name)'
  BY <1>2, NameLaidStays
<1>6. Resolved \subseteq Resolved'
  BY <1>2 DEF Keeps
<1> QED  BY <1>1, <1>2, <1>3, <1>4, <1>5, <1>6 DEF Past

LEMMA OrdersStays ==
  ASSUME Inv, Keeps, NEW f, NEW g, f.name \in DOMAIN entries, Past(f), Orders(f, g)
  PROVE  Orders(f, g)'
BY HeldStays DEF Orders

\* What a step without errors does to the innermost call, and what an answer that
\* it gives means.
Yields(g) ==
  /\ g.call = "sema_complete_aggregate" /\ ret'.ok => g.name \in Completed'
  /\ g.call = "sema_resolve_function_type" => ret'.ok /\ g.name \in functions'
  /\ g.call = "sema_analyze_initializer" => NameLaid(g.name)

Passes ==
  \/ stack' = <<>> /\ (stack = <<>> \/ phase' # "analyze")
  \/ stack # <<>> /\ stack' = Callers /\ Yields(Top)
  \/ /\ stack # <<>>
     /\ \E f, at : /\ Same(f, at) /\ at \notin {"typed", "type", "completed"}
                   /\ Past(f) /\ Continue(f)
  \/ /\ stack # <<>>
     /\ \E f, g, at : /\ Same(f, at) /\ Past(f) /\ Past(g) /\ g.at = "start"
                      /\ Orders(f, g) /\ CallFrom(f, g)
  \/ stack = <<>> /\ \E g : stack' = <<g>> /\ Past(g) /\ g.at = "start"

\* A call is past nothing when it starts.
LEMMA StartPast ==
  ASSUME NEW call, NEW n, NEW t, NEW g, g = Frame(call, n, t)
  PROVE  Past(g) /\ g.at = "start" /\ g.call = call /\ g.name = n
<1>1. g.call = call /\ g.name = n /\ g.at = "start" /\ g.item = 1
  BY DEF Frame
<1>2. 1 .. g.item - 1 = {}
  BY <1>1
<1> QED  BY <1>1, <1>2 DEF Past

\* What goes on to hold of the calls that are not the innermost one.
LEMMA CallersPast ==
  ASSUME Inv, stack # <<>>, FramesPast, Further, NEW t, t = stack, NEW i \in 1 .. Len(t) - 1
  PROVE  /\ t[i].name \in DOMAIN entries
         /\ Past(t[i]) /\ Past(t[i])'
         /\ Orders(t[i], t[i + 1]) /\ Orders(t[i], t[i + 1])'
<1>0. stack \in Seq(Frames) /\ Calling /\ Keeps
  BY DEF Inv, TypeOK, Further
<1>1. DOMAIN stack = 1 .. Len(stack) /\ Len(stack) \in Nat
  BY <1>0, CallersFacts
<1>2. PICK c, d : c = t[i] /\ d = t[i + 1]
  OBVIOUS
<1>3. i \in 1 .. Len(stack) - 1 /\ i \in DOMAIN stack /\ c = stack[i] /\ d = stack[i + 1]
  BY <1>1, <1>2
<1>4. c.name \in DOMAIN entries /\ Past(c) /\ Orders(c, d)
  BY <1>0, <1>3 DEF Calling, FrameOK, FramesPast
<1>5. Past(c)' /\ Orders(c, d)'
  BY <1>0, <1>4, PastStays, OrdersStays
<1> QED  BY <1>2, <1>4, <1>5

LEMMA OrdersSame ==
  ASSUME NEW c, NEW d, NEW f, Orders(c, d)', f.call = d.call, f.name = d.name
  PROVE  Orders(c, f)'
BY DEF Orders

LEMMA PassStep ==
  ASSUME Inv, stack # <<>>, FramesPast, Further,
         NEW s, s = stack', NEW m \in Nat, DOMAIN s = 1 .. m, Len(s) = m,
         NEW k \in Nat, k = Len(stack), m >= k - 1, m <= k + 1,
         \A i \in 1 .. k - 1 : s[i] = stack[i],
         NEW f, NEW at, Same(f, at), m >= k => s[k] = f /\ Past(f)',
         NEW g, m = k + 1 => s[k + 1] = g /\ Past(g)' /\ Orders(f, g)'
  PROVE  /\ \A i \in DOMAIN stack' : Past(stack[i])'
         /\ \A i \in 1 .. Len(stack') - 1 : Orders(stack[i], stack[i + 1])'
<1>1. PICK t : t = stack
  OBVIOUS
<1>2. Len(t) = k /\ \A i \in 1 .. k - 1 : s[i] = t[i]
  BY <1>1
<1>3. \A i \in 1 .. k - 1 : Past(t[i])' /\ Orders(t[i], t[i + 1])'
  <2> TAKE i \in 1 .. k - 1
  <2>1. i \in 1 .. Len(t) - 1
    BY <1>2
  <2> QED  BY <1>1, <2>1, CallersPast
<1>4. t[k] = Top
  BY <1>1 DEF Top
<1>5. \A i \in 1 .. m : i \in 1 .. k - 1 \/ i = k \/ i = k + 1
  OBVIOUS
<1>6. ASSUME NEW i \in 1 .. m
      PROVE  Past(s[i])'
  <2>1. CASE i \in 1 .. k - 1
    BY <1>2, <1>3, <2>1
  <2>2. CASE i = k
    BY <2>2
  <2>3. CASE i = k + 1
    BY <2>3
  <2> QED  BY <1>5, <2>1, <2>2, <2>3
<1>7. ASSUME NEW i \in 1 .. m - 1
      PROVE  Orders(s[i], s[i + 1])'
  <2>1. CASE i <= k - 2
    <3>1. i \in 1 .. k - 1 /\ i + 1 \in 1 .. k - 1
      BY <2>1
    <3> QED  BY <1>2, <1>3, <3>1
  <2>2. CASE i = k - 1
    <3>1. i \in 1 .. k - 1 /\ i + 1 = k /\ m >= k
      BY <2>2
    <3>2. PICK c, d : c = t[i] /\ d = t[k]
      OBVIOUS
    <3>3. Orders(c, d)' /\ s[i] = c /\ s[i + 1] = f
      BY <1>2, <1>3, <3>1, <3>2
    <3>4. f.call = d.call /\ f.name = d.name
      BY <1>4, <3>2 DEF Same
    <3> QED  BY <3>3, <3>4, OrdersSame
  <2>3. CASE i = k
    <3>1. m = k + 1
      BY <2>3
    <3> QED  BY <2>3, <3>1
  <2>4. i <= k - 2 \/ i = k - 1 \/ i = k
    OBVIOUS
  <2> QED  BY <2>1, <2>2, <2>3, <2>4
<1> QED  BY <1>6, <1>7

LEMMA PassContinue ==
  ASSUME Inv, stack # <<>>, FramesPast, Further,
         NEW f, NEW at, Same(f, at), at \notin {"typed", "type", "completed"}, Past(f), Continue(f)
  PROVE  FramesPast'
<1>1. stack \in Seq(Frames)
  BY DEF Inv, TypeOK
<1>2. PICK s, k : s = stack' /\ k = Len(stack)
  OBVIOUS
<1>3. k \in Nat /\ k >= 1 /\ Len(s) = k /\ DOMAIN s = 1 .. k /\ s[k] = f
      /\ \A i \in 1 .. k - 1 : s[i] = stack[i]
  <2>1. s = Append(Callers, f)
    BY <1>2 DEF Continue
  <2> QED  BY <1>1, <1>2, <2>1, AppendedOne, CallersFacts
<1>4. Past(f)'
  <2>1. f.name \in DOMAIN entries
    BY TopFacts DEF Same, FrameOK, Calling, Inv
  <2> QED  BY <2>1, PastStays
<1>5. k >= k - 1 /\ k <= k + 1 /\ k # k + 1
  BY <1>3
<1>6. /\ \A i \in DOMAIN stack' : Past(stack[i])'
      /\ \A i \in 1 .. Len(stack') - 1 : Orders(stack[i], stack[i + 1])'
  BY <1>2, <1>3, <1>4, <1>5, PassStep
<1>7. Top' = f
  BY <1>2, <1>3 DEF Top
<1>8. Served(f)'
  BY DEF Served, Same
<1> QED  BY <1>6, <1>7, <1>8 DEF FramesPast

LEMMA PassCall ==
  ASSUME Inv, Inv', stack # <<>>, FramesPast, Further,
         NEW f, NEW g, NEW at, Same(f, at), Past(f), Past(g), g.at = "start", Orders(f, g),
         CallFrom(f, g)
  PROVE  FramesPast'
<1>1. stack \in Seq(Frames) /\ Keeps
  BY DEF Inv, TypeOK, Further
<1>2. PICK s, k : s = stack' /\ k = Len(stack)
  OBVIOUS
<1>3. k \in Nat /\ k >= 1 /\ Len(s) = k + 1 /\ DOMAIN s = 1 .. k + 1 /\ s[k] = f /\ s[k + 1] = g
      /\ \A i \in 1 .. k - 1 : s[i] = stack[i]
  <2>1. s = Append(Append(Callers, f), g)
    BY <1>2 DEF CallFrom
  <2>2. /\ DOMAIN Append(Append(Callers, f), g) = 1 .. k + 1
        /\ \A i \in 1 .. k - 1 : Append(Append(Callers, f), g)[i] = stack[i]
        /\ Append(Append(Callers, f), g)[k] = f
        /\ Append(Append(Callers, f), g)[k + 1] = g
    BY <1>1, <1>2, AppendedTwo
  <2>3. /\ DOMAIN s = 1 .. k + 1 /\ s[k] = f /\ s[k + 1] = g
        /\ \A i \in 1 .. k - 1 : s[i] = stack[i]
    BY <2>1, <2>2
  <2>4. k \in Nat /\ k >= 1
    BY <1>1, <1>2, CallersFacts
  <2>5. s \in Seq(Frames)
    BY <1>2 DEF Inv, TypeOK
  <2>6. Len(s) = k + 1
    <3>1. Len(s) \in Nat /\ DOMAIN s = 1 .. Len(s)
      BY <2>5, LenProperties
    <3> QED  BY <2>3, <2>4, <3>1
  <2> QED  BY <2>3, <2>4, <2>6
<1>4. f.name \in DOMAIN entries /\ g.name \in DOMAIN entries
  <2>1. k + 1 \in DOMAIN s /\ k \in DOMAIN s
    BY <1>3
  <2>2. \A i \in DOMAIN s : s[i].name \in DOMAIN entries'
    BY <1>2 DEF Inv, Calling, FrameOK
  <2> QED  BY <1>1, <1>3, <2>1, <2>2 DEF Keeps
<1>5. Past(f)' /\ Past(g)' /\ Orders(f, g)'
  BY <1>1, <1>4, PastStays, OrdersStays
<1>6. PICK m : m = k + 1
  OBVIOUS
<1>7. m \in Nat /\ m >= k - 1 /\ m <= k + 1 /\ Len(s) = m /\ DOMAIN s = 1 .. m
  BY <1>3, <1>6
<1>8. /\ \A i \in DOMAIN stack' : Past(stack[i])'
      /\ \A i \in 1 .. Len(stack') - 1 : Orders(stack[i], stack[i + 1])'
  BY <1>2, <1>3, <1>5, <1>7, PassStep
<1>9. Top' = g
  BY <1>2, <1>3 DEF Top
<1>10. Served(g)'
  BY DEF Served
<1> QED  BY <1>8, <1>9, <1>10 DEF FramesPast

\* An answer serves the call it is given to.
LEMMA AnswerServes ==
  ASSUME Inv, Further, NEW c, NEW d, c.name \in DOMAIN entries, Past(c), Orders(c, d), Asks(c, d),
         Yields(d)
  PROVE  Served(c)'
<1>1. Keeps /\ functions \subseteq functions'
  BY DEF Further
<1>2. Decl(c.name)' = Decl(c.name)
  BY <1>1, KeepsDecl
<1>3. c.at = "completed" /\ ret'.ok => Held(c).base \in Completed' /\ Held(c)' = Held(c)
  BY <1>1, HeldStays DEF Orders, Yields
<1>4. c.at = "type" => ret'.ok /\ c.name \in functions'
  BY DEF Orders, Yields
<1>5. ASSUME c.call = "sema_resolve_entry", c.at = "typed", Decl(c.name).kind = "variable"
      PROVE  NameLaid(c.name)'
  <2>1. NameLaid(c.name)
    BY <1>5 DEF Asks, Yields
  <2> QED  BY <1>1, <2>1, NameLaidStays
<1>6. ASSUME c.call = "sema_resolve_entry", c.at = "typed", Decl(c.name).kind = "function"
      PROVE  c.name \in functions'
  BY <1>6 DEF Asks, Yields
<1> QED  BY <1>2, <1>3, <1>4, <1>5, <1>6 DEF Served

LEMMA PassReturn ==
  ASSUME Inv, stack # <<>>, FramesRight, FramesPast, Further, stack' = Callers, Yields(Top)
  PROVE  FramesPast'
<1>1. stack \in Seq(Frames)
  BY DEF Inv, TypeOK
<1>2. PICK s, k, d, t : s = stack' /\ k = Len(stack) /\ d = Top /\ t = stack
  OBVIOUS
<1>3. /\ k \in Nat /\ k >= 1 /\ DOMAIN stack = 1 .. k
      /\ Len(s) = k - 1 /\ DOMAIN s = 1 .. k - 1 /\ s \in Seq(Frames)
      /\ \A i \in 1 .. k - 1 : s[i] = stack[i]
  BY <1>1, <1>2, CallersFacts
<1>4. Same(d, d.at)
  BY <1>2 DEF Same
<1>5. /\ \A i \in DOMAIN stack' : Past(stack[i])'
      /\ \A i \in 1 .. Len(stack') - 1 : Orders(stack[i], stack[i + 1])'
  <2>1. PICK m : m = k - 1
    OBVIOUS
  <2>2. /\ m \in Nat /\ DOMAIN s = 1 .. m /\ Len(s) = m /\ m >= k - 1 /\ m <= k + 1
        /\ ~(m >= k) /\ m # k + 1
    BY <1>3, <2>1
  <2> QED  BY <1>2, <1>3, <1>4, <2>2, PassStep
<1>6. ASSUME stack' # <<>>
      PROVE  Served(Top)'
  <2>1. k - 1 >= 1
    BY <1>2, <1>3, <1>6, EmptySeq
  <2>2. PICK i, c : i = k - 1 /\ c = t[i]
    OBVIOUS
  <2>3. i \in 1 .. Len(t) - 1 /\ i \in 1 .. k - 1 /\ i + 1 = k
    BY <1>2, <1>3, <2>1, <2>2
  <2>4. t[i + 1] = d
    BY <1>2, <2>3 DEF Top
  <2>5. c.name \in DOMAIN entries /\ Past(c) /\ Orders(c, d)
    BY <1>2, <2>2, <2>3, <2>4, CallersPast
  <2>6. Asks(c, d)
    BY <1>2, <2>2, <2>3, <2>4 DEF FramesRight
  <2>7. Yields(d)
    BY <1>2
  <2>8. Served(c)'
    BY <2>5, <2>6, <2>7, AnswerServes
  <2>9. Top' = c
    BY <1>2, <1>3, <2>2, <2>3 DEF Top
  <2> QED  BY <2>8, <2>9
<1> QED  BY <1>5, <1>6 DEF FramesPast

LEMMA PassNew ==
  ASSUME Inv, Inv', Further, NEW g, stack' = <<g>>, Past(g), g.at = "start"
  PROVE  FramesPast'
<1>1. PICK s : s = stack'
  OBVIOUS
<1>2. DOMAIN s = {1} /\ Len(s) = 1 /\ s[1] = g
  BY <1>1
<1>3. Top' = g
  BY <1>1, <1>2 DEF Top
<1>4. g.name \in DOMAIN entries
  BY <1>1, <1>2 DEF Inv, Calling, FrameOK, Further, Keeps
<1>5. Past(g)' /\ Served(g)'
  BY <1>4, PastStays DEF Served
<1>6. \A i \in DOMAIN s : Past(s[i])'
  BY <1>2, <1>5
<1>7. 1 .. Len(s) - 1 = {}
  BY <1>2
<1> QED  BY <1>1, <1>3, <1>5, <1>6, <1>7 DEF FramesPast

LEMMA FramesPastStep ==
  ASSUME Inv, Inv', FramesRight, FramesPast, Further, Passes
  PROVE  FramesPast'
<1>1. CASE stack' = <<>>
  <2>1. PICK s : s = stack'
    OBVIOUS
  <2>2. DOMAIN s = {} /\ 1 .. Len(s) - 1 = {}
    BY <1>1, <2>1
  <2> QED  BY <1>1, <2>1, <2>2 DEF FramesPast
<1>2. CASE stack # <<>> /\ stack' = Callers /\ Yields(Top)
  BY <1>2, PassReturn
<1>3. CASE /\ stack # <<>>
           /\ \E f, at : /\ Same(f, at) /\ at \notin {"typed", "type", "completed"}
                         /\ Past(f) /\ Continue(f)
  BY <1>3, PassContinue
<1>4. CASE /\ stack # <<>>
           /\ \E f, g, at : /\ Same(f, at) /\ Past(f) /\ Past(g) /\ g.at = "start"
                            /\ Orders(f, g) /\ CallFrom(f, g)
  BY <1>4, PassCall
<1>5. CASE \E g : stack' = <<g>> /\ Past(g) /\ g.at = "start"
  BY <1>5, PassNew
<1> QED  BY <1>1, <1>2, <1>3, <1>4, <1>5 DEF Passes

-----------------------------------------------------------------------------
(* What the types that sema.c knows hold is laid out *)

\* All that a type needs laid out is known when it is no aggregate itself.
LEMMA LaidKnown ==
  ASSUME Inv, NEW t, Known(t), Grounded(t), ~IsAggregate(t), ArraysLaid
  PROVE  Laid(t)
<1>1. t \in Types /\ DOMAIN aggregates \subseteq Names
  BY DEF Known, Inv, TypeOK
<1>2. CASE t.wraps = <<>>
  <2>1. t.base = Builtin
    BY <1>2 DEF Grounded, IsAggregate
  <2> QED  BY <2>1, NamesAssumption DEF Laid, Contains
<1>3. CASE t.wraps # <<>> /\ ArrayWrap(LastWrap(t))
  BY <1>3 DEF Known, ArraysLaid
<1>4. CASE t.wraps # <<>> /\ ~ArrayWrap(LastWrap(t))
  <2>1. PICK w : w = t.wraps
    OBVIOUS
  <2>2. w \in Seq(Wraps) /\ w # <<>>
    BY <1>1, <1>4, <2>1 DEF Types
  <2>3. Len(w) \in DOMAIN w
    BY <2>2, EmptySeq, LenProperties
  <2>4. w[Len(w)] \in ElementsOf(w) /\ w[Len(w)] # "sized"
    BY <1>4, <2>1, <2>3 DEF ElementsOf, LastWrap, ArrayWrap
  <2> QED  BY <2>1, <2>4 DEF Laid, Contains
<1> QED  BY <1>2, <1>3, <1>4

LEMMA LaidBase ==
  ASSUME NEW t, t.base \in Completed
  PROVE  Laid(t)
BY DEF Laid, Contains

-----------------------------------------------------------------------------
(* What a step without errors does to what the calls are past *)

Ready ==
  /\ Good /\ EntriesGrounded /\ ArraysLaid /\ FunctionsTyped /\ FramesPast
  /\ stack # <<>> => Standing(Top)

LEMMA ReadyTop ==
  ASSUME Ready, stack # <<>>
  PROVE  /\ Inv /\ FramesRight /\ Standing(Top) /\ Past(Top) /\ Served(Top)
         /\ Top \in Frames /\ FrameOK(Top) /\ Answered(Top) /\ Placed(Top) /\ Told(Top)
         /\ Top.name \in DOMAIN entries /\ Top.item \in Nat /\ Top.item >= 1
<1>1. Inv /\ FramesRight /\ Standing(Top) /\ stack \in Seq(Frames)
  BY GoodFacts DEF Ready, Inv, TypeOK
<1>2. Past(Top) /\ Served(Top)
  BY <1>1, CallersFacts DEF Ready, FramesPast, Top
<1>3. /\ Top \in Frames /\ FrameOK(Top) /\ Answered(Top) /\ Placed(Top) /\ Told(Top)
      /\ Top.name \in DOMAIN entries
  BY <1>1, TopRight
<1>4. Top.item \in Nat /\ Top.item >= 1
  BY <1>3 DEF Frames
<1> QED  BY <1>1, <1>2, <1>3, <1>4

LEMMA ContinuePasses ==
  ASSUME stack # <<>>, NEW f, NEW at, Same(f, at), at \notin {"typed", "type", "completed"},
         Past(f), Continue(f)
  PROVE  Passes
BY DEF Passes

LEMMA CallPasses ==
  ASSUME stack # <<>>, NEW f, NEW at, Same(f, at), Past(f), NEW call, NEW n, NEW t,
         NEW g, g = Frame(call, n, t),
         at = "completed" => call = "sema_complete_aggregate" /\ n = Held(f).base,
         at = "type" => call = "sema_resolve_function_type" /\ n = f.name,
         CallFrom(f, g)
  PROVE  Passes
<1>1. Past(g) /\ g.at = "start" /\ g.call = call /\ g.name = n
  BY StartPast
<1>2. Orders(f, g)
  BY <1>1 DEF Orders, Same
<1> QED  BY <1>1, <1>2 DEF Passes

LEMMA ReturnPasses ==
  ASSUME stack # <<>>, stack' = Callers, Yields(Top)
  PROVE  Passes
BY DEF Passes

\* Where a call is in its loop when only its place, its type or its item change.
LEMMA HereItem ==
  ASSUME Inv, stack # <<>>
  PROVE  /\ \A at : Here(at).item = Top.item
         /\ \A at, t : [Here(at) EXCEPT !.type = t].item = Top.item
         /\ \A at : [Here(at) EXCEPT !.item = @ + 1].item = Top.item + 1
         /\ \A at, size : [Here(at) EXCEPT !.item = @ + 1, !.size = @ + Part(size)].item = Top.item + 1
<1>1. PICK d : d = Top
  OBVIOUS
<1>2. d \in Frames
  BY <1>1, TopFacts
<1> QED  BY <1>1, <1>2 DEF Here, Frames

\* A call without a loop is past nothing but what its place says.
LEMMA PastQuiet ==
  ASSUME NEW f, f.call \in {"sema_resolve_type", "sema_resolve_entry"}
  PROVE  Past(f)
BY DEF Past

LEMMA PastSame ==
  ASSUME Past(Top), NEW f, NEW at, Same(f, at), f.item = Top.item,
         f.call = "sema_analyze_function" =>
           /\ at \notin {"start", "type"} => f.name \in functions
           /\ at = "completed" => Settled(Decl(f.name).types[f.item]),
         f.call \notin {"sema_analyze_initializer", "sema_analyze_variable"}
  PROVE  Past(f)
BY DEF Past, Same

LEMMA PastNext ==
  ASSUME Past(Top), Top.item \in Nat, Top.item >= 1, NEW f, NEW at, Same(f, at),
         f.item = Top.item + 1, at # "completed",
         IF f.call = "sema_resolve_function_type" THEN Settled(Decl(f.name).types[Top.item])
                                                  ELSE Had(Decl(f.name).types[Top.item]),
         f.call = "sema_analyze_function" => f.name \in functions,
         f.call \notin {"sema_analyze_initializer", "sema_analyze_variable"}
  PROVE  Past(f)
<1>1. PICK i : i = Top.item
  OBVIOUS
<1>2. i \in Nat /\ f.item - 1 = i
  BY <1>1
<1>3. \A j \in 1 .. i : j \in 1 .. i - 1 \/ j = i
  BY <1>2
<1> QED  BY <1>1, <1>2, <1>3 DEF Past, Same

LEMMA TypePasses ==
  ASSUME Ready, errors' = {}, sema_resolve_type
  PROVE  Passes
<1>1. stack # <<>> /\ Top.call = "sema_resolve_type" /\ Inv
  BY GoodFacts DEF Ready, sema_resolve_type, ResolveTypeName, ResolveTypeNamed,
     ResolveTypeWrap, ResolveTypeReturn, At
<1>2. \A f, at : Same(f, at) => Past(f)
  BY <1>1, PastQuiet DEF Same
<1>3. CASE ResolveTypeName
  <2>1. \/ Continue([Here("wrap") EXCEPT !.type = Plain(Builtin)])
        \/ Continue(Here("wrap"))
        \/ CallFrom(Here("named"), Frame("sema_resolve_entry", Top.expr.base, NoType))
    BY <1>3, GoodFacts, NameLookup DEF Ready
  <2>2. /\ Same([Here("wrap") EXCEPT !.type = Plain(Builtin)], "wrap")
        /\ Same(Here("wrap"), "wrap") /\ Same(Here("named"), "named")
    BY <1>1, HereIs
  <2>3. CASE CallFrom(Here("named"), Frame("sema_resolve_entry", Top.expr.base, NoType))
    BY <1>1, <1>2, <2>2, <2>3, CallPasses
  <2> QED  BY <1>1, <1>2, <2>1, <2>2, <2>3, ContinuePasses
<1>4. CASE ResolveTypeNamed
  <2>1. PICK t : t = entries[Top.expr.base].type
    OBVIOUS
  <2>2. Continue([Here("wrap") EXCEPT !.type = t]) \/ Continue(Here("wrap"))
    BY <1>4, <2>1 DEF ResolveTypeNamed
  <2>3. Same([Here("wrap") EXCEPT !.type = t], "wrap") /\ Same(Here("wrap"), "wrap")
    BY <1>1, HereIs
  <2> QED  BY <1>1, <1>2, <2>2, <2>3, ContinuePasses
<1>5. CASE ResolveTypeWrap
  <2>1. /\ Top.at = "wrap"
        /\ \/ stack' = <<>> /\ phase' # "analyze"
           \/ Continue([Top EXCEPT !.type = Wrap(Top.type, Top.expr.wraps[Top.item]), !.item = @ + 1])
    BY <1>5 DEF ResolveTypeWrap, End, At
  <2>2. Same([Top EXCEPT !.type = Wrap(Top.type, Top.expr.wraps[Top.item]), !.item = @ + 1], "wrap")
    BY <1>1, <2>1, HereIs
  <2>3. CASE stack' = <<>> /\ phase' # "analyze"
    BY <2>3 DEF Passes
  <2> QED  BY <1>1, <1>2, <2>1, <2>2, <2>3, ContinuePasses
<1>6. CASE ResolveTypeReturn
  BY <1>1, <1>6, ReturnPasses DEF ResolveTypeReturn, Return, Yields
<1> QED  BY <1>3, <1>4, <1>5, <1>6 DEF sema_resolve_type

LEMMA EntryPasses ==
  ASSUME Ready, errors' = {}, sema_resolve_entry
  PROVE  Passes
<1>1. stack # <<>> /\ Top.call = "sema_resolve_entry" /\ Inv
  BY GoodFacts DEF Ready, sema_resolve_entry, ResolveEntryMarked, ResolveEntryCall,
     ResolveEntryReturn, At
<1>2. CASE ResolveEntryCall
  <2>1. PICK call, n, t : CallFrom(Here("typed"), Frame(call, n, t))
    BY <1>2 DEF ResolveEntryCall
  <2>2. PICK f : f = Here("typed")
    OBVIOUS
  <2>3. Same(f, "typed")
    BY <1>1, <2>2, HereIs
  <2>4. Past(f)
    BY <1>1, <2>3, PastQuiet DEF Same
  <2> QED  BY <1>1, <2>1, <2>2, <2>3, <2>4, CallPasses
<1>3. CASE ResolveEntryMarked \/ ResolveEntryReturn
  BY <1>1, <1>3, ReturnPasses DEF ResolveEntryMarked, ResolveEntryReturn, Return, Yields
<1> QED  BY <1>2, <1>3 DEF sema_resolve_entry

\* A type expression whose type is known, and one whose aggregate is laid out.
LEMMA HadKnown ==
  ASSUME Inv, EntriesGrounded, ArraysLaid, NEW t \in Types, Settled(t), NEW u, u = Meaning(t),
         Known(u), ~IsAggregate(u)
  PROVE  Had(t)
<1>1. Grounded(u)
  BY GroundedMeaning
<1>2. Laid(u)
  BY <1>1, LaidKnown
<1> QED  BY <1>2 DEF Had

LEMMA HadBase ==
  ASSUME NEW t, Settled(t), Meaning(t).base \in Completed
  PROVE  Had(t)
BY LaidBase DEF Had

LEMMA NextItemPasses ==
  ASSUME Ready, stack # <<>>, Top.call = "sema_complete_aggregate",
         Had(Decl(Top.name).types[Top.item]), NEW size,
         Continue([Here("items") EXCEPT !.item = @ + 1, !.size = @ + Part(size)])
  PROVE  Passes
<1>1. PICK f : f = [Here("items") EXCEPT !.item = @ + 1, !.size = @ + Part(size)]
  OBVIOUS
<1>2. Inv /\ Past(Top) /\ Top.item \in Nat /\ Top.item >= 1
  BY ReadyTop
<1>3. Same(f, "items") /\ f.item = Top.item + 1
  BY <1>1, <1>2, HereIs, HereItem
<1>4. f.call = "sema_complete_aggregate" /\ f.name = Top.name
  BY <1>3 DEF Same
<1>5. Past(f)
  BY <1>2, <1>3, <1>4, PastNext
<1> QED  BY <1>1, <1>3, <1>5, ContinuePasses

LEMMA LayoutPasses ==
  ASSUME Ready, errors' = {}, sema_complete_aggregate
  PROVE  Passes
<1>1. stack # <<>> /\ Top.call = "sema_complete_aggregate"
  BY DEF sema_complete_aggregate, CompleteMarked, CompleteStart, CompleteItem,
     CompleteItemTyped, CompleteItemNested, CompleteReturn, At
<1>2. PICK d, n, ts, i, t : /\ d = Top /\ n = d.name /\ ts = Decl(n).types /\ i = d.item
                            /\ t = ts[i]
  OBVIOUS
<1>3. /\ Inv /\ Past(d) /\ Placed(d) /\ Told(d) /\ Answered(d) /\ FrameOK(d)
      /\ n \in DOMAIN entries /\ n \in DOMAIN aggregates /\ i \in Nat
      /\ ts \in Seq(Types) /\ errors = {} /\ EntriesGrounded /\ ArraysLaid
  BY <1>1, <1>2, ReadyTop, GoodFacts, DeclTyped DEF FrameOK, Ready
<1>4. ASSUME NEW f, NEW at, Same(f, at), f.item = i
      PROVE  Past(f)
  <2>1. f.call = "sema_complete_aggregate"
    BY <1>1, <1>4 DEF Same
  <2> QED  BY <1>2, <1>3, <1>4, <2>1, PastSame
<1>5. d.at \in {"typed", "nested"} => i \in 1 .. Len(ts) /\ t \in Types
  BY <1>1, <1>2, <1>3, ElementOfSeq DEF Placed
<1>6. CASE CompleteMarked
  <2>1. /\ stack' = Callers /\ aggregates' = aggregates
        /\ ret'.ok => aggregates[n].is_complete
    BY <1>2, <1>6 DEF CompleteMarked, Return, scopes, global, local
  <2>2. ret'.ok => n \in Completed'
    BY <1>3, <2>1 DEF Completed
  <2>3. Yields(Top)
    BY <1>1, <1>2, <2>2 DEF Yields
  <2> QED  BY <1>1, <2>1, <2>3, ReturnPasses
<1>7. CASE CompleteStart
  <2>1. PICK f : f = Here("items")
    OBVIOUS
  <2>2. Same(f, "items") /\ f.item = i /\ Continue(f)
    BY <1>1, <1>2, <1>3, <1>7, <2>1, HereIs, HereItem DEF CompleteStart
  <2> QED  BY <1>1, <1>4, <2>2, ContinuePasses
<1>8. CASE CompleteItem
  <2>1. PICK f : f = Here("typed")
    OBVIOUS
  <2>2. Same(f, "typed") /\ f.item = i /\ CallFrom(f, Frame("sema_resolve_type", n, t))
    BY <1>1, <1>2, <1>3, <1>8, <2>1, HereIs, HereItem DEF CompleteItem
  <2> QED  BY <1>1, <1>4, <2>2, CallPasses
<1>9. CASE CompleteItemTyped
  <2>1. PICK u : u = ret.type
    OBVIOUS
  <2>2. d.at = "typed" /\ u # NoType /\ Known(u)
    BY <1>2, <1>3, <1>9, <2>1 DEF CompleteItemTyped, At, Answered, Inv, Scoped
  <2>3. Settled(t) /\ u = Meaning(t) /\ t \in Types
    BY <1>1, <1>2, <1>3, <1>5, <2>1, <2>2 DEF Told, Written
  <2>4. \/ CallFrom([Here("nested") EXCEPT !.type = u],
                    Frame("sema_complete_aggregate", u.base, NoType))
        \/ /\ ~IsAggregate(u)
           /\ \E size : Continue([Here("items") EXCEPT !.item = @ + 1, !.size = @ + Part(size)])
    BY <1>9, <2>1, <2>2 DEF CompleteItemTyped, Add, Part
  <2>5. CASE CallFrom([Here("nested") EXCEPT !.type = u],
                      Frame("sema_complete_aggregate", u.base, NoType))
    <3>1. PICK f : f = [Here("nested") EXCEPT !.type = u]
      OBVIOUS
    <3>2. Same(f, "nested") /\ f.item = i
      BY <1>1, <1>2, <1>3, <3>1, HereIs, HereItem
    <3>3. Past(f)
      BY <1>4, <3>2
    <3>4. CallFrom(f, Frame("sema_complete_aggregate", u.base, NoType))
      BY <2>5, <3>1
    <3> QED  BY <1>1, <3>2, <3>3, <3>4, CallPasses
  <2>6. CASE ~IsAggregate(u) /\ ~CallFrom([Here("nested") EXCEPT !.type = u],
                                          Frame("sema_complete_aggregate", u.base, NoType))
    <3>1. Had(t)
      BY <1>3, <2>2, <2>3, <2>6, HadKnown
    <3> QED  BY <1>1, <1>2, <2>4, <2>6, <3>1, NextItemPasses
  <2> QED  BY <2>4, <2>5, <2>6
<1>10. CASE CompleteItemNested
  <2>1. ret.ok /\ d.at = "nested"
    BY <1>2, <1>10 DEF CompleteItemNested, Report, At
  <2>2. \E size : Continue([Here("items") EXCEPT !.item = @ + 1, !.size = @ + Part(size)])
    BY <1>10 DEF CompleteItemNested, Add, Part
  <2>3. Settled(t) /\ d.type = Meaning(t) /\ d.type.base \in Completed
    BY <1>1, <1>2, <1>3, <2>1 DEF Placed, Told, Written, Completed
  <2>4. Had(t)
    BY <2>3, HadBase
  <2> QED  BY <1>1, <1>2, <2>2, <2>4, NextItemPasses
<1>11. CASE CompleteReturn
  <2>1. stack' = Callers /\ Top.name \in Completed'
    BY <1>3, <1>11, CompletesOne DEF CompleteReturn, Return
  <2>2. Yields(Top)
    BY <1>1, <2>1 DEF Yields
  <2> QED  BY <1>1, <2>1, <2>2, ReturnPasses
<1> QED  BY <1>6, <1>7, <1>8, <1>9, <1>10, <1>11 DEF sema_complete_aggregate

LEMMA FunctionTypePasses ==
  ASSUME Ready, errors' = {}, sema_resolve_function_type
  PROVE  Passes
<1>1. stack # <<>> /\ Top.call = "sema_resolve_function_type"
  BY DEF sema_resolve_function_type, FunctionTypeItem, FunctionTypeTyped, FunctionTypeReturn, At
<1>2. PICK d, i : d = Top /\ i = d.item
  OBVIOUS
<1>3. Inv /\ Past(d) /\ Told(d) /\ Answered(d) /\ i \in Nat /\ i >= 1 /\ errors = {}
  BY <1>1, <1>2, ReadyTop, GoodFacts DEF Ready
<1>4. CASE FunctionTypeItem
  <2>1. PICK f : f = Here("typed")
    OBVIOUS
  <2>2. /\ Same(f, "typed") /\ f.item = i
        /\ CallFrom(f, Frame("sema_resolve_type", d.name, Decl(d.name).types[i]))
    BY <1>1, <1>2, <1>3, <1>4, <2>1, HereIs, HereItem DEF FunctionTypeItem
  <2>3. f.call = "sema_resolve_function_type"
    BY <1>1, <2>2 DEF Same
  <2>4. Past(f)
    BY <1>2, <1>3, <2>2, <2>3, PastSame
  <2> QED  BY <1>1, <2>2, <2>4, CallPasses
<1>5. CASE FunctionTypeTyped
  <2>1. PICK f : f = [Here("start") EXCEPT !.item = @ + 1]
    OBVIOUS
  <2>2. d.at = "typed" /\ ret.type # NoType
    BY <1>2, <1>3, <1>5 DEF FunctionTypeTyped, At, Answered
  <2>3. Same(f, "start") /\ f.item = i + 1 /\ Continue(f)
    BY <1>1, <1>2, <1>3, <1>5, <2>1, <2>2, HereIs, HereItem DEF FunctionTypeTyped
  <2>4. f.call = "sema_resolve_function_type" /\ f.name = d.name
    BY <1>1, <1>2, <2>3 DEF Same
  <2>5. Settled(Decl(d.name).types[i])
    BY <1>1, <1>2, <1>3, <2>2 DEF Told, Written
  <2>6. Past(f)
    BY <1>2, <1>3, <2>3, <2>4, <2>5, PastNext
  <2> QED  BY <1>1, <2>3, <2>6, ContinuePasses
<1>6. CASE FunctionTypeReturn
  <2>1. stack' = Callers /\ ret'.ok /\ Top.name \in functions'
    BY <1>6 DEF FunctionTypeReturn, Return
  <2>2. Yields(Top)
    BY <1>1, <2>1 DEF Yields
  <2> QED  BY <1>1, <2>1, <2>2, ReturnPasses
<1> QED  BY <1>4, <1>5, <1>6 DEF sema_resolve_function_type

\* A name that stands for an aggregate by itself.
LEMMA AggregateEntry ==
  ASSUME Inv, phase = "analyze", NEW m \in DOMAIN entries, Decl(m).kind = "aggregate"
  PROVE  entries[m].type = Plain(m) /\ m \in DOMAIN aggregates
<1>1. PICK i : i = entries[m].node
  OBVIOUS
<1>2. i \in DOMAIN program /\ program[i].name = m /\ program[i].kind = "aggregate"
  BY <1>1 DEF Inv, TypeOK, Scoped, Decl
<1> QED  BY <1>2 DEF Inv, TypeOK

LEMMA InitializerPasses ==
  ASSUME Ready, errors' = {}, sema_analyze_initializer
  PROVE  Passes
<1>1. stack # <<>> /\ Top.call = "sema_analyze_initializer"
  BY DEF sema_analyze_initializer, InitializerStart, InitializerTyped,
     InitializerNamed, InitializerCompleted, InitializerReturn, At
<1>2. PICK d, n, e, m, t : d = Top /\ n = d.name /\ e = Decl(n) /\ m = e.init /\ t = e.types[1]
  OBVIOUS
<1>3. /\ Inv /\ Past(d) /\ Placed(d) /\ Told(d) /\ Answered(d) /\ FrameOK(d) /\ Served(d)
      /\ Standing(d) /\ n \in DOMAIN entries /\ e.kind = "variable" /\ d \in Frames
      /\ errors = {} /\ phase = "analyze" /\ EntriesGrounded /\ ArraysLaid /\ Owned
  BY <1>1, <1>2, ReadyTop, GoodFacts DEF FrameOK, Ready
<1>4. m = None => t \in Types
  BY <1>2, <1>3, DeclTyped
<1>5. m \in Names \cup {Builtin, None}
  BY <1>2, <1>3, DeclTyped
<1>6. \A f, at : Same(f, at) =>
        f.call = "sema_analyze_initializer" /\ f.name = n /\ f.at = at
  BY <1>1, <1>2 DEF Same
<1>7. \A f, at : /\ Same(f, at) /\ (at = "return" => NameLaid(n))
                 /\ at = "completed" => m # Builtin
                 => Past(f)
  BY <1>2, <1>6 DEF Past
<1>8. ASSUME NameLaid(n), NEW f, Same(f, "return"), Continue(f)
      PROVE  Passes
  BY <1>1, <1>7, <1>8, ContinuePasses
<1>9. ASSUME NEW u, NEW x, u.base = x, m # Builtin,
             CallFrom([[Here("return") EXCEPT !.type = u] EXCEPT !.at = "completed"],
                      Frame("sema_complete_aggregate", x, NoType))
      PROVE  Passes
  <2>1. PICK f : f = [[Here("return") EXCEPT !.type = u] EXCEPT !.at = "completed"]
    OBVIOUS
  <2>2. Same(f, "completed")
    BY <1>1, <1>3, <2>1, HereIs
  <2>3. f.type = u
    BY <1>2, <1>3, <2>1 DEF Here, Frames
  <2>4. Past(f) /\ Held(f) = u
    BY <1>6, <1>7, <1>9, <2>2, <2>3 DEF Held
  <2>5. CallFrom(f, Frame("sema_complete_aggregate", x, NoType)) /\ x = Held(f).base
    BY <1>9, <2>1, <2>4
  <2> QED  BY <1>1, <2>2, <2>4, <2>5, CallPasses
<1>10. CASE InitializerStart
  <2>1. PICK f, g : f = Here("typed") /\ g = Here("named")
    OBVIOUS
  <2>2. Same(f, "typed") /\ Same(g, "named")
    BY <1>1, <1>3, <2>1, HereIs
  <2>3. Past(f) /\ Past(g)
    BY <1>7, <2>2
  <2>4. \/ CallFrom(f, Frame("sema_resolve_type", e.name, t))
        \/ CallFrom(g, Frame("sema_resolve_entry", m, NoType))
        \/ End("crashed")
    <3>1. Clear
      BY GoodFacts DEF Ready
    <3>2. PICK b : b = Decl(Top.name)
      OBVIOUS
    <3>3. b = e /\ b.init = m /\ b.types[1] = t /\ b.name = e.name
      BY <1>2, <3>2
    <3>4. \/ CallFrom(Here("typed"), Frame("sema_resolve_type", b.name, b.types[1]))
          \/ End("crashed")
          \/ CallFrom(Here("named"), Frame("sema_resolve_entry", b.init, NoType))
          \/ Report("undefined symbol")
      BY <1>3, <1>10, <3>1, <3>2, InitializerLookup
    <3> QED  BY <2>1, <3>3, <3>4 DEF Report
  <2>5. CASE CallFrom(f, Frame("sema_resolve_type", e.name, t))
    BY <1>1, <2>2, <2>3, <2>5, CallPasses
  <2>6. CASE CallFrom(g, Frame("sema_resolve_entry", m, NoType))
    BY <1>1, <2>2, <2>3, <2>6, CallPasses
  <2>7. CASE End("crashed")
    BY <2>7 DEF End, Passes
  <2> QED  BY <2>4, <2>5, <2>6, <2>7
<1>11. CASE InitializerTyped
  <2>1. PICK u, f : u = ret.type /\ f = [Here("return") EXCEPT !.type = u]
    OBVIOUS
  <2>2. d.at = "typed" /\ Known(u)
    BY <1>2, <1>3, <1>11, <2>1 DEF InitializerTyped, At, Inv, Scoped
  <2>3. m = None /\ m # Builtin
    BY <1>1, <1>2, <1>3, <2>2, NamesAssumption DEF Standing
  <2>4. Settled(t) /\ u = Meaning(t)
    BY <1>1, <1>2, <1>3, <2>1, <2>2, <2>3 DEF Told, Written, Origin
  <2>5. \/ stack' = <<>> /\ phase' # "analyze"
        \/ CallFrom([[Here("return") EXCEPT !.type = u] EXCEPT !.at = "completed"],
                    Frame("sema_complete_aggregate", u.base, NoType))
        \/ ~IsAggregate(u) /\ Continue(f)
    BY <1>11, <2>1 DEF InitializerTyped, End
  <2>6. CASE ~IsAggregate(u) /\ Continue(f)
    <3>1. Had(t)
      BY <1>3, <1>4, <2>2, <2>3, <2>4, <2>6, HadKnown
    <3>2. NameLaid(n)
      BY <1>2, <2>3, <3>1 DEF NameLaid
    <3>3. Same(f, "return")
      BY <1>1, <1>3, <2>1, HereIs
    <3> QED  BY <1>8, <2>6, <3>2, <3>3
  <2> QED  BY <1>9, <2>3, <2>5, <2>6 DEF Passes
<1>12. CASE InitializerNamed
  <2>1. PICK u, f : u = entries[m].type /\ f = [Here("return") EXCEPT !.type = u]
    OBVIOUS
  <2>2. d.at = "named" /\ m \in DOMAIN entries /\ m # None /\ m # Builtin
    BY <1>1, <1>2, <1>3, <1>12, NamesAssumption DEF InitializerNamed, At, FrameOK, Inv, TypeOK
  <2>3. \/ /\ Decl(m).kind = "aggregate"
           /\ CallFrom([[Here("return") EXCEPT !.type = u] EXCEPT !.at = "completed"],
                       Frame("sema_complete_aggregate", m, NoType))
        \/ Decl(m).kind # "aggregate" /\ Continue(f)
    BY <1>2, <1>12, <2>1 DEF InitializerNamed, Report
  <2>4. CASE Decl(m).kind = "aggregate"
    <3>1. u.base = m
      <4>1. entries[m].type = Plain(m)
        BY <1>3, <2>2, <2>4, AggregateEntry
      <4> QED  BY <2>1, <4>1 DEF Plain
    <3> QED  BY <1>9, <2>2, <2>3, <2>4, <3>1
  <2>5. CASE Decl(m).kind # "aggregate"
    <3>1. m \notin DOMAIN aggregates
      BY <1>3, <2>5 DEF Owned
    <3>2. NameLaid(n)
      BY <1>2, <2>2, <3>1 DEF NameLaid
    <3>3. Same(f, "return")
      BY <1>1, <1>3, <2>1, HereIs
    <3> QED  BY <1>8, <2>3, <2>5, <3>2, <3>3
  <2> QED  BY <2>4, <2>5
<1>13. CASE InitializerCompleted
  <2>1. PICK f : f = Here("return")
    OBVIOUS
  <2>2. d.at = "completed" /\ ret.ok /\ Continue(f)
    BY <1>2, <1>13, <2>1 DEF InitializerCompleted, Report, At
  <2>3. d.type.base \in Completed /\ Sound(n) /\ d.type = Says(n)
    BY <1>1, <1>2, <1>3, <2>2 DEF Served, Held, Placed
  <2>4. PICK o : o = Origin(n)
    OBVIOUS
  <2>5. Settled(o) /\ d.type = Meaning(o)
    BY <1>2, <1>3, <2>3, <2>4 DEF Sound, Says
  <2>6. NameLaid(n)
    <3>1. CASE m = None
      <4>1. Had(t)
        BY <1>2, <2>3, <2>4, <2>5, <3>1, HadBase DEF Origin
      <4> QED  BY <1>2, <3>1, <4>1 DEF NameLaid
    <3>2. CASE m # None /\ m \in DOMAIN aggregates
      <4>1. m \in DOMAIN entries /\ Decl(m).kind = "aggregate"
        BY <1>3, <3>2 DEF Owned, Inv, TypeOK
      <4>2. entries[m].type = Plain(m) /\ m \in Names /\ m # Builtin
        BY <1>3, <3>2, <4>1, AggregateEntry, NamesAssumption DEF Inv, TypeOK
      <4>3. o = Plain(m)
        BY <1>2, <2>4, <3>2 DEF Origin
      <4>4. m \in Resolved
        BY <2>5, <4>2, <4>3 DEF Settled, Plain
      <4>5. Meaning(o) = Plain(m)
        BY <1>3, <4>2, <4>3, <4>4, MeaningBase
      <4>6. m \in Completed
        BY <2>3, <2>5, <4>5 DEF Plain
      <4> QED  BY <1>2, <3>2, <4>2, <4>6 DEF NameLaid
    <3>3. CASE m # None /\ m \notin DOMAIN aggregates
      <4>1. m # Builtin
        BY <1>1, <1>2, <1>3, <2>2 DEF Past
      <4> QED  BY <1>2, <3>3, <4>1 DEF NameLaid
    <3> QED  BY <3>1, <3>2, <3>3
  <2>7. Same(f, "return")
    BY <1>1, <1>3, <2>1, HereIs
  <2> QED  BY <1>8, <2>2, <2>6, <2>7
<1>14. CASE InitializerReturn
  <2>1. stack' = Callers /\ d.at = "return"
    BY <1>2, <1>14 DEF InitializerReturn, Return, At
  <2>2. NameLaid(n)
    BY <1>1, <1>2, <1>3, <2>1 DEF Past
  <2>3. Yields(Top)
    BY <1>1, <1>2, <2>2 DEF Yields
  <2> QED  BY <1>1, <2>1, <2>3, ReturnPasses
<1> QED  BY <1>10, <1>11, <1>12, <1>13, <1>14 DEF sema_analyze_initializer

LEMMA DeclarationPasses ==
  ASSUME stack = <<>>, AnalyzeDeclaration
  PROVE  Passes
<1>1. \/ stack' = stack
      \/ \E call, n, t : stack' = <<Frame(call, n, t)>>
  BY DEF AnalyzeDeclaration
<1>2. \A call, n, t : Past(Frame(call, n, t)) /\ Frame(call, n, t).at = "start"
  BY StartPast
<1> QED  BY <1>1, <1>2 DEF Passes

LEMMA VariablePasses ==
  ASSUME Ready, errors' = {}, sema_analyze_variable
  PROVE  Passes
<1>1. stack # <<>> /\ Top.call = "sema_analyze_variable"
  BY DEF sema_analyze_variable, AnalyzeVariableStart, AnalyzeVariableNamed,
     AnalyzeVariableCompleted, At
<1>2. PICK d, n : d = Top /\ n = d.name
  OBVIOUS
<1>3. Inv /\ Answered(d) /\ n \in DOMAIN entries /\ errors = {}
  BY <1>1, <1>2, ReadyTop, GoodFacts DEF Ready
<1>4. \A f, at : Same(f, at) => f.call = "sema_analyze_variable" /\ f.name = n /\ f.at = at
  BY <1>1, <1>2 DEF Same
<1>5. \A f, at : Same(f, at) /\ (at = "completed" => n \in Resolved) => Past(f)
  BY <1>4 DEF Past
<1>6. CASE AnalyzeVariableStart
  <2>1. PICK f : f = Here("named")
    OBVIOUS
  <2>2. Same(f, "named") /\ CallFrom(f, Frame("sema_resolve_entry", n, NoType))
    BY <1>1, <1>2, <1>3, <1>6, <2>1, HereIs, GoodFacts, VariableLookup DEF Ready
  <2> QED  BY <1>1, <1>5, <2>2, CallPasses
<1>7. stack' = Callers => Passes
  BY <1>1, ReturnPasses DEF Yields
<1>8. CASE AnalyzeVariableNamed
  <2>1. PICK f, m : f = Here("completed") /\ m = entries[n].type.base
    OBVIOUS
  <2>2. \/ stack' = <<>> /\ phase' # "analyze"
        \/ stack' = Callers
        \/ CallFrom(f, Frame("sema_complete_aggregate", m, NoType))
    BY <1>2, <1>8, <2>1 DEF AnalyzeVariableNamed, End
  <2>3. n \in Resolved
    BY <1>1, <1>2, <1>3, <1>8 DEF AnalyzeVariableNamed, At, Answered, Resolved
  <2>4. Same(f, "completed")
    BY <1>1, <1>3, <2>1, HereIs
  <2>5. Past(f) /\ m = Held(f).base
    BY <1>4, <1>5, <2>1, <2>3, <2>4 DEF Held
  <2>6. CASE CallFrom(f, Frame("sema_complete_aggregate", m, NoType))
    BY <1>1, <2>4, <2>5, <2>6, CallPasses
  <2> QED  BY <1>7, <2>2, <2>6 DEF Passes
<1>9. CASE AnalyzeVariableCompleted
  BY <1>7, <1>9 DEF AnalyzeVariableCompleted
<1> QED  BY <1>6, <1>8, <1>9 DEF sema_analyze_variable

LEMMA FunctionPasses ==
  ASSUME Ready, errors' = {}, sema_analyze_function
  PROVE  Passes
<1>1. stack # <<>> /\ Top.call = "sema_analyze_function"
  BY DEF sema_analyze_function, AnalyzeFunctionStart, AnalyzeFunctionParameter,
     AnalyzeFunctionTyped, AnalyzeFunctionParameterTyped, AnalyzeFunctionCompleted,
     AnalyzeFunctionReturn, At
<1>2. PICK d, n, ts, i, t : /\ d = Top /\ n = d.name /\ ts = Decl(n).types /\ i = d.item
                            /\ t = ts[i]
  OBVIOUS
<1>3. /\ Inv /\ Past(d) /\ Told(d) /\ Answered(d) /\ Served(d) /\ Standing(d)
      /\ n \in DOMAIN entries /\ ts \in Seq(Types) /\ i \in Nat /\ i >= 1
      /\ errors = {} /\ EntriesGrounded /\ ArraysLaid
  BY <1>1, <1>2, ReadyTop, GoodFacts, DeclTyped DEF Ready
<1>4. \A f, at : Same(f, at) => f.call = "sema_analyze_function" /\ f.name = n /\ f.at = at
  BY <1>1, <1>2 DEF Same
<1>5. d.at \notin {"start", "type"} => n \in functions
  BY <1>1, <1>2, <1>3 DEF Past
<1>6. ASSUME NEW f, NEW at, Same(f, at), f.item = i,
             at \notin {"start", "type"} => n \in functions,
             at = "completed" => Settled(t)
      PROVE  Past(f)
  <2>1. f.call = "sema_analyze_function" /\ f.name = n
    BY <1>4, <1>6
  <2> QED  BY <1>2, <1>3, <1>6, <2>1, PastSame
<1>7. stack' = Callers => Passes
  BY <1>1, ReturnPasses DEF Yields
<1>8. ASSUME Had(t), n \in functions, Continue([Here("parameters") EXCEPT !.item = @ + 1])
      PROVE  Passes
  <2>1. PICK f : f = [Here("parameters") EXCEPT !.item = @ + 1]
    OBVIOUS
  <2>2. Same(f, "parameters") /\ f.item = i + 1
    BY <1>1, <1>2, <1>3, <2>1, HereIs, HereItem
  <2>3. f.call = "sema_analyze_function" /\ f.name = n
    BY <1>4, <2>2
  <2>4. Past(f)
    BY <1>2, <1>3, <1>8, <2>2, <2>3, PastNext
  <2> QED  BY <1>1, <1>8, <2>1, <2>2, <2>4, ContinuePasses
<1>9. CASE AnalyzeFunctionStart
  <2>1. PICK f : f = Here("type")
    OBVIOUS
  <2>2. /\ Same(f, "type") /\ f.item = i
        /\ CallFrom(f, Frame("sema_resolve_function_type", n, NoType))
    BY <1>1, <1>2, <1>3, <1>9, <2>1, HereIs, HereItem DEF AnalyzeFunctionStart
  <2>3. Past(f) /\ f.name = n
    BY <1>4, <1>6, <2>2
  <2> QED  BY <1>1, <2>2, <2>3, CallPasses
<1>10. CASE AnalyzeFunctionParameter
  <2>1. PICK f : f = Here("typed")
    OBVIOUS
  <2>2. CallFrom(f, Frame("sema_resolve_type", n, t))
    BY <1>2, <1>10, <2>1 DEF AnalyzeFunctionParameter
  <2>3. Same(f, "typed") /\ f.item = i /\ d.at = "parameters"
    BY <1>1, <1>2, <1>3, <1>10, <2>1, HereIs, HereItem DEF AnalyzeFunctionParameter, At
  <2>4. Past(f)
    BY <1>5, <1>6, <2>3
  <2> QED  BY <1>1, <2>2, <2>3, <2>4, CallPasses
<1>11. CASE AnalyzeFunctionTyped
  <2>1. PICK f : f = Here("parameters")
    OBVIOUS
  <2>2. d.at = "type" /\ (stack' = Callers \/ Continue(f))
    BY <1>2, <1>11, <2>1 DEF AnalyzeFunctionTyped, At
  <2>3. n \in functions
    BY <1>2, <1>3, <2>2 DEF Served
  <2>4. Same(f, "parameters") /\ f.item = i
    BY <1>1, <1>2, <1>3, <2>1, HereIs, HereItem
  <2>5. Past(f)
    BY <1>6, <2>3, <2>4
  <2> QED  BY <1>1, <1>7, <2>2, <2>4, <2>5, ContinuePasses
<1>12. CASE AnalyzeFunctionParameterTyped
  <2>1. PICK u : u = ret.type
    OBVIOUS
  <2>8. PICK f : f = [Here("completed") EXCEPT !.type = u]
    OBVIOUS
  <2>2. d.at = "typed" /\ Known(u)
    BY <1>2, <1>3, <1>12, <2>1 DEF AnalyzeFunctionParameterTyped, At, Inv, Scoped
  <2>3. Settled(t) /\ u = Meaning(t) /\ n \in functions
    BY <1>1, <1>2, <1>3, <1>5, <2>1, <2>2 DEF Told, Written
  <2>4. t \in Types
    <3>1. i < Len(ts)
      BY <1>1, <1>2, <1>3, <2>2 DEF Standing
    <3>2. i \in 1 .. Len(ts)
      BY <1>3, <3>1, LenProperties
    <3> QED  BY <1>2, <1>3, <3>2, ElementOfSeq
  <2>5. \/ stack' = <<>> /\ phase' # "analyze"
        \/ CallFrom(f, Frame("sema_complete_aggregate", u.base, NoType))
        \/ ~IsAggregate(u) /\ Continue([Here("parameters") EXCEPT !.item = @ + 1])
    BY <1>12, <2>1, <2>8 DEF AnalyzeFunctionParameterTyped, Put, End
  <2>6. CASE CallFrom(f, Frame("sema_complete_aggregate", u.base, NoType))
    <3>1. Same(f, "completed") /\ f.item = i
      BY <1>1, <1>2, <1>3, <2>8, HereIs, HereItem
    <3>2. Past(f)
      BY <1>6, <2>3, <3>1
    <3>3. Held(f) = u
      BY <1>2, <1>4, <2>3, <3>1 DEF Held
    <3>4. u.base = Held(f).base
      BY <3>3
    <3> QED  BY <1>1, <2>6, <3>1, <3>2, <3>4, CallPasses
  <2>7. CASE ~IsAggregate(u) /\ Continue([Here("parameters") EXCEPT !.item = @ + 1])
    <3>1. Had(t)
      BY <1>3, <2>2, <2>3, <2>4, <2>7, HadKnown
    <3> QED  BY <1>8, <2>3, <2>7, <3>1
  <2> QED  BY <2>5, <2>6, <2>7 DEF Passes
<1>13. CASE AnalyzeFunctionCompleted
  <2>1. d.at = "completed" /\ ret.ok /\ Continue([Here("parameters") EXCEPT !.item = @ + 1])
    BY <1>2, <1>13 DEF AnalyzeFunctionCompleted, Put, Report, At
  <2>2. Settled(t) /\ n \in functions
    BY <1>1, <1>2, <1>3, <1>5, <2>1 DEF Past
  <2>3. Meaning(t).base \in Completed
    BY <1>1, <1>2, <1>3, <2>1 DEF Served, Held
  <2>4. Had(t)
    BY <2>2, <2>3, HadBase
  <2> QED  BY <1>8, <2>1, <2>2, <2>4
<1>14. CASE AnalyzeFunctionReturn
  BY <1>7, <1>14 DEF AnalyzeFunctionReturn
<1> QED  BY <1>9, <1>10, <1>11, <1>12, <1>13, <1>14 DEF sema_analyze_function

LEMMA AnalysisPasses ==
  ASSUME Ready, errors' = {}, Next
  PROVE  Passes
<1>1. CASE Analyzed
  BY <1>1 DEF Analyzed, Passes
<1>2. ~sema_register /\ ~Registered
  BY GoodFacts DEF sema_register, Registered, Ready
<1>3. CASE AnalyzeDeclaration
  BY <1>3, DeclarationPasses DEF AnalyzeDeclaration
<1> QED  BY <1>1, <1>2, <1>3, TypePasses, EntryPasses, LayoutPasses, InitializerPasses,
            FunctionTypePasses, VariablePasses, FunctionPasses DEF Next

-----------------------------------------------------------------------------
(* What has been seen to has all it needs *)

LEMMA SeesOne ==
  ASSUME Good, Keeps, Whole, NEW w, NeedsOf(w) \subseteq Seen, Seen \subseteq Seen',
         Seen' \subseteq Seen \cup {w}
  PROVE  Whole'
<1>1. PICK V : V = Seen
  OBVIOUS
<1>2. /\ \A node : NeedsOf(node)' = NeedsOf(node)
      /\ \A nodes : NeededFrom(nodes)' = NeededFrom(nodes)
  BY NeedsStay DEF NeededFrom, Keeps, input
<1>3. ASSUME w \notin V
      PROVE  w \notin NeededFrom({w})
  <2>1. PICK p, D : p = program /\ D = Denotations(program) /\ p \in Seq(Decls)
    BY GoodFacts
  <2>2. \A v : Needs(p, D, v) = NeedsOf(v)
    BY <2>1 DEF NeedsOf
  <2>3. NeededBy(p, D, {w}) \subseteq V
    BY <1>1, <2>2 DEF NeededBy
  <2>4. NeededBy(p, D, V) \subseteq V
    BY <1>1, <2>2 DEF NeededBy, Whole
  <2>5. Needed(p, D, {w}) \subseteq V
    BY <2>1, <2>3, <2>4, NeededLeast
  <2> QED  BY <1>3, <2>1, <2>5 DEF NeededFrom
<1>4. ASSUME NEW v \in Seen'
      PROVE  NeedsOf(v) \subseteq Seen' /\ v \notin NeededFrom({v})
  <2>1. CASE v \in Seen
    BY <2>1 DEF Whole
  <2>2. CASE v \notin Seen
    <3>1. v = w
      BY <1>4, <2>2
    <3> QED  BY <1>1, <1>3, <2>2, <3>1
  <2> QED  BY <2>1, <2>2
<1> QED  BY <1>2, <1>4 DEF Whole

LEMMA SeenNames ==
  ASSUME FunctionsTyped, NEW ts, \A j \in DOMAIN ts : Settled(ts[j])
  PROVE  NamesIn(ts) \subseteq Seen
<1>1. ASSUME NEW t \in ElementsOf(ts), t.base # Builtin
      PROVE  <<"name", t.base>> \in Seen
  <2>1. t.base \in Resolved
    BY <1>1 DEF ElementsOf, Settled
  <2>2. t.base \in Named
    BY <2>1 DEF FunctionsTyped, Named
  <2> QED  BY <2>2 DEF Seen
<1> QED  BY <1>1 DEF NamesIn

LEMMA SeenLayouts ==
  ASSUME Good, NEW ts, \A j \in DOMAIN ts : Had(ts[j])
  PROVE  LayoutsIn(Denotations(program), ts) \subseteq Seen
<1>1. PICK D : D = Denotations(program)
  OBVIOUS
<1>2. ASSUME NEW t \in ElementsOf(ts), NEW m \in Contains(Denoted(D, t))
      PROVE  <<"layout", m>> \in Seen
  <2>1. Had(t)
    BY <1>2 DEF ElementsOf
  <2>2. Denoted(D, t) = Meaning(t)
    BY <1>1, <2>1, MeaningDenoted DEF Had
  <2>3. m \in Completed
    BY <1>2, <2>1, <2>2 DEF Had, Laid
  <2> QED  BY <2>3 DEF Seen
<1> QED  BY <1>1, <1>2 DEF LayoutsIn

LEMMA SeenGrows ==
  ASSUME Further
  PROVE  Seen \subseteq Seen'
<1>1. Keeps /\ functions \subseteq functions'
  BY DEF Further
<1>2. ASSUME NEW n \in Named
      PROVE  n \in Named'
  <2>1. CASE n \in functions
    BY <1>1, <2>1 DEF Named
  <2>2. CASE n \in Resolved /\ Decl(n).kind # "function"
    <3>1. n \in DOMAIN entries
      BY <2>2 DEF Resolved
    <3>2. Decl(n)' = Decl(n) /\ n \in Resolved'
      BY <1>1, <2>2, <3>1, KeepsDecl DEF Keeps
    <3> QED  BY <2>2, <3>2 DEF Named
  <2> QED  BY <1>2, <2>1, <2>2 DEF Named
<1>3. Completed \subseteq Completed'
  BY <1>1 DEF Keeps
<1> QED  BY <1>2, <1>3 DEF Seen

\* What a step adds to what has been seen to.
LEMMA SeenAdds ==
  ASSUME Keeps, functions \subseteq DOMAIN entries,
         NEW n, NEW m, Resolved' \subseteq Resolved \cup {n}, functions' \subseteq functions \cup {m},
         NEW v \in Seen', v \notin Seen
  PROVE  \/ v = <<"name", n>> /\ n \in Resolved' /\ Decl(n)'.kind # "function"
         \/ v = <<"name", m>>
         \/ \E a \in Completed' : a \notin Completed /\ v = <<"layout", a>>
<1>1. CASE \E x \in Named' : v = <<"name", x>>
  <2>1. PICK x : x \in Named' /\ v = <<"name", x>>
    BY <1>1
  <2>2. x \notin Named
    BY <2>1 DEF Seen
  <2>3. CASE x \in functions'
    <3>1. x \notin functions
      BY <2>2 DEF Named
    <3> QED  BY <2>1, <2>3, <3>1
  <2>4. CASE x \in Resolved' /\ Decl(x)'.kind # "function"
    <3>1. x \notin Resolved
      <4>1. ASSUME x \in Resolved
            PROVE  FALSE
        <5>1. x \in DOMAIN entries
          BY <4>1 DEF Resolved
        <5>2. Decl(x)' = Decl(x)
          BY <5>1, KeepsDecl
        <5> QED  BY <2>2, <2>4, <4>1, <5>2 DEF Named
      <4> QED  BY <4>1
    <3> QED  BY <2>1, <2>4, <3>1
  <2> QED  BY <2>1, <2>3, <2>4 DEF Named
<1>2. CASE \E a \in Completed' : v = <<"layout", a>>
  BY <1>2 DEF Seen
<1> QED  BY <1>1, <1>2 DEF Seen

\* What an entry needs when it is resolved.
LEMMA EntrySeen ==
  ASSUME Ready, ResolveEntryReturn, NEW n, n = Top.name, Decl(n).kind # "function"
  PROVE  NeedsOf(<<"name", n>>) \subseteq Seen
<1>1. /\ stack # <<>> /\ Top.call = "sema_resolve_entry" /\ Top.at = "typed"
      /\ n \in DOMAIN entries /\ Decl(n).kind # "aggregate" /\ Good /\ Inv /\ phase = "analyze"
  BY ResolvesOne, GoodFacts DEF Ready
<1>2. Told(Top) /\ Served(Top) /\ FunctionsTyped
  BY <1>1, ReadyTop DEF Ready
<1>3. PICK e, ts, m, D : e = Decl(n) /\ ts = e.types /\ m = e.init /\ D = Denotations(program)
  OBVIOUS
<1>4. e \in Decls /\ e.kind \in {"alias", "variable"} /\ ts \in Seq(Types)
  BY <1>1, <1>3, DeclTyped DEF Decls, Kinds
<1>5. Settled(Origin(n))
  BY <1>1, <1>2 DEF Told, Sound
<1>6. e.kind = "variable" => NameLaid(n)
  BY <1>1, <1>2, <1>3 DEF Served
<1>7. CASE m = None
  <2>1. Len(ts) = 1
    BY <1>3, <1>4, <1>7 DEF Decls
  <2>2. DOMAIN ts = {1}
    BY <1>4, <2>1, LenProperties
  <2>3. Settled(ts[1])
    BY <1>3, <1>5, <1>7 DEF Origin
  <2>4. NamesIn(ts) \subseteq Seen
    BY <1>2, <2>2, <2>3, SeenNames
  <2>5. e.kind = "variable" => LayoutsIn(D, ts) \subseteq Seen
    <3>1. e.kind = "variable" => Had(ts[1])
      BY <1>3, <1>6, <1>7 DEF NameLaid
    <3> QED  BY <1>1, <1>3, <2>2, <3>1, SeenLayouts
  <2>6. NeedsOf(<<"name", n>>) =
          NamesIn(ts) \cup (IF e.kind = "variable" THEN LayoutsIn(D, ts) ELSE {})
    <3>1. e.kind # "aggregate" /\ e.init = None
      BY <1>1, <1>3, <1>7
    <3>2. e.kind # "aggregate" /\ e.init = None =>
            NeedsOf(<<"name", n>>) =
              NamesIn(e.types) \cup (IF e.kind = "variable" THEN LayoutsIn(D, e.types) ELSE {})
      BY <1>1, <1>3, NeedsAre
    <3> QED  BY <1>3, <3>1, <3>2
  <2> QED  BY <2>4, <2>5, <2>6
<1>8. CASE m # None
  <2>1. e.kind = "variable"
    BY <1>3, <1>4, <1>8 DEF Decls
  <2>2. m \in Resolved
    <3>2. m # Builtin
      BY <1>3, <1>6, <1>8, <2>1 DEF NameLaid
    <3> QED  BY <1>3, <1>5, <1>8, <3>2 DEF Origin, Settled, Plain
  <2>3. <<"name", m>> \in Seen
    BY <1>2, <2>2 DEF FunctionsTyped, Named, Seen
  <2>4. m \in AggregatesIn(program) => <<"layout", m>> \in Seen
    <3>1. m \in AggregatesIn(program) => m \in DOMAIN aggregates
      BY <1>1 DEF AggregatesIn, Inv, TypeOK
    <3>2. m \in DOMAIN aggregates => m \in Completed
      BY <1>3, <1>6, <1>8, <2>1 DEF NameLaid
    <3> QED  BY <3>1, <3>2 DEF Seen
  <2>5. NeedsOf(<<"name", n>>) =
          {<<"name", m>>} \cup {<<"layout", a>> : a \in {m} \cap AggregatesIn(program)}
    BY <1>1, <1>3, <1>8, NeedsAre
  <2> QED  BY <2>3, <2>4, <2>5
<1> QED  BY <1>7, <1>8

LEMMA FunctionSeen ==
  ASSUME Ready, FunctionTypeReturn, NEW n, n = Top.name, n \notin functions
  PROVE  NeedsOf(<<"name", n>>) \subseteq Seen
<1>1. /\ stack # <<>> /\ Top.call = "sema_resolve_function_type" /\ Good
      /\ Top.item > Len(Decl(n).types)
  BY DEF Ready, FunctionTypeReturn, At
<1>2. PICK e, ts, i : e = Decl(n) /\ ts = e.types /\ i = Top.item
  OBVIOUS
<1>3. /\ n \in DOMAIN entries /\ Past(Top) /\ Standing(Top) /\ i \in Nat /\ FunctionsTyped /\ Inv
  BY <1>1, <1>2, ReadyTop DEF Ready
<1>4. e \in Decls /\ e.kind = "function" /\ ts \in Seq(Types)
  BY <1>1, <1>2, <1>3, DeclTyped DEF Standing
<1>5. e.init = None
  BY <1>4 DEF Decls
<1>6. \A j \in DOMAIN ts : Settled(ts[j])
  <2> TAKE j \in DOMAIN ts
  <2>1. DOMAIN ts = 1 .. Len(ts) /\ Len(ts) \in Nat
    BY <1>4, LenProperties
  <2>2. j \in 1 .. i - 1
    BY <1>1, <1>2, <1>3, <2>1
  <2> QED  BY <1>1, <1>2, <1>3, <2>2 DEF Past
<1>7. NamesIn(ts) \subseteq Seen
  BY <1>3, <1>6, SeenNames
<1>8. NeedsOf(<<"name", n>>) = NamesIn(ts) \cup {}
  BY <1>1, <1>2, <1>3, <1>4, <1>5, NeedsAre
<1> QED  BY <1>7, <1>8

LEMMA LayoutSeen ==
  ASSUME Ready, CompleteReturn, NEW n, n = Top.name
  PROVE  NeedsOf(<<"layout", n>>) \subseteq Seen
<1>1. Inv /\ Good
  BY GoodFacts DEF Ready
<1>2. /\ stack # <<>> /\ Top.call = "sema_complete_aggregate" /\ n \in DOMAIN entries
      /\ Top.item > Len(Decl(n).types)
  <2>1. /\ stack # <<>> /\ Top.call = "sema_complete_aggregate" /\ n \in DOMAIN entries
        /\ n \in DOMAIN aggregates /\ Top.item > Len(Decl(n).counts)
    BY <1>1, CompletesOne
  <2>2. Decl(n).kind = "aggregate"
    BY <1>1, <2>1, GoodFacts DEF Owned
  <2>3. Len(Decl(n).counts) = Len(Decl(n).types)
    BY <1>1, <2>1, <2>2, DeclLengths
  <2> QED  BY <2>1, <2>3
<1>3. PICK e, ts, i : e = Decl(n) /\ ts = e.types /\ i = Top.item
  OBVIOUS
<1>4. Past(Top) /\ i \in Nat /\ FunctionsTyped /\ ts \in Seq(Types)
  BY <1>1, <1>2, <1>3, ReadyTop, DeclTyped DEF Ready
<1>5. \A j \in DOMAIN ts : Had(ts[j]) /\ Settled(ts[j])
  <2> TAKE j \in DOMAIN ts
  <2>1. DOMAIN ts = 1 .. Len(ts) /\ Len(ts) \in Nat
    BY <1>4, LenProperties
  <2>2. j \in 1 .. i - 1
    BY <1>2, <1>3, <1>4, <2>1
  <2>3. Had(ts[j])
    BY <1>2, <1>3, <1>4, <2>2 DEF Past
  <2> QED  BY <2>3 DEF Had
<1>6. NamesIn(ts) \subseteq Seen /\ LayoutsIn(Denotations(program), ts) \subseteq Seen
  BY <1>1, <1>4, <1>5, SeenNames, SeenLayouts
<1>7. NeedsOf(<<"layout", n>>) = NamesIn(ts) \cup LayoutsIn(Denotations(program), ts)
  BY <1>1, <1>2, <1>3, NeedsAre
<1> QED  BY <1>6, <1>7

LEMMA SeesNone ==
  ASSUME Keeps, Whole, Seen \subseteq Seen', Seen' \subseteq Seen
  PROVE  Whole'
<1>1. /\ \A node : NeedsOf(node)' = NeedsOf(node)
      /\ \A nodes : NeededFrom(nodes)' = NeededFrom(nodes)
  BY NeedsStay DEF NeededFrom, Keeps, input
<1>2. Seen' = Seen
  OBVIOUS
<1> QED  BY <1>1, <1>2 DEF Whole

LEMMA WholeStep ==
  ASSUME Ready, Whole, Next
  PROVE  Whole'
<1>1. Inv /\ Good /\ phase = "analyze"
  BY GoodFacts DEF Ready
<1>2. Further /\ Keeps
  BY <1>1, FurtherStep DEF Further
<1>3. Seen \subseteq Seen'
  BY <1>2, SeenGrows
<1>4. PICK n : n = Top.name
  OBVIOUS
<1>5. functions \subseteq DOMAIN entries
  BY <1>1 DEF Inv, TypeOK
<1>6. ~ResolveEntryReturn => Resolved' = Resolved
  BY <1>1, ResolvedSame
<1>7. ~FunctionTypeReturn => functions' = functions
  BY <1>1, FunctionsSame
<1>8. ~CompleteReturn => Completed' = Completed
  BY <1>1, CompletedSame
<1>9. CASE ResolveEntryReturn
  <2>1. /\ ~FunctionTypeReturn /\ ~CompleteReturn
        /\ n \in DOMAIN entries /\ Resolved' = Resolved \cup {n}
    BY <1>1, <1>4, <1>9, ResolvesOne DEF FunctionTypeReturn, CompleteReturn, At
  <2>2. Decl(n)' = Decl(n)
    BY <1>2, <2>1, KeepsDecl
  <2>3. \A v \in Seen' : v \in Seen \/ (v = <<"name", n>> /\ Decl(n).kind # "function")
    <3> SUFFICES ASSUME NEW v \in Seen', v \notin Seen
                 PROVE  v = <<"name", n>> /\ Decl(n).kind # "function"
      OBVIOUS
    <3>1. v \in Seen' /\ v \notin Seen
      OBVIOUS
    <3>2. Resolved' \subseteq Resolved \cup {n} /\ functions' \subseteq functions \cup {n}
          /\ functions' = functions /\ Completed' = Completed
      BY <1>7, <1>8, <2>1
    <3>3. v # <<"name", n>> => FALSE
      BY <1>2, <1>5, <3>1, <3>2, SeenAdds
    <3>4. Decl(n).kind # "function"
      <4>1. ASSUME Decl(n).kind = "function"
            PROVE  FALSE
        <5>1. n \in Named' => n \in functions'
          BY <2>2, <4>1 DEF Named
        <5>2. n \in Named'
          BY <3>1, <3>3 DEF Seen
        <5>3. n \in Named
          BY <3>2, <5>1, <5>2 DEF Named
        <5> QED  BY <3>1, <3>3, <5>3 DEF Seen
      <4> QED  BY <4>1
    <3> QED  BY <3>3, <3>4
  <2>4. CASE Decl(n).kind = "function"
    <3>1. Seen' \subseteq Seen
      BY <2>3, <2>4
    <3> QED  BY <1>2, <1>3, <3>1, SeesNone
  <2>5. CASE Decl(n).kind # "function"
    <3>1. NeedsOf(<<"name", n>>) \subseteq Seen
      BY <1>4, <1>9, <2>5, EntrySeen
    <3>2. Seen' \subseteq Seen \cup {<<"name", n>>}
      BY <2>3
    <3> QED  BY <1>1, <1>2, <1>3, <3>1, <3>2, SeesOne
  <2> QED  BY <2>4, <2>5
<1>10. CASE FunctionTypeReturn
  <2>1. /\ ~ResolveEntryReturn /\ ~CompleteReturn /\ functions' = functions \cup {n}
    BY <1>4, <1>10 DEF FunctionTypeReturn, ResolveEntryReturn, CompleteReturn, At
  <2>2. \A v \in Seen' : v \in Seen \/ v = <<"name", n>>
    <3> SUFFICES ASSUME NEW v \in Seen', v \notin Seen, v # <<"name", n>>
                 PROVE  FALSE
      OBVIOUS
    <3>1. v \in Seen' /\ v \notin Seen /\ v # <<"name", n>>
      OBVIOUS
    <3>2. Resolved' \subseteq Resolved \cup {n} /\ functions' \subseteq functions \cup {n}
          /\ Completed' = Completed
      BY <1>6, <1>8, <2>1
    <3> QED  BY <1>2, <1>5, <3>1, <3>2, SeenAdds
  <2>3. CASE n \in functions
    <3>1. <<"name", n>> \in Seen
      BY <2>3 DEF Seen, Named
    <3>2. Seen' \subseteq Seen
      BY <2>2, <3>1
    <3> QED  BY <1>2, <1>3, <3>2, SeesNone
  <2>4. CASE n \notin functions
    <3>1. NeedsOf(<<"name", n>>) \subseteq Seen
      BY <1>4, <1>10, <2>4, FunctionSeen
    <3>2. Seen' \subseteq Seen \cup {<<"name", n>>}
      BY <2>2
    <3> QED  BY <1>1, <1>2, <1>3, <3>1, <3>2, SeesOne
  <2> QED  BY <2>3, <2>4
<1>11. CASE CompleteReturn
  <2>1. /\ ~ResolveEntryReturn /\ ~FunctionTypeReturn /\ Completed' = Completed \cup {n}
    BY <1>1, <1>4, <1>11, CompletesOne DEF FunctionTypeReturn, ResolveEntryReturn, At
  <2>2. /\ Resolved' = Resolved /\ functions' = functions
    BY <1>6, <1>7, <2>1
  <2>3. Named' \subseteq Named
    <3> SUFFICES ASSUME NEW x \in Named' PROVE x \in Named
      OBVIOUS
    <3>1. x \in Resolved => Decl(x)' = Decl(x)
      BY <1>2, KeepsDecl DEF Resolved
    <3> QED  BY <2>2, <3>1 DEF Named
  <2>4. Seen' \subseteq Seen \cup {<<"layout", n>>}
    BY <2>1, <2>3 DEF Seen
  <2>5. NeedsOf(<<"layout", n>>) \subseteq Seen
    BY <1>4, <1>11, LayoutSeen
  <2> QED  BY <1>1, <1>2, <1>3, <2>4, <2>5, SeesOne
<1>12. CASE ~ResolveEntryReturn /\ ~FunctionTypeReturn /\ ~CompleteReturn
  <2>1. Resolved' = Resolved /\ functions' = functions /\ Completed' = Completed
    BY <1>6, <1>7, <1>8, <1>12
  <2>2. Named' \subseteq Named
    <3> SUFFICES ASSUME NEW x \in Named' PROVE x \in Named
      OBVIOUS
    <3>1. x \in Resolved => Decl(x)' = Decl(x)
      BY <1>2, KeepsDecl DEF Resolved
    <3> QED  BY <2>1, <3>1 DEF Named
  <2>3. Seen' \subseteq Seen
    BY <2>1, <2>2 DEF Seen
  <2> QED  BY <1>2, <1>3, <2>3, SeesNone
<1> QED  BY <1>9, <1>10, <1>11, <1>12

LEMMA FunctionsTypedStep ==
  ASSUME Ready, Next
  PROVE  FunctionsTyped'
<1>1. Inv /\ Good /\ phase = "analyze" /\ FunctionsTyped
  BY GoodFacts DEF Ready
<1>2. Keeps /\ functions \subseteq functions' /\ functions \subseteq DOMAIN entries
  BY <1>1, FurtherStep DEF Further, Inv, TypeOK
<1>3. PICK n : n = Top.name
  OBVIOUS
<1>4. \A m \in DOMAIN entries : Decl(m)' = Decl(m)
  BY <1>2, KeepsDecl
<1>5. ASSUME NEW m \in Resolved', Decl(m)'.kind = "function"
      PROVE  m \in functions'
  <2>1. CASE m \in Resolved
    <3>1. Decl(m).kind = "function"
      BY <1>4, <1>5, <2>1 DEF Resolved
    <3> QED  BY <1>1, <1>2, <2>1, <3>1 DEF FunctionsTyped
  <2>2. CASE m \notin Resolved
    <3>1. ResolveEntryReturn
      BY <1>1, <1>5, <2>2, ResolvedSame
    <3>2. /\ stack # <<>> /\ Top.call = "sema_resolve_entry" /\ Top.at = "typed"
          /\ n \in DOMAIN entries /\ Resolved' = Resolved \cup {n}
      BY <1>1, <1>3, <3>1, ResolvesOne
    <3>3. m = n /\ Decl(n).kind = "function"
      BY <1>4, <1>5, <2>2, <3>2
    <3>4. n \in functions
      BY <1>3, <3>2, <3>3, ReadyTop DEF Served
    <3> QED  BY <1>2, <3>3, <3>4
  <2> QED  BY <2>1, <2>2
<1>6. ASSUME NEW m \in functions'
      PROVE  Decl(m)'.kind = "function"
  <2>1. CASE m \in functions
    BY <1>1, <1>2, <1>4, <2>1 DEF FunctionsTyped
  <2>2. CASE m \notin functions
    <3>1. FunctionTypeReturn
      BY <1>1, <1>6, <2>2, FunctionsSame
    <3>2. /\ stack # <<>> /\ Top.call = "sema_resolve_function_type" /\ m = n
      BY <1>3, <1>6, <2>2, <3>1 DEF FunctionTypeReturn, At
    <3>3. n \in DOMAIN entries /\ Decl(n).kind = "function"
      BY <1>3, <3>2, ReadyTop DEF Standing
    <3> QED  BY <1>4, <3>2, <3>3
  <2> QED  BY <2>1, <2>2
<1> QED  BY <1>5, <1>6 DEF FunctionsTyped

\* One wrap more: an array of what is laid out is, and a slice always.
LEMMA LaidWrap ==
  ASSUME NEW t \in Types, NEW w \in Wraps, w = "sized" => Laid(t)
  PROVE  Laid(Wrap(t, w))
<1>1. PICK a, u, b : a = t.wraps /\ u = Wrap(t, w) /\ b = u.wraps
  OBVIOUS
<1>2. a \in Seq(Wraps) /\ b = Append(a, w) /\ u.base = t.base
  BY <1>1, WrapTyped DEF Types
<1>3. ElementsOf(a) \subseteq ElementsOf(b) /\ w \in ElementsOf(b)
  <2>1. /\ b \in Seq(Wraps) /\ Len(b) = Len(a) + 1 /\ Len(a) \in Nat
        /\ \A i \in 1 .. Len(a) : b[i] = a[i]
        /\ b[Len(a) + 1] = w
    BY <1>2, AppendProperties, LenProperties
  <2>2. DOMAIN a = 1 .. Len(a) /\ DOMAIN b = 1 .. Len(a) + 1
    BY <1>2, <2>1, LenProperties
  <2>3. Len(a) + 1 \in DOMAIN b /\ \A i \in DOMAIN a : i \in DOMAIN b
    BY <2>1, <2>2
  <2> QED  BY <2>1, <2>2, <2>3 DEF ElementsOf
<1>4. CASE w # "sized"
  BY <1>1, <1>3, <1>4 DEF Laid, Contains
<1>5. CASE w = "sized"
  <2>1. Contains(u) \subseteq Contains(t)
    BY <1>1, <1>2, <1>3 DEF Contains
  <2> QED  BY <1>1, <1>5, <2>1 DEF Laid
<1> QED  BY <1>4, <1>5

LEMMA ArraysLaidStep ==
  ASSUME Ready, asserts, Next
  PROVE  ArraysLaid'
<1>1. /\ Inv /\ Good /\ phase = "analyze" /\ ArraysLaid /\ EntriesGrounded /\ FramesRight
      /\ TypesInv /\ errors = {}
  BY GoodFacts DEF Ready
<1>2. Completed \subseteq Completed'
  BY <1>1, KeepsStep DEF Keeps
<1>3. \A t : Laid(t) => Laid(t)'
  BY <1>2 DEF Laid
<1>4. CASE arrays' = arrays
  BY <1>1, <1>3, <1>4 DEF ArraysLaid
<1>5. CASE arrays' # arrays
  <2>0. ResolveTypeWrap
    BY <1>1, <1>5, ArraysSame
  <2>1. At("sema_resolve_type", "wrap") /\ Top.item <= Len(Top.expr.wraps)
    BY <2>0 DEF ResolveTypeWrap
  <2>3. PICK w, t, u : w = Top.expr.wraps[Top.item] /\ t = Top.type /\ u = Wrap(t, w)
    OBVIOUS
  <2>4. t \in Types /\ Known(t) /\ Grounded(t) /\ w \in Wraps
    BY <1>1, <2>1, <2>3, WrappedOnce
  <2>8. /\ w = "sized" /\ IsAggregate(t) => aggregates[t.base].is_complete
        /\ \A v \in DOMAIN arrays' : v = u \/ v \in DOMAIN arrays
    BY <1>5, <2>0, <2>3 DEF ResolveTypeWrap, With
  <2>9. w = "sized" => Laid(t)
    <3>1. CASE IsAggregate(t) /\ w = "sized"
      <4>1. t.base \in Completed
        BY <2>8, <3>1 DEF IsAggregate, Completed
      <4> QED  BY <4>1, LaidBase
    <3>2. CASE ~IsAggregate(t)
      BY <1>1, <2>4, <3>2, LaidKnown
    <3> QED  BY <3>1, <3>2
  <2>10. Laid(u)
    BY <2>3, <2>4, <2>9, LaidWrap
  <2> QED  BY <1>1, <1>3, <2>8, <2>10 DEF ArraysLaid
<1> QED  BY <1>4, <1>5

-----------------------------------------------------------------------------
(* What a declaration is analysed for is seen to when its call returns *)

\* The outermost call goes on until it returns.
LEMMA FirstStays ==
  ASSUME Ready, stack # <<>>, Passes, phase' = "analyze", NEW n, n = stack[1].name
  PROVE  \/ stack' # <<>> /\ stack'[1].name = n
         \/ stack' = <<>> /\ stack' = Callers /\ Len(stack) = 1 /\ Top.name = n
<1>1. stack \in Seq(Frames)
  BY GoodFacts DEF Ready, Inv, TypeOK
<1>2. PICK k, s : k = Len(stack) /\ s = stack'
  OBVIOUS
<1>3. k \in Nat /\ k >= 1
  BY <1>1, <1>2, CallersFacts
<1>4. k = 1 => Top = stack[1]
  BY <1>2 DEF Top
<1>5. k # 1 => 1 \in 1 .. k - 1
  BY <1>3
<1>6. CASE stack' = Callers
  <2>1. /\ s \in Seq(Frames) /\ Len(s) = k - 1
        /\ \A i \in 1 .. k - 1 : s[i] = stack[i]
    BY <1>1, <1>2, <1>6, CallersFacts
  <2>2. CASE k = 1
    <3>1. Len(s) = 0
      BY <2>1, <2>2
    <3>2. s = <<>>
      BY <2>1, <3>1, EmptySeq
    <3> QED  BY <1>2, <1>4, <1>6, <2>2, <3>2
  <2>3. CASE k # 1
    <3>1. s[1] = stack[1]
      BY <1>5, <2>1, <2>3
    <3>2. s # <<>>
      BY <1>3, <2>1, <2>3, EmptySeq
    <3> QED  BY <1>2, <3>1, <3>2
  <2> QED  BY <2>2, <2>3
<1>7. ASSUME NEW f, NEW at, Same(f, at),
             \/ Continue(f)
             \/ \E g : CallFrom(f, g)
      PROVE  stack' # <<>> /\ stack'[1].name = n
  <2>1. /\ DOMAIN s = 1 .. k \/ DOMAIN s = 1 .. k + 1
        /\ \A i \in 1 .. k - 1 : s[i] = stack[i]
        /\ s[k] = f
    <3>1. CASE Continue(f)
      <4>1. s = Append(Callers, f)
        BY <1>2, <3>1 DEF Continue
      <4> QED  BY <1>1, <1>2, <4>1, AppendedOne
    <3>2. CASE \E g : CallFrom(f, g)
      <4>1. PICK g : s = Append(Append(Callers, f), g)
        BY <1>2, <3>2 DEF CallFrom
      <4>2. /\ DOMAIN Append(Append(Callers, f), g) = 1 .. k + 1
            /\ \A i \in 1 .. k - 1 : Append(Append(Callers, f), g)[i] = stack[i]
            /\ Append(Append(Callers, f), g)[k] = f
        BY <1>1, <1>2, AppendedTwo
      <4> QED  BY <4>1, <4>2
    <3> QED  BY <1>7, <3>1, <3>2
  <2>2. 1 \in DOMAIN s
    BY <1>3, <2>1
  <2>3. s # <<>>
    BY <2>2
  <2>4. s[1].name = n
    BY <1>4, <1>5, <1>7, <2>1 DEF Same
  <2> QED  BY <1>2, <2>3, <2>4
<1> QED  BY <1>6, <1>7 DEF Passes

\* A step after which the outermost call is gone has seen to its declaration.
LEMMA RootDone ==
  ASSUME Ready, errors' = {}, Next, stack # <<>>, Analyzing(Top), stack' = Callers,
         NEW i \in DOMAIN program, Top.name = program[i].name
  PROVE  RootsAt(i) \subseteq Seen
<1>1. PICK d, n, e, D : /\ d = Top /\ n = d.name /\ e = program[i] /\ D = Denotations(program)
  OBVIOUS
<1>2. /\ Good /\ Inv /\ Past(d) /\ Answered(d) /\ Served(d) /\ Standing(d) /\ n \in DOMAIN entries
      /\ d.item \in Nat /\ errors = {} /\ phase = "analyze" /\ EntriesGrounded /\ ArraysLaid
      /\ FunctionsTyped /\ Placing
  BY <1>1, ReadyTop, GoodFacts DEF Ready
<1>3. Decl(n) = e /\ e.name = n
  BY <1>1, <1>2 DEF Placing, Decl
<1>4. ~Continue(Here("parameters")) /\ ~Continue([Here("parameters") EXCEPT !.item = @ + 1])
      /\ \A f, g : ~CallFrom(f, g)
  <2>1. stack \in Seq(Frames) /\ Len(Callers) = Len(stack) - 1 /\ Len(stack) \in Nat
    BY <1>2, CallersFacts DEF Inv, TypeOK
  <2>2. \A f : ~Continue(f)
    <3> SUFFICES ASSUME NEW f, Continue(f) PROVE FALSE
      OBVIOUS
    <3>1. Len(Append(Callers, f)) = Len(stack)
      BY <2>1, AppendedOne
    <3>2. Append(Callers, f) = Callers
      BY DEF Continue
    <3> QED  BY <2>1, <3>1, <3>2
  <2>3. \A f, g : ~CallFrom(f, g)
    <3> SUFFICES ASSUME NEW f, NEW g, CallFrom(f, g) PROVE FALSE
      OBVIOUS
    <3>1. PICK c : c = Callers
      OBVIOUS
    <3>2. Append(Append(Callers, f), g) = c
      BY <3>1 DEF CallFrom
    <3>3. DOMAIN Append(Append(Callers, f), g) = 1 .. Len(stack) + 1
      BY <2>1, AppendedTwo
    <3>4. DOMAIN c = 1 .. Len(stack) - 1
      BY <2>1, <3>1, CallersFacts
    <3>5. Len(stack) + 1 \in 1 .. Len(stack) + 1 /\ Len(stack) + 1 \notin 1 .. Len(stack) - 1
      BY <2>1
    <3> QED  BY <3>2, <3>3, <3>4, <3>5
  <2> QED  BY <2>2, <2>3
<1>5. CASE d.call = "sema_analyze_variable"
  <2>1. e.kind = "variable"
    BY <1>2, <1>3, <1>5 , <1>1 DEF Standing
  <2>2. PICK t : t = entries[n].type
    OBVIOUS
  <2>3. (AnalyzeVariableNamed /\ ~IsAggregate(t)) \/ AnalyzeVariableCompleted
    <3>1. sema_analyze_variable
      BY <1>1, <1>2, <1>5 DEF Next, sema_register, Registered, AnalyzeDeclaration, Analyzed,
         sema_resolve_type, ResolveTypeName, ResolveTypeNamed, ResolveTypeWrap, ResolveTypeReturn,
         sema_resolve_entry, ResolveEntryMarked, ResolveEntryCall, ResolveEntryReturn,
         sema_complete_aggregate, CompleteMarked, CompleteStart, CompleteItem, CompleteItemTyped,
         CompleteItemNested, CompleteReturn, sema_analyze_initializer, InitializerStart,
         InitializerTyped, InitializerNamed, InitializerCompleted, InitializerReturn,
         sema_resolve_function_type, FunctionTypeItem, FunctionTypeTyped, FunctionTypeReturn,
         sema_analyze_function, AnalyzeFunctionStart, AnalyzeFunctionParameter,
         AnalyzeFunctionTyped, AnalyzeFunctionParameterTyped, AnalyzeFunctionCompleted,
         AnalyzeFunctionReturn, At
    <3>2. ~AnalyzeVariableStart
      BY <1>2, <1>4, VariableLookup, GoodFacts
    <3>3. AnalyzeVariableNamed => ~IsAggregate(t)
      <4>1. ASSUME AnalyzeVariableNamed, IsAggregate(t)
            PROVE  FALSE
        <5>1. d.at = "named"
          BY <1>1, <4>1 DEF AnalyzeVariableNamed, At
        <5>2. ret.ok /\ entries[n].state = "RESOLVED"
          BY <1>1, <1>2, <1>5, <5>1 DEF Answered
        <5>3. t # NoType
          BY <1>2, <2>2, <5>2 DEF Inv, Scoped
        <5> QED  BY <1>1, <1>4, <2>2, <4>1, <5>2, <5>3 DEF AnalyzeVariableNamed
      <4> QED  BY <4>1
    <3> QED  BY <3>1, <3>2, <3>3 DEF sema_analyze_variable
  <2>4. n \in Resolved
    <3>1. AnalyzeVariableNamed => d.at = "named"
      BY <1>1 DEF AnalyzeVariableNamed, At
    <3>2. AnalyzeVariableCompleted => d.at = "completed"
      BY <1>1 DEF AnalyzeVariableCompleted, At
    <3>3. d.at = "named" => n \in Resolved
      BY <1>1, <1>2, <1>5 DEF Answered, Resolved
    <3>4. d.at = "completed" => n \in Resolved
      BY <1>1, <1>2, <1>5 DEF Past
    <3> QED  BY <2>3, <3>1, <3>2, <3>3, <3>4
  <2>5. Laid(t)
    <3>1. CASE AnalyzeVariableNamed /\ ~IsAggregate(t)
      <4>1. Known(t) /\ Grounded(t)
        BY <1>2, <2>2, <2>4 DEF EntriesGrounded, Inv, Scoped
      <4> QED  BY <1>2, <3>1, <4>1, LaidKnown
    <3>2. CASE AnalyzeVariableCompleted
      <4>1. d.at = "completed" /\ ret.ok
        BY <1>1, <3>2 DEF AnalyzeVariableCompleted, At, Report
      <4>2. t.base \in Completed
        BY <1>1, <1>2, <1>5, <2>2, <4>1 DEF Served, Held
      <4> QED  BY <4>2, LaidBase
    <3> QED  BY <2>3, <3>1, <3>2
  <2>6. <<"name", n>> \in Seen
    BY <1>3, <2>1, <2>4 DEF Seen, Named
  <2>7. LayoutsIn(D, <<Plain(n)>>) \subseteq Seen
    <3>1. PICK ts : ts = <<Plain(n)>>
      OBVIOUS
    <3>2. DOMAIN ts = {1} /\ ts[1] = Plain(n)
      BY <3>1
    <3>3. n # Builtin
      BY <1>2, NamesAssumption DEF Inv, TypeOK
    <3>4. Settled(Plain(n)) /\ Meaning(Plain(n)) = t
      BY <1>2, <2>2, <2>4, <3>3, MeaningBase
    <3>5. Had(Plain(n))
      BY <2>5, <3>4 DEF Had
    <3> QED  BY <1>1, <1>2, <3>1, <3>2, <3>5, SeenLayouts
  <2> QED  BY <1>1, <1>3, <2>1, <2>6, <2>7 DEF RootsAt
<1>6. CASE d.call = "sema_analyze_function"
  <2>1. e.kind = "function"
    BY <1>1, <1>2, <1>3, <1>6 DEF Standing
  <2>2. PICK ts : ts = e.types
    OBVIOUS
  <2>3. ts \in Seq(Types) /\ Len(ts) \in Nat
    BY <1>2, <1>3, <2>2, DeclTyped, LenProperties
  <2>4. d.at = "parameters" /\ d.item >= Len(ts)
    <3>1. sema_analyze_function
      BY <1>1, <1>2, <1>6 DEF Next, sema_register, Registered, AnalyzeDeclaration, Analyzed,
         sema_resolve_type, ResolveTypeName, ResolveTypeNamed, ResolveTypeWrap, ResolveTypeReturn,
         sema_resolve_entry, ResolveEntryMarked, ResolveEntryCall, ResolveEntryReturn,
         sema_complete_aggregate, CompleteMarked, CompleteStart, CompleteItem, CompleteItemTyped,
         CompleteItemNested, CompleteReturn, sema_analyze_initializer, InitializerStart,
         InitializerTyped, InitializerNamed, InitializerCompleted, InitializerReturn,
         sema_resolve_function_type, FunctionTypeItem, FunctionTypeTyped, FunctionTypeReturn,
         sema_analyze_variable, AnalyzeVariableStart, AnalyzeVariableNamed,
         AnalyzeVariableCompleted, At
    <3>2. ~AnalyzeFunctionStart
      BY <1>4 DEF AnalyzeFunctionStart
    <3>3. ~AnalyzeFunctionTyped
      <4>1. AnalyzeFunctionTyped => d.at = "type"
        BY <1>1 DEF AnalyzeFunctionTyped, At
      <4>2. d.at = "type" => ret.ok
        BY <1>2 DEF Served
      <4> QED  BY <1>4, <4>1, <4>2 DEF AnalyzeFunctionTyped
    <3>4. ~AnalyzeFunctionParameterTyped
      <4>1. AnalyzeFunctionParameterTyped => d.at = "typed"
        BY <1>1 DEF AnalyzeFunctionParameterTyped, At
      <4>2. d.at = "typed" => ret.type # NoType
        BY <1>2 DEF Answered
      <4> QED  BY <1>4, <4>1, <4>2 DEF AnalyzeFunctionParameterTyped, Put
    <3>5. ~AnalyzeFunctionCompleted
      BY <1>4 DEF AnalyzeFunctionCompleted, Put, Report
    <3>6. ~AnalyzeFunctionParameter
      BY <1>4 DEF AnalyzeFunctionParameter
    <3>7. AnalyzeFunctionReturn
      BY <3>1, <3>2, <3>3, <3>4, <3>5, <3>6 DEF sema_analyze_function
    <3>8. d.at = "parameters" /\ d.item > Len(e.params)
      BY <1>1, <1>3, <3>7 DEF AnalyzeFunctionReturn, At
    <3>9. Len(ts) = Len(e.params) + 1 /\ Len(e.params) \in Nat
      BY <1>2, <1>3, <2>1, <2>2, DeclLengths
    <3> QED  BY <1>2, <3>8, <3>9
  <2>5. <<"name", n>> \in Seen
    BY <1>1, <1>2, <1>6, <2>4 DEF Past, Seen, Named
  <2>6. LayoutsIn(D, SubSeq(ts, 1, Len(ts) - 1)) \subseteq Seen
    <3>1. PICK s : s = SubSeq(ts, 1, Len(ts) - 1)
      OBVIOUS
    <3>2. \A j \in DOMAIN s : j \in 1 .. Len(ts) - 1 /\ s[j] = ts[j]
      <4>1. CASE Len(ts) >= 1
        <5>1. /\ s \in Seq(Types) /\ Len(s) = Len(ts) - 1
              /\ \A j \in 1 .. Len(ts) - 1 : s[j] = ts[j]
          <6>1. 1 \in 1 .. Len(ts) + 1 /\ Len(ts) - 1 \in 0 .. Len(ts) /\ Len(ts) - 1 \in Int
            BY <2>3, <4>1
          <6>2. /\ s \in Seq(Types) /\ Len(s) = Len(ts) - 1 - 1 + 1
                /\ \A j \in 1 .. Len(ts) - 1 - 1 + 1 : s[j] = ts[1 + j - 1]
            <7>1. \A j \in 1 .. Len(ts) - 1 : ts[j] \in Types
              <8>1. \A j \in 1 .. Len(ts) - 1 : j \in 1 .. Len(ts)
                BY <2>3, <6>1
              <8> QED  BY <2>3, <8>1, LenProperties
            <7>2. 1 <= Len(ts) - 1 \/ Len(ts) - 1 = 0
              <8>1. PICK k : k = Len(ts)
                OBVIOUS
              <8>2. k \in Nat /\ k >= 1
                BY <2>3, <4>1, <8>1
              <8>3. 1 <= k - 1 \/ k - 1 = 0
                BY <8>2
              <8> QED  BY <8>1, <8>3
            <7>3. \A S, q : \A a, b \in Int :
                     (\A j \in a .. b : q[j] \in S) =>
                        /\ SubSeq(q, a, b) \in Seq(S)
                        /\ Len(SubSeq(q, a, b)) = IF a <= b THEN b - a + 1 ELSE 0
                        /\ \A j \in 1 .. b - a + 1 : SubSeq(q, a, b)[j] = q[a + j - 1]
              BY SubSeqProperties
            <7>4. /\ s \in Seq(Types)
                  /\ Len(s) = IF 1 <= Len(ts) - 1 THEN Len(ts) - 1 - 1 + 1 ELSE 0
                  /\ \A j \in 1 .. Len(ts) - 1 - 1 + 1 : s[j] = ts[1 + j - 1]
              BY <3>1, <6>1, <7>1, <7>3
            <7> QED  BY <6>1, <7>2, <7>4
          <6>3. Len(ts) - 1 - 1 + 1 = Len(ts) - 1
            BY <6>1
          <6> QED  BY <6>1, <6>2, <6>3
        <5>2. DOMAIN s = 1 .. Len(s)
          BY <5>1, LenProperties
        <5> QED  BY <5>1, <5>2
      <4>2. CASE Len(ts) = 0
        <5>1. DOMAIN s = {}
          BY <3>1, <4>2
        <5> QED  BY <5>1
      <4> QED  BY <2>3, <4>1, <4>2
    <3>3. \A j \in DOMAIN s : Had(s[j])
      <4> TAKE j \in DOMAIN s
      <4>1. j \in 1 .. d.item - 1
        BY <1>2, <2>3, <2>4, <3>2
      <4>2. Had(ts[j])
        BY <1>1, <1>2, <1>3, <1>6, <2>2, <4>1 DEF Past
      <4> QED  BY <3>2, <4>2
    <3> QED  BY <1>1, <1>2, <3>1, <3>3, SeenLayouts
  <2> QED  BY <1>1, <1>3, <2>1, <2>2, <2>5, <2>6 DEF RootsAt
<1> QED  BY <1>1, <1>5, <1>6 DEF Analyzing

-----------------------------------------------------------------------------
(* What the analysis is past has been seen to *)

\* A declaration's roots do not change.
LEMMA RootsAtStay ==
  ASSUME UNCHANGED input, NEW i
  PROVE  RootsAt(i)' = RootsAt(i)
BY DEF RootsAt, input

LEMMA RootsSeenStep ==
  ASSUME Ready, Leading \/ stack = <<>>, Inv', Next, errors' = {},
         phase' \in {"analyze", "done"}, RootsSeen
  PROVE  RootsSeen'
<1>1. Inv /\ Good /\ phase = "analyze" /\ next \in 1 .. Len(program) + 1 /\ program \in Seq(Decls)
  BY GoodFacts DEF Ready, Inv, TypeOK
<1>2. UNCHANGED input /\ Seen \subseteq Seen' /\ program' = program
  BY <1>1, FurtherStep, SeenGrows DEF Further, Keeps, input
<1>3. \A i : RootsAt(i)' = RootsAt(i)
  BY <1>2, RootsAtStay
<1>4. CASE AnalyzeDeclaration
  <2>1. next' = next + 1 /\ stack = <<>> /\ next' - 1 = next
    BY <1>1, <1>4 DEF AnalyzeDeclaration
  <2>2. ASSUME NEW i \in 1 .. next, i # next
        PROVE  RootsAt(i)' \subseteq Seen'
    <3>1. i \in 1 .. next - 1
      BY <1>1, <2>2
    <3>2. RootsAt(i) \subseteq Seen
      BY <2>1, <3>1 DEF RootsSeen
    <3> QED  BY <1>2, <1>3, <3>2
  <2>3. PICK d : d = program[next]
    OBVIOUS
  <2>4. CASE d.kind \notin {"variable", "function"}
    <3>1. RootsAt(next) = {}
      BY <2>3, <2>4 DEF RootsAt
    <3>2. \A i \in 1 .. next : RootsAt(i)' \subseteq Seen'
      BY <1>3, <2>2, <3>1
    <3> QED  BY <2>1, <3>2 DEF RootsSeen
  <2>5. CASE d.kind \in {"variable", "function"}
    <3>1. PICK call : stack' = <<Frame(call, d.name, NoType)>>
      BY <1>4, <2>3, <2>5 DEF AnalyzeDeclaration
    <3>2. Frame(call, d.name, NoType).name = d.name
      BY DEF Frame
    <3>3. stack' # <<>> /\ stack'[1].name = program'[next].name
      BY <1>2, <2>3, <3>1, <3>2
    <3> QED  BY <2>1, <2>2, <3>3 DEF RootsSeen
  <2> QED  BY <2>4, <2>5
<1>5. CASE Analyzed
  <2>1. next' = next /\ stack = <<>>
    BY <1>5 DEF Analyzed
  <2> QED  BY <1>2, <1>3, <2>1 DEF RootsSeen
<1>6. CASE ~AnalyzeDeclaration /\ ~Analyzed
  <2>1. ~sema_register /\ ~Registered
    BY <1>1 DEF sema_register, Registered
  <2>2. stack # <<>> /\ next' = next /\ phase' # "done"
    BY <1>1, <1>6, <2>1 DEF Next, At, End,
       sema_resolve_type, ResolveTypeName, ResolveTypeNamed, ResolveTypeWrap, ResolveTypeReturn,
       sema_resolve_entry, ResolveEntryMarked, ResolveEntryCall, ResolveEntryReturn,
       sema_complete_aggregate, CompleteMarked, CompleteStart, CompleteItem, CompleteItemTyped,
       CompleteItemNested, CompleteReturn, sema_analyze_initializer, InitializerStart,
       InitializerTyped, InitializerNamed, InitializerCompleted, InitializerReturn,
       sema_resolve_function_type, FunctionTypeItem, FunctionTypeTyped, FunctionTypeReturn,
       sema_analyze_variable, AnalyzeVariableStart, AnalyzeVariableNamed,
       AnalyzeVariableCompleted, sema_analyze_function, AnalyzeFunctionStart,
       AnalyzeFunctionParameter, AnalyzeFunctionTyped, AnalyzeFunctionParameterTyped,
       AnalyzeFunctionCompleted, AnalyzeFunctionReturn
  <2>3. PICK n : n = stack[1].name
    OBVIOUS
  <2>4. ASSUME NEW i \in 1 .. next - 1, RootsAt(i) \subseteq Seen
        PROVE  RootsAt(i)' \subseteq Seen'
    BY <1>2, <1>3, <2>4
  <2>5. CASE stack' # <<>> /\ stack'[1].name = n
    BY <1>2, <2>2, <2>3, <2>4, <2>5 DEF RootsSeen
  <2>6. CASE stack' = <<>> /\ stack' = Callers /\ Len(stack) = 1 /\ Top.name = n
    <3>1. Analyzing(Top)
      BY <2>2, <2>6 DEF Leading, Top
    <3>2. ASSUME NEW i \in 1 .. next - 1, i = next - 1, n = program[i].name
          PROVE  RootsAt(i)' \subseteq Seen'
      <4>1. i \in DOMAIN program
        BY <1>1, LenProperties
      <4>2. RootsAt(i) \subseteq Seen
        BY <2>2, <2>6, <3>1, <3>2, <4>1, RootDone
      <4> QED  BY <1>2, <1>3, <4>2
    <3> QED  BY <2>2, <2>3, <2>4, <3>2 DEF RootsSeen
  <2>7. Passes /\ phase' = "analyze"
    BY <2>2, AnalysisPasses
  <2> QED  BY <2>2, <2>3, <2>5, <2>6, <2>7, FirstStays
<1> QED  BY <1>4, <1>5, <1>6

-----------------------------------------------------------------------------
(* The steps one by one *)

\* Only AnalyzeDeclaration moves on, and only Analyzed ends the analysis well.
LEMMA MovesOn ==
  ASSUME Next, phase = "analyze", ~AnalyzeDeclaration, ~Analyzed
  PROVE  stack # <<>> /\ next' = next /\ phase' # "done"
<1>1. ~sema_register /\ ~Registered
  BY DEF sema_register, Registered
<1> QED
  BY <1>1 DEF Next, At, End,
     sema_resolve_type, ResolveTypeName, ResolveTypeNamed, ResolveTypeWrap, ResolveTypeReturn,
     sema_resolve_entry, ResolveEntryMarked, ResolveEntryCall, ResolveEntryReturn,
     sema_complete_aggregate, CompleteMarked, CompleteStart, CompleteItem, CompleteItemTyped,
     CompleteItemNested, CompleteReturn, sema_analyze_initializer, InitializerStart,
     InitializerTyped, InitializerNamed, InitializerCompleted, InitializerReturn,
     sema_resolve_function_type, FunctionTypeItem, FunctionTypeTyped, FunctionTypeReturn,
     sema_analyze_variable, AnalyzeVariableStart, AnalyzeVariableNamed,
     AnalyzeVariableCompleted, sema_analyze_function, AnalyzeFunctionStart,
     AnalyzeFunctionParameter, AnalyzeFunctionTyped, AnalyzeFunctionParameterTyped,
     AnalyzeFunctionCompleted, AnalyzeFunctionReturn

\* When the analysis begins, only aggregates have been seen to, as names.
Begins ==
  /\ Good /\ functions = {} /\ Completed = {} /\ DOMAIN arrays = {} /\ stack = <<>> /\ next = 1
  /\ \A n \in Resolved : Decl(n).kind = "aggregate"

LEMMA Begun == Begins => Whole /\ FunctionsTyped /\ ArraysLaid /\ FramesPast /\ RootsSeen
<1> SUFFICES ASSUME Begins PROVE Whole /\ FunctionsTyped /\ ArraysLaid /\ FramesPast /\ RootsSeen
  OBVIOUS
<1>1. Good /\ Inv
  BY GoodFacts DEF Begins
<1>2. Whole
  <2> SUFFICES ASSUME NEW v \in Seen PROVE NeedsOf(v) \subseteq Seen /\ v \notin NeededFrom({v})
    BY DEF Whole
  <2>1. PICK n : n \in Resolved /\ v = <<"name", n>> /\ Decl(n).kind = "aggregate"
    BY DEF Begins, Seen, Named
  <2>2. n \in DOMAIN entries
    BY <2>1 DEF Resolved
  <2>3. NeedsOf(v) = {}
    BY <1>1, <2>1, <2>2, NeedsAre
  <2>4. PICK p, D : p = program /\ D = Denotations(program) /\ p \in Seq(Decls)
    BY <1>1, GoodFacts
  <2>5. NeededBy(p, D, {v}) \subseteq {} /\ NeededBy(p, D, {}) \subseteq {}
    BY <2>3, <2>4 DEF NeededBy, NeedsOf
  <2>6. Needed(p, D, {v}) \subseteq {}
    BY <2>4, <2>5, NeededLeast
  <2> QED  BY <2>3, <2>4, <2>6 DEF NeededFrom
<1>3. FunctionsTyped
  BY DEF Begins, FunctionsTyped
<1>4. ArraysLaid
  BY DEF Begins, ArraysLaid
<1>5. FramesPast
  <2>1. PICK s : s = stack
    OBVIOUS
  <2>2. DOMAIN s = {} /\ 1 .. Len(s) - 1 = {} /\ s = <<>>
    BY <2>1 DEF Begins
  <2> QED  BY <2>1, <2>2 DEF FramesPast
<1>6. RootsSeen
  <2>1. 1 .. next - 1 = {}
    BY DEF Begins
  <2> QED  BY <2>1 DEF RootsSeen
<1> QED  BY <1>2, <1>3, <1>4, <1>5, <1>6

LEMMA BegunNext ==
  Begins' => Whole' /\ FunctionsTyped' /\ ArraysLaid' /\ FramesPast' /\ RootsSeen'
BY Begun, PTL

LEMMA RegisteredSeen ==
  ASSUME Inv, TypesInv, SizesInv, SeenInv, Registered
  PROVE  SeenInv'
<1> SUFFICES ASSUME errors' = {}, asserts' PROVE SeenInv'
  BY DEF SeenInv
<1>1. /\ phase = "register" /\ phase' = "analyze" /\ errors = {} /\ asserts
      /\ UNCHANGED <<program, entries, aggregates, arrays, functions, stack>> /\ stack = <<>>
      /\ next' = 1
  BY DEF Registered, input, scopes, global, local, Inv, Started
<1>2. Completed = {} /\ DOMAIN arrays = {} /\ functions = {}
  BY <1>1 DEF SizesInv, SeenInv
<1>3. \A n \in Resolved : Decl(n).kind = "aggregate"
  BY <1>1 DEF TypesInv, TypesRight
<1>4. Resolved' = Resolved /\ Completed' = Completed /\ \A n : Decl(n)' = Decl(n)
  BY <1>1 DEF Resolved, Completed, Decl
<1>5. Inv' /\ TypesInv'
  BY <1>1, NextInv, RegisteredTypes DEF Next, TypesInv, Clear
<1>6. Good'
  BY <1>1, <1>5 DEF Good
<1>7. Begins'
  BY <1>1, <1>2, <1>3, <1>4, <1>6 DEF Begins
<1> QED  BY <1>1, <1>7, BegunNext DEF SeenInv

LEMMA AnalysisSeen ==
  ASSUME Inv, TypesInv, SizesInv, MistakesInv, SeenInv, Next, phase = "analyze"
  PROVE  SeenInv'
<1> SUFFICES ASSUME errors' = {}, asserts' PROVE SeenInv'
  BY DEF SeenInv
<1>1. Inv'
  BY NextInv
<1>2. Further /\ errors = {} /\ asserts /\ program' = program
  BY FurtherStep DEF Further, Keeps, input
<1>3. Whole /\ FunctionsTyped /\ ArraysLaid /\ FramesPast /\ RootsSeen /\ EntriesGrounded
  BY <1>2 DEF SeenInv, SizesInv, EntriesGrounded
<1>4. Leading \/ stack = <<>>
  BY <1>2 DEF MistakesInv
<1>5. stack # <<>> => Standing(Top)
  BY <1>4, CallersFacts DEF Leading, Top, Inv, TypeOK
<1>6. Ready
  BY <1>2, <1>3, <1>5 DEF Ready, Good
<1>7. Whole' /\ FunctionsTyped' /\ ArraysLaid'
  BY <1>2, <1>3, <1>6, WholeStep, FunctionsTypedStep, ArraysLaidStep
<1>8. FramesPast'
  BY <1>1, <1>2, <1>3, <1>6, AnalysisPasses, FramesPastStep, GoodFacts DEF Ready
<1>9. phase' \in {"analyze", "done"} => RootsSeen'
  BY <1>1, <1>3, <1>4, <1>6, RootsSeenStep
<1>10. phase' # "register"
  BY StaysAnalyzed
<1>11. phase' = "done" => next' > Len(program)'
  BY MovesOn, <1>2 DEF AnalyzeDeclaration, Analyzed
<1> QED  BY <1>7, <1>8, <1>9, <1>10, <1>11 DEF SeenInv

LEMMA StutterSeen ==
  ASSUME UNCHANGED vars, SeenInv
  PROVE  SeenInv'
<1>1. UNCHANGED <<program, asserts, phase, next, entries, aggregates, arrays, functions,
                  stack, ret, errors>>
  BY DEF vars, input, scopes, global, local
<1>2. Resolved' = Resolved /\ Completed' = Completed /\ Top' = Top /\ \A n : Decl(n)' = Decl(n)
  BY <1>1 DEF Resolved, Completed, Top, Decl
<1>3. Seen' = Seen
  BY <1>1, <1>2 DEF Seen, Named
<1>4. /\ \A v : NeedsOf(v)' = NeedsOf(v)
      /\ \A S : NeededFrom(S)' = NeededFrom(S)
      /\ \A i : RootsAt(i)' = RootsAt(i)
  BY <1>1 DEF NeedsOf, NeededFrom, RootsAt
<1>5. Whole' <=> Whole
  BY <1>3, <1>4 DEF Whole
<1>6. RootsSeen' <=> RootsSeen
  BY <1>1, <1>3, <1>4 DEF RootsSeen
<1>7. /\ \A t : Laid(t)' <=> Laid(t)
      /\ \A t : Meaning(t)' = Meaning(t)
      /\ \A t : Settled(t)' <=> Settled(t)
  BY <1>1, <1>2 DEF Laid, Meaning, Found, Settled
<1>8. ArraysLaid' <=> ArraysLaid
  BY <1>1, <1>7 DEF ArraysLaid
<1>9. FunctionsTyped' <=> FunctionsTyped
  BY <1>1, <1>2 DEF FunctionsTyped
<1>10. \A t : Had(t)' <=> Had(t)
  <2> TAKE t
  <2>1. Laid(Meaning(t))' <=> Laid(Meaning(t))
    BY <1>2, <1>7 DEF Laid
  <2> QED  BY <1>7, <2>1 DEF Had
<1>11. \A n : NameLaid(n)' <=> NameLaid(n)
  <2> TAKE n
  <2>1. PICK d, t : d = Decl(n) /\ t = d.types[1]
    OBVIOUS
  <2>2. Decl(n)' = d /\ (Had(t)' <=> Had(t))
    BY <1>2, <1>10, <2>1
  <2> QED  BY <1>1, <1>2, <2>1, <2>2 DEF NameLaid
<1>12. \A f : Held(f)' = Held(f)
  <2> TAKE f
  <2>1. PICK t : t = Decl(f.name).types[f.item]
    OBVIOUS
  <2>2. Meaning(t)' = Meaning(t) /\ Decl(f.name)' = Decl(f.name)
    BY <1>2, <1>7
  <2> QED  BY <1>1, <2>1, <2>2 DEF Held
<1>13. \A f : Past(f)' <=> Past(f)
  <2> TAKE f
  <2>1. PICK d : d = Decl(f.name)
    OBVIOUS
  <2>2. /\ Decl(f.name)' = d
        /\ \A j : Had(d.types[j])' <=> Had(d.types[j])
        /\ \A j : Settled(d.types[j])' <=> Settled(d.types[j])
    <3>1. \A j : Had(d.types[j])' <=> Had(d.types[j])
      <4> TAKE j
      <4>1. PICK t : t = d.types[j]
        OBVIOUS
      <4> QED  BY <1>10, <4>1
    <3>2. \A j : Settled(d.types[j])' <=> Settled(d.types[j])
      BY <1>2 DEF Settled
    <3> QED  BY <1>2, <2>1, <3>1, <3>2
  <2> QED  BY <1>1, <1>2, <1>11, <2>1, <2>2 DEF Past
<1>14. \A f, g : Orders(f, g)' <=> Orders(f, g)
  BY <1>12 DEF Orders
<1>15. \A f : Served(f)' <=> Served(f)
  BY <1>1, <1>2, <1>11, <1>12 DEF Served
<1>16. FramesPast' <=> FramesPast
  <2>1. Served(Top)' <=> Served(Top)
    <3>1. PICK d : d = Top
      OBVIOUS
    <3> QED  BY <1>2, <1>15, <3>1
  <2> QED  BY <1>1, <1>13, <1>14, <2>1 DEF FramesPast
<1> QED  BY <1>1, <1>5, <1>6, <1>8, <1>9, <1>16 DEF SeenInv

LEMMA NextSeen ==
  Inv /\ TypesInv /\ SizesInv /\ MistakesInv /\ SeenInv /\ [Next]_vars => SeenInv'
<1> SUFFICES ASSUME Inv, TypesInv, SizesInv, MistakesInv, SeenInv, Next PROVE SeenInv'
  BY StutterSeen
<1>1. CASE sema_register
  <2>1. phase' = "register" /\ functions' = functions /\ phase = "register" /\ asserts' = asserts
    BY <1>1 DEF sema_register, input
  <2>2. errors \subseteq errors'
    BY <1>1 DEF sema_register
  <2> QED  BY <2>1, <2>2 DEF SeenInv
<1> QED  BY <1>1, AnalysisOrRegister, RegisteredSeen, AnalysisSeen

LEMMA SeenAlways == Spec => [](Clear => SeenInv)
<1>1. Init => (Clear => SeenInv)
  BY DEF Init, SeenInv
<1>2. /\ Inv /\ (Clear => TypesInv) /\ (Clear => SizesInv) /\ (Clear => MistakesInv)
      /\ (Clear => SeenInv) /\ [Next]_vars
      => (Clear => SeenInv)'
  BY NextSeen, ClearStays
<1> QED
  BY <1>1, <1>2, InvAlways, TypesAlways, SizesAlways, MistakesAlways, PTL DEF Spec

\* When the analysis is through, all that is needed has been seen to.
LEMMA DoneRight ==
  ASSUME Inv, TypesInv, SeenInv, phase = "done", asserts, errors = {}
  PROVE  ~Wrong
<1>1. Whole /\ RootsSeen /\ next > Len(program) /\ stack = <<>> /\ Placing
  BY DEF SeenInv, Inv, Started, TypesInv, TypesRight
<1>2. PICK p, D, V : p = program /\ D = Denotations(program) /\ V = Seen /\ p \in Seq(Decls)
  BY DEF Inv, TypeOK
<1>3. \A v \in V : v[2] \in DeclaredIn(p)
  <2> TAKE v \in V
  <2>1. PICK n : n \in DOMAIN entries /\ v[2] = n
    <3>1. functions \subseteq DOMAIN entries /\ DOMAIN aggregates \subseteq DOMAIN entries
      BY DEF Inv, TypeOK, Scoped
    <3>2. Resolved \subseteq DOMAIN entries /\ Completed \subseteq DOMAIN aggregates
      BY DEF Resolved, Completed
    <3>3. \A n \in Named : n \in DOMAIN entries
      BY <3>1, <3>2 DEF Named
    <3> QED  BY <1>2, <3>1, <3>2, <3>3 DEF Seen
  <2>2. n \in DeclaredIn(program)
    BY <2>1, DeclAt DEF DeclaredIn
  <2> QED  BY <1>2, <2>1, <2>2
<1>4. \A v \in V : v \notin Needed(p, D, {v})
  BY <1>1, <1>2 DEF Whole, NeededFrom
<1>5. Roots(p, D) \subseteq V
  <2>1. ASSUME NEW i \in DOMAIN p
        PROVE  RootsAt(i) \subseteq V
    <3>1. i \in 1 .. next - 1
      BY <1>1, <1>2, LenProperties DEF Inv, TypeOK
    <3> QED  BY <1>1, <1>2, <3>1 DEF RootsSeen
  <2>2. Roots(p, D) = UNION {RootsAt(i) : i \in DOMAIN p}
    BY <1>2 DEF Roots, RootsAt
  <2> QED  BY <2>1, <2>2
<1>6. Needed(p, D, Roots(p, D)) \subseteq V
  <2>1. PICK S : S = Roots(p, D)
    OBVIOUS
  <2>2. NeededBy(p, D, V) \subseteq V
    BY <1>1, <1>2 DEF Whole, NeedsOf, NeededBy
  <2>3. NeededBy(p, D, S) \subseteq V
    BY <1>5, <2>1, <2>2 DEF NeededBy
  <2> QED  BY <1>2, <2>1, <2>2, <2>3, NeededLeast
<1>7. ~Meaningless(p)
  BY <1>2, <1>3, <1>4, <1>5, <1>6 DEF Meaningless
<1>8. ~Redefines(p)
  BY <1>1, <1>2 DEF Redefines, Placing
<1> QED  BY <1>2, <1>7, <1>8 DEF Wrong

\* In a build with assert(), the analysis of declarations reports an error in
\* every program in which a variable or function needs something that is not
\* declared or that needs itself, or in which a name is defined twice; in no
\* build does it report one in another program, unless a parameter takes a name that
\* is used elsewhere.
THEOREM ErrorsAreExact == Spec => []ErrorsExact
<1>1. Inv /\ (Clear => TypesInv) /\ (Clear => MistakesInv) /\ (Clear => SeenInv) => ErrorsExact
  BY DoneRight DEF ErrorsExact, MistakesInv, Wrong, Clear
<1> QED  BY <1>1, InvAlways, TypesAlways, MistakesAlways, SeenAlways, PTL
=============================================================================
