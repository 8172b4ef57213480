------------------------------ MODULE Names_proof ------------------------------
(***************************************************************************)
(* Names, for every program.  In the walk of sema.c, what is resolved is   *)
(* resolved to a declaration in sight, and no declaration has a name that  *)
(* is already in sight.  A name that the analysis accepts is bound by      *)
(* lower.c, with one flat table and an order of its own, to the            *)
(* declaration that sema.c resolved it to.                                 *)
(***************************************************************************)
EXTENDS Names, TLAPS, SequenceTheorems, WellFoundedInduction

-----------------------------------------------------------------------------
(* The walk of sema.c *)

\* Every set of naturals that is not empty has a least element.
LEMMA LeastExists ==
  ASSUME NEW S, S \subseteq Nat, S # {}
  PROVE  \E x \in S : \A y \in S : x <= y
<1> DEFINE R == {ss \in Nat \X Nat : ss[1] < ss[2]}
<1>1. IsWellFoundedOn(R, Nat)
  BY NatLessThanWellFounded DEF OpToRel
<1>2. PICK x \in S : \A y \in S : ~(<<y, x>> \in R)
  BY <1>1, WFMin
<1>3. \A y \in S : ~(y < x)
  BY <1>2
<1> QED
  BY <1>3

\* A set that one is in, and with a number the next, has all up to a bound.
LEMMA Upwards ==
  ASSUME NEW n \in Nat \ {0}, NEW G, 1 \in G, \A i \in 1 .. n - 1 : i \in G => i + 1 \in G
  PROVE  \A i \in 1 .. n : i \in G
<1> SUFFICES ASSUME NEW i \in 1 .. n, i \notin G PROVE FALSE
  OBVIOUS
<1> DEFINE S == {j \in 1 .. n : j \notin G}
<1>1. S \subseteq Nat /\ S # {}
  OBVIOUS
<1>2. PICK k \in S : \A y \in S : k <= y
  BY <1>1, LeastExists
<1>3. k \in 1 .. n /\ k \notin G
  OBVIOUS
<1>4. k - 1 \notin S
  BY <1>2, <1>3
<1>5. k - 1 \in 1 .. n - 1
  BY <1>3
<1>6. k - 1 \in G
  BY <1>4, <1>5
<1> QED
  BY <1>3, <1>5, <1>6

-----------------------------------------------------------------------------
(* The nodes of a function *)

\* The nodes on the way from the body of a function to a node in it.
Trail(p, f, t, n) ==
  /\ t[1] = Node(<<f>>, p[f].body)
  /\ \A i \in 1 .. n - 1 :
       "parts" \in DOMAIN t[i].s /\ \E j \in DOMAIN t[i].s.parts : t[i + 1] = Part(t[i], j)

IsNode(p, f, x) == \E n, t : n \in Nat \ {0} /\ Trail(p, f, t, n) /\ x = t[n]

\* What a node knows of itself.
Proper(f, x) ==
  /\ x = Node(x.at, x.s)
  /\ x.at \in Seq(Nat) /\ Len(x.at) \in Nat \ {0} /\ x.at[1] = f
  /\ Parsed(x.s)

Begins(a, b) == Len(a) <= Len(b) /\ \A i \in 1 .. Len(a) : a[i] = b[i]

LEMMA PartProper ==
  ASSUME SyntaxAssumption, NEW f, NEW x, Proper(f, x), "parts" \in DOMAIN x.s,
         NEW j \in DOMAIN x.s.parts
  PROVE  /\ Proper(f, Part(x, j))
         /\ Len(Part(x, j).at) = Len(x.at) + 1
         /\ \A i \in 1 .. Len(x.at) : Part(x, j).at[i] = x.at[i]
         /\ Part(x, j).at[Len(x.at) + 1] = j
         /\ Part(x, j).s = x.s.parts[j]
<1>1. x.s.parts \in Seq(Statements)
  BY DEF Proper, Parsed
<1>2. j \in Nat /\ x.s.parts[j] \in Statements
  BY <1>1
<1>3. Part(x, j) = [at |-> Append(x.at, j), s |-> x.s.parts[j]]
  BY DEF Part, Node
<1>4. PICK a \in Seq(Nat) : a = x.at
  BY DEF Proper
<1>5. /\ Append(a, j) \in Seq(Nat) /\ Len(Append(a, j)) = Len(a) + 1
      /\ \A i \in 1 .. Len(a) : Append(a, j)[i] = a[i]
      /\ Append(a, j)[Len(a) + 1] = j
  BY <1>2
<1>6. Parsed(x.s.parts[j])
  BY <1>2 DEF SyntaxAssumption
<1> QED
  BY <1>3, <1>4, <1>5, <1>6 DEF Proper, Node

\* A trail goes down one level at a time.
LEMMA TrailProper ==
  ASSUME SyntaxAssumption, NEW p \in Programs, NEW f \in 1 .. Len(p),
         NEW n \in Nat \ {0}, NEW t, Trail(p, f, t, n)
  PROVE  \A i \in 1 .. n : Proper(f, t[i]) /\ Len(t[i].at) = i
<1> DEFINE P(i) == Proper(f, t[i]) /\ Len(t[i].at) = i
           G == {i \in 1 .. n : P(i)}
<1>1. P(1)
  <2>1. Parsed(p[f].body) /\ f \in Nat
    BY DEF SyntaxAssumption
  <2>2. t[1] = [at |-> <<f>>, s |-> p[f].body]
    BY DEF Trail, Node
  <2> QED
    BY <2>1, <2>2 DEF Proper, Node
<1>2. ASSUME NEW i \in 1 .. n - 1, P(i) PROVE P(i + 1)
  <2>1. PICK j \in DOMAIN t[i].s.parts : t[i + 1] = Part(t[i], j)
    BY DEF Trail
  <2>2. "parts" \in DOMAIN t[i].s
    BY DEF Trail
  <2>3. PICK x : x = t[i]
    OBVIOUS
  <2>4. Proper(f, Part(x, j)) /\ Len(Part(x, j).at) = Len(x.at) + 1
    BY <1>2, <2>1, <2>2, <2>3, PartProper
  <2> QED
    BY <1>2, <2>1, <2>3, <2>4
<1> HIDE DEF P
<1>3. 1 \in G /\ \A i \in 1 .. n - 1 : i \in G => i + 1 \in G
  BY <1>1, <1>2
<1>4. \A i \in 1 .. n : i \in G
  BY <1>3, Upwards
<1> QED
  BY <1>4 DEF P

LEMMA NodeProper ==
  ASSUME SyntaxAssumption, NEW p \in Programs, NEW f \in 1 .. Len(p), NEW x, IsNode(p, f, x)
  PROVE  Proper(f, x)
BY TrailProper DEF IsNode

LEMMA RootNode ==
  ASSUME NEW p, NEW f
  PROVE  IsNode(p, f, Node(<<f>>, p[f].body))
<1> DEFINE t == [i \in 1 .. 1 |-> Node(<<f>>, p[f].body)]
<1>1. Trail(p, f, t, 1)
  BY DEF Trail
<1> QED
  BY <1>1 DEF IsNode

LEMMA PartNode ==
  ASSUME NEW p, NEW f, NEW x, IsNode(p, f, x), "parts" \in DOMAIN x.s,
         NEW j \in DOMAIN x.s.parts
  PROVE  IsNode(p, f, Part(x, j))
<1>1. PICK n, t : n \in Nat \ {0} /\ Trail(p, f, t, n) /\ x = t[n]
  BY DEF IsNode
<1> DEFINE u == [i \in 1 .. n + 1 |-> IF i = n + 1 THEN Part(x, j) ELSE t[i]]
<1>2. u[1] = Node(<<f>>, p[f].body)
  BY <1>1 DEF Trail
<1>3. ASSUME NEW i \in 1 .. n
      PROVE  "parts" \in DOMAIN u[i].s /\ \E k \in DOMAIN u[i].s.parts : u[i + 1] = Part(u[i], k)
  <2>1. u[i] = t[i]
    BY <1>1
  <2>2. CASE i = n
    <3>1. u[i + 1] = Part(u[i], j) /\ u[i] = x
      BY <1>1, <2>1, <2>2
    <3> QED
      BY <3>1
  <2>3. CASE i # n
    <3>1. i \in 1 .. n - 1 /\ u[i + 1] = t[i + 1]
      BY <1>1, <2>3
    <3> QED
      BY <1>1, <2>1, <3>1 DEF Trail
  <2> QED
    BY <2>2, <2>3
<1>4. Trail(p, f, u, n + 1)
  <2>1. n + 1 - 1 = n
    BY <1>1
  <2> HIDE DEF u
  <2> QED
    BY <1>1, <1>2, <1>3, <2>1 DEF Trail
<1>5. u[n + 1] = Part(x, j) /\ n + 1 \in Nat \ {0}
  BY <1>1
<1> QED
  BY <1>4, <1>5 DEF IsNode

\* Its nodes have the beginnings of its last path.
LEMMA TrailPaths ==
  ASSUME SyntaxAssumption, NEW p \in Programs, NEW f \in 1 .. Len(p),
         NEW n \in Nat \ {0}, NEW t, Trail(p, f, t, n)
  PROVE  \A k \in 1 .. n : \A i \in 1 .. k : t[k].at[i] = t[i].at[i]
<1> DEFINE P(k) == \A i \in 1 .. k : t[k].at[i] = t[i].at[i]
           G == {k \in 1 .. n : P(k)}
<1>1. P(1)
  OBVIOUS
<1>2. ASSUME NEW k \in 1 .. n - 1, P(k) PROVE P(k + 1)
  <2>1. PICK j \in DOMAIN t[k].s.parts : t[k + 1] = Part(t[k], j)
    BY DEF Trail
  <2>2. "parts" \in DOMAIN t[k].s
    BY DEF Trail
  <2>3. Proper(f, t[k]) /\ Len(t[k].at) = k
    BY TrailProper
  <2>4. PICK x : x = t[k]
    OBVIOUS
  <2>5. \A i \in 1 .. Len(x.at) : Part(x, j).at[i] = x.at[i]
    BY <2>1, <2>2, <2>3, <2>4, PartProper
  <2>6. \A i \in 1 .. k : t[k + 1].at[i] = t[k].at[i]
    BY <2>1, <2>3, <2>4, <2>5
  <2> QED
    BY <1>2, <2>6
<1> HIDE DEF P
<1>3. 1 \in G /\ \A k \in 1 .. n - 1 : k \in G => k + 1 \in G
  BY <1>1, <1>2
<1>4. \A k \in 1 .. n : k \in G
  BY <1>3, Upwards
<1> QED
  BY <1>4 DEF P

\* A path leads one way.
LEMMA OneTrail ==
  ASSUME SyntaxAssumption, NEW p \in Programs, NEW f \in 1 .. Len(p),
         NEW n \in Nat \ {0}, NEW t, Trail(p, f, t, n),
         NEW m \in 1 .. n, NEW u, Trail(p, f, u, m),
         \A i \in 1 .. m : u[m].at[i] = t[n].at[i]
  PROVE  \A i \in 1 .. m : t[i] = u[i]
<1> DEFINE P(i) == t[i] = u[i]
           G == {i \in 1 .. m : P(i)}
<1>0. m \in Nat \ {0}
  OBVIOUS
<1>1. P(1)
  BY DEF Trail
<1>2. ASSUME NEW i \in 1 .. m - 1, P(i) PROVE P(i + 1)
  <2>1. PICK j \in DOMAIN t[i].s.parts : t[i + 1] = Part(t[i], j)
    BY DEF Trail
  <2>2. PICK k \in DOMAIN u[i].s.parts : u[i + 1] = Part(u[i], k)
    BY DEF Trail
  <2>3. "parts" \in DOMAIN t[i].s
    BY DEF Trail
  <2>4. Proper(f, t[i]) /\ Len(t[i].at) = i
    BY TrailProper
  <2>5. PICK x : x = t[i] /\ x = u[i]
    BY <1>2
  <2>6. Part(x, j).at[i + 1] = j
    BY <2>1, <2>3, <2>4, <2>5, PartProper
  <2>7. Part(x, k).at[i + 1] = k
    BY <2>2, <2>3, <2>4, <2>5, PartProper
  <2>10. i + 1 \in 1 .. m /\ i + 1 \in 1 .. n
    OBVIOUS
  <2>8. t[i + 1].at[i + 1] = t[n].at[i + 1]
    BY <2>10, TrailPaths
  <2>9. u[i + 1].at[i + 1] = u[m].at[i + 1]
    BY <1>0, <2>10, TrailPaths
  <2>11. u[m].at[i + 1] = t[n].at[i + 1]
    BY <2>10
  <2>12. j = k
    BY <2>1, <2>2, <2>5, <2>6, <2>7, <2>8, <2>9, <2>11
  <2> QED
    BY <2>1, <2>2, <2>5, <2>12
<1> HIDE DEF P
<1>3. 1 \in G /\ \A k \in 1 .. m - 1 : k \in G => k + 1 \in G
  BY <1>1, <1>2
<1>4. \A k \in 1 .. m : k \in G
  BY <1>0, <1>3, Upwards
<1> QED
  BY <1>4 DEF P

\* Below a node is what is below one of its parts.
LEMMA Below ==
  ASSUME SyntaxAssumption, NEW p \in Programs, NEW f \in 1 .. Len(p),
         NEW x, IsNode(p, f, x), NEW h, IsNode(p, f, h), Begins(h.at, x.at)
  PROVE  \/ x = h
         \/ /\ "parts" \in DOMAIN h.s
            /\ \E j \in DOMAIN h.s.parts : Begins(Part(h, j).at, x.at)
<1>1. PICK n, t : n \in Nat \ {0} /\ Trail(p, f, t, n) /\ x = t[n]
  BY DEF IsNode
<1>2. PICK m, u : m \in Nat \ {0} /\ Trail(p, f, u, m) /\ h = u[m]
  BY DEF IsNode
<1>3. Len(x.at) = n /\ Len(h.at) = m
  BY <1>1, <1>2, TrailProper
<1>4. m \in 1 .. n /\ \A i \in 1 .. m : u[m].at[i] = t[n].at[i]
  BY <1>1, <1>2, <1>3 DEF Begins
<1>5. t[m] = u[m]
  BY <1>1, <1>2, <1>4, OneTrail
<1>6. CASE m = n
  BY <1>1, <1>2, <1>5, <1>6
<1>7. CASE m # n
  <2>1. m \in 1 .. n - 1
    BY <1>1, <1>2, <1>4, <1>7
  <2>2. "parts" \in DOMAIN h.s
    BY <1>1, <1>2, <1>5, <2>1 DEF Trail
  <2>3. PICK j \in DOMAIN h.s.parts : t[m + 1] = Part(h, j)
    BY <1>1, <1>2, <1>5, <2>1 DEF Trail
  <2>4. m + 1 \in 1 .. n
    BY <1>1, <2>1
  <2>5. Len(t[m + 1].at) = m + 1
    BY <1>1, <2>4, TrailProper
  <2>6. \A i \in 1 .. m + 1 : t[m + 1].at[i] = t[i].at[i]
    BY <1>1, <2>4, TrailPaths
  <2>7. \A i \in 1 .. n : t[n].at[i] = t[i].at[i]
    BY <1>1, TrailPaths
  <2>8. Begins(Part(h, j).at, x.at)
    BY <1>1, <1>3, <2>3, <2>4, <2>5, <2>6, <2>7 DEF Begins
  <2> QED
    BY <2>2, <2>8
<1> QED
  BY <1>6, <1>7

LEMMA SamePath ==
  ASSUME SyntaxAssumption, NEW p \in Programs, NEW f \in 1 .. Len(p),
         NEW x, IsNode(p, f, x), NEW h, IsNode(p, f, h), Begins(h.at, x.at), Len(x.at) = Len(h.at)
  PROVE  x = h
<1>1. Proper(f, h)
  BY NodeProper
<1>2. ASSUME "parts" \in DOMAIN h.s, NEW j \in DOMAIN h.s.parts, Begins(Part(h, j).at, x.at)
      PROVE  FALSE
  <2>1. Len(Part(h, j).at) = Len(h.at) + 1
    BY <1>1, <1>2, PartProper
  <2> QED
    BY <1>1, <1>2, <2>1 DEF Begins, Proper
<1> QED
  BY <1>2, Below

-----------------------------------------------------------------------------
(* What a name means *)

Declares(x, name) == x.s.kind = "init" /\ x.s.name = name

\* The statement at a sees what the one at b, an earlier one in a block around it
\* or in its own, declares.
Sees(a, b) ==
  /\ 2 <= Len(b) /\ Len(b) <= Len(a)
  /\ \A i \in 1 .. Len(b) - 1 : b[i] = a[i]
  /\ b[Len(b)] < a[Len(b)]

\* No declaration in sight has the name of another.
New(p, f, x) ==
  x.s.kind = "init" =>
    /\ x.s.name \notin p[f].parameters /\ x.s.name \notin Globals
    /\ \A d : IsNode(p, f, d) /\ Declares(d, x.s.name) => ~Sees(x.at, d.at)

Means(p, f, x, name, v) ==
  \/ \E d : IsNode(p, f, d) /\ Declares(d, name) /\ Sees(x.at, d.at) /\ v = d.at
  \/ name \in p[f].parameters /\ v = <<f>>
  \/ name \in Globals /\ name \notin p[f].parameters /\ v = Global

Found(p, f, x, res) ==
  x.s.kind \in {"expression", "init"} =>
    \A name \in x.s.uses : /\ <<x.at, name>> \in DOMAIN res
                           /\ Means(p, f, x, name, res[<<x.at, name>>])

Done(p, f, x, res) == New(p, f, x) /\ Found(p, f, x, res)

AllDone(p, f, res) == \A x : IsNode(p, f, x) => Done(p, f, x, res)

LEMMA SeesBelow ==
  ASSUME NEW a \in Seq(Nat), NEW b \in Seq(Nat), NEW c \in Seq(Nat), Begins(a, c), Sees(a, b)
  PROVE  Sees(c, b)
BY DEF Begins, Sees

\* What was found before stays found.
LEMMA DoneStays ==
  ASSUME NEW p, NEW f, NEW x, NEW h, NEW res, NEW g, NEW K, DOMAIN g = K,
         \A u \in K : \E n : u = <<h.at, n>>, x.at # h.at, Done(p, f, x, res)
  PROVE  Done(p, f, x, Over(g, res))
<1>1. ASSUME NEW n, <<x.at, n>> \in DOMAIN res
      PROVE  /\ <<x.at, n>> \in DOMAIN Over(g, res)
             /\ Over(g, res)[<<x.at, n>>] = res[<<x.at, n>>]
  <2>1. <<x.at, n>> \notin DOMAIN g
    OBVIOUS
  <2> QED
    BY <1>1, <2>1 DEF Over
<1> QED
  BY <1>1 DEF Done, Found

-----------------------------------------------------------------------------
(* The analysis *)

IsLeave(x) == x.s.kind = "leave"

\* How many scopes there are when it is next.
Level(x) == IF IsLeave(x) THEN Len(x.at) + 2 ELSE Len(x.at) + 1

\* What is left to do goes from the inner statements to the outer ones.
Before(x, y) ==
  IF IsLeave(y)
    THEN Len(y.at) < Len(x.at) /\ \A i \in 1 .. Len(y.at) : y.at[i] = x.at[i]
    ELSE /\ Len(y.at) <= Len(x.at) /\ \A i \in 1 .. Len(y.at) - 1 : y.at[i] = x.at[i]
         /\ x.at[Len(y.at)] < y.at[Len(y.at)]

Item(p, f, x) == IsNode(p, f, x) \/ \E y : IsNode(p, f, y) /\ x = Leave(y)

Steps(p, f, td) ==
  /\ \E T : td \in Seq(T)
  /\ \A k \in 1 .. Len(td) : Item(p, f, td[k])
  /\ \A k \in 1 .. Len(td) : \A i \in 1 .. k - 1 : Before(td[i], td[k])
  /\ \A k \in 2 .. Len(td) : Level(td[k]) = Len(td[k - 1].at) + 1

\* What the scopes have is in sight of what they are scopes of.
Chained(p, f, td, ch) ==
  \A j \in 3 .. Len(ch) : \A name \in DOMAIN ch[j] :
    \E d : /\ IsNode(p, f, d) /\ Declares(d, name) /\ ch[j][name] = d.at /\ Len(d.at) = j - 1
           /\ \A k \in 1 .. Len(td) :
                ~IsLeave(td[k]) /\ j <= Level(td[k]) => Sees(td[k].at, d.at)

\* What is in sight is in a scope, or still to come.
InSight(p, f, td, ch) ==
  \A k \in 1 .. Len(td) : ~IsLeave(td[k]) =>
    \A d : IsNode(p, f, d) /\ d.s.kind = "init" /\ Sees(td[k].at, d.at) =>
      d.s.name \in DOMAIN ch[Len(d.at) + 1] \/ \E i \in 1 .. k - 1 : td[i] = d

Covered(p, f, td, res) ==
  \A x : IsNode(p, f, x) =>
    Done(p, f, x, res) \/ \E k \in 1 .. Len(td) : ~IsLeave(td[k]) /\ Begins(td[k].at, x.at)

Scopes(p, f, td, ch) ==
  /\ \E T : ch \in Seq(T)
  /\ 2 <= Len(ch) /\ ch[1] = [name \in Globals |-> Global]
  /\ Len(td) > 0 => Len(ch) = Level(td[1]) /\ ch[2] = [name \in p[f].parameters |-> <<f>>]

Analysis(p, f, td, ch, res) ==
  /\ Steps(p, f, td) /\ Scopes(p, f, td, ch)
  /\ Chained(p, f, td, ch) /\ InSight(p, f, td, ch) /\ Covered(p, f, td, res)
  /\ \A g \in 1 .. f - 1 : AllDone(p, g, res)

LEMMA ItemProper ==
  ASSUME SyntaxAssumption, NEW p \in Programs, NEW f \in 1 .. Len(p), NEW x, Item(p, f, x)
  PROVE  /\ x.at \in Seq(Nat) /\ Len(x.at) \in Nat \ {0}
         /\ ~IsLeave(x) => IsNode(p, f, x) /\ Proper(f, x)
         /\ IsLeave(x) => "parts" \notin DOMAIN x.s
<1>1. CASE IsNode(p, f, x)
  <2>1. Proper(f, x)
    BY <1>1, NodeProper
  <2> QED
    BY <1>1, <2>1 DEF Proper, Parsed, IsLeave
<1>2. ASSUME NEW y, IsNode(p, f, y), x = Leave(y)
      PROVE  x.at = y.at /\ IsLeave(x) /\ Proper(f, y) /\ "parts" \notin DOMAIN x.s
  BY <1>2, NodeProper DEF Leave, Node, IsLeave
<1> QED
  BY <1>1, <1>2 DEF Item, Proper

LEMMA TailOf ==
  ASSUME NEW T, NEW td \in Seq(T), Len(td) > 0
  PROVE  /\ td # <<>> /\ Head(td) = td[1]
         /\ Tail(td) \in Seq(T) /\ Len(Tail(td)) = Len(td) - 1
         /\ \A i \in 1 .. Len(td) - 1 : Tail(td)[i] = td[i + 1]
BY HeadTailProperties

LEMMA StepsTail ==
  ASSUME NEW p, NEW f, NEW td, Steps(p, f, td), Len(td) > 0
  PROVE  Steps(p, f, Tail(td))
<1>1. PICK T : td \in Seq(T)
  BY DEF Steps
<1>2. PICK tl \in Seq(T) : tl = Tail(td) /\ Len(tl) = Len(td) - 1
                           /\ \A i \in 1 .. Len(td) - 1 : tl[i] = td[i + 1]
  BY <1>1, TailOf
<1>3. \A k \in 1 .. Len(tl) : k + 1 \in 1 .. Len(td) /\ tl[k] = td[k + 1]
  BY <1>1, <1>2
<1>4. \A k \in 1 .. Len(tl) : Item(p, f, tl[k])
  BY <1>3 DEF Steps
<1>5. \A k \in 1 .. Len(tl) : \A i \in 1 .. k - 1 : Before(tl[i], tl[k])
  <2> TAKE k \in 1 .. Len(tl)
  <2> TAKE i \in 1 .. k - 1
  <2>1. i \in 1 .. Len(tl) /\ i + 1 \in 1 .. k + 1 - 1
    BY <1>1, <1>2
  <2> QED
    BY <1>3, <2>1 DEF Steps
<1>6. \A k \in 2 .. Len(tl) : Level(tl[k]) = Len(tl[k - 1].at) + 1
  <2> TAKE k \in 2 .. Len(tl)
  <2>1. k \in 1 .. Len(tl) /\ k - 1 \in 1 .. Len(tl) /\ k + 1 \in 2 .. Len(td)
    BY <1>1, <1>2
  <2>2. tl[k] = td[k + 1] /\ tl[k - 1] = td[k + 1 - 1]
    BY <1>3, <2>1
  <2> QED
    BY <2>1, <2>2 DEF Steps
<1> QED
  BY <1>2, <1>4, <1>5, <1>6 DEF Steps

\* The scopes are those of what comes next.
LEMMA Later ==
  ASSUME SyntaxAssumption, NEW p \in Programs, NEW f \in 1 .. Len(p), NEW td, Steps(p, f, td)
  PROVE  \A k \in 2 .. Len(td) : /\ Level(td[k]) <= Level(td[1])
                                 /\ IsLeave(td[1]) => Level(td[k]) < Level(td[1])
<1> SUFFICES ASSUME NEW k \in 2 .. Len(td)
             PROVE  /\ Level(td[k]) <= Level(td[1])
                    /\ IsLeave(td[1]) => Level(td[k]) < Level(td[1])
  OBVIOUS
<1>1. Len(td) \in Nat
  BY DEF Steps
<1>2. 1 \in 1 .. Len(td) /\ k \in 1 .. Len(td) /\ 1 \in 1 .. k - 1
  BY <1>1
<1>3. Before(td[1], td[k]) /\ Item(p, f, td[1]) /\ Item(p, f, td[k])
  BY <1>2 DEF Steps
<1>4. Len(td[1].at) \in Nat /\ Len(td[k].at) \in Nat
  BY <1>3, ItemProper
<1> QED
  BY <1>3, <1>4 DEF Before, Level

LEMMA ChainedTail ==
  ASSUME NEW p, NEW f, NEW td, NEW ch, Steps(p, f, td), Len(td) > 0, Chained(p, f, td, ch)
  PROVE  Chained(p, f, Tail(td), ch)
<1>1. PICK T : td \in Seq(T)
  BY DEF Steps
<1>2. PICK tl \in Seq(T) : tl = Tail(td) /\ Len(tl) = Len(td) - 1
                           /\ \A i \in 1 .. Len(td) - 1 : tl[i] = td[i + 1]
  BY <1>1, TailOf
<1>3. \A k \in 1 .. Len(tl) : k + 1 \in 1 .. Len(td) /\ tl[k] = td[k + 1]
  BY <1>1, <1>2
<1> SUFFICES ASSUME NEW j \in 3 .. Len(ch), NEW name \in DOMAIN ch[j]
             PROVE  \E d : /\ IsNode(p, f, d) /\ Declares(d, name) /\ ch[j][name] = d.at
                           /\ Len(d.at) = j - 1
                           /\ \A k \in 1 .. Len(tl) :
                                ~IsLeave(tl[k]) /\ j <= Level(tl[k]) => Sees(tl[k].at, d.at)
  BY <1>2 DEF Chained
<1>4. PICK d : /\ IsNode(p, f, d) /\ Declares(d, name) /\ ch[j][name] = d.at
               /\ Len(d.at) = j - 1
               /\ \A k \in 1 .. Len(td) :
                    ~IsLeave(td[k]) /\ j <= Level(td[k]) => Sees(td[k].at, d.at)
  BY DEF Chained
<1> QED
  BY <1>3, <1>4

LEMMA InSightTail ==
  ASSUME NEW p, NEW f, NEW td, NEW ch, Steps(p, f, td), Len(td) > 0, InSight(p, f, td, ch),
         td[1].s.kind # "init"
  PROVE  InSight(p, f, Tail(td), ch)
<1>1. PICK T : td \in Seq(T)
  BY DEF Steps
<1>2. PICK tl \in Seq(T) : tl = Tail(td) /\ Len(tl) = Len(td) - 1
                           /\ \A i \in 1 .. Len(td) - 1 : tl[i] = td[i + 1]
  BY <1>1, TailOf
<1>3. \A k \in 1 .. Len(tl) : k + 1 \in 1 .. Len(td) /\ tl[k] = td[k + 1]
  BY <1>1, <1>2
<1> SUFFICES InSight(p, f, tl, ch)
  BY <1>2
<1> SUFFICES ASSUME NEW k \in 1 .. Len(tl), ~IsLeave(tl[k]),
                    NEW d, IsNode(p, f, d), d.s.kind = "init", Sees(tl[k].at, d.at)
             PROVE  d.s.name \in DOMAIN ch[Len(d.at) + 1] \/ \E i \in 1 .. k - 1 : tl[i] = d
  BY DEF InSight
<1>4. d.s.name \in DOMAIN ch[Len(d.at) + 1] \/ \E i \in 1 .. k + 1 - 1 : td[i] = d
  BY <1>3 DEF InSight
<1>5. ASSUME NEW i \in 1 .. k + 1 - 1, td[i] = d
      PROVE  \E l \in 1 .. k - 1 : tl[l] = d
  <2>1. i # 1
    BY <1>5
  <2>2. i - 1 \in 1 .. k - 1 /\ i - 1 \in 1 .. Len(td) - 1
    BY <1>2, <2>1
  <2>3. tl[i - 1] = td[i - 1 + 1]
    BY <1>2, <2>2
  <2>4. i - 1 + 1 = i
    OBVIOUS
  <2> QED
    BY <1>5, <2>2, <2>3, <2>4
<1> QED
  BY <1>4, <1>5

\* What is analysed and has no parts is done.
LEMMA CoveredTail ==
  ASSUME SyntaxAssumption, NEW p \in Programs, NEW f \in 1 .. Len(p),
         NEW td, Steps(p, f, td), Len(td) > 0,
         NEW res, Covered(p, f, td, res), "parts" \notin DOMAIN td[1].s,
         NEW res2, ~IsLeave(td[1]) => Done(p, f, td[1], res2),
         \A x : Done(p, f, x, res) /\ (IsLeave(td[1]) \/ x.at # td[1].at) => Done(p, f, x, res2)
  PROVE  Covered(p, f, Tail(td), res2)
<1>1. PICK T : td \in Seq(T)
  BY DEF Steps
<1>2. PICK tl \in Seq(T) : tl = Tail(td) /\ Len(tl) = Len(td) - 1
                           /\ \A i \in 1 .. Len(td) - 1 : tl[i] = td[i + 1]
  BY <1>1, TailOf
<1>3. Item(p, f, td[1])
  BY <1>1 DEF Steps
<1> SUFFICES ASSUME NEW x, IsNode(p, f, x), ~Done(p, f, x, res2)
             PROVE  \E k \in 1 .. Len(tl) : ~IsLeave(tl[k]) /\ Begins(tl[k].at, x.at)
  BY <1>2 DEF Covered
<1>4. ASSUME ~IsLeave(td[1]), Begins(td[1].at, x.at)
      PROVE  FALSE
  <2>1. IsNode(p, f, td[1])
    BY <1>3, <1>4, ItemProper
  <2>2. x = td[1]
    BY <1>4, <2>1, Below
  <2> QED
    BY <1>4, <2>2
<1>5. ~Done(p, f, x, res)
  <2> SUFFICES ASSUME Done(p, f, x, res) PROVE FALSE
    OBVIOUS
  <2>1. ~IsLeave(td[1]) /\ x.at = td[1].at
    OBVIOUS
  <2>2. Proper(f, x)
    BY NodeProper
  <2>3. Begins(td[1].at, x.at)
    BY <2>1, <2>2 DEF Begins, Proper
  <2> QED
    BY <1>4, <2>1, <2>3
<1>6. PICK k \in 1 .. Len(td) : ~IsLeave(td[k]) /\ Begins(td[k].at, x.at)
  BY <1>5 DEF Covered
<1>7. k # 1
  BY <1>4, <1>6
<1>8. k - 1 \in 1 .. Len(tl) /\ tl[k - 1] = td[k - 1 + 1] /\ k - 1 + 1 = k
  BY <1>1, <1>2, <1>7
<1> QED
  BY <1>6, <1>8

LEMMA FrontOf ==
  ASSUME NEW T, NEW ch \in Seq(T), Len(ch) > 0
  PROVE  /\ SubSeq(ch, 1, Len(ch) - 1) \in Seq(T)
         /\ Len(SubSeq(ch, 1, Len(ch) - 1)) = Len(ch) - 1
         /\ \A i \in 1 .. Len(ch) - 1 : SubSeq(ch, 1, Len(ch) - 1)[i] = ch[i]
<1>1. PICK m \in Nat : m = Len(ch) - 1
  OBVIOUS
<1>2. \A i \in 1 .. m : ch[i] \in T
  BY <1>1
<1>3. /\ SubSeq(ch, 1, m) \in Seq(T)
      /\ Len(SubSeq(ch, 1, m)) = IF 1 <= m THEN m - 1 + 1 ELSE 0
      /\ \A i \in 1 .. m - 1 + 1 : SubSeq(ch, 1, m)[i] = ch[1 + i - 1]
  BY <1>2, SubSeqProperties
<1>4. m - 1 + 1 = m /\ \A i \in 1 .. m : 1 + i - 1 = i
  OBVIOUS
<1> QED
  BY <1>1, <1>3, <1>4

\* RestoreScope.
LEMMA LeaveStep ==
  ASSUME SyntaxAssumption, NEW p \in Programs, NEW f \in 1 .. Len(p), NEW td, NEW ch, NEW res,
         Analysis(p, f, td, ch, res), Len(td) > 0, IsLeave(td[1])
  PROVE  Analysis(p, f, Tail(td), SubSeq(ch, 1, Len(ch) - 1), res)
<1>1. PICK T : td \in Seq(T)
  BY DEF Analysis, Steps
<1>2. PICK tl \in Seq(T) : tl = Tail(td) /\ Len(tl) = Len(td) - 1
                           /\ \A i \in 1 .. Len(td) - 1 : tl[i] = td[i + 1]
  BY <1>1, TailOf
<1>3. PICK U : ch \in Seq(U)
  BY DEF Analysis, Scopes
<1>4. Item(p, f, td[1]) /\ Len(ch) = Level(td[1])
  BY <1>1 DEF Analysis, Steps, Scopes
<1>5. Len(ch) = Len(td[1].at) + 2 /\ Len(td[1].at) \in Nat \ {0} /\ "parts" \notin DOMAIN td[1].s
  BY <1>4, ItemProper DEF Level
<1>6. PICK fr \in Seq(U) : /\ fr = SubSeq(ch, 1, Len(ch) - 1) /\ Len(fr) = Len(ch) - 1
                           /\ \A i \in 1 .. Len(ch) - 1 : fr[i] = ch[i]
  <2>1. Len(ch) > 0
    BY <1>5
  <2> QED
    BY <1>3, <2>1, FrontOf
<1>7. Steps(p, f, tl)
  BY <1>2, StepsTail DEF Analysis
<1>8. \A k \in 1 .. Len(tl) : Level(tl[k]) <= Len(fr)
  <2> TAKE k \in 1 .. Len(tl)
  <2>1. k + 1 \in 2 .. Len(td) /\ tl[k] = td[k + 1]
    BY <1>1, <1>2
  <2>2. Level(td[k + 1]) < Level(td[1])
    BY <2>1, Later DEF Analysis
  <2>4. Item(p, f, td[k + 1])
    BY <1>1, <2>1 DEF Analysis, Steps
  <2>3. Level(td[k + 1]) \in Nat
    BY <2>4, ItemProper DEF Level
  <2> QED
    BY <1>4, <1>5, <1>6, <2>1, <2>2, <2>3
<1>9. Scopes(p, f, tl, fr)
  <2>1. fr[1] = ch[1] /\ fr[2] = ch[2] /\ 2 <= Len(fr)
    BY <1>5, <1>6
  <2>2. ASSUME Len(tl) > 0 PROVE Len(fr) = Level(tl[1])
    <3>1. 2 \in 2 .. Len(td) /\ tl[1] = td[2]
      BY <1>1, <1>2, <2>2
    <3>2. Level(td[2]) = Len(td[2 - 1].at) + 1
      BY <3>1 DEF Analysis, Steps
    <3> QED
      BY <1>5, <1>6, <3>1, <3>2
  <2> QED
    BY <1>6, <2>1, <2>2 DEF Analysis, Scopes
<1>10. Chained(p, f, tl, fr)
  <2>1. Chained(p, f, tl, ch)
    BY <1>2, ChainedTail DEF Analysis
  <2>2. \A j \in 3 .. Len(fr) : j \in 3 .. Len(ch) /\ fr[j] = ch[j]
    BY <1>3, <1>5, <1>6
  <2> SUFFICES ASSUME NEW j \in 3 .. Len(fr), NEW name \in DOMAIN fr[j]
               PROVE  \E d : /\ IsNode(p, f, d) /\ Declares(d, name) /\ fr[j][name] = d.at
                             /\ Len(d.at) = j - 1
                             /\ \A k \in 1 .. Len(tl) :
                                  ~IsLeave(tl[k]) /\ j <= Level(tl[k]) => Sees(tl[k].at, d.at)
    BY DEF Chained
  <2> QED
    BY <2>1, <2>2 DEF Chained
<1>11. InSight(p, f, tl, fr)
  <2>1. InSight(p, f, tl, ch)
    BY <1>2, InSightTail DEF Analysis, IsLeave
  <2> SUFFICES ASSUME NEW k \in 1 .. Len(tl), ~IsLeave(tl[k]),
                      NEW d, IsNode(p, f, d), d.s.kind = "init", Sees(tl[k].at, d.at)
               PROVE  d.s.name \in DOMAIN fr[Len(d.at) + 1] \/ \E i \in 1 .. k - 1 : tl[i] = d
    BY DEF InSight
  <2>2. d.s.name \in DOMAIN ch[Len(d.at) + 1] \/ \E i \in 1 .. k - 1 : tl[i] = d
    BY <2>1 DEF InSight
  <2>3. Level(tl[k]) = Len(tl[k].at) + 1 /\ Level(tl[k]) <= Len(fr)
    BY <1>8 DEF Level
  <2>4. Item(p, f, tl[k])
    BY <1>7 DEF Steps
  <2>5. Len(tl[k].at) \in Nat
    BY <2>4, ItemProper
  <2>6. Len(d.at) \in Nat
    BY NodeProper DEF Proper
  <2>7. Len(d.at) <= Len(tl[k].at)
    BY DEF Sees
  <2>9. PICK n \in Nat, m \in Nat, l \in Nat : n = Len(d.at) /\ m = Len(tl[k].at) /\ l = Len(ch)
    BY <1>3, <2>5, <2>6
  <2>10. m + 1 <= l - 1
    BY <1>6, <2>3, <2>9
  <2>11. n <= m
    BY ONLY <2>7, <2>9
  <2>12. n + 1 \in 1 .. l - 1
    BY ONLY <2>10, <2>11, n \in Nat, m \in Nat, l \in Nat
  <2>8. Len(d.at) + 1 \in 1 .. Len(ch) - 1
    BY ONLY <2>9, <2>12
  <2> QED
    BY <1>6, <2>2, <2>8
<1>12. Covered(p, f, tl, res)
  BY <1>2, <1>5, CoveredTail DEF Analysis
<1> QED
  BY <1>2, <1>6, <1>7, <1>9, <1>10, <1>11, <1>12 DEF Analysis

\* An expression, or nothing.
LEMMA ReadStep ==
  ASSUME SyntaxAssumption, NEW p \in Programs, NEW f \in 1 .. Len(p), NEW td, NEW ch, NEW res,
         Analysis(p, f, td, ch, res), Len(td) > 0,
         ~IsLeave(td[1]), "parts" \notin DOMAIN td[1].s, td[1].s.kind # "init",
         NEW res2, Done(p, f, td[1], res2),
         \A g, x : Done(p, g, x, res) /\ x.at # td[1].at => Done(p, g, x, res2)
  PROVE  Analysis(p, f, Tail(td), ch, res2)
<1>1. PICK T : td \in Seq(T)
  BY DEF Analysis, Steps
<1>2. PICK tl \in Seq(T) : tl = Tail(td) /\ Len(tl) = Len(td) - 1
                           /\ \A i \in 1 .. Len(td) - 1 : tl[i] = td[i + 1]
  BY <1>1, TailOf
<1>3. Item(p, f, td[1]) /\ Len(ch) = Level(td[1])
  BY <1>1 DEF Analysis, Steps, Scopes
<1>4. Proper(f, td[1])
  BY <1>3, ItemProper
<1>5. Steps(p, f, tl)
  BY <1>2, StepsTail DEF Analysis
<1>6. Scopes(p, f, tl, ch)
  <2>1. ASSUME Len(tl) > 0 PROVE Len(ch) = Level(tl[1])
    <3>1. 2 \in 2 .. Len(td) /\ tl[1] = td[2]
      BY <1>1, <1>2, <2>1
    <3>2. Level(td[2]) = Len(td[2 - 1].at) + 1
      BY <3>1 DEF Analysis, Steps
    <3> QED
      BY <1>3, <3>1, <3>2 DEF Level
  <2> QED
    BY <2>1 DEF Analysis, Scopes
<1>7. Chained(p, f, tl, ch) /\ InSight(p, f, tl, ch)
  BY <1>2, ChainedTail, InSightTail DEF Analysis
<1>8. Covered(p, f, tl, res2)
  BY <1>2, CoveredTail DEF Analysis
<1>9. \A g \in 1 .. f - 1 : AllDone(p, g, res2)
  <2> SUFFICES ASSUME NEW g \in 1 .. f - 1, NEW x, IsNode(p, g, x) PROVE Done(p, g, x, res2)
    BY DEF AllDone
  <2>1. Len(p) \in Nat
    BY DEF SyntaxAssumption
  <2>2. Proper(g, x)
    BY <2>1, NodeProper
  <2>3. x.at # td[1].at
    BY <1>4, <2>2 DEF Proper
  <2> QED
    BY <2>3 DEF Analysis, AllDone
<1> QED
  BY <1>2, <1>5, <1>6, <1>7, <1>8, <1>9 DEF Analysis

\* A body is the whole of what is left to do.
LEMMA Alone ==
  ASSUME SyntaxAssumption, NEW p \in Programs, NEW f \in 1 .. Len(p), NEW td, Steps(p, f, td),
         Len(td) > 0, ~IsLeave(td[1]), Len(td[1].at) = 1
  PROVE  Len(td) = 1
<1>1. Len(td) \in Nat
  BY DEF Steps
<1>2. ASSUME 2 \in 1 .. Len(td) PROVE FALSE
  <2>1. PICK x, y : x = td[1] /\ y = td[2]
    OBVIOUS
  <2>2. 1 \in 1 .. Len(td) /\ 1 \in 1 .. 2 - 1
    BY <1>1, <1>2
  <2>3. Before(x, y) /\ Item(p, f, x) /\ Item(p, f, y)
    BY <1>2, <2>1, <2>2 DEF Steps
  <2>4. x.at[1] = f /\ f \in Nat /\ Len(x.at) = 1
    BY <2>1, <2>3, ItemProper DEF Proper, SyntaxAssumption
  <2>5. PICK n \in Nat \ {0} : n = Len(y.at)
    BY <2>3, ItemProper
  <2>6. ~IsLeave(y)
    BY <2>3, <2>4, <2>5 DEF Before
  <2>7. n <= 1 /\ x.at[n] < y.at[n]
    BY <2>3, <2>4, <2>5, <2>6 DEF Before
  <2>8. n = 1
    BY <2>7
  <2>9. y.at[1] = f
    BY <2>3, <2>6, ItemProper DEF Proper
  <2> QED
    BY <2>4, <2>7, <2>8, <2>9
<1>3. PICK n \in Nat : n = Len(td) /\ n > 0
  BY <1>1
<1>4. ~(2 <= n)
  BY <1>2, <1>3
<1> QED
  BY <1>3, <1>4

\* sema_analyze_statement_init.
LEMMA InitStep ==
  ASSUME SyntaxAssumption, NEW p \in Programs, NEW f \in 1 .. Len(p), NEW td, NEW ch, NEW res,
         Analysis(p, f, td, ch, res), Len(td) > 0, td[1].s.kind = "init",
         NEW res2, Done(p, f, td[1], res2),
         \A g, x : Done(p, g, x, res) /\ x.at # td[1].at => Done(p, g, x, res2),
         NEW ch2, ch2 = [ch EXCEPT ![Len(ch)] = Over([n \in {td[1].s.name} |-> td[1].at], @)]
  PROVE  Analysis(p, f, Tail(td), ch2, res2)
<1>1. PICK T : td \in Seq(T)
  BY DEF Analysis, Steps
<1>2. PICK tl \in Seq(T) : tl = Tail(td) /\ Len(tl) = Len(td) - 1
                           /\ \A i \in 1 .. Len(td) - 1 : tl[i] = td[i + 1]
  BY <1>1, TailOf
<1>3. PICK h : h = td[1]
  OBVIOUS
<1>4. Item(p, f, h) /\ Len(ch) = Level(h) /\ ~IsLeave(h)
  BY <1>1, <1>3 DEF Analysis, Steps, Scopes, IsLeave
<1>5. IsNode(p, f, h) /\ Proper(f, h) /\ "parts" \notin DOMAIN h.s
  <2>1. IsNode(p, f, h) /\ Proper(f, h)
    BY <1>4, ItemProper
  <2>2. Parsed(h.s) /\ Leaf(h.s)
    BY <1>3, <2>1 DEF Proper, Leaf
  <2> QED
    BY <2>1, <2>2 DEF Parsed
<1>6. PICK n \in Nat : n = Len(h.at) /\ 1 <= n /\ Len(ch) = n + 1 /\ (Len(tl) > 0 => 2 <= n)
  <2>1. PICK n \in Nat \ {0} : n = Len(h.at)
    BY <1>5 DEF Proper
  <2>2. ASSUME n = 1 PROVE Len(tl) = 0
    <3>1. Len(td) = 1
      BY <1>3, <1>4, <2>1, <2>2, Alone DEF Analysis
    <3> QED
      BY <1>2, <3>1
  <2>3. Len(ch) = n + 1
    BY <1>4, <2>1 DEF Level
  <2>4. 1 <= n /\ (n # 1 => 2 <= n)
    OBVIOUS
  <2>5. Len(tl) > 0 => n # 1
    BY <2>2
  <2> QED
    BY ONLY <2>1, <2>3, <2>4, <2>5, n \in Nat
<1>7. PICK U : ch \in Seq(U)
  BY DEF Analysis, Scopes
<1>8. PICK c : c = Over([m \in {h.s.name} |-> h.at], ch[n + 1])
  OBVIOUS
<1>9. /\ DOMAIN c = {h.s.name} \cup DOMAIN ch[n + 1] /\ c[h.s.name] = h.at
      /\ \A m \in DOMAIN c : m # h.s.name => c[m] = ch[n + 1][m]
  BY <1>8 DEF Over
<1>10. /\ ch2 \in Seq(U \cup {c}) /\ Len(ch2) = n + 1 /\ ch2[n + 1] = c
       /\ \A i \in 1 .. n : ch2[i] = ch[i]
  BY <1>3, <1>6, <1>7, <1>8
<1>11. Steps(p, f, tl)
  BY <1>2, StepsTail DEF Analysis
<1>12. Scopes(p, f, tl, ch2)
  <2>1. ASSUME Len(tl) > 0 PROVE Len(ch2) = Level(tl[1])
    <3>1. 2 \in 2 .. Len(td) /\ tl[1] = td[2]
      BY <1>1, <1>2, <2>1
    <3>2. Level(td[2]) = Len(td[2 - 1].at) + 1
      BY <3>1 DEF Analysis, Steps
    <3> QED
      BY <1>3, <1>6, <1>10, <3>1, <3>2
  <2>2. ch2[1] = ch[1] /\ (Len(tl) > 0 => ch2[2] = ch[2])
    BY <1>6, <1>10
  <2> QED
    BY <1>6, <1>10, <2>1, <2>2 DEF Analysis, Scopes
<1>13. Chained(p, f, tl, ch2)
  <2>1. Chained(p, f, tl, ch)
    BY <1>2, ChainedTail DEF Analysis
  <2> SUFFICES ASSUME NEW j \in 3 .. Len(ch2), NEW name \in DOMAIN ch2[j]
               PROVE  \E d : /\ IsNode(p, f, d) /\ Declares(d, name) /\ ch2[j][name] = d.at
                             /\ Len(d.at) = j - 1
                             /\ \A k \in 1 .. Len(tl) :
                                  ~IsLeave(tl[k]) /\ j <= Level(tl[k]) => Sees(tl[k].at, d.at)
    BY DEF Chained
  <2>2. CASE j = n + 1 /\ name = h.s.name
    <3>1. ASSUME NEW k \in 1 .. Len(tl), ~IsLeave(tl[k]), j <= Level(tl[k])
          PROVE  Sees(tl[k].at, h.at)
      <4>1. k + 1 \in 1 .. Len(td) /\ tl[k] = td[k + 1] /\ 1 \in 1 .. k + 1 - 1
        BY <1>1, <1>2
      <4>2. Before(h, tl[k]) /\ Item(p, f, tl[k])
        BY <1>3, <4>1 DEF Analysis, Steps
      <4>3. PICK m \in Nat : m = Len(tl[k].at)
        BY <4>2, ItemProper
      <4>4. n <= m
        BY <2>2, <3>1, <4>3 DEF Level
      <4> QED
        <5>1. 2 <= n
          BY <1>6, <2>2
        <5> QED
          BY <1>6, <3>1, <4>2, <4>3, <4>4, <5>1 DEF Before, Sees
    <3>2. ch2[j][name] = h.at /\ Len(h.at) = j - 1 /\ Declares(h, name)
      <4>1. ch2[j][name] = h.at
        BY <1>9, <1>10, <2>2
      <4>2. Len(h.at) = j - 1
        BY <1>6, <2>2
      <4> QED
        BY <1>3, <2>2, <4>1, <4>2 DEF Declares
    <3> QED
      BY <1>5, <3>1, <3>2
  <2>3. CASE ~(j = n + 1 /\ name = h.s.name)
    <3>1. j \in 3 .. Len(ch) /\ name \in DOMAIN ch[j] /\ ch2[j][name] = ch[j][name]
      BY <1>6, <1>9, <1>10, <2>3
    <3> QED
      BY <2>1, <3>1 DEF Chained
  <2> QED
    BY <2>2, <2>3
<1>14. InSight(p, f, tl, ch2)
  <2> SUFFICES ASSUME NEW k \in 1 .. Len(tl), ~IsLeave(tl[k]),
                      NEW d, IsNode(p, f, d), d.s.kind = "init", Sees(tl[k].at, d.at)
               PROVE  d.s.name \in DOMAIN ch2[Len(d.at) + 1] \/ \E i \in 1 .. k - 1 : tl[i] = d
    BY DEF InSight
  <2>1. k + 1 \in 2 .. Len(td) /\ k + 1 \in 1 .. Len(td) /\ tl[k] = td[k + 1]
    BY <1>1, <1>2
  <2>2. d.s.name \in DOMAIN ch[Len(d.at) + 1] \/ \E i \in 1 .. k + 1 - 1 : td[i] = d
    BY <2>1 DEF Analysis, InSight
  <2>3. CASE d.s.name \in DOMAIN ch[Len(d.at) + 1]
    <3>1. Level(tl[k]) <= n + 1
      BY <1>3, <1>4, <1>6, <2>1, Later DEF Analysis
    <3>2. Item(p, f, tl[k])
      BY <1>11 DEF Steps
    <3>3. PICK m \in Nat : m = Len(tl[k].at)
      BY <3>2, ItemProper
    <3>4. PICK l \in Nat : l = Len(d.at) /\ 1 <= l
      BY NodeProper DEF Proper
    <3>5. l + 1 \in 1 .. n + 1
      BY <3>1, <3>3, <3>4 DEF Level, Sees
    <3> QED
      BY <1>9, <1>10, <2>3, <3>4, <3>5
  <2>4. ASSUME NEW i \in 1 .. k + 1 - 1, td[i] = d
        PROVE  d.s.name \in DOMAIN ch2[Len(d.at) + 1] \/ \E l \in 1 .. k - 1 : tl[l] = d
    <3>1. CASE i = 1
      BY <1>3, <1>6, <1>9, <1>10, <2>4, <3>1
    <3>2. CASE i # 1
      <4>1. i - 1 \in 1 .. k - 1 /\ i - 1 \in 1 .. Len(td) - 1 /\ i - 1 + 1 = i
        BY <1>1, <1>2, <3>2
      <4>2. tl[i - 1] = d
        BY <1>2, <2>4, <4>1
      <4> QED
        BY <4>1, <4>2
    <3> QED
      BY <3>1, <3>2
  <2> QED
    BY <2>2, <2>3, <2>4
<1>15. Covered(p, f, tl, res2)
  BY <1>2, <1>3, <1>4, <1>5, CoveredTail DEF Analysis
<1>16. \A g \in 1 .. f - 1 : AllDone(p, g, res2)
  <2> SUFFICES ASSUME NEW g \in 1 .. f - 1, NEW x, IsNode(p, g, x) PROVE Done(p, g, x, res2)
    BY DEF AllDone
  <2>1. Len(p) \in Nat
    BY DEF SyntaxAssumption
  <2>2. Proper(g, x)
    BY <2>1, NodeProper
  <2>3. x.at # td[1].at
    BY <1>3, <1>5, <2>2 DEF Proper
  <2> QED
    BY <2>3 DEF Analysis, AllDone
<1> QED
  BY <1>2, <1>11, <1>12, <1>13, <1>14, <1>15, <1>16 DEF Analysis

\* Something in the place of the first.
LEMMA Joined ==
  ASSUME NEW T, NEW td \in Seq(T), Len(td) > 0, NEW U, NEW g \in Seq(U)
  PROVE  /\ \E V : g \o Tail(td) \in Seq(V)
         /\ Len(g \o Tail(td)) = Len(g) + Len(td) - 1
         /\ \A i \in 1 .. Len(g) : (g \o Tail(td))[i] = g[i]
         /\ \A i \in 2 .. Len(td) : (g \o Tail(td))[Len(g) + i - 1] = td[i]
         /\ \A k \in 1 .. Len(g) + Len(td) - 1 :
              k \in 1 .. Len(g) \/ \E i \in 2 .. Len(td) : k = Len(g) + i - 1
<1>1. PICK tl \in Seq(T) : tl = Tail(td) /\ Len(tl) = Len(td) - 1
                           /\ \A i \in 1 .. Len(td) - 1 : tl[i] = td[i + 1]
  BY TailOf
<1>2. tl \in Seq(T \cup U) /\ g \in Seq(T \cup U)
  <2>1. \A i \in 1 .. Len(tl) : tl[i] \in T \cup U
    OBVIOUS
  <2>2. \A i \in 1 .. Len(g) : g[i] \in T \cup U
    OBVIOUS
  <2> QED
    BY <2>1, <2>2
<1>3. /\ g \o tl \in Seq(T \cup U) /\ Len(g \o tl) = Len(g) + Len(tl)
      /\ \A i \in 1 .. Len(g) + Len(tl) :
           (g \o tl)[i] = IF i <= Len(g) THEN g[i] ELSE tl[i - Len(g)]
  BY <1>2, ConcatProperties
<1>4. PICK m \in Nat, n \in Nat : m = Len(g) /\ n = Len(td) /\ n > 0
  OBVIOUS
<1>5. \A i \in 1 .. m : (g \o tl)[i] = g[i]
  BY <1>1, <1>3, <1>4
<1>6. \A i \in 2 .. n : (g \o tl)[m + i - 1] = td[i]
  <2> TAKE i \in 2 .. n
  <2>1. m + i - 1 \in 1 .. m + Len(tl) /\ ~(m + i - 1 <= m) /\ m + i - 1 - m = i - 1
    BY <1>1, <1>4
  <2>2. i - 1 \in 1 .. n - 1 /\ i - 1 + 1 = i
    BY <1>4
  <2>3. tl[i - 1] = td[i]
    BY <1>1, <1>4, <2>2
  <2> QED
    BY <1>3, <1>4, <2>1, <2>3
<1>7. \A k \in 1 .. m + n - 1 : k \in 1 .. m \/ \E i \in 2 .. n : k = m + i - 1
  <2> TAKE k \in 1 .. m + n - 1
  <2>1. CASE k > m
    <3>1. k - m + 1 \in 2 .. n /\ k = m + (k - m + 1) - 1
      BY <1>4, <2>1
    <3> QED
      BY <3>1
  <2> QED
    BY <2>1
<1> QED
  BY <1>1, <1>3, <1>4, <1>5, <1>6, <1>7

\* The parts of a node, and then its end.
Joint(a, e, td) == a \o <<e>> \o Tail(td)

LEMMA Opened ==
  ASSUME NEW A, NEW a \in Seq(A), NEW e, NEW T, NEW td \in Seq(T), Len(td) > 0
  PROVE  /\ \E V : Joint(a, e, td) \in Seq(V)
         /\ Len(Joint(a, e, td)) = Len(a) + Len(td)
         /\ \A i \in 1 .. Len(a) : Joint(a, e, td)[i] = a[i]
         /\ Joint(a, e, td)[Len(a) + 1] = e
         /\ \A i \in 2 .. Len(td) : Joint(a, e, td)[Len(a) + i] = td[i]
         /\ \A k \in 1 .. Len(Joint(a, e, td)) :
              k \in 1 .. Len(a) \/ k = Len(a) + 1 \/ \E i \in 2 .. Len(td) : k = Len(a) + i
<1>0. PICK td2 : td2 = Joint(a, e, td)
  OBVIOUS
<1>1. PICK n \in Nat : n = Len(a)
  OBVIOUS
<1>3. PICK B : B = A \cup {e}
  OBVIOUS
<1>4. a \in Seq(B) /\ Len(a) = n /\ <<e>> \in Seq(B)
  <2>1. \A i \in 1 .. Len(a) : a[i] \in B
    BY <1>3
  <2> QED
    BY <1>1, <1>3, <2>1
<1>5. PICK g : g = a \o <<e>>
  OBVIOUS
<1>6. /\ g \in Seq(B) /\ Len(g) = n + 1 /\ g[n + 1] = e
      /\ \A i \in 1 .. n : g[i] = a[i]
  <2>1. /\ a \o <<e>> \in Seq(B)
        /\ Len(a \o <<e>>) = Len(a) + Len(<<e>>)
        /\ \A i \in 1 .. Len(a) + Len(<<e>>) : (a \o <<e>>)[i] =
             IF i <= Len(a) THEN a[i] ELSE <<e>>[i - Len(a)]
    BY <1>4, ConcatProperties
  <2>2. n + 1 - n = 1 /\ ~(n + 1 <= n) /\ n + 1 \in 1 .. n + 1 /\ Len(<<e>>) = 1
    OBVIOUS
  <2>3. g[n + 1] = e
    BY <1>4, <1>5, <2>1, <2>2
  <2>4. \A i \in 1 .. n : g[i] = a[i]
    BY <1>4, <1>5, <2>1, <2>2
  <2> QED
    BY <1>4, <1>5, <2>1, <2>2, <2>3, <2>4
<1>7. td2 = g \o Tail(td)
  BY <1>0, <1>5 DEF Joint
<1>8. PICK m \in Nat : m = Len(td) /\ m > 0
  OBVIOUS
<1>9. /\ \E V : td2 \in Seq(V)
      /\ Len(td2) = n + 1 + m - 1
      /\ \A i \in 1 .. n + 1 : td2[i] = g[i]
      /\ \A i \in 2 .. m : td2[n + 1 + i - 1] = td[i]
      /\ \A k \in 1 .. n + 1 + m - 1 :
           k \in 1 .. n + 1 \/ \E i \in 2 .. m : k = n + 1 + i - 1
  <2>1. /\ \E V : g \o Tail(td) \in Seq(V)
        /\ Len(g \o Tail(td)) = Len(g) + Len(td) - 1
        /\ \A i \in 1 .. Len(g) : (g \o Tail(td))[i] = g[i]
        /\ \A i \in 2 .. Len(td) : (g \o Tail(td))[Len(g) + i - 1] = td[i]
        /\ \A k \in 1 .. Len(g) + Len(td) - 1 :
              k \in 1 .. Len(g) \/ \E i \in 2 .. Len(td) : k = Len(g) + i - 1
    BY <1>6, Joined
  <2>2. Len(g) = n + 1 /\ Len(td) = m
    BY <1>6, <1>8
  <2> QED
    BY ONLY <1>7, <2>1, <2>2
<1>10. n + 1 + m - 1 = n + m /\ \A i \in 2 .. m : n + 1 + i - 1 = n + i
  BY <1>8
<1>11. \A k \in 1 .. n + 1 : k \in 1 .. n \/ k = n + 1
  OBVIOUS
<1>12. Len(td2) = n + Len(td) /\ \A i \in 2 .. Len(td) : td2[n + i] = td[i]
  BY <1>8, <1>9, <1>10
<1>13. \A k \in 1 .. Len(td2) : k \in 1 .. n \/ k = n + 1 \/ \E i \in 2 .. Len(td) : k = n + i
  BY <1>8, <1>9, <1>10, <1>11
<1>14. (\A i \in 1 .. n : td2[i] = a[i]) /\ td2[n + 1] = e
  <2>1. \A i \in 1 .. n : i \in 1 .. n + 1
    OBVIOUS
  <2>2. n + 1 \in 1 .. n + 1
    OBVIOUS
  <2> QED
    BY <1>6, <1>9, <2>1, <2>2
<1> QED
  BY <1>0, <1>1, <1>9, <1>12, <1>13, <1>14

LEMMA BeforeBelow ==
  ASSUME NEW h, NEW a, NEW y, h.at \in Seq(Nat), a.at \in Seq(Nat), y.at \in Seq(Nat),
         Len(y.at) \in Nat \ {0}, Begins(h.at, a.at), Before(h, y)
  PROVE  Before(a, y)
<1>1. PICK l \in Nat, m \in Nat, n \in Nat : l = Len(h.at) /\ m = Len(a.at) /\ n = Len(y.at) /\ n > 0
  OBVIOUS
<1>2. l <= m /\ \A i \in 1 .. l : h.at[i] = a.at[i]
  BY <1>1 DEF Begins
<1>3. CASE IsLeave(y)
  <2>1. n < l /\ \A i \in 1 .. n : y.at[i] = h.at[i]
    BY <1>1, <1>3 DEF Before
  <2> QED
    BY <1>1, <1>2, <1>3, <2>1 DEF Before
<1>4. CASE ~IsLeave(y)
  <2>1. n <= l /\ (\A i \in 1 .. n - 1 : y.at[i] = h.at[i]) /\ h.at[n] < y.at[n]
    BY <1>1, <1>4 DEF Before
  <2>4. n \in 1 .. l /\ \A i \in 1 .. n - 1 : i \in 1 .. l
    BY ONLY <1>1, <2>1, n \in Nat, l \in Nat
  <2>2. n <= m /\ h.at[n] = a.at[n]
    <3>1. n <= m
      BY ONLY <1>2, <2>1, n \in Nat, m \in Nat, l \in Nat
    <3> QED
      BY ONLY <1>2, <2>4, <3>1
  <2>3. \A i \in 1 .. n - 1 : y.at[i] = a.at[i]
    BY ONLY <1>2, <2>1, <2>4
  <2> QED
    BY <1>1, <1>4, <2>1, <2>2, <2>3 DEF Before
<1> QED
  BY <1>3, <1>4

LEMMA PartsOf ==
  ASSUME SyntaxAssumption, NEW p \in Programs, NEW f \in 1 .. Len(p), NEW h, IsNode(p, f, h),
         "parts" \in DOMAIN h.s
  PROVE  /\ h.s.parts \in Seq(Statements) /\ ~Leaf(h.s) /\ ~IsLeave(h)
         /\ \A j \in DOMAIN h.s.parts :
              /\ IsNode(p, f, Part(h, j)) /\ Proper(f, Part(h, j)) /\ ~IsLeave(Part(h, j))
              /\ Len(Part(h, j).at) = Len(h.at) + 1 /\ Part(h, j).at[Len(h.at) + 1] = j
              /\ \A i \in 1 .. Len(h.at) : Part(h, j).at[i] = h.at[i]
              /\ Begins(h.at, Part(h, j).at)
<1>1. Proper(f, h) /\ Len(h.at) \in Nat
  BY NodeProper DEF Proper
<1>2. h.s.parts \in Seq(Statements) /\ ~Leaf(h.s) /\ ~IsLeave(h)
  BY <1>1 DEF Proper, Parsed, IsLeave
<1> SUFFICES ASSUME NEW j \in DOMAIN h.s.parts
             PROVE  /\ IsNode(p, f, Part(h, j)) /\ Proper(f, Part(h, j)) /\ ~IsLeave(Part(h, j))
                    /\ Len(Part(h, j).at) = Len(h.at) + 1 /\ Part(h, j).at[Len(h.at) + 1] = j
                    /\ \A i \in 1 .. Len(h.at) : Part(h, j).at[i] = h.at[i]
                    /\ Begins(h.at, Part(h, j).at)
  BY <1>2
<1>3. /\ Proper(f, Part(h, j)) /\ Len(Part(h, j).at) = Len(h.at) + 1
      /\ Part(h, j).at[Len(h.at) + 1] = j
      /\ \A i \in 1 .. Len(h.at) : Part(h, j).at[i] = h.at[i]
  BY <1>1, PartProper
<1>4. IsNode(p, f, Part(h, j))
  BY PartNode
<1>5. ~IsLeave(Part(h, j))
  BY <1>3 DEF Proper, Parsed, IsLeave
<1>6. Begins(h.at, Part(h, j).at)
  BY <1>1, <1>3 DEF Begins
<1> QED
  BY <1>3, <1>4, <1>5, <1>6

\* A block, an if, a loop or a switch.
LEMMA PushStep ==
  ASSUME SyntaxAssumption, NEW p \in Programs, NEW f \in 1 .. Len(p), NEW td, NEW ch, NEW res,
         Analysis(p, f, td, ch, res), Len(td) > 0, "parts" \in DOMAIN td[1].s,
         NEW td2, td2 = [i \in DOMAIN td[1].s.parts |-> Part(td[1], i)]
                          \o <<Leave(td[1])>> \o Tail(td)
  PROVE  Analysis(p, f, td2, Append(ch, <<>>), res)
<1>1. PICK T : td \in Seq(T)
  BY DEF Analysis, Steps
<1>2. PICK h : h = td[1]
  OBVIOUS
<1>3. Item(p, f, h) /\ Len(ch) = Level(h)
  BY <1>1, <1>2 DEF Analysis, Steps, Scopes
<1>4. IsNode(p, f, h) /\ Proper(f, h)
  BY <1>2, <1>3, ItemProper
<1>5. /\ h.s.parts \in Seq(Statements) /\ ~Leaf(h.s) /\ ~IsLeave(h)
      /\ \A j \in DOMAIN h.s.parts :
           /\ IsNode(p, f, Part(h, j)) /\ Proper(f, Part(h, j)) /\ ~IsLeave(Part(h, j))
           /\ Len(Part(h, j).at) = Len(h.at) + 1 /\ Part(h, j).at[Len(h.at) + 1] = j
           /\ \A i \in 1 .. Len(h.at) : Part(h, j).at[i] = h.at[i]
           /\ Begins(h.at, Part(h, j).at)
  BY <1>2, <1>4, PartsOf
<1>6. PICK n \in Nat :
           /\ DOMAIN h.s.parts = 1 .. n
           /\ \E V : td2 \in Seq(V)
           /\ Len(td2) = n + Len(td)
           /\ \A i \in 1 .. n : td2[i] = Part(h, i)
           /\ td2[n + 1] = Leave(h)
           /\ \A i \in 2 .. Len(td) : td2[n + i] = td[i]
           /\ \A k \in 1 .. Len(td2) :
                k \in 1 .. n \/ k = n + 1 \/ \E i \in 2 .. Len(td) : k = n + i
  <2>1. PICK n \in Nat : n = Len(h.s.parts) /\ DOMAIN h.s.parts = 1 .. n
    BY <1>5
  <2>2. PICK A : A = {Part(h, i) : i \in 1 .. n}
    OBVIOUS
  <2>3. PICK a : a = [i \in 1 .. n |-> Part(h, i)]
    OBVIOUS
  <2>4. a \in Seq(A) /\ Len(a) = n /\ \A i \in 1 .. n : a[i] = Part(h, i)
    BY <2>2, <2>3
  <2>5. td2 = a \o <<Leave(h)>> \o Tail(td)
    BY <1>2, <2>1, <2>3
  <2>6. /\ \E V : td2 \in Seq(V)
        /\ Len(td2) = Len(a) + Len(td)
        /\ \A i \in 1 .. Len(a) : td2[i] = a[i]
        /\ td2[Len(a) + 1] = Leave(h)
        /\ \A i \in 2 .. Len(td) : td2[Len(a) + i] = td[i]
        /\ \A k \in 1 .. Len(td2) :
             k \in 1 .. Len(a) \/ k = Len(a) + 1 \/ \E i \in 2 .. Len(td) : k = Len(a) + i
    <3>1. PICK e : e = Leave(h)
      OBVIOUS
    <3>2. a \in Seq(A) /\ td \in Seq(T) /\ Len(td) > 0
      BY <1>1, <2>4
    <3>3. td2 = Joint(a, e, td)
      BY <2>5, <3>1 DEF Joint
    <3>4. /\ \E V : Joint(a, e, td) \in Seq(V)
          /\ Len(Joint(a, e, td)) = Len(a) + Len(td)
          /\ \A i \in 1 .. Len(a) : Joint(a, e, td)[i] = a[i]
          /\ Joint(a, e, td)[Len(a) + 1] = e
          /\ \A i \in 2 .. Len(td) : Joint(a, e, td)[Len(a) + i] = td[i]
          /\ \A k \in 1 .. Len(Joint(a, e, td)) :
               k \in 1 .. Len(a) \/ k = Len(a) + 1 \/ \E i \in 2 .. Len(td) : k = Len(a) + i
      BY ONLY <3>2, Opened
    <3> QED
      BY ONLY <3>1, <3>3, <3>4
  <2> QED
    BY <2>1, <2>4, <2>6
<1>7. PICK l \in Nat, m \in Nat \ {0} : l = Len(h.at) /\ m = Len(td) /\ 1 <= l
  BY <1>1, <1>4 DEF Proper
<1>8. PICK U : ch \in Seq(U)
  BY DEF Analysis, Scopes
<1>9. PICK ch2 \in Seq(U \cup {<<>>}) : /\ ch2 = Append(ch, <<>>) /\ Len(ch2) = l + 2
                                        /\ Len(ch) = l + 1 /\ ch2[l + 2] = <<>>
                                        /\ \A i \in 1 .. l + 1 : ch2[i] = ch[i]
  <2>1. Len(ch) = l + 1
    BY <1>3, <1>5, <1>7 DEF Level
  <2>2. \A i \in 1 .. Len(ch) : ch[i] \in U \cup {<<>>}
    BY <1>8
  <2>3. ch \in Seq(U \cup {<<>>}) /\ <<>> \in U \cup {<<>>}
    BY <1>8, <2>2
  <2>4. PICK e : e = <<>> /\ e \in U \cup {<<>>}
    OBVIOUS
  <2>5. /\ Append(ch, e) \in Seq(U \cup {<<>>}) /\ Len(Append(ch, e)) = Len(ch) + 1
        /\ Append(ch, e)[Len(ch) + 1] = e
        /\ \A i \in 1 .. Len(ch) : Append(ch, e)[i] = ch[i]
    BY <2>3, <2>4
  <2>6. l + 1 + 1 = l + 2
    OBVIOUS
  <2> QED
    BY <2>1, <2>4, <2>5, <2>6
<1>10. Leave(h).at = h.at /\ IsLeave(Leave(h)) /\ Item(p, f, Leave(h))
  BY <1>4 DEF Leave, Node, IsLeave, Item
<1>0. \A j \in 1 .. n : /\ Len(Part(h, j).at) = l + 1 /\ Part(h, j).at[l + 1] = j
                        /\ ~IsLeave(Part(h, j))
                        /\ \A i \in 1 .. l : Part(h, j).at[i] = h.at[i]
  BY <1>5, <1>6, <1>7
<1>16. \A i \in 2 .. m : i \in 2 .. Len(td) /\ i \in 1 .. Len(td) /\ td2[n + i] = td[i]
  <2> TAKE i \in 2 .. m
  <2>1. i \in 2 .. Len(td) /\ i \in 1 .. Len(td)
    BY <1>7
  <2> QED
    BY <1>6, <2>1
<1>11. Steps(p, f, td2)
  <2>1. \A k \in 1 .. Len(td2) : Item(p, f, td2[k])
    <3> SUFFICES ASSUME NEW k \in 1 .. Len(td2) PROVE Item(p, f, td2[k])
      OBVIOUS
    <3>1. CASE k \in 1 .. n
      BY <1>5, <1>6, <3>1 DEF Item
    <3>2. CASE k = n + 1
      BY <1>6, <1>10, <3>2
    <3>3. ASSUME NEW i \in 2 .. Len(td), k = n + i PROVE Item(p, f, td2[k])
      <4>1. i \in 1 .. Len(td) /\ td2[k] = td[i]
        BY <1>6, <3>3
      <4> QED
        BY <4>1 DEF Analysis, Steps
    <3> QED
      BY <1>6, <3>1, <3>2, <3>3
  <2>2. \A i \in 2 .. m : Before(h, td[i]) /\ td[i].at \in Seq(Nat) /\ Len(td[i].at) \in Nat \ {0}
    <3> TAKE i \in 2 .. m
    <3>1. i \in 1 .. Len(td) /\ 1 \in 1 .. i - 1
      BY <1>7
    <3>2. Before(h, td[i]) /\ Item(p, f, td[i])
      BY <1>2, <3>1 DEF Analysis, Steps
    <3> QED
      BY <3>2, ItemProper
  <2>3. \A k \in 1 .. Len(td2) : \A i \in 1 .. k - 1 : Before(td2[i], td2[k])
    <3> SUFFICES ASSUME NEW k \in 1 .. Len(td2), NEW i \in 1 .. k - 1
                 PROVE  Before(td2[i], td2[k])
      OBVIOUS
    <3>1. CASE k \in 1 .. n
      <4>1. i \in 1 .. n /\ td2[i] = Part(h, i) /\ td2[k] = Part(h, k)
        BY <1>6, <3>1
      <4>2. i \in DOMAIN h.s.parts /\ k \in DOMAIN h.s.parts /\ i < k
        BY <1>6, <3>1, <4>1
      <4>3. PICK a, b : a = Part(h, i) /\ b = Part(h, k)
        OBVIOUS
      <4>4. /\ Len(a.at) = l + 1 /\ Len(b.at) = l + 1 /\ ~IsLeave(b)
            /\ a.at[l + 1] = i /\ b.at[l + 1] = k /\ l + 1 - 1 = l
            /\ \A e \in 1 .. l : a.at[e] = b.at[e]
        BY <1>0, <3>1, <4>1, <4>3
      <4>5. i < k
        BY <4>2
      <4>6. Before(a, b)
        BY <4>4, <4>5 DEF Before
      <4> QED
        BY <4>1, <4>3, <4>6
    <3>2. CASE k = n + 1
      <4>1. i \in 1 .. n
        BY <3>2
      <4>2. td2[i] = Part(h, i) /\ td2[k] = Leave(h)
        BY <1>6, <3>2, <4>1
      <4>3. PICK a, b : a = Part(h, i) /\ b = Leave(h)
        OBVIOUS
      <4>4. Len(a.at) = l + 1 /\ \A e \in 1 .. l : a.at[e] = h.at[e]
        BY <1>0, <4>1, <4>3
      <4>5. b.at = h.at /\ Len(b.at) = l /\ IsLeave(b)
        BY <1>7, <1>10, <4>3
      <4>6. Before(a, b)
        BY <4>4, <4>5 DEF Before
      <4> QED
        BY <4>2, <4>3, <4>6
    <3>3. ASSUME NEW j \in 2 .. m, k = n + j PROVE Before(td2[i], td2[k])
      <4>1. td2[k] = td[j]
        BY <1>6, <1>7, <3>3
      <4>2. CASE i \in 1 .. n
        <5>1. i \in DOMAIN h.s.parts /\ td2[i] = Part(h, i)
          BY <1>6, <4>2
        <5>2. PICK a : a = Part(h, i) /\ a.at \in Seq(Nat) /\ Begins(h.at, a.at)
          BY <1>5, <5>1 DEF Proper
        <5> QED
          BY <1>4, <2>2, <4>1, <5>1, <5>2, BeforeBelow DEF Proper
      <4>3. CASE i = n + 1
        <5>1. td2[i] = Leave(h) /\ Before(h, td[j])
          BY <1>6, <2>2, <4>3
        <5> QED
          BY <1>10, <4>1, <5>1 DEF Before
      <4>4. ASSUME NEW e \in 2 .. m, i = n + e PROVE Before(td2[i], td2[k])
        <5>1. e \in 1 .. j - 1 /\ j \in 1 .. Len(td)
          BY <1>7, <3>3, <4>4
        <5>2. td2[i] = td[e]
          BY <1>16, <4>4
        <5> QED
          BY <4>1, <5>1, <5>2 DEF Analysis, Steps
      <4>5. i \in 1 .. Len(td2)
        BY <1>6, <1>7
      <4> QED
        BY <1>6, <1>7, <4>2, <4>3, <4>4, <4>5
    <3> QED
      BY <1>6, <1>7, <3>1, <3>2, <3>3
  <2>4. \A k \in 2 .. Len(td2) : Level(td2[k]) = Len(td2[k - 1].at) + 1
    <3> SUFFICES ASSUME NEW k \in 2 .. Len(td2) PROVE Level(td2[k]) = Len(td2[k - 1].at) + 1
      OBVIOUS
    <3>1. CASE k \in 1 .. n
      <4>1. k - 1 \in 1 .. n
        BY <3>1
      <4>2. td2[k] = Part(h, k) /\ td2[k - 1] = Part(h, k - 1)
        BY <1>6, <3>1, <4>1
      <4>3. k \in DOMAIN h.s.parts /\ k - 1 \in DOMAIN h.s.parts
        BY <1>6, <3>1, <4>1
      <4> QED
        BY <1>5, <4>2, <4>3 DEF Level
    <3>2. CASE k = n + 1
      <4>1. k - 1 \in 1 .. n /\ k - 1 = n
        BY <3>2
      <4>2. td2[k] = Leave(h) /\ td2[k - 1] = Part(h, n) /\ n \in DOMAIN h.s.parts
        BY <1>6, <3>2, <4>1
      <4>3. Len(Part(h, n).at) = l + 1
        BY <1>5, <1>7, <4>2
      <4>4. Level(Leave(h)) = l + 2 /\ l + 2 = l + 1 + 1
        BY <1>7, <1>10 DEF Level
      <4> QED
        BY <4>2, <4>3, <4>4
    <3>3. ASSUME NEW i \in 2 .. m, k = n + i PROVE Level(td2[k]) = Len(td2[k - 1].at) + 1
      <4>1. td2[k] = td[i] /\ Level(td[i]) = Len(td[i - 1].at) + 1
        BY <1>6, <1>7, <3>3 DEF Analysis, Steps
      <4>2. CASE i = 2
        <5>1. k - 1 = n + 1 /\ i - 1 = 1
          BY <3>3, <4>2
        <5> QED
          BY <1>2, <1>6, <1>10, <4>1, <5>1
      <4>3. CASE i # 2
        <5>1. k - 1 = n + (i - 1) /\ i - 1 \in 2 .. m
          BY <3>3, <4>3
        <5> QED
          BY <1>6, <1>7, <4>1, <5>1
      <4> QED
        BY <4>2, <4>3
    <3>4. k \in 1 .. Len(td2)
      BY <1>6, <1>7
    <3> QED
      BY <1>6, <1>7, <3>1, <3>2, <3>3, <3>4
  <2> QED
    BY <1>6, <2>1, <2>3, <2>4 DEF Steps
<1>12. Scopes(p, f, td2, ch2)
  <2>1. Level(td2[1]) = l + 2
    <3>1. CASE n = 0
      <4>1. td2[1] = Leave(h)
        BY <1>6, <3>1
      <4> QED
        BY <1>7, <1>10, <4>1 DEF Level
    <3>2. CASE n # 0
      <4>1. td2[1] = Part(h, 1) /\ 1 \in DOMAIN h.s.parts
        BY <1>6, <3>2
      <4>2. Len(Part(h, 1).at) = l + 1 /\ ~IsLeave(Part(h, 1))
        BY <1>5, <1>7, <4>1
      <4>3. Level(td2[1]) = l + 1 + 1
        BY <4>1, <4>2 DEF Level
      <4>4. l + 1 + 1 = l + 2
        OBVIOUS
      <4> QED
        BY ONLY <4>3, <4>4
    <3> QED
      BY <3>1, <3>2
  <2>2. ch2[1] = ch[1] /\ ch2[2] = ch[2] /\ 2 <= Len(ch2)
    BY <1>7, <1>9
  <2> QED
    BY <1>9, <2>1, <2>2 DEF Analysis, Scopes
<1>13. Chained(p, f, td2, ch2)
  <2> SUFFICES ASSUME NEW j \in 3 .. Len(ch2), NEW name \in DOMAIN ch2[j]
               PROVE  \E d : /\ IsNode(p, f, d) /\ Declares(d, name) /\ ch2[j][name] = d.at
                             /\ Len(d.at) = j - 1
                             /\ \A k \in 1 .. Len(td2) :
                                  ~IsLeave(td2[k]) /\ j <= Level(td2[k]) => Sees(td2[k].at, d.at)
    BY DEF Chained
  <2>1. j # l + 2
    BY <1>9
  <2>2. j \in 3 .. Len(ch) /\ ch2[j] = ch[j]
    BY <1>9, <2>1
  <2>3. PICK d : /\ IsNode(p, f, d) /\ Declares(d, name) /\ ch[j][name] = d.at
                 /\ Len(d.at) = j - 1
                 /\ \A k \in 1 .. Len(td) :
                      ~IsLeave(td[k]) /\ j <= Level(td[k]) => Sees(td[k].at, d.at)
    BY <2>2 DEF Analysis, Chained
  <2>4. ASSUME NEW k \in 1 .. Len(td2), ~IsLeave(td2[k]), j <= Level(td2[k])
        PROVE  Sees(td2[k].at, d.at)
    <3>1. CASE k \in 1 .. n
      <4>1. 1 \in 1 .. Len(td) /\ j <= Level(td[1]) /\ ~IsLeave(td[1])
        BY <1>2, <1>3, <1>5, <1>7, <2>2
      <4>2. Sees(h.at, d.at)
        BY <1>2, <2>3, <4>1
      <4>3. d.at \in Seq(Nat)
        BY <2>3, NodeProper DEF Proper
      <4>4. k \in DOMAIN h.s.parts /\ td2[k] = Part(h, k)
        BY <1>6, <3>1
      <4>5. Part(h, k).at \in Seq(Nat) /\ Begins(h.at, Part(h, k).at)
        BY <1>5, <4>4 DEF Proper
      <4> QED
        BY <1>4, <4>2, <4>3, <4>4, <4>5, SeesBelow DEF Proper
    <3>2. CASE k = n + 1
      BY <1>6, <1>10, <2>4, <3>2
    <3>3. ASSUME NEW i \in 2 .. m, k = n + i PROVE Sees(td2[k].at, d.at)
      <4>1. td2[k] = td[i] /\ i \in 1 .. Len(td)
        BY <1>16, <3>3
      <4> QED
        BY <2>3, <2>4, <4>1
    <3> QED
      BY <1>6, <1>7, <3>1, <3>2, <3>3
  <2> QED
    BY <2>2, <2>3, <2>4
<1>14. InSight(p, f, td2, ch2)
  <2> SUFFICES ASSUME NEW k \in 1 .. Len(td2), ~IsLeave(td2[k]),
                      NEW d, IsNode(p, f, d), d.s.kind = "init", Sees(td2[k].at, d.at)
               PROVE  d.s.name \in DOMAIN ch2[Len(d.at) + 1] \/ \E i \in 1 .. k - 1 : td2[i] = d
    BY DEF InSight
  <2>1. Proper(f, d)
    BY NodeProper
  <2>2. PICK e \in Nat \ {0} : e = Len(d.at)
    BY <2>1 DEF Proper
  <2>3. CASE k \in 1 .. n
    <3>1. k \in DOMAIN h.s.parts /\ td2[k] = Part(h, k)
      BY <1>6, <2>3
    <3>2. PICK a : a = Part(h, k)
      OBVIOUS
    <3>3. /\ Len(a.at) = l + 1 /\ a.at[l + 1] = k /\ \A i \in 1 .. l : a.at[i] = h.at[i]
      BY <1>0, <2>3, <3>2
    <3>4. e <= l + 1 /\ (\A i \in 1 .. e - 1 : d.at[i] = a.at[i]) /\ d.at[e] < a.at[e] /\ 2 <= e
      BY <2>2, <3>1, <3>2, <3>3 DEF Sees
    <3>5. CASE e <= l
      <4>0. (\A i \in 1 .. e : i \in 1 .. l) /\ (\A i \in 1 .. e - 1 : i \in 1 .. l) /\ e \in 1 .. l
        BY <3>5
      <4>1. Sees(h.at, d.at)
        BY <1>7, <2>2, <3>3, <3>4, <3>5, <4>0 DEF Sees
      <4>2. 1 \in 1 .. Len(td) /\ ~IsLeave(td[1]) /\ 1 .. 1 - 1 = {}
        <5>1. 1 \in 1 .. Len(td)
          BY <1>7
        <5>2. ~IsLeave(td[1])
          BY <1>2, <1>5
        <5>3. 1 .. 1 - 1 = {}
          OBVIOUS
        <5> QED
          BY <5>1, <5>2, <5>3
      <4>3. d.s.name \in DOMAIN ch[Len(d.at) + 1]
        BY <1>2, <4>1, <4>2 DEF Analysis, InSight
      <4>4. e + 1 \in 1 .. l + 1
        BY <3>5
      <4> QED
        BY <1>9, <2>2, <4>3, <4>4
    <3>6. CASE e = l + 1
      <4>0. \A i \in 1 .. l : i \in 1 .. e - 1
        BY <3>6
      <4>1. Begins(h.at, d.at) /\ d # h
        <5>1. \A i \in 1 .. l : h.at[i] = d.at[i]
          BY <3>3, <3>4, <4>0
        <5>2. l <= e /\ l # e
          BY <3>6
        <5> QED
          BY <1>7, <2>2, <5>1, <5>2 DEF Begins
      <4>2. PICK j \in DOMAIN h.s.parts : Begins(Part(h, j).at, d.at)
        BY <1>4, <4>1, Below
      <4>3. j \in 1 .. n /\ IsNode(p, f, Part(h, j)) /\ Len(Part(h, j).at) = l + 1
            /\ Part(h, j).at[l + 1] = j
        BY <1>0, <1>5, <1>6, <4>2
      <4>4. d = Part(h, j)
        BY <2>2, <3>6, <4>2, <4>3, SamePath
      <4>5. j < k
        BY <3>3, <3>4, <3>6, <4>3, <4>4
      <4>7. j \in 1 .. k - 1
        BY <2>3, <4>3, <4>5
      <4>6. j \in 1 .. k - 1 /\ td2[j] = d
        BY <1>6, <4>3, <4>4, <4>7
      <4> QED
        BY <4>6
    <3>7. e <= l \/ e = l + 1
      BY <3>4
    <3> QED
      BY <3>5, <3>6, <3>7
  <2>4. CASE k = n + 1
    BY <1>6, <1>10, <2>4
  <2>5. ASSUME NEW i \in 2 .. m, k = n + i
        PROVE  d.s.name \in DOMAIN ch2[Len(d.at) + 1] \/ \E j \in 1 .. k - 1 : td2[j] = d
    <3>1. td2[k] = td[i] /\ i \in 1 .. Len(td) /\ i \in 2 .. Len(td)
      BY <1>16, <2>5
    <3>2. d.s.name \in DOMAIN ch[Len(d.at) + 1] \/ \E j \in 1 .. i - 1 : td[j] = d
      BY <3>1 DEF Analysis, InSight
    <3>3. CASE d.s.name \in DOMAIN ch[Len(d.at) + 1]
      <4>1. Level(td[i]) <= l + 1 /\ Item(p, f, td[i])
        <5>1. Level(td[i]) <= Level(td[1])
          BY <3>1, Later DEF Analysis
        <5>2. Item(p, f, td[i])
          BY <3>1 DEF Analysis, Steps
        <5> QED
          BY <1>2, <1>3, <1>9, <5>1, <5>2
      <4>2. PICK b \in Nat : b = Len(td[i].at)
        BY <4>1, ItemProper
      <4>4. e <= b
        BY <2>2, <3>1, <4>2 DEF Sees
      <4>5. b + 1 <= l + 1
        BY <3>1, <4>1, <4>2 DEF Level
      <4>3. e + 1 \in 1 .. l + 1
        BY <4>4, <4>5
      <4> QED
        BY <1>9, <2>2, <3>3, <4>3
    <3>4. ASSUME NEW j \in 1 .. i - 1, td[j] = d PROVE \E g \in 1 .. k - 1 : td2[g] = d
      <4>1. j # 1
        BY <1>2, <1>5, <3>4 DEF Leaf
      <4>2. j \in 2 .. Len(td) /\ n + j \in 1 .. k - 1
        BY <1>7, <2>5, <3>4, <4>1
      <4> QED
        BY <1>6, <3>4, <4>2
    <3> QED
      BY <3>2, <3>3, <3>4
  <2> QED
    BY <1>6, <1>7, <2>3, <2>4, <2>5
<1>15. Covered(p, f, td2, res)
  <2> SUFFICES ASSUME NEW x, IsNode(p, f, x), ~Done(p, f, x, res)
               PROVE  \E k \in 1 .. Len(td2) : ~IsLeave(td2[k]) /\ Begins(td2[k].at, x.at)
    BY DEF Covered
  <2>1. PICK k \in 1 .. Len(td) : ~IsLeave(td[k]) /\ Begins(td[k].at, x.at)
    BY DEF Analysis, Covered
  <2>2. CASE k = 1
    <3>1. x # h
      BY <1>5 DEF Done, New, Found, Leaf
    <3>2. PICK j \in DOMAIN h.s.parts : Begins(Part(h, j).at, x.at)
      BY <1>2, <1>4, <2>1, <2>2, <3>1, Below
    <3>3. j \in 1 .. Len(td2) /\ td2[j] = Part(h, j)
      <4>1. j \in 1 .. n
        BY <1>6, <3>2
      <4>2. j \in 1 .. Len(td2)
        BY <1>6, <1>7, <4>1
      <4> QED
        BY <1>6, <4>1, <4>2
    <3> QED
      BY <1>5, <3>2, <3>3
  <2>3. CASE k # 1
    <3>1. k \in 2 .. Len(td) /\ n + k \in 1 .. Len(td2)
      BY <1>6, <1>7, <2>3
    <3>2. td2[n + k] = td[k]
      BY <1>6, <3>1
    <3> QED
      BY <2>1, <3>1, <3>2
  <2> QED
    BY <2>2, <2>3
<1> QED
  BY <1>9, <1>11, <1>12, <1>13, <1>14, <1>15 DEF Analysis
\* The beginning of a function.
LEMMA FirstStep ==
  ASSUME SyntaxAssumption, NEW p \in Programs, NEW f \in 1 .. Len(p), NEW td, NEW ch, NEW res,
         td = <<Node(<<f>>, p[f].body)>>,
         ch = <<[name \in Globals |-> Global], [name \in p[f].parameters |-> <<f>>]>>,
         \A g \in 1 .. f - 1 : AllDone(p, g, res)
  PROVE  Analysis(p, f, td, ch, res)
<1>1. PICK r : r = Node(<<f>>, p[f].body)
  OBVIOUS
<1>2. IsNode(p, f, r) /\ r.at = <<f>> /\ Len(r.at) = 1 /\ r.at[1] = f
  BY <1>1, RootNode DEF Node
<1>3. Proper(f, r)
  BY <1>2, NodeProper
<1>4. ~IsLeave(r)
  BY <1>3 DEF Proper, Parsed, IsLeave
<1>5. td \in Seq({r}) /\ Len(td) = 1 /\ td[1] = r
  BY <1>1
<1>6. Steps(p, f, td)
  <2>1. \E T : td \in Seq(T)
    BY <1>5
  <2>2. \A k \in 1 .. Len(td) : k = 1 /\ 1 .. k - 1 = {}
    BY <1>5
  <2>3. 2 .. Len(td) = {}
    BY <1>5
  <2>4. \A k \in 1 .. Len(td) : Item(p, f, td[k])
    BY <1>2, <1>5, <2>2 DEF Item
  <2> QED
    BY <2>1, <2>2, <2>3, <2>4 DEF Steps
<1>7. PICK a, b : a = [name \in Globals |-> Global] /\ b = [name \in p[f].parameters |-> <<f>>]
  OBVIOUS
<1>8. ch \in Seq({a, b}) /\ Len(ch) = 2 /\ ch[1] = a /\ ch[2] = b
  BY <1>7
<1>9. Level(r) = 2
  BY <1>2, <1>4 DEF Level
<1>10. Scopes(p, f, td, ch)
  <2>1. \E T : ch \in Seq(T)
    BY <1>8
  <2>2. Len(ch) = Level(td[1])
    BY <1>5, <1>8, <1>9
  <2>3. 2 <= Len(ch)
    BY <1>8
  <2>4. ch[1] = [name \in Globals |-> Global] /\ ch[2] = [name \in p[f].parameters |-> <<f>>]
    BY <1>7, <1>8
  <2> QED
    BY <2>1, <2>2, <2>3, <2>4 DEF Scopes
<1>11. Chained(p, f, td, ch)
  BY <1>8 DEF Chained
<1>12. InSight(p, f, td, ch)
  <2>1. ASSUME NEW d, IsNode(p, f, d), Sees(r.at, d.at) PROVE FALSE
    <3>1. Len(d.at) \in Nat
      BY <2>1, NodeProper DEF Proper
    <3> QED
      BY <1>2, <2>1, <3>1 DEF Sees
  <2> QED
    BY <1>5, <2>1 DEF InSight
<1>13. Covered(p, f, td, res)
  <2>1. ASSUME NEW x, IsNode(p, f, x) PROVE Begins(r.at, x.at)
    BY <1>2, <2>1, NodeProper DEF Proper, Begins
  <2> QED
    BY <1>4, <1>5, <2>1 DEF Covered
<1> QED
  BY <1>6, <1>10, <1>11, <1>12, <1>13 DEF Analysis

\* The end of a function.
LEMMA LastStep ==
  ASSUME SyntaxAssumption, NEW p \in Programs, NEW f \in 1 .. Len(p), NEW td, NEW ch, NEW res,
         Analysis(p, f, td, ch, res), Len(td) = 0
  PROVE  \A g \in 1 .. f : AllDone(p, g, res)
<1>1. AllDone(p, f, res)
  BY DEF Analysis, Covered, AllDone
<1>2. \A g \in 1 .. f : g = f \/ g \in 1 .. f - 1
  BY DEF SyntaxAssumption
<1> QED
  BY <1>1, <1>2 DEF Analysis

\* Of the scopes that have a name, one is the innermost.
LEMMA Innermost ==
  ASSUME NEW n \in Nat, NEW G, NEW k \in 1 .. n, k \in G
  PROVE  \E i \in 1 .. n : i \in G /\ \A j \in i + 1 .. n : j \notin G
<1> DEFINE S == {m \in 0 .. n : n - m \in G /\ n - m \in 1 .. n}
<1>1. n - k \in S /\ S \subseteq Nat
  OBVIOUS
<1>2. PICK m \in S : \A y \in S : m <= y
  BY <1>1, LeastExists
<1>3. n - m \in 1 .. n /\ n - m \in G /\ m \in 0 .. n
  BY <1>2
<1>4. ASSUME NEW j \in (n - m) + 1 .. n, j \in G PROVE FALSE
  <2>1. n - j \in 0 .. n /\ n - (n - j) = j /\ j \in 1 .. n
    BY <1>3
  <2>2. n - j \in S
    BY <1>4, <2>1
  <2>3. m <= n - j
    BY <1>2, <2>2
  <2> QED
    BY <1>3, <2>1, <2>3
<1> QED
  BY <1>3, <1>4

\* A name is looked up from the innermost scope outwards.
LEMMA LookUp ==
  ASSUME SyntaxAssumption, NEW p \in Programs, NEW f \in 1 .. Len(p), NEW td, NEW ch, NEW res,
         Analysis(p, f, td, ch, res), Len(td) > 0, ~IsLeave(td[1]),
         NEW name, NEW i \in 1 .. Len(ch), name \in DOMAIN ch[i],
         \A j \in i + 1 .. Len(ch) : name \notin DOMAIN ch[j]
  PROVE  Means(p, f, td[1], name, ch[i][name])
<1>1. Len(ch) = Level(td[1]) /\ Len(ch) \in Nat /\ 1 \in 1 .. Len(td)
  BY DEF Analysis, Scopes, Steps
<1>2. CASE i \in 3 .. Len(ch)
  <2>1. PICK d : /\ IsNode(p, f, d) /\ Declares(d, name) /\ ch[i][name] = d.at
                 /\ \A k \in 1 .. Len(td) :
                      ~IsLeave(td[k]) /\ i <= Level(td[k]) => Sees(td[k].at, d.at)
    BY <1>2 DEF Analysis, Chained
  <2>2. Sees(td[1].at, d.at)
    BY <1>1, <1>2, <2>1
  <2> QED
    BY <2>1, <2>2 DEF Means
<1>3. CASE i = 2
  BY <1>3 DEF Analysis, Scopes, Means
<1>4. CASE i = 1
  <2>1. 2 \in i + 1 .. Len(ch)
    BY <1>1, <1>4 DEF Analysis, Scopes
  <2>2. name \notin p[f].parameters
    BY <2>1 DEF Analysis, Scopes
  <2> QED
    BY <1>4, <2>2 DEF Analysis, Scopes, Means
<1>5. i = 1 \/ i = 2 \/ i \in 3 .. Len(ch)
  BY <1>1
<1> QED
  BY <1>2, <1>3, <1>4, <1>5

\* sema_get.
LEMMA SemaGet ==
  ASSUME SyntaxAssumption, program \in Programs, function \in 1 .. Len(program),
         Analysis(program, function, todo, chain, resolved), Len(todo) > 0, ~IsLeave(todo[1]),
         NEW uses, Known(uses), NEW name \in uses
  PROVE  Means(program, function, todo[1], name, sema_get(name))
<1>1. PICK U : chain \in Seq(U)
  BY DEF Analysis, Scopes
<1>2. DOMAIN chain = 1 .. Len(chain) /\ Len(chain) \in Nat
  BY <1>1
<1> DEFINE G == {i \in DOMAIN chain : name \in DOMAIN chain[i]}
           P(i) == name \in DOMAIN chain[i] /\ \A j \in i + 1 .. Len(chain) : name \notin DOMAIN chain[j]
<1>3. PICK k \in DOMAIN chain : name \in DOMAIN chain[k]
  BY DEF Known
<1>4. PICK m \in 1 .. Len(chain) : m \in G /\ \A j \in m + 1 .. Len(chain) : j \notin G
  <2>1. PICK n \in Nat : n = Len(chain) /\ DOMAIN chain = 1 .. n
    BY <1>2
  <2>2. k \in G /\ k \in 1 .. n
    BY <1>3, <2>1
  <2> HIDE DEF G
  <2>3. \E m \in 1 .. n : m \in G /\ \A j \in m + 1 .. n : j \notin G
    BY <2>2, Innermost
  <2> QED
    BY <2>1, <2>3
<1>5. \A j \in m + 1 .. Len(chain) : j \in DOMAIN chain
  BY <1>2
<1>6. \E i \in DOMAIN chain : P(i)
  BY <1>2, <1>4, <1>5
<1>7. PICK i : i = CHOOSE c \in DOMAIN chain : P(c)
  OBVIOUS
<1>8. i \in DOMAIN chain /\ P(i)
  BY <1>6, <1>7
<1>9. sema_get(name) = chain[i][name]
  BY <1>7 DEF sema_get
<1>10. PICK p, f, td, ch, res : p = program /\ f = function /\ td = todo /\ ch = chain /\ res = resolved
  OBVIOUS
<1>11. Means(p, f, td[1], name, ch[i][name])
  BY <1>2, <1>8, <1>10, LookUp
<1> QED
  BY <1>9, <1>10, <1>11
\* What an expression or an initializer reads is resolved.
LEMMA ResolveStep ==
  ASSUME SyntaxAssumption, program \in Programs, function \in 1 .. Len(program),
         Analysis(program, function, todo, chain, resolved), Len(todo) > 0,
         todo[1].s.kind \in {"expression", "init"}, New(program, function, todo[1]),
         Known(todo[1].s.uses), Resolve(todo[1])
  PROVE  /\ Done(program, function, todo[1], resolved')
         /\ \A g, x : Done(program, g, x, resolved) /\ x.at # todo[1].at
                        => Done(program, g, x, resolved')
<1>1. PICK h : h = todo[1]
  OBVIOUS
<1>2. PICK K : K = {<<h.at, name>> : name \in h.s.uses}
  OBVIOUS
<1>3. PICK g : g = [u \in K |-> sema_get(u[2])]
  OBVIOUS
<1>4. resolved' = Over(g, resolved)
  BY <1>1, <1>2, <1>3 DEF Resolve
<1>5. DOMAIN g = K
  BY <1>3
<1>6. \A name \in h.s.uses : <<h.at, name>> \in K /\ g[<<h.at, name>>] = sema_get(name)
  BY <1>2, <1>3
<1>7. ASSUME NEW name \in h.s.uses
      PROVE  /\ <<h.at, name>> \in DOMAIN resolved'
             /\ resolved'[<<h.at, name>>] = sema_get(name)
  <2>1. PICK u : u = <<h.at, name>>
    OBVIOUS
  <2>2. u \in K /\ g[u] = sema_get(name)
    BY <1>6, <2>1
  <2>3. u \in DOMAIN Over(g, resolved) /\ Over(g, resolved)[u] = g[u]
    BY <1>5, <2>2 DEF Over
  <2> QED
    BY <1>4, <2>1, <2>2, <2>3
<1>8. ~IsLeave(todo[1])
  BY DEF IsLeave
<1>9. \A name \in h.s.uses : Means(program, function, h, name, sema_get(name))
  BY <1>1, <1>8, SemaGet
<1>10. Done(program, function, todo[1], resolved')
  BY <1>1, <1>7, <1>9 DEF Done, Found
<1>11. \A u \in K : \E n : u = <<h.at, n>>
  BY <1>2
<1>12. PICK p, res : p = program /\ res = resolved
  OBVIOUS
<1>13. \A f, x : Done(p, f, x, res) /\ x.at # h.at => Done(p, f, x, Over(g, res))
  BY <1>5, <1>11, DoneStays
<1> QED
  BY <1>1, <1>4, <1>10, <1>12, <1>13

\* No name is declared that something visible has.
LEMMA NewName ==
  ASSUME SyntaxAssumption, NEW p \in Programs, NEW f \in 1 .. Len(p), NEW td, NEW ch, NEW res,
         Analysis(p, f, td, ch, res), Len(td) > 0, td[1].s.kind = "init",
         ~Visible(td[1].s.name, ch)
  PROVE  New(p, f, td[1])
<1>1. PICK h, name : h = td[1] /\ name = h.s.name
  OBVIOUS
<1>2. PICK n \in Nat : n = Len(ch) /\ DOMAIN ch = 1 .. n /\ 2 <= n
  BY DEF Analysis, Scopes
<1>3. \A i \in 1 .. n : name \notin DOMAIN ch[i]
  BY <1>1, <1>2 DEF Visible
<1>4. name \notin Globals /\ name \notin p[f].parameters
  <2>1. name \notin DOMAIN ch[1] /\ name \notin DOMAIN ch[2]
    BY <1>2, <1>3
  <2> QED
    BY <2>1 DEF Analysis, Scopes
<1>5. 1 \in 1 .. Len(td) /\ ~IsLeave(h) /\ 1 .. 1 - 1 = {}
  BY <1>1 DEF IsLeave, Analysis, Steps
<1>6. ASSUME NEW d, IsNode(p, f, d), Declares(d, name), Sees(h.at, d.at) PROVE FALSE
  <2>1. name \in DOMAIN ch[Len(d.at) + 1]
    BY <1>1, <1>5, <1>6 DEF Analysis, InSight, Declares
  <2>2. Item(p, f, h) /\ n = Level(h)
    BY <1>1, <1>2, <1>5 DEF Analysis, Steps, Scopes
  <2>3. PICK l \in Nat : l = Len(h.at) /\ n = l + 1
    BY <1>5, <2>2, ItemProper DEF Level
  <2>4. PICK e \in Nat : e = Len(d.at)
    BY <1>6, NodeProper DEF Proper
  <2>5. e + 1 \in 1 .. n
    BY <1>6, <2>3, <2>4 DEF Sees
  <2> QED
    BY <1>3, <2>1, <2>4, <2>5
<1> QED
  BY <1>1, <1>4, <1>6 DEF New

-----------------------------------------------------------------------------
(* The walk of lower.c *)

(* The code *)

\* What lower.c has before another: what is analysed before it, or the body that
\* a condition or an increment comes after.
Earlier(x, y) ==
  /\ Len(y.at) <= Len(x.at) /\ \A i \in 1 .. Len(y.at) - 1 : y.at[i] = x.at[i]
  /\ x.at[Len(y.at)] < y.at[Len(y.at)] \/ Reads(y.s)

\* What is further on in the source, in the blocks around.
FurtherOn(x, y) ==
  /\ Len(y.at) <= Len(x.at) /\ \A i \in 1 .. Len(y.at) - 1 : y.at[i] = x.at[i]
  /\ x.at[Len(y.at)] < y.at[Len(y.at)]

Agenda(p, f, td) ==
  /\ \E T : td \in Seq(T)
  /\ \A k \in 1 .. Len(td) : IsNode(p, f, td[k])
  /\ \A k \in 1 .. Len(td) : \A i \in 1 .. k - 1 : Earlier(td[i], td[k])

\* What is further on is not built yet, unless it is the body before a condition.
Pending(p, f, td) ==
  \A k \in 1 .. Len(td) : \A y : IsNode(p, f, y) /\ FurtherOn(td[k], y) =>
    \/ \E i \in 1 .. Len(td) : td[i] = y
    \/ Reads(td[k].s) /\ Len(y.at) = Len(td[k].at)

\* What a statement has in sight is what the table has, or comes before it.
Tabled(p, f, td, loc) ==
  \A k \in 1 .. Len(td) : \A d : IsNode(p, f, d) /\ d.s.kind = "init" /\ Sees(td[k].at, d.at) =>
    \/ d.s.name \in DOMAIN loc /\ loc[d.s.name] = d.at
    \/ \E i \in 1 .. k - 1 : td[i] = d

\* The parameters stay, and no local has the name of a global.
Kept(p, f, loc) ==
  /\ \A n \in p[f].parameters : n \in DOMAIN loc /\ loc[n] = <<f>>
  /\ \A n \in Globals : n \notin p[f].parameters => n \notin DOMAIN loc

Building(p, f, td, loc) ==
  Agenda(p, f, td) /\ Pending(p, f, td) /\ Tabled(p, f, td, loc) /\ Kept(p, f, loc)

LEMMA AgendaProper ==
  ASSUME SyntaxAssumption, NEW p \in Programs, NEW f \in 1 .. Len(p), NEW td, Agenda(p, f, td)
  PROVE  /\ \A k \in 1 .. Len(td) : /\ IsNode(p, f, td[k]) /\ Proper(f, td[k])
                                    /\ td[k].at \in Seq(Nat) /\ Len(td[k].at) \in Nat \ {0}
         /\ Len(td) \in Nat
<1>1. Len(td) \in Nat
  BY DEF Agenda
<1>2. ASSUME NEW k \in 1 .. Len(td)
      PROVE  /\ IsNode(p, f, td[k]) /\ Proper(f, td[k])
             /\ td[k].at \in Seq(Nat) /\ Len(td[k].at) \in Nat \ {0}
  <2>1. IsNode(p, f, td[k])
    BY DEF Agenda
  <2>2. Proper(f, td[k])
    BY <2>1, NodeProper
  <2> QED
    BY <2>1, <2>2 DEF Proper
<1> QED
  BY <1>1, <1>2

LEMMA Index ==
  ASSUME NEW a \in Seq(Nat), NEW n \in 1 .. Len(a)
  PROVE  a[n] \in Nat
OBVIOUS

\* Of two statements that are left, one that is further on is a body.
LEMMA FurtherEarlier ==
  ASSUME NEW x, NEW y, x.at \in Seq(Nat), y.at \in Seq(Nat), Len(y.at) \in Nat \ {0},
         Earlier(x, y), FurtherOn(y, x)
  PROVE  Reads(y.s) /\ Len(x.at) = Len(y.at)
<1>1. PICK m \in Nat, n \in Nat \ {0} : m = Len(x.at) /\ n = Len(y.at)
  OBVIOUS
<1>2. n <= m /\ m <= n
  BY <1>1 DEF Earlier, FurtherOn
<1>3. m = n
  BY <1>2
<1>4. y.at[n] < x.at[n] /\ (x.at[n] < y.at[n] \/ Reads(y.s)) /\ x.at[n] \in Nat /\ y.at[n] \in Nat
  <2>1. y.at[n] < x.at[n]
    BY <1>1, <1>3 DEF FurtherOn
  <2>2. x.at[n] < y.at[n] \/ Reads(y.s)
    BY <1>1 DEF Earlier
  <2>3. x.at[n] \in Nat /\ y.at[n] \in Nat
    <3>1. n \in 1 .. Len(x.at) /\ n \in 1 .. Len(y.at)
      BY <1>1, <1>3
    <3> QED
      BY <3>1, Index
  <2> QED
    BY <2>1, <2>2, <2>3
<1> QED
  BY <1>1, <1>3, <1>4

LEMMA AgendaTail ==
  ASSUME SyntaxAssumption, NEW p \in Programs, NEW f \in 1 .. Len(p), NEW td,
         Agenda(p, f, td), Pending(p, f, td), Len(td) > 0
  PROVE  Agenda(p, f, Tail(td)) /\ Pending(p, f, Tail(td))
<1>1. PICK T : td \in Seq(T)
  BY DEF Agenda
<1>2. PICK tl \in Seq(T) : tl = Tail(td) /\ Len(tl) = Len(td) - 1
                           /\ \A i \in 1 .. Len(td) - 1 : tl[i] = td[i + 1]
  BY <1>1, TailOf
<1>3. \A k \in 1 .. Len(tl) : k + 1 \in 1 .. Len(td) /\ tl[k] = td[k + 1]
  BY <1>1, <1>2
<1>4. \A k \in 1 .. Len(tl) : IsNode(p, f, tl[k])
  BY <1>3 DEF Agenda
<1>5. \A k \in 1 .. Len(tl) : \A i \in 1 .. k - 1 : Earlier(tl[i], tl[k])
  <2> TAKE k \in 1 .. Len(tl)
  <2> TAKE i \in 1 .. k - 1
  <2>1. i \in 1 .. Len(tl) /\ i + 1 \in 1 .. k + 1 - 1
    BY <1>1, <1>2
  <2> QED
    BY <1>3, <2>1 DEF Agenda
<1>6. Agenda(p, f, tl)
  BY <1>4, <1>5 DEF Agenda
<1>7. ASSUME NEW k \in 1 .. Len(tl), NEW y, IsNode(p, f, y), FurtherOn(tl[k], y)
      PROVE  \/ \E i \in 1 .. Len(tl) : tl[i] = y
             \/ Reads(tl[k].s) /\ Len(y.at) = Len(tl[k].at)
  <2>1. \/ \E i \in 1 .. Len(td) : td[i] = y
        \/ Reads(tl[k].s) /\ Len(y.at) = Len(tl[k].at)
    BY <1>3, <1>7 DEF Pending
  <2>2. ASSUME NEW i \in 1 .. Len(td), td[i] = y
        PROVE  \/ \E j \in 1 .. Len(tl) : tl[j] = y
               \/ Reads(tl[k].s) /\ Len(y.at) = Len(tl[k].at)
    <3>1. CASE i = 1
      <4>1. 1 \in 1 .. k + 1 - 1 /\ k + 1 \in 1 .. Len(td)
        BY <1>1, <1>2
      <4>2. Earlier(y, tl[k])
        BY <1>3, <2>2, <3>1, <4>1 DEF Agenda
      <4>3. y.at \in Seq(Nat) /\ Len(y.at) \in Nat
        BY <1>7, NodeProper DEF Proper
      <4>4. tl[k].at \in Seq(Nat) /\ Len(tl[k].at) \in Nat \ {0}
        BY <1>6, AgendaProper
      <4> QED
        BY <1>7, <4>2, <4>3, <4>4, FurtherEarlier
    <3>2. CASE i # 1
      <4>1. i - 1 \in 1 .. Len(td) - 1 /\ i - 1 + 1 = i
        BY <1>1, <3>2
      <4>2. i - 1 \in 1 .. Len(tl) /\ tl[i - 1] = y
        BY <1>2, <2>2, <4>1
      <4> QED
        BY <4>2
    <3> QED
      BY <3>1, <3>2
  <2> QED
    BY <2>1, <2>2
<1>8. Pending(p, f, tl)
  BY <1>7 DEF Pending
<1> QED
  BY <1>2, <1>6, <1>8

\* An expression, or nothing.
LEMMA BuildRead ==
  ASSUME SyntaxAssumption, NEW p \in Programs, NEW f \in 1 .. Len(p), NEW td, NEW loc,
         Building(p, f, td, loc), Len(td) > 0, td[1].s.kind # "init"
  PROVE  Building(p, f, Tail(td), loc)
<1>1. PICK T : td \in Seq(T)
  BY DEF Building, Agenda
<1>2. PICK tl \in Seq(T) : tl = Tail(td) /\ Len(tl) = Len(td) - 1
                           /\ \A i \in 1 .. Len(td) - 1 : tl[i] = td[i + 1]
  BY <1>1, TailOf
<1>3. \A k \in 1 .. Len(tl) : k + 1 \in 1 .. Len(td) /\ tl[k] = td[k + 1]
  BY <1>1, <1>2
<1>4. Agenda(p, f, tl) /\ Pending(p, f, tl)
  BY <1>2, AgendaTail DEF Building
<1>5. ASSUME NEW k \in 1 .. Len(tl),
             NEW d, IsNode(p, f, d), d.s.kind = "init", Sees(tl[k].at, d.at)
      PROVE  \/ d.s.name \in DOMAIN loc /\ loc[d.s.name] = d.at
             \/ \E i \in 1 .. k - 1 : tl[i] = d
  <2>1. \/ d.s.name \in DOMAIN loc /\ loc[d.s.name] = d.at
        \/ \E i \in 1 .. k + 1 - 1 : td[i] = d
    BY <1>3, <1>5 DEF Building, Tabled
  <2>2. ASSUME NEW i \in 1 .. k + 1 - 1, td[i] = d
        PROVE  \E l \in 1 .. k - 1 : tl[l] = d
    <3>1. i # 1
      BY <1>5, <2>2
    <3>2. i - 1 \in 1 .. k - 1 /\ i - 1 \in 1 .. Len(td) - 1
      BY <1>2, <3>1
    <3>3. tl[i - 1] = td[i - 1 + 1]
      BY <1>2, <3>2
    <3>4. i - 1 + 1 = i
      OBVIOUS
    <3> QED
      BY <2>2, <3>2, <3>3, <3>4
  <2> QED
    BY <2>1, <2>2
<1>6. Tabled(p, f, tl, loc)
  BY <1>5 DEF Tabled
<1> QED
  BY <1>2, <1>4, <1>6 DEF Building

\* A declaration takes the place of another of its name that something left to
\* build sees only where that one is further on.
LEMMA Clash ==
  ASSUME SyntaxAssumption, NEW p \in Programs, NEW f \in 1 .. Len(p),
         NEW h, IsNode(p, f, h), h.s.kind = "init", New(p, f, h),
         NEW y, y.at \in Seq(Nat), Earlier(h, y),
         NEW d, IsNode(p, f, d), Declares(d, h.s.name), Sees(y.at, d.at), d # h
  PROVE  FurtherOn(h, d)
<1>1. Proper(f, h) /\ Proper(f, d)
  BY NodeProper
<1>2. PICK m \in Nat, n \in Nat, e \in Nat : m = Len(h.at) /\ n = Len(y.at) /\ e = Len(d.at)
  BY <1>1 DEF Proper
<1>3. n <= m /\ \A i \in 1 .. n - 1 : y.at[i] = h.at[i]
  BY <1>2 DEF Earlier
<1>4. 2 <= e /\ e <= n /\ d.at[e] < y.at[e] /\ \A i \in 1 .. e - 1 : d.at[i] = y.at[i]
  BY <1>2 DEF Sees
<1>5. \A i \in 1 .. e - 1 : d.at[i] = h.at[i]
  <2>1. \A i \in 1 .. e - 1 : i \in 1 .. n - 1
    BY <1>4
  <2> QED
    BY <1>3, <1>4, <2>1
<1>6. e <= m
  BY <1>3, <1>4
<1>7. ~(d.at[e] < h.at[e])
  <2>1. ~Sees(h.at, d.at)
    BY DEF New
  <2> QED
    BY <1>2, <1>4, <1>5, <1>6, <2>1 DEF Sees
<1>8. d.at[e] # h.at[e]
  <2> SUFFICES ASSUME d.at[e] = h.at[e] PROVE FALSE
    OBVIOUS
  <2>1. \A i \in 1 .. e : i = e \/ i \in 1 .. e - 1
    OBVIOUS
  <2>2. Begins(d.at, h.at)
    BY <1>2, <1>5, <1>6, <2>1 DEF Begins
  <2>3. "parts" \notin DOMAIN d.s
    BY <1>1 DEF Proper, Parsed, Leaf, Declares
  <2> QED
    BY <2>2, <2>3, Below
<1>9. h.at[e] \in Nat /\ d.at[e] \in Nat
  <2>1. e \in 1 .. Len(h.at) /\ e \in 1 .. Len(d.at)
    BY <1>2, <1>4, <1>6
  <2> QED
    BY <1>1, <2>1, Index DEF Proper
<1>10. h.at[e] < d.at[e]
  BY <1>7, <1>8, <1>9
<1> QED
  BY <1>2, <1>5, <1>6, <1>10 DEF FurtherOn

\* build_statement_init.
LEMMA BuildInit ==
  ASSUME SyntaxAssumption, NEW p \in Programs, NEW f \in 1 .. Len(p), NEW td, NEW loc,
         Building(p, f, td, loc), Len(td) > 0, td[1].s.kind = "init",
         NEW res, AllDone(p, f, res),
         NEW loc2, loc2 = Over([n \in {td[1].s.name} |-> td[1].at], loc)
  PROVE  Building(p, f, Tail(td), loc2)
<1>1. PICK T : td \in Seq(T)
  BY DEF Building, Agenda
<1>2. PICK tl \in Seq(T) : tl = Tail(td) /\ Len(tl) = Len(td) - 1
                           /\ \A i \in 1 .. Len(td) - 1 : tl[i] = td[i + 1]
  BY <1>1, TailOf
<1>3. \A k \in 1 .. Len(tl) : k + 1 \in 1 .. Len(td) /\ tl[k] = td[k + 1]
  BY <1>1, <1>2
<1>4. Agenda(p, f, tl) /\ Pending(p, f, tl)
  BY <1>2, AgendaTail DEF Building
<1>5. PICK h : h = td[1]
  OBVIOUS
<1>6. /\ DOMAIN loc2 = {h.s.name} \cup DOMAIN loc /\ loc2[h.s.name] = h.at
      /\ \A n \in DOMAIN loc : n # h.s.name => loc2[n] = loc[n]
  BY <1>5 DEF Over
<1>7. IsNode(p, f, h) /\ 1 \in 1 .. Len(td)
  BY <1>1, <1>5 DEF Building, Agenda
<1>8. New(p, f, h)
  BY <1>7 DEF AllDone, Done
<1>9. Kept(p, f, loc2)
  <2>1. h.s.name \notin p[f].parameters /\ h.s.name \notin Globals
    BY <1>5, <1>8 DEF New
  <2> QED
    BY <1>6, <2>1 DEF Building, Kept
<1>10. ASSUME NEW k \in 1 .. Len(tl),
              NEW d, IsNode(p, f, d), d.s.kind = "init", Sees(tl[k].at, d.at)
       PROVE  \/ d.s.name \in DOMAIN loc2 /\ loc2[d.s.name] = d.at
              \/ \E i \in 1 .. k - 1 : tl[i] = d
  <2>1. \/ d.s.name \in DOMAIN loc /\ loc[d.s.name] = d.at
        \/ \E i \in 1 .. k + 1 - 1 : td[i] = d
    <3>1. k + 1 \in 1 .. Len(td) /\ Sees(td[k + 1].at, d.at)
      BY <1>3, <1>10
    <3> QED
      BY <1>10, <3>1 DEF Building, Tabled
  <2>2. ASSUME NEW i \in 1 .. k, td[i] = d
        PROVE  \/ d.s.name \in DOMAIN loc2 /\ loc2[d.s.name] = d.at
               \/ \E l \in 1 .. k - 1 : tl[l] = d
    <3>1. CASE i = 1
      BY <1>5, <1>6, <2>2, <3>1
    <3>2. CASE i # 1
      <4>1. i - 1 \in 1 .. k - 1 /\ i - 1 \in 1 .. Len(td) - 1 /\ i - 1 + 1 = i
        BY <1>2, <3>2
      <4>2. tl[i - 1] = d
        BY <1>2, <2>2, <4>1
      <4> QED
        BY <4>1, <4>2
    <3> QED
      BY <3>1, <3>2
  <2>3. CASE d.s.name = h.s.name /\ d # h
    <3>1. 1 \in 1 .. k + 1 - 1 /\ k + 1 \in 1 .. Len(td)
      BY <1>3
    <3>2. Earlier(h, tl[k])
      BY <1>3, <1>5, <3>1 DEF Building, Agenda
    <3>3. tl[k].at \in Seq(Nat)
      BY <1>4, AgendaProper
    <3>4. FurtherOn(h, d)
      BY <1>5, <1>7, <1>8, <1>10, <2>3, <3>2, <3>3, Clash DEF Declares
    <3>5. ~Reads(h.s) /\ ~Reads(d.s)
      BY <1>5, <1>10 DEF Reads
    <3>6. PICK i \in 1 .. Len(td) : td[i] = d
      <4>1. \/ \E i \in 1 .. Len(td) : td[i] = d
            \/ Reads(td[1].s) /\ Len(d.at) = Len(td[1].at)
        BY <1>5, <1>7, <1>10, <3>4 DEF Building, Pending
      <4> QED
        BY <1>5, <3>5, <4>1
    <3>7. ASSUME i > k PROVE FALSE
      <4>1. PICK y : y = tl[k] /\ y = td[k + 1]
        BY <1>3
      <4>2. PICK e \in Nat : e = Len(d.at) /\ 1 <= e
        BY <1>10, NodeProper DEF Proper
      <4>3. PICK n \in Nat : n = Len(y.at)
        <5>1. y.at \in Seq(Nat)
          BY <3>3, <4>1
        <5> QED
          BY <5>1
      <4>4. e <= n /\ d.at[e] < y.at[e]
        BY <1>10, <4>1, <4>2, <4>3 DEF Sees
      <4>5. d.at[e] \in Nat /\ y.at[e] \in Nat
        <5>1. e \in 1 .. Len(d.at) /\ e \in 1 .. Len(y.at) /\ d.at \in Seq(Nat)
          BY <1>10, <4>2, <4>3, <4>4, NodeProper DEF Proper
        <5> QED
          BY <3>3, <4>1, <5>1, Index
      <4>6. CASE i = k + 1
        BY <3>6, <4>1, <4>4, <4>5, <4>6
      <4>7. CASE i # k + 1
        <5>1. k + 1 \in 1 .. i - 1
          BY <3>7, <4>7
        <5>2. Earlier(y, d)
          BY <3>6, <4>1, <5>1 DEF Building, Agenda
        <5>3. y.at[e] < d.at[e]
          BY <3>5, <4>2, <5>2 DEF Earlier
        <5> QED
          BY <4>4, <4>5, <5>3
      <4> QED
        BY <4>6, <4>7
    <3>8. i \in 1 .. k
      BY <3>7
    <3> QED
      BY <2>2, <3>6, <3>8
  <2>4. CASE d = h
    BY <1>6, <2>4
  <2>5. CASE d.s.name # h.s.name
    <3>1. k + 1 - 1 = k
      OBVIOUS
    <3> QED
      BY <1>6, <2>1, <2>2, <2>5, <3>1
  <2> QED
    BY <2>3, <2>4, <2>5
<1>11. Tabled(p, f, tl, loc2)
  BY <1>10 DEF Tabled
<1> QED
  BY <1>2, <1>4, <1>9, <1>11 DEF Building

\* The parts are built once each, and only an expression after a later part.
LEMMA OrderOf ==
  ASSUME NEW s, Parsed(s), "parts" \in DOMAIN s,
         NEW n \in Nat, n = Len(s.parts), DOMAIN s.parts = 1 .. n
  PROVE  /\ \A i \in 1 .. n : Order(s)[i] \in 1 .. n
         /\ \A j \in 1 .. n : \E i \in 1 .. n : Order(s)[i] = j
         /\ \A k \in 1 .. n : \A i \in 1 .. k - 1 :
              Order(s)[i] < Order(s)[k] \/ Reads(s.parts[Order(s)[k]])
         /\ DOMAIN Order(s) = 1 .. n
<1>1. CASE s.kind = "do while"
  <2>1. n = 2 /\ Reads(s.parts[1]) /\ Order(s) = <<2, 1>>
    BY <1>1 DEF Parsed, Order
  <2>2. PICK o : o = Order(s) /\ o[1] = 2 /\ o[2] = 1 /\ DOMAIN o = 1 .. 2
    BY <2>1
  <2>3. \A i \in 1 .. 2 : i = 1 \/ i = 2
    OBVIOUS
  <2>4. \A k \in 1 .. 2 : \A i \in 1 .. k - 1 : k = 2
    OBVIOUS
  <2> QED
    BY <2>1, <2>2, <2>3, <2>4
<1>2. CASE s.kind = "for"
  <2>1. n = 4 /\ Reads(s.parts[3]) /\ Order(s) = <<1, 2, 4, 3>>
    BY <1>2 DEF Parsed, Order
  <2>2. PICK o : o = Order(s) /\ o[1] = 1 /\ o[2] = 2 /\ o[3] = 4 /\ o[4] = 3 /\ DOMAIN o = 1 .. 4
    BY <2>1
  <2>3. \A i \in 1 .. 4 : i = 1 \/ i = 2 \/ i = 3 \/ i = 4
    OBVIOUS
  <2>4. \A k \in 1 .. 4 : \A i \in 1 .. k - 1 : k = 4 \/ o[i] < o[k]
    BY <2>2, <2>3
  <2>5. \A i \in 1 .. 4 : o[i] \in 1 .. 4
    BY <2>2, <2>3
  <2>6. \A j \in 1 .. 4 : \E i \in 1 .. 4 : o[i] = j
    BY <2>2, <2>3
  <2>7. \A k \in 1 .. 4 : \A i \in 1 .. k - 1 : o[i] < o[k] \/ Reads(s.parts[o[k]])
    BY <2>1, <2>2, <2>4
  <2> QED
    BY <2>1, <2>2, <2>5, <2>6, <2>7
<1>3. CASE s.kind # "do while" /\ s.kind # "for"
  <2>1. PICK o : o = Order(s)
    OBVIOUS
  <2>2. o = [i \in 1 .. n |-> i]
    BY <1>3, <2>1 DEF Order
  <2>3. \A i \in 1 .. n : o[i] = i
    BY <2>2
  <2>4. \A k \in 1 .. n : \A i \in 1 .. k - 1 : i \in 1 .. n /\ i < k
    OBVIOUS
  <2>5. DOMAIN o = 1 .. n
    BY <2>2
  <2> QED
    BY <2>1, <2>3, <2>4, <2>5
<1> QED
  BY <1>1, <1>2, <1>3

LEMMA EarlierBelow ==
  ASSUME NEW h, NEW a, NEW y, h.at \in Seq(Nat), a.at \in Seq(Nat), y.at \in Seq(Nat),
         Len(y.at) \in Nat \ {0}, Begins(h.at, a.at), Earlier(h, y)
  PROVE  Earlier(a, y)
<1>1. PICK l \in Nat, m \in Nat, n \in Nat : l = Len(h.at) /\ m = Len(a.at) /\ n = Len(y.at) /\ n > 0
  OBVIOUS
<1>2. l <= m /\ \A i \in 1 .. l : h.at[i] = a.at[i]
  BY <1>1 DEF Begins
<1>3. n <= l /\ (\A i \in 1 .. n - 1 : y.at[i] = h.at[i]) /\ (h.at[n] < y.at[n] \/ Reads(y.s))
  BY <1>1 DEF Earlier
<1>6. n \in 1 .. l /\ \A i \in 1 .. n - 1 : i \in 1 .. l
  BY ONLY <1>1, <1>3, n \in Nat, l \in Nat
<1>4. n <= m /\ h.at[n] = a.at[n]
  <2>1. n <= m
    BY ONLY <1>2, <1>3, n \in Nat, m \in Nat, l \in Nat
  <2> QED
    BY ONLY <1>2, <1>6, <2>1
<1>5. \A i \in 1 .. n - 1 : y.at[i] = a.at[i]
  BY ONLY <1>2, <1>3, <1>6
<1> QED
  BY <1>1, <1>3, <1>4, <1>5 DEF Earlier

\* build_statement.
LEMMA BuildParts ==
  ASSUME SyntaxAssumption, NEW p \in Programs, NEW f \in 1 .. Len(p), NEW td, NEW loc,
         Building(p, f, td, loc), Len(td) > 0, "parts" \in DOMAIN td[1].s,
         NEW td2,
         td2 = [i \in DOMAIN td[1].s.parts |-> Part(td[1], Order(td[1].s)[i])] \o Tail(td)
  PROVE  Building(p, f, td2, loc)
<1>1. PICK T : td \in Seq(T)
  BY DEF Building, Agenda
<1>2. PICK h : h = td[1]
  OBVIOUS
<1>3. IsNode(p, f, h) /\ Proper(f, h) /\ 1 \in 1 .. Len(td)
  BY <1>1, <1>2, AgendaProper DEF Building
<1>4. /\ h.s.parts \in Seq(Statements) /\ ~Leaf(h.s)
      /\ \A j \in DOMAIN h.s.parts :
           /\ IsNode(p, f, Part(h, j)) /\ Proper(f, Part(h, j))
           /\ Len(Part(h, j).at) = Len(h.at) + 1 /\ Part(h, j).at[Len(h.at) + 1] = j
           /\ \A i \in 1 .. Len(h.at) : Part(h, j).at[i] = h.at[i]
           /\ Begins(h.at, Part(h, j).at)
  BY <1>2, <1>3, PartsOf
<1>5. PICK n \in Nat, m \in Nat \ {0}, l \in Nat \ {0} :
        /\ n = Len(h.s.parts) /\ DOMAIN h.s.parts = 1 .. n /\ m = Len(td) /\ l = Len(h.at)
  BY <1>1, <1>3, <1>4 DEF Proper
<1>6. PICK o : o = Order(h.s)
  OBVIOUS
<1>7. /\ \A i \in 1 .. n : o[i] \in 1 .. n
      /\ \A j \in 1 .. n : \E i \in 1 .. n : o[i] = j
      /\ \A k \in 1 .. n : \A i \in 1 .. k - 1 : o[i] < o[k] \/ Reads(h.s.parts[o[k]])
  <2>1. PICK s : s = h.s
    OBVIOUS
  <2>2. Parsed(s) /\ "parts" \in DOMAIN s /\ n = Len(s.parts) /\ DOMAIN s.parts = 1 .. n
    BY <1>2, <1>3, <1>5, <2>1 DEF Proper
  <2>3. /\ \A i \in 1 .. n : Order(s)[i] \in 1 .. n
        /\ \A j \in 1 .. n : \E i \in 1 .. n : Order(s)[i] = j
        /\ \A k \in 1 .. n : \A i \in 1 .. k - 1 :
             Order(s)[i] < Order(s)[k] \/ Reads(s.parts[Order(s)[k]])
    BY <2>2, OrderOf
  <2> QED
    BY <1>6, <2>1, <2>3
<1>8. \A j \in 1 .. n : /\ IsNode(p, f, Part(h, j)) /\ Proper(f, Part(h, j))
                        /\ Part(h, j).at \in Seq(Nat)
                        /\ Len(Part(h, j).at) = l + 1 /\ Part(h, j).at[l + 1] = j
                        /\ \A i \in 1 .. l : Part(h, j).at[i] = h.at[i]
                        /\ Begins(h.at, Part(h, j).at)
                        /\ Part(h, j).s = h.s.parts[j]
  <2> TAKE j \in 1 .. n
  <2>1. j \in DOMAIN h.s.parts
    BY <1>5
  <2>2. Part(h, j).s = h.s.parts[j]
    BY DEF Part, Node
  <2> QED
    BY <1>4, <1>5, <2>1, <2>2 DEF Proper
<1>9. /\ \E V : td2 \in Seq(V)
      /\ Len(td2) = n + m - 1
      /\ \A i \in 1 .. n : td2[i] = Part(h, o[i])
      /\ \A i \in 2 .. m : td2[n + i - 1] = td[i]
      /\ \A k \in 1 .. n + m - 1 : k \in 1 .. n \/ \E i \in 2 .. m : k = n + i - 1
  <2>1. PICK U : U = {Part(h, j) : j \in 1 .. n}
    OBVIOUS
  <2>2. PICK g : g = [i \in 1 .. n |-> Part(h, o[i])]
    OBVIOUS
  <2>3. g \in Seq(U) /\ Len(g) = n /\ \A i \in 1 .. n : g[i] = Part(h, o[i])
    <3>1. \A i \in 1 .. n : g[i] = Part(h, o[i]) /\ Part(h, o[i]) \in U
      BY <1>7, <2>1, <2>2
    <3>2. g \in [1 .. n -> U] /\ n \in Nat
      BY <2>2, <3>1
    <3>3. g \in Seq(U) /\ Len(g) = n
      BY ONLY <3>2
    <3> QED
      BY <3>1, <3>3
  <2>4. td2 = g \o Tail(td)
    BY <1>2, <1>5, <1>6, <2>2
  <2>5. /\ \E V : g \o Tail(td) \in Seq(V)
        /\ Len(g \o Tail(td)) = Len(g) + Len(td) - 1
        /\ \A i \in 1 .. Len(g) : (g \o Tail(td))[i] = g[i]
        /\ \A i \in 2 .. Len(td) : (g \o Tail(td))[Len(g) + i - 1] = td[i]
        /\ \A k \in 1 .. Len(g) + Len(td) - 1 :
             k \in 1 .. Len(g) \/ \E i \in 2 .. Len(td) : k = Len(g) + i - 1
    BY <1>1, <2>3, Joined
  <2>6. Len(g) = n /\ Len(td) = m
    BY <1>5, <2>3
  <2>7. \A i \in 1 .. n : g[i] = Part(h, o[i])
    BY <2>3
  <2> QED
    BY ONLY <2>4, <2>5, <2>6, <2>7
<1>10. \A i \in 2 .. m : /\ i \in 1 .. m /\ td2[n + i - 1] = td[i] /\ n + i - 1 \in 1 .. n + m - 1
                         /\ IsNode(p, f, td[i]) /\ td[i].at \in Seq(Nat) /\ Len(td[i].at) \in Nat \ {0}
                         /\ Earlier(h, td[i])
  <2> TAKE i \in 2 .. m
  <2>1. i \in 1 .. m /\ 1 \in 1 .. i - 1 /\ n + i - 1 \in 1 .. n + m - 1
    OBVIOUS
  <2>2. IsNode(p, f, td[i]) /\ td[i].at \in Seq(Nat) /\ Len(td[i].at) \in Nat \ {0}
    BY <1>5, <2>1, AgendaProper DEF Building
  <2>3. Earlier(h, td[i])
    BY <1>2, <1>5, <2>1 DEF Building, Agenda
  <2> QED
    BY <1>9, <2>1, <2>2, <2>3
<1>15. \A k \in 1 .. n : /\ IsNode(p, f, td2[k]) /\ td2[k].at \in Seq(Nat)
                         /\ Len(td2[k].at) = l + 1 /\ td2[k].at[l + 1] = o[k] /\ o[k] \in 1 .. n
                         /\ \A i \in 1 .. l : td2[k].at[i] = h.at[i]
                         /\ Begins(h.at, td2[k].at)
                         /\ td2[k].s = h.s.parts[o[k]] /\ td2[k] = Part(h, o[k])
                         /\ k \in 1 .. n + m - 1
  <2> TAKE k \in 1 .. n
  <2>1. PICK j \in 1 .. n : j = o[k]
    BY <1>7
  <2>2. td2[k] = Part(h, j)
    BY <1>9, <2>1
  <2>3. k \in 1 .. n + m - 1
    OBVIOUS
  <2> QED
    <3>1. PICK a : a = Part(h, j)
      OBVIOUS
    <3>2. /\ IsNode(p, f, a) /\ a.at \in Seq(Nat) /\ Len(a.at) = l + 1 /\ a.at[l + 1] = j
          /\ \A i \in 1 .. l : a.at[i] = h.at[i]
          /\ Begins(h.at, a.at) /\ a.s = h.s.parts[j]
      BY <1>8, <3>1
    <3> QED
      BY <2>1, <2>2, <2>3, <3>1, <3>2
<1>16. /\ \A k \in 1 .. n + m - 1 : k \in 1 .. n \/ \E i \in 2 .. m : k = n + i - 1 /\ td2[k] = td[i]
       /\ Len(td2) = n + m - 1
  BY <1>9
<1>11. Agenda(p, f, td2)
  <2>1. \A k \in 1 .. n + m - 1 : IsNode(p, f, td2[k])
    BY <1>10, <1>15, <1>16
  <2>2. ASSUME NEW k \in 1 .. n + m - 1, NEW i \in 1 .. k - 1 PROVE Earlier(td2[i], td2[k])
    <3>1. CASE k \in 1 .. n
      <4>1. i \in 1 .. n
        BY <3>1
      <4>2. PICK a, b : a = td2[i] /\ b = td2[k]
        OBVIOUS
      <4>3. /\ Len(a.at) = l + 1 /\ a.at[l + 1] = o[i] /\ \A e \in 1 .. l : a.at[e] = h.at[e]
        BY <1>15, <4>1, <4>2
      <4>4. /\ Len(b.at) = l + 1 /\ b.at[l + 1] = o[k] /\ \A e \in 1 .. l : b.at[e] = h.at[e]
            /\ b.s = h.s.parts[o[k]]
        BY <1>15, <3>1, <4>2
      <4>5. o[i] < o[k] \/ Reads(b.s)
        BY <1>7, <3>1, <4>4
      <4>6. l + 1 - 1 = l /\ l + 1 <= l + 1
        OBVIOUS
      <4>7. Earlier(a, b)
        BY <4>3, <4>4, <4>5, <4>6 DEF Earlier
      <4> QED
        BY <4>2, <4>7
    <3>2. ASSUME NEW j \in 2 .. m, k = n + j - 1 PROVE Earlier(td2[i], td2[k])
      <4>1. td2[k] = td[j]
        BY <1>10, <3>2
      <4>2. CASE i \in 1 .. n
        <5>1. PICK a : a = td2[i] /\ a.at \in Seq(Nat) /\ Begins(h.at, a.at)
          BY <1>15, <4>2
        <5>2. PICK y : y = td[j] /\ y.at \in Seq(Nat) /\ Len(y.at) \in Nat \ {0} /\ Earlier(h, y)
          BY <1>10
        <5>3. Earlier(a, y)
          BY <1>3, <5>1, <5>2, EarlierBelow DEF Proper
        <5> QED
          BY <4>1, <5>1, <5>2, <5>3
      <4>3. ASSUME NEW e \in 2 .. m, i = n + e - 1 PROVE Earlier(td2[i], td2[k])
        <5>1. e \in 1 .. j - 1 /\ j \in 1 .. Len(td)
          BY <1>5, <3>2, <4>3
        <5>2. Earlier(td[e], td[j])
          BY <5>1 DEF Building, Agenda
        <5> QED
          BY <1>10, <4>1, <4>3, <5>2
      <4>4. i \in 1 .. n + m - 1
        OBVIOUS
      <4> QED
        BY <1>9, <4>2, <4>3, <4>4
    <3> QED
      BY <1>9, <3>1, <3>2
  <2> QED
    <3>1. \E V : td2 \in Seq(V)
      BY <1>9
    <3> QED
      BY <1>16, <2>1, <2>2, <3>1 DEF Agenda
<1>12. ASSUME NEW y, IsNode(p, f, y), NEW i \in 1 .. m, td[i] = y, y # h
       PROVE  \E j \in 1 .. n + m - 1 : td2[j] = y
  <2>1. i \in 2 .. m
    BY <1>2, <1>12
  <2> QED
    BY <1>10, <1>12, <2>1
<1>13. Pending(p, f, td2)
  <2>1. ASSUME NEW k \in 1 .. n, NEW y, IsNode(p, f, y), FurtherOn(td2[k], y)
        PROVE  \E i \in 1 .. n + m - 1 : td2[i] = y
    <3>1. PICK a : a = td2[k]
      OBVIOUS
    <3>2. Len(a.at) = l + 1 /\ a.at[l + 1] = o[k] /\ \A i \in 1 .. l : a.at[i] = h.at[i]
      BY <1>15, <3>1
    <3>3. PICK e \in Nat \ {0} : e = Len(y.at)
      BY <2>1, NodeProper DEF Proper
    <3>4. e <= l + 1 /\ (\A i \in 1 .. e - 1 : y.at[i] = a.at[i]) /\ a.at[e] < y.at[e]
      BY <2>1, <3>1, <3>2, <3>3 DEF FurtherOn
    <3>5. CASE e <= l
      <4>1. (\A i \in 1 .. e - 1 : i \in 1 .. l) /\ e \in 1 .. l
        BY <3>3, <3>5
      <4>2. (\A i \in 1 .. e - 1 : y.at[i] = h.at[i]) /\ h.at[e] < y.at[e]
        BY <3>2, <3>4, <4>1
      <4>3. FurtherOn(h, y)
        BY <1>5, <3>3, <3>5, <4>2 DEF FurtherOn
      <4>4. ~Reads(h.s)
        BY <1>4 DEF Leaf, Reads
      <4>5. \/ \E i \in 1 .. m : td[i] = y
            \/ Reads(h.s) /\ Len(y.at) = Len(h.at)
        BY <1>2, <1>3, <1>5, <2>1, <4>3 DEF Building, Pending
      <4>6. y # h
        <5> SUFFICES ASSUME y = h PROVE FALSE
          OBVIOUS
        <5>1. h.at[e] \in Nat /\ h.at[e] < h.at[e]
          BY <1>3, <1>5, <4>1, <4>2, Index DEF Proper
        <5> QED
          BY <5>1
      <4> QED
        BY <1>12, <2>1, <4>4, <4>5, <4>6
    <3>6. CASE e = l + 1
      <4>1. \A i \in 1 .. l : i \in 1 .. e - 1
        BY <3>6
      <4>2. \A i \in 1 .. l : h.at[i] = y.at[i]
        BY <3>2, <3>4, <4>1
      <4>3. l <= e /\ l # e
        BY <3>6
      <4>4. Begins(h.at, y.at) /\ y # h
        BY <1>5, <3>3, <4>2, <4>3 DEF Begins
      <4>5. PICK b \in DOMAIN h.s.parts : Begins(Part(h, b).at, y.at)
        BY <1>3, <2>1, <4>4, Below
      <4>6. b \in 1 .. n /\ IsNode(p, f, Part(h, b)) /\ Len(Part(h, b).at) = l + 1
        BY <1>5, <1>8, <4>5
      <4>7. y = Part(h, b)
        BY <2>1, <3>3, <3>6, <4>5, <4>6, SamePath
      <4>8. PICK i \in 1 .. n : o[i] = b
        BY <1>7, <4>6
      <4>9. i \in 1 .. n + m - 1 /\ td2[i] = y
        BY <1>15, <4>7, <4>8
      <4> QED
        BY <4>9
    <3>7. e <= l \/ e = l + 1
      BY <3>4
    <3> QED
      BY <3>5, <3>6, <3>7
  <2>2. ASSUME NEW i \in 2 .. m, NEW y, IsNode(p, f, y), FurtherOn(td[i], y)
        PROVE  \/ \E j \in 1 .. n + m - 1 : td2[j] = y
               \/ Reads(td[i].s) /\ Len(y.at) = Len(td[i].at)
    <3>1. \/ \E j \in 1 .. m : td[j] = y
          \/ Reads(td[i].s) /\ Len(y.at) = Len(td[i].at)
      BY <1>5, <1>10, <2>2 DEF Building, Pending
    <3>2. CASE y = h
      BY <1>3, <1>10, <2>2, <3>2, FurtherEarlier DEF Proper
    <3> QED
      BY <1>12, <2>2, <3>1, <3>2
  <2>3. ASSUME NEW k \in 1 .. n + m - 1, NEW y, IsNode(p, f, y), FurtherOn(td2[k], y)
        PROVE  \/ \E j \in 1 .. n + m - 1 : td2[j] = y
               \/ Reads(td2[k].s) /\ Len(y.at) = Len(td2[k].at)
    <3>1. CASE k \in 1 .. n
      BY <2>1, <2>3, <3>1
    <3>2. ASSUME NEW i \in 2 .. m, td2[k] = td[i]
          PROVE  \/ \E j \in 1 .. n + m - 1 : td2[j] = y
                 \/ Reads(td2[k].s) /\ Len(y.at) = Len(td2[k].at)
      BY <2>2, <2>3, <3>2
    <3> QED
      BY <1>16, <3>1, <3>2
  <2> QED
    BY <1>16, <2>3 DEF Pending
<1>14. Tabled(p, f, td2, loc)
  <2>1. ASSUME NEW k \in 1 .. n,
               NEW d, IsNode(p, f, d), d.s.kind = "init", Sees(td2[k].at, d.at)
        PROVE  \/ d.s.name \in DOMAIN loc /\ loc[d.s.name] = d.at
               \/ \E i \in 1 .. k - 1 : td2[i] = d
    <3>1. PICK a : a = td2[k]
      OBVIOUS
    <3>2. Len(a.at) = l + 1 /\ a.at[l + 1] = o[k] /\ \A i \in 1 .. l : a.at[i] = h.at[i]
      BY <1>15, <3>1
    <3>3. PICK e \in Nat : e = Len(d.at)
      BY <2>1, NodeProper DEF Proper
    <3>4. 2 <= e /\ e <= l + 1 /\ (\A i \in 1 .. e - 1 : d.at[i] = a.at[i]) /\ d.at[e] < a.at[e]
      BY <2>1, <3>1, <3>2, <3>3 DEF Sees
    <3>5. CASE e <= l
      <4>1. (\A i \in 1 .. e - 1 : i \in 1 .. l) /\ e \in 1 .. l
        BY <3>4, <3>5
      <4>2. (\A i \in 1 .. e - 1 : d.at[i] = h.at[i]) /\ d.at[e] < h.at[e]
        BY <3>2, <3>4, <4>1
      <4>3. Sees(h.at, d.at)
        BY <1>5, <3>3, <3>4, <3>5, <4>2 DEF Sees
      <4>4. 1 .. 1 - 1 = {}
        OBVIOUS
      <4> QED
        BY <1>2, <1>3, <2>1, <4>3, <4>4 DEF Building, Tabled
    <3>6. CASE e = l + 1
      <4>1. \A i \in 1 .. l : i \in 1 .. e - 1
        BY <3>6
      <4>2. \A i \in 1 .. l : h.at[i] = d.at[i]
        BY <3>2, <3>4, <4>1
      <4>3. l <= e /\ l # e
        BY <3>6
      <4>4. Begins(h.at, d.at) /\ d # h
        BY <1>5, <3>3, <4>2, <4>3 DEF Begins
      <4>5. PICK b \in DOMAIN h.s.parts : Begins(Part(h, b).at, d.at)
        BY <1>3, <2>1, <4>4, Below
      <4>6. /\ b \in 1 .. n /\ IsNode(p, f, Part(h, b)) /\ Len(Part(h, b).at) = l + 1
            /\ Part(h, b).at[l + 1] = b /\ Part(h, b).s = h.s.parts[b]
        BY <1>5, <1>8, <4>5
      <4>7. d = Part(h, b)
        BY <2>1, <3>3, <3>6, <4>5, <4>6, SamePath
      <4>8. PICK i \in 1 .. n : o[i] = b
        BY <1>7, <4>6
      <4>9. b < o[k] /\ ~Reads(h.s.parts[b])
        BY <2>1, <3>1, <3>2, <3>4, <3>6, <4>6, <4>7 DEF Reads
      <4>10. ~(k \in 1 .. i - 1) /\ i # k
        <5>0. o[k] \in 1 .. n /\ b \in 1 .. n
          BY <1>7, <4>6
        <5>1. o[k] \in Nat /\ b \in Nat
          BY <5>0
        <5>2. ~(o[k] < b) /\ o[k] # o[i]
          BY <4>8, <4>9, <5>1
        <5>3. ASSUME k \in 1 .. i - 1 PROVE FALSE
          BY <1>7, <4>8, <4>9, <5>2, <5>3
        <5> QED
          BY <5>2, <5>3
      <4>11. i \in 1 .. k - 1
        BY <4>10
      <4>12. td2[i] = d
        BY <1>15, <4>7, <4>8
      <4> QED
        BY <4>11, <4>12
    <3>7. e <= l \/ e = l + 1
      BY <3>4
    <3> QED
      BY <3>5, <3>6, <3>7
  <2>2. ASSUME NEW i \in 2 .. m,
               NEW d, IsNode(p, f, d), d.s.kind = "init", Sees(td[i].at, d.at)
        PROVE  \/ d.s.name \in DOMAIN loc /\ loc[d.s.name] = d.at
               \/ \E j \in 1 .. n + i - 1 - 1 : td2[j] = d
    <3>1. \/ d.s.name \in DOMAIN loc /\ loc[d.s.name] = d.at
          \/ \E j \in 1 .. i - 1 : td[j] = d
      BY <1>5, <1>10, <2>2 DEF Building, Tabled
    <3>2. ASSUME NEW j \in 1 .. i - 1, td[j] = d
          PROVE  \E g \in 1 .. n + i - 1 - 1 : td2[g] = d
      <4>1. j # 1
        BY <1>2, <1>4, <2>2, <3>2 DEF Leaf
      <4>2. j \in 2 .. m /\ n + j - 1 \in 1 .. n + i - 1 - 1
        BY <4>1
      <4>3. td2[n + j - 1] = d
        BY <1>10, <3>2, <4>2
      <4> QED
        BY <4>2, <4>3
    <3> QED
      BY <3>1, <3>2
  <2>3. ASSUME NEW k \in 1 .. n + m - 1,
               NEW d, IsNode(p, f, d), d.s.kind = "init", Sees(td2[k].at, d.at)
        PROVE  \/ d.s.name \in DOMAIN loc /\ loc[d.s.name] = d.at
               \/ \E j \in 1 .. k - 1 : td2[j] = d
    <3>1. CASE k \in 1 .. n
      BY <2>1, <2>3, <3>1
    <3>2. ASSUME NEW i \in 2 .. m, k = n + i - 1, td2[k] = td[i]
          PROVE  \/ d.s.name \in DOMAIN loc /\ loc[d.s.name] = d.at
                 \/ \E j \in 1 .. k - 1 : td2[j] = d
      <4>1. k - 1 = n + i - 1 - 1
        BY <3>2
      <4> QED
        <5>1. Sees(td[i].at, d.at)
          BY <2>3, <3>2
        <5>2. \/ d.s.name \in DOMAIN loc /\ loc[d.s.name] = d.at
              \/ \E j \in 1 .. n + i - 1 - 1 : td2[j] = d
          BY <2>2, <2>3, <5>1
        <5> QED
          BY ONLY <4>1, <5>2
    <3> QED
      BY <1>16, <3>1, <3>2
  <2>4. Len(td2) = n + m - 1
    BY <1>16
  <2>5. 1 .. Len(td2) = 1 .. n + m - 1
    BY <2>4
  <2> QED
    BY <2>3, <2>5 DEF Tabled
<1> QED
  BY <1>11, <1>13, <1>14 DEF Building

\* The beginning of a function.
LEMMA BuildFirst ==
  ASSUME SyntaxAssumption, NEW p \in Programs, NEW f \in 1 .. Len(p), NEW td, NEW loc,
         td = <<Node(<<f>>, p[f].body)>>, loc = [name \in p[f].parameters |-> <<f>>]
  PROVE  Building(p, f, td, loc)
<1>1. PICK r : r = Node(<<f>>, p[f].body)
  OBVIOUS
<1>2. IsNode(p, f, r) /\ r.at = <<f>> /\ Len(r.at) = 1 /\ r.at[1] = f
  BY <1>1, RootNode DEF Node
<1>3. td \in Seq({r}) /\ Len(td) = 1 /\ td[1] = r
  BY <1>1
<1>4. \A k \in 1 .. Len(td) : td[k] = r /\ 1 .. k - 1 = {}
  <2>1. \A k \in 1 .. Len(td) : k = 1
    BY <1>3
  <2>2. 1 .. 1 - 1 = {}
    OBVIOUS
  <2> QED
    BY <1>3, <2>1, <2>2
<1>5. Agenda(p, f, td)
  BY <1>2, <1>3, <1>4 DEF Agenda
<1>6. ASSUME NEW y, IsNode(p, f, y) PROVE ~FurtherOn(r, y)
  <2>1. Proper(f, y)
    BY <1>6, NodeProper
  <2>2. PICK n \in Nat \ {0} : n = Len(y.at)
    BY <2>1 DEF Proper
  <2>3. y.at[1] = f /\ f \in Nat
    BY <2>1 DEF Proper, SyntaxAssumption
  <2>4. ASSUME n <= 1, f < y.at[n] PROVE FALSE
    <3>1. n = 1
      BY <2>4
    <3> QED
      BY <2>3, <2>4, <3>1
  <2>5. ASSUME FurtherOn(r, y) PROVE FALSE
    <3>1. n <= 1 /\ r.at[n] < y.at[n]
      BY <1>2, <2>2, <2>5 DEF FurtherOn
    <3>2. n = 1
      BY <3>1
    <3> QED
      BY <1>2, <2>4, <3>1, <3>2
  <2> QED
    BY <2>5
<1>7. Pending(p, f, td)
  BY <1>4, <1>6 DEF Pending
<1>8. ASSUME NEW d, IsNode(p, f, d), Sees(r.at, d.at) PROVE FALSE
  <2>1. Len(d.at) \in Nat
    BY <1>8, NodeProper DEF Proper
  <2> QED
    BY <1>2, <1>8, <2>1 DEF Sees
<1>9. Tabled(p, f, td, loc)
  BY <1>4, <1>8 DEF Tabled
<1>10. Kept(p, f, loc)
  BY DEF Kept
<1> QED
  BY <1>5, <1>7, <1>9, <1>10 DEF Building

\* build_resolve_name.
LEMMA BindName ==
  ASSUME SyntaxAssumption, NEW p \in Programs, NEW f \in 1 .. Len(p), NEW td, NEW loc, NEW res,
         Building(p, f, td, loc), AllDone(p, f, res), Len(td) > 0,
         td[1].s.kind \in {"expression", "init"}, NEW name \in td[1].s.uses
  PROVE  (IF name \in DOMAIN loc THEN loc[name] ELSE Global) = res[<<td[1].at, name>>]
<1>1. PICK h : h = td[1]
  OBVIOUS
<1>2. IsNode(p, f, h) /\ 1 \in 1 .. Len(td) /\ 1 .. 1 - 1 = {}
  BY <1>1 DEF Building, Agenda
<1>3. Done(p, f, h, res)
  BY <1>2 DEF AllDone
<1>4. PICK v : v = res[<<h.at, name>>]
  OBVIOUS
<1>5. Means(p, f, h, name, v)
  BY <1>1, <1>3, <1>4 DEF Done, Found
<1>6. ASSUME NEW d, IsNode(p, f, d), Declares(d, name), Sees(h.at, d.at), v = d.at
      PROVE  name \in DOMAIN loc /\ loc[name] = v
  <2>1. d.s.kind = "init" /\ d.s.name = name
    BY <1>6 DEF Declares
  <2> QED
    BY <1>1, <1>2, <1>6, <2>1 DEF Building, Tabled
<1>7. ASSUME name \in p[f].parameters, v = <<f>>
      PROVE  name \in DOMAIN loc /\ loc[name] = v
  BY <1>7 DEF Building, Kept
<1>8. ASSUME name \in Globals, name \notin p[f].parameters, v = Global
      PROVE  name \notin DOMAIN loc /\ v = Global
  BY <1>8 DEF Building, Kept
<1>9. \/ name \in DOMAIN loc /\ loc[name] = v
      \/ name \notin DOMAIN loc /\ v = Global
  <2>1. \/ \E d : IsNode(p, f, d) /\ Declares(d, name) /\ Sees(h.at, d.at) /\ v = d.at
        \/ name \in p[f].parameters /\ v = <<f>>
        \/ name \in Globals /\ name \notin p[f].parameters /\ v = Global
    BY <1>5 DEF Means
  <2> QED
    BY ONLY <1>6, <1>7, <1>8, <2>1
<1> QED
  BY <1>1, <1>4, <1>9

LEMMA BindStep ==
  ASSUME SyntaxAssumption, program \in Programs, function \in 1 .. Len(program),
         Building(program, function, todo, locals), AllDone(program, function, resolved),
         Len(todo) > 0, todo[1].s.kind \in {"expression", "init"},
         Bind(todo[1]), UNCHANGED resolved, SameBinding
  PROVE  SameBinding'
<1>1. PICK h : h = todo[1]
  OBVIOUS
<1>2. PICK K : K = {<<h.at, name>> : name \in h.s.uses}
  OBVIOUS
<1>3. PICK g : g = [u \in K |-> IF u[2] \in DOMAIN locals THEN locals[u[2]] ELSE Global]
  OBVIOUS
<1>4. bound' = Over(g, bound)
  BY <1>1, <1>2, <1>3 DEF Bind
<1>5. DOMAIN g = K
  BY <1>3
<1>6. PICK p, f, td, loc, res :
        p = program /\ f = function /\ td = todo /\ loc = locals /\ res = resolved
  OBVIOUS
<1>7. \A name \in h.s.uses : (IF name \in DOMAIN loc THEN loc[name] ELSE Global) = res[<<h.at, name>>]
  BY <1>1, <1>6, BindName
<1>8. ASSUME NEW u \in K PROVE g[u] = resolved[u]
  <2>1. PICK name \in h.s.uses : u = <<h.at, name>>
    BY <1>2
  <2>2. g[u] = IF name \in DOMAIN locals THEN locals[name] ELSE Global
    BY <1>3, <2>1
  <2> QED
    BY <1>6, <1>7, <2>1, <2>2
<1>9. /\ DOMAIN bound' = K \cup DOMAIN bound
      /\ \A u \in DOMAIN bound' : bound'[u] = IF u \in K THEN g[u] ELSE bound[u]
  BY <1>4, <1>5 DEF Over
<1>10. \A u \in DOMAIN bound' : bound'[u] = resolved[u]
  BY <1>8, <1>9 DEF SameBinding
<1> QED
  BY <1>10 DEF SameBinding

-----------------------------------------------------------------------------
(* The whole *)

Inv ==
  /\ program \in Programs /\ function \in 1 .. Len(program)
  /\ phase = "analyze" => Analysis(program, function, todo, chain, resolved) /\ bound = <<>>
  /\ phase = "build" => /\ Building(program, function, todo, locals)
                        /\ \A f \in 1 .. Len(program) : AllDone(program, f, resolved)
  /\ SameBinding

LEMMA NothingBound ==
  ASSUME bound' = <<>>
  PROVE  SameBinding'
BY DEF SameBinding

LEMMA NextStatement ==
  ASSUME \E T : todo \in Seq(T), todo # <<>>
  PROVE  Len(todo) > 0 /\ Next1 = todo[1]
<1>1. PICK T : todo \in Seq(T)
  OBVIOUS
<1>2. Len(todo) > 0
  BY <1>1
<1> QED
  BY <1>1, <1>2, TailOf DEF Next1

LEMMA InvInit == SyntaxAssumption /\ Init => Inv
<1> SUFFICES ASSUME SyntaxAssumption, Init PROVE Inv
  OBVIOUS
<1>1. program \in Programs /\ 1 \in 1 .. Len(program)
  BY DEF Init, SyntaxAssumption
<1>2. PICK p, td, ch, res : p = program /\ td = todo /\ ch = chain /\ res = resolved
  OBVIOUS
<1>3. td = <<Node(<<1>>, p[1].body)>>
  BY <1>2 DEF Init, Body
<1>4. ch = <<[name \in Globals |-> Global], [name \in p[1].parameters |-> <<1>>]>>
  BY <1>2 DEF Init, Parameters
<1>5. \A g \in 1 .. 1 - 1 : AllDone(p, g, res)
  OBVIOUS
<1>6. Analysis(p, 1, td, ch, res)
  BY <1>1, <1>2, <1>3, <1>4, <1>5, FirstStep
<1> QED
  BY <1>1, <1>2, <1>6 DEF Init, Inv, SameBinding

LEMMA InvStopped ==
  ASSUME Inv, UNCHANGED <<program, function, resolved, bound>>,
         phase' \notin {"analyze", "build"}
  PROVE  Inv'
BY DEF Inv, SameBinding

LEMMA InvInitStatement ==
  ASSUME SyntaxAssumption, Inv, sema_analyze_statement_init
  PROVE  Inv'
<1>1. CASE Fail
  BY <1>1, InvStopped DEF Fail
<1>2. CASE ~Fail
  <2>1. Analysis(program, function, todo, chain, resolved) /\ bound = <<>>
    BY DEF Inv, sema_analyze_statement_init
  <2>2. Len(todo) > 0 /\ Next1 = todo[1]
    BY <2>1, NextStatement DEF Analysis, Steps, sema_analyze_statement_init
  <2>3. PICK p, f, td, ch, res :
          p = program /\ f = function /\ td = todo /\ ch = chain /\ res = resolved
    OBVIOUS
  <2>4. /\ Known(todo[1].s.uses) /\ ~Visible(todo[1].s.name, chain) /\ Resolve(todo[1])
        /\ todo[1].s.kind = "init" /\ todo' = Tail(todo)
        /\ UNCHANGED <<program, phase, function, locals, bound>>
    BY <1>2, <2>2 DEF sema_analyze_statement_init, Is
  <2>5. p \in Programs /\ f \in 1 .. Len(p)
    BY <2>3 DEF Inv
  <2>6. New(p, f, td[1])
    BY <2>1, <2>2, <2>3, <2>4, <2>5, NewName
  <2>7. PICK res2, ch2 : res2 = resolved' /\ ch2 = chain'
    OBVIOUS
  <2>8. /\ Done(p, f, td[1], res2)
        /\ \A g, x : Done(p, g, x, res) /\ x.at # td[1].at => Done(p, g, x, res2)
    BY <2>1, <2>2, <2>3, <2>4, <2>5, <2>6, <2>7, ResolveStep
  <2>9. ch2 = [ch EXCEPT ![Len(ch)] = Over([n \in {td[1].s.name} |-> td[1].at], @)]
    BY <1>2, <2>2, <2>3, <2>7 DEF sema_analyze_statement_init
  <2>10. Analysis(p, f, Tail(td), ch2, res2)
    BY <2>1, <2>2, <2>3, <2>4, <2>5, <2>8, <2>9, InitStep
  <2>11. Analysis(program, function, todo, chain, resolved)'
    BY <2>3, <2>4, <2>7, <2>10
  <2> QED
    BY <2>1, <2>4, <2>5, <2>3, <2>11, NothingBound DEF Inv, sema_analyze_statement_init
<1> QED
  BY <1>1, <1>2

LEMMA InvExpression ==
  ASSUME SyntaxAssumption, Inv, sema_analyze_expression
  PROVE  Inv'
<1>1. CASE Fail
  BY <1>1, InvStopped DEF Fail
<1>2. CASE ~Fail
  <2>1. Analysis(program, function, todo, chain, resolved) /\ bound = <<>>
    BY DEF Inv, sema_analyze_expression
  <2>2. Len(todo) > 0 /\ Next1 = todo[1]
    BY <2>1, NextStatement DEF Analysis, Steps, sema_analyze_expression
  <2>3. PICK p, f, td, ch, res :
          p = program /\ f = function /\ td = todo /\ ch = chain /\ res = resolved
    OBVIOUS
  <2>4. /\ Known(todo[1].s.uses) /\ Resolve(todo[1])
        /\ todo[1].s.kind = "expression" /\ todo' = Tail(todo)
        /\ UNCHANGED <<program, phase, function, chain, locals, bound>>
    BY <1>2, <2>2 DEF sema_analyze_expression, Is
  <2>5. p \in Programs /\ f \in 1 .. Len(p) /\ 1 \in 1 .. Len(td)
    BY <2>1, <2>2, <2>3 DEF Inv, Analysis, Steps
  <2>6. New(p, f, td[1])
    BY <2>3, <2>4 DEF New
  <2>7. PICK res2 : res2 = resolved'
    OBVIOUS
  <2>8. /\ Done(p, f, td[1], res2)
        /\ \A g, x : Done(p, g, x, res) /\ x.at # td[1].at => Done(p, g, x, res2)
    BY <2>1, <2>2, <2>3, <2>4, <2>5, <2>6, <2>7, ResolveStep
  <2>9. ~IsLeave(td[1]) /\ td[1].s.kind # "init"
    BY <2>3, <2>4 DEF IsLeave
  <2>10. "parts" \notin DOMAIN td[1].s
    <3>1. Item(p, f, td[1])
      BY <2>1, <2>3, <2>5 DEF Analysis, Steps
    <3>2. Proper(f, td[1])
      BY <2>5, <2>9, <3>1, ItemProper
    <3> QED
      BY <2>3, <2>4, <3>2 DEF Proper, Parsed, Leaf
  <2>11. Analysis(p, f, Tail(td), ch, res2)
    BY <2>1, <2>2, <2>3, <2>5, <2>8, <2>9, <2>10, ReadStep
  <2>12. Analysis(program, function, todo, chain, resolved)'
    BY <2>3, <2>4, <2>7, <2>11
  <2> QED
    BY <2>1, <2>4, <2>5, <2>3, <2>12, NothingBound DEF Inv, sema_analyze_expression
<1> QED
  BY <1>1, <1>2

LEMMA InvStatement ==
  ASSUME SyntaxAssumption, Inv, sema_analyze_statement
  PROVE  Inv'
<1>1. Analysis(program, function, todo, chain, resolved) /\ bound = <<>>
  BY DEF Inv, sema_analyze_statement
<1>2. Len(todo) > 0 /\ Next1 = todo[1]
  BY <1>1, NextStatement DEF Analysis, Steps, sema_analyze_statement
<1>3. PICK p, f, td, ch, res, td2 :
        p = program /\ f = function /\ td = todo /\ ch = chain /\ res = resolved /\ td2 = todo'
  OBVIOUS
<1>4. /\ "parts" \in DOMAIN td[1].s
      /\ td2 = [i \in DOMAIN td[1].s.parts |-> Part(td[1], i)] \o <<Leave(td[1])>> \o Tail(td)
  BY <1>2, <1>3 DEF sema_analyze_statement
<1>5. chain' = Append(ch, <<>>) /\ UNCHANGED <<program, phase, function, locals, resolved, bound>>
  BY <1>3 DEF sema_analyze_statement
<1>6. p \in Programs /\ f \in 1 .. Len(p)
  BY <1>3 DEF Inv
<1>7. Analysis(p, f, td2, Append(ch, <<>>), res)
  BY <1>1, <1>2, <1>3, <1>4, <1>6, PushStep
<1>8. Analysis(program, function, todo, chain, resolved)'
  BY <1>3, <1>5, <1>7
<1> QED
  BY <1>1, <1>3, <1>5, <1>6, <1>8, NothingBound DEF Inv, sema_analyze_statement

LEMMA InvLeave ==
  ASSUME SyntaxAssumption, Inv, RestoreScope
  PROVE  Inv'
<1>1. Analysis(program, function, todo, chain, resolved) /\ bound = <<>>
  BY DEF Inv, RestoreScope
<1>2. Len(todo) > 0 /\ Next1 = todo[1]
  BY <1>1, NextStatement DEF Analysis, Steps, RestoreScope
<1>3. PICK p, f, td, ch, res : p = program /\ f = function /\ td = todo /\ ch = chain /\ res = resolved
  OBVIOUS
<1>4. IsLeave(td[1])
  BY <1>2, <1>3 DEF RestoreScope, Is, IsLeave
<1>5. /\ todo' = Tail(td) /\ chain' = SubSeq(ch, 1, Len(ch) - 1)
      /\ UNCHANGED <<program, phase, function, locals, resolved, bound>>
  BY <1>3 DEF RestoreScope
<1>6. p \in Programs /\ f \in 1 .. Len(p)
  BY <1>3 DEF Inv
<1>7. Analysis(p, f, Tail(td), SubSeq(ch, 1, Len(ch) - 1), res)
  BY <1>1, <1>2, <1>3, <1>4, <1>6, LeaveStep
<1>8. Analysis(program, function, todo, chain, resolved)'
  BY <1>3, <1>5, <1>7
<1> QED
  BY <1>1, <1>3, <1>5, <1>6, <1>8, NothingBound DEF Inv, RestoreScope

LEMMA InvSkip ==
  ASSUME SyntaxAssumption, Inv, Skip
  PROVE  Inv'
<1>1. PICK p, f, td, ch, loc, res :
        p = program /\ f = function /\ td = todo /\ ch = chain /\ loc = locals /\ res = resolved
  OBVIOUS
<1>2. p \in Programs /\ f \in 1 .. Len(p)
  BY <1>1 DEF Inv
<1>3. /\ todo' = Tail(td) /\ phase \in {"analyze", "build"} /\ todo # <<>> /\ Next1.s.kind = "nothing"
      /\ UNCHANGED <<program, phase, function, chain, locals, resolved, bound>>
  BY <1>1 DEF Skip, Is
<1>4. CASE phase = "analyze"
  <2>1. Analysis(program, function, todo, chain, resolved)
    BY <1>4 DEF Inv
  <2>2. Len(todo) > 0 /\ Next1 = todo[1]
    BY <1>3, <2>1, NextStatement DEF Analysis, Steps
  <2>3. td[1].s.kind = "nothing" /\ 1 \in 1 .. Len(td)
    BY <1>1, <1>3, <2>1, <2>2 DEF Analysis, Steps
  <2>4. ~IsLeave(td[1]) /\ td[1].s.kind # "init"
    BY <2>3 DEF IsLeave
  <2>5. Proper(f, td[1])
    <3>1. Item(p, f, td[1])
      BY <1>1, <2>1, <2>3 DEF Analysis, Steps
    <3> QED
      BY <1>2, <2>4, <3>1, ItemProper
  <2>6. "parts" \notin DOMAIN td[1].s
    BY <2>3, <2>5 DEF Proper, Parsed, Leaf
  <2>7. Done(p, f, td[1], res)
    BY <2>3 DEF Done, New, Found
  <2>8. Analysis(p, f, Tail(td), ch, res)
    BY <1>1, <1>2, <2>1, <2>2, <2>4, <2>6, <2>7, ReadStep
  <2>9. Analysis(program, function, todo, chain, resolved)'
    BY <1>1, <1>3, <2>8
  <2> QED
    BY <1>1, <1>2, <1>3, <1>4, <2>9 DEF Inv, SameBinding
<1>5. CASE phase = "build"
  <2>1. Building(program, function, todo, locals)
    BY <1>5 DEF Inv
  <2>2. Len(todo) > 0 /\ Next1 = todo[1]
    BY <1>3, <2>1, NextStatement DEF Building, Agenda
  <2>3. td[1].s.kind # "init"
    BY <1>1, <1>3, <2>2
  <2>4. Building(p, f, Tail(td), loc)
    BY <1>1, <1>2, <2>1, <2>2, <2>3, BuildRead
  <2>5. Building(program, function, todo, locals)'
    BY <1>1, <1>3, <2>4
  <2> QED
    BY <1>1, <1>2, <1>3, <1>5, <2>5 DEF Inv, SameBinding
<1> QED
  BY <1>3, <1>4, <1>5

LEMMA InvFunction ==
  ASSUME SyntaxAssumption, Inv, sema_analyze_function
  PROVE  Inv'
<1>1. PICK p, f, td, ch, res : p = program /\ f = function /\ td = todo /\ ch = chain /\ res = resolved
  OBVIOUS
<1>2. p \in Programs /\ f \in 1 .. Len(p) /\ Len(p) \in Nat \ {0}
  BY <1>1 DEF Inv, SyntaxAssumption
<1>3. Analysis(p, f, td, ch, res) /\ bound = <<>> /\ td = <<>>
  BY <1>1 DEF Inv, sema_analyze_function
<1>4. \A g \in 1 .. f : AllDone(p, g, res)
  BY <1>2, <1>3, LastStep
<1>5. UNCHANGED <<program, resolved, bound>>
  BY DEF sema_analyze_function
<1>6. CASE f = Len(p)
  <2>1. /\ phase' = "build" /\ function' = 1 /\ todo' = Body(1) /\ locals' = Parameters(1)
    BY <1>1, <1>6 DEF sema_analyze_function
  <2>2. 1 \in 1 .. Len(p)
    BY <1>2
  <2>3. PICK td2, loc2 : td2 = Body(1) /\ loc2 = Parameters(1)
    OBVIOUS
  <2>4. td2 = <<Node(<<1>>, p[1].body)>> /\ loc2 = [name \in p[1].parameters |-> <<1>>]
    BY <1>1, <2>3 DEF Body, Parameters
  <2>5. Building(p, 1, td2, loc2)
    BY <1>2, <2>2, <2>4, BuildFirst
  <2>6. Building(program, function, todo, locals)'
    BY <1>1, <1>5, <2>1, <2>3, <2>5
  <2> QED
    BY <1>1, <1>2, <1>3, <1>4, <1>5, <1>6, <2>1, <2>2, <2>6, NothingBound DEF Inv
<1>7. CASE f # Len(p)
  <2>1. PICK n \in Nat : n = f + 1 /\ n \in 1 .. Len(p) /\ n - 1 = f
    BY <1>2, <1>7
  <2>2. PICK td2, ch2 : td2 = Body(n) /\ ch2 = <<chain[1], Parameters(n)>>
    OBVIOUS
  <2>3. /\ phase' = "analyze" /\ function' = n /\ todo' = td2 /\ chain' = ch2
    BY <1>1, <1>7, <2>1, <2>2 DEF sema_analyze_function
  <2>4. td2 = <<Node(<<n>>, p[n].body)>>
    BY <1>1, <2>2 DEF Body
  <2>5. ch2 = <<[name \in Globals |-> Global], [name \in p[n].parameters |-> <<n>>]>>
    BY <1>1, <1>3, <2>2 DEF Parameters, Analysis, Scopes
  <2>6. \A g \in 1 .. n - 1 : AllDone(p, g, res)
    BY <1>4, <2>1
  <2>7. Analysis(p, n, td2, ch2, res)
    BY <1>2, <2>1, <2>4, <2>5, <2>6, FirstStep
  <2>8. Analysis(program, function, todo, chain, resolved)'
    BY <1>1, <1>5, <2>3, <2>7
  <2> QED
    BY <1>1, <1>2, <1>3, <1>5, <2>1, <2>3, <2>8, NothingBound DEF Inv
<1> QED
  BY <1>6, <1>7

LEMMA InvBuildExpression ==
  ASSUME SyntaxAssumption, Inv, build_expression
  PROVE  Inv'
<1>1. PICK p, f, td, loc : p = program /\ f = function /\ td = todo /\ loc = locals
  OBVIOUS
<1>2. p \in Programs /\ f \in 1 .. Len(p)
  BY <1>1 DEF Inv
<1>3. /\ Building(program, function, todo, locals) /\ todo # <<>> /\ Next1.s.kind = "expression"
      /\ \A g \in 1 .. Len(program) : AllDone(program, g, resolved)
  BY DEF Inv, build_expression, Is
<1>4. Len(todo) > 0 /\ Next1 = todo[1]
  BY <1>3, NextStatement DEF Building, Agenda
<1>5. /\ Bind(todo[1]) /\ todo' = Tail(td)
      /\ UNCHANGED <<program, phase, function, chain, locals, resolved>>
  BY <1>1, <1>4 DEF build_expression
<1>6. SameBinding'
  BY <1>1, <1>2, <1>3, <1>4, <1>5, BindStep DEF Inv
<1>7. Building(p, f, Tail(td), loc)
  BY <1>1, <1>2, <1>3, <1>4, BuildRead
<1>8. Building(program, function, todo, locals)'
  BY <1>1, <1>5, <1>7
<1> QED
  BY <1>1, <1>2, <1>3, <1>5, <1>6, <1>8 DEF Inv, build_expression

LEMMA InvBuildInit ==
  ASSUME SyntaxAssumption, Inv, build_statement_init
  PROVE  Inv'
<1>1. PICK p, f, td, loc, loc2, res :
        p = program /\ f = function /\ td = todo /\ loc = locals /\ loc2 = locals' /\ res = resolved
  OBVIOUS
<1>2. p \in Programs /\ f \in 1 .. Len(p)
  BY <1>1 DEF Inv
<1>3. /\ Building(program, function, todo, locals) /\ todo # <<>> /\ Next1.s.kind = "init"
      /\ \A g \in 1 .. Len(program) : AllDone(program, g, resolved)
  BY DEF Inv, build_statement_init, Is
<1>4. Len(todo) > 0 /\ Next1 = todo[1]
  BY <1>3, NextStatement DEF Building, Agenda
<1>5. /\ Bind(todo[1]) /\ todo' = Tail(td)
      /\ UNCHANGED <<program, phase, function, chain, resolved>>
  BY <1>1, <1>4 DEF build_statement_init
<1>6. SameBinding'
  BY <1>1, <1>2, <1>3, <1>4, <1>5, BindStep DEF Inv
<1>7. loc2 = Over([n \in {td[1].s.name} |-> td[1].at], loc)
  BY <1>1, <1>4 DEF build_statement_init
<1>8. Building(p, f, Tail(td), loc2)
  BY <1>1, <1>2, <1>3, <1>4, <1>7, BuildInit
<1>9. Building(program, function, todo, locals)'
  BY <1>1, <1>5, <1>8
<1> QED
  BY <1>1, <1>2, <1>3, <1>5, <1>6, <1>9 DEF Inv, build_statement_init

LEMMA InvBuildStatement ==
  ASSUME SyntaxAssumption, Inv, build_statement
  PROVE  Inv'
<1>1. PICK p, f, td, td2, loc :
        p = program /\ f = function /\ td = todo /\ td2 = todo' /\ loc = locals
  OBVIOUS
<1>2. p \in Programs /\ f \in 1 .. Len(p)
  BY <1>1 DEF Inv
<1>3. /\ Building(program, function, todo, locals) /\ todo # <<>> /\ "parts" \in DOMAIN Next1.s
      /\ \A g \in 1 .. Len(program) : AllDone(program, g, resolved)
      /\ UNCHANGED <<program, function, chain, locals, resolved, bound>>
  BY DEF Inv, build_statement
<1>4. Len(todo) > 0 /\ Next1 = todo[1]
  BY <1>3, NextStatement DEF Building, Agenda
<1>5. CASE MisreadIf(Next1.s)
  BY <1>3, <1>5, InvStopped DEF build_statement
<1>6. CASE ~MisreadIf(Next1.s)
  <2>1. td2 = [i \in DOMAIN td[1].s.parts |-> Part(td[1], Order(td[1].s)[i])] \o Tail(td)
    BY <1>1, <1>4, <1>6 DEF build_statement
  <2>2. Building(p, f, td2, loc)
    BY <1>1, <1>2, <1>3, <1>4, <2>1, BuildParts
  <2>3. Building(program, function, todo, locals)'
    BY <1>1, <1>3, <2>2
  <2>4. phase' = phase
    BY <1>6 DEF build_statement
  <2> QED
    BY <1>1, <1>2, <1>3, <2>3, <2>4 DEF Inv, build_statement, SameBinding
<1> QED
  BY <1>5, <1>6

LEMMA InvBuildFunction ==
  ASSUME SyntaxAssumption, Inv, build_function
  PROVE  Inv'
<1>1. PICK p, f : p = program /\ f = function
  OBVIOUS
<1>2. p \in Programs /\ f \in 1 .. Len(p) /\ Len(p) \in Nat \ {0}
  BY <1>1 DEF Inv, SyntaxAssumption
<1>3. UNCHANGED <<program, chain, resolved, bound>>
  BY DEF build_function
<1>4. CASE f = Len(p)
  BY <1>1, <1>3, <1>4, InvStopped DEF build_function
<1>5. CASE f # Len(p)
  <2>1. PICK n \in Nat : n = f + 1 /\ n \in 1 .. Len(p)
    BY <1>2, <1>5
  <2>2. PICK td2, loc2 : td2 = Body(n) /\ loc2 = Parameters(n)
    OBVIOUS
  <2>3. function' = n /\ todo' = td2 /\ locals' = loc2 /\ phase' = phase
    BY <1>1, <1>5, <2>1, <2>2 DEF build_function
  <2>4. td2 = <<Node(<<n>>, p[n].body)>> /\ loc2 = [name \in p[n].parameters |-> <<n>>]
    BY <1>1, <2>2 DEF Body, Parameters
  <2>5. Building(p, n, td2, loc2)
    BY <1>2, <2>1, <2>4, BuildFirst
  <2>6. Building(program, function, todo, locals)'
    BY <1>1, <1>3, <2>3, <2>5
  <2> QED
    BY <1>1, <1>2, <1>3, <2>1, <2>3, <2>6 DEF Inv, build_function, SameBinding
<1> QED
  BY <1>4, <1>5

LEMMA InvNext == SyntaxAssumption /\ Inv /\ [Next]_vars => Inv'
<1> SUFFICES ASSUME SyntaxAssumption, Inv, [Next]_vars PROVE Inv'
  OBVIOUS
<1>1. CASE sema_analyze_statement_init
  BY <1>1, InvInitStatement
<1>2. CASE sema_analyze_expression
  BY <1>2, InvExpression
<1>3. CASE sema_analyze_statement
  BY <1>3, InvStatement
<1>4. CASE RestoreScope
  BY <1>4, InvLeave
<1>5. CASE Skip
  BY <1>5, InvSkip
<1>6. CASE sema_analyze_function
  BY <1>6, InvFunction
<1>7. CASE build_expression
  BY <1>7, InvBuildExpression
<1>8. CASE build_statement_init
  BY <1>8, InvBuildInit
<1>9. CASE build_statement
  BY <1>9, InvBuildStatement
<1>10. CASE build_function
  BY <1>10, InvBuildFunction
<1>11. CASE UNCHANGED vars
  BY <1>11 DEF vars, Inv, SameBinding
<1> QED
  BY <1>1, <1>2, <1>3, <1>4, <1>5, <1>6, <1>7, <1>8, <1>9, <1>10, <1>11 DEF Next

\* For every program the parser builds: wherever lower.c reads a variable for a name,
\* it is the one of the declaration that sema.c resolved the name to.
THEOREM NamesMeanTheSame == Spec => []SameBinding
<1>1. Init => Inv
  BY SyntaxAssumption, InvInit
<1>2. Inv /\ [Next]_vars => Inv'
  BY SyntaxAssumption, InvNext
<1>3. Inv => SameBinding
  BY DEF Inv
<1> QED
  BY <1>1, <1>2, <1>3, PTL DEF Spec
=============================================================================
