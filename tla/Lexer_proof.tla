----------------------------- MODULE Lexer_proof ------------------------------
(***************************************************************************)
(* For every text: the lexer stays inside it, its tokens are in order, a   *)
(* token stands where its line and column say, a string has the bytes it   *)
(* spells, and the tokens are the longest lexemes the text is made of.     *)
(***************************************************************************)
EXTENDS Lexemes, TLAPS, FiniteSetTheorems, WellFoundedInduction, SequenceTheorems

-----------------------------------------------------------------------------
(* Reading ahead *)

\* Every set of naturals that is not empty has a least element.
LEMMA LeastExists ==
  ASSUME NEW S, S \subseteq Nat, S # {}
  PROVE  \E x \in S : \A y \in S : x <= y
<1> DEFINE R == {ss \in Nat \X Nat : ss[1] < ss[2]}
<1>1. IsWellFoundedOn(R, Nat)
  BY NatLessThanWellFounded DEF OpToRel
<1>2. PICK x \in S : \A y \in S : ~(<<y, x>> \in R)
  BY <1>1, WFMin
<1>3. \A y \in S : ~(y < x)
  BY <1>2
<1> QED
  BY <1>3

\* So has every set of naturals below a bound a greatest one.
LEMMA GreatestExists ==
  ASSUME NEW n \in Nat, NEW S, S \subseteq 0 .. n, S # {}
  PROVE  \E x \in S : \A y \in S : y <= x
<1> DEFINE T == {n - y : y \in S}
<1>1. \A y \in S : y \in 0 .. n
  OBVIOUS
<1>1a. T \subseteq Nat
  BY <1>1
<1>1b. T # {}
  BY Zenon
<1>2. PICK t \in T : \A u \in T : t <= u
  BY <1>1a, <1>1b, LeastExists
<1>3. PICK x \in S : t = n - x
  BY <1>2
<1>4. \A y \in S : n - y \in T
  OBVIOUS
<1>5. \A y \in S : y <= x
  BY <1>1, <1>2, <1>3, <1>4
<1> QED
  BY <1>5

\* Behind the source every character is NUL, in it they are characters.
LEMMA CharType ==
  source \in Seq(Characters) =>
    \A i \in Nat \ {0} :
      /\ Char(i) \in Characters
      /\ Char(i) # "NUL" => i <= Len(source)
BY DEF Char, Characters

\* Reading while the characters are in a set stops inside the text.
LEMMA PastStops ==
  ASSUME source \in Seq(Characters), NEW i \in 1 .. Len(source) + 1, NEW S
  PROVE  /\ Past(i, S) \in i .. Len(source) + 1
         /\ \A j \in i .. Past(i, S) - 1 : Char(j) \in S
         /\ Char(Past(i, S)) \notin S \/ Past(i, S) = Len(source) + 1
<1> DEFINE Stops == {e \in i .. Len(source) + 1 : Char(e) \notin S \/ e = Len(source) + 1}
           P(e) == /\ Char(e) \notin S \/ e = Len(source) + 1
                   /\ \A j \in i .. e - 1 : Char(j) \in S
<1>1. Stops \subseteq Nat /\ Len(source) + 1 \in Stops
  OBVIOUS
<1>2. PICK e \in Stops : \A f \in Stops : e <= f
  BY <1>1, LeastExists
<1>3. \A j \in i .. e - 1 : Char(j) \in S
  BY <1>2
<1>4. \E f \in i .. Len(source) + 1 : P(f)
  BY <1>2, <1>3
<1>5. Past(i, S) = CHOOSE f \in i .. Len(source) + 1 : P(f)
  BY DEF Past
<1> QED
  BY <1>4, <1>5

-----------------------------------------------------------------------------
(* Lines and columns *)

Breaks(text, p) == {i \in 1 .. p - 1 : text[i] = "LF"}

\* Position p of the text is in that line, at that column.
Exact(text, p, l, c) ==
  /\ l = 1 + Cardinality(Breaks(text, p))
  /\ p - c \in {0} \cup Breaks(text, p)
  /\ \A i \in Breaks(text, p) : p - c >= i

LEMMA BreaksFinite ==
  \A text : \A p \in Nat : IsFiniteSet(Breaks(text, p)) /\ Cardinality(Breaks(text, p)) \in Nat
<1> TAKE text
<1> TAKE p \in Nat
<1>1. IsFiniteSet(1 .. p - 1)
  BY FS_Interval
<1>2. Breaks(text, p) \subseteq 1 .. p - 1
  BY DEF Breaks
<1>3. IsFiniteSet(Breaks(text, p))
  BY <1>1, <1>2, FS_Subset
<1> QED
  BY <1>3, FS_CardinalityType

\* Counting gives a line and a column; from an exact offset on, exact ones.
LEMMA ReadingExact ==
  ASSUME source \in Seq(Characters), offset \in Nat \ {0}, line \in Nat, column \in Int,
         NEW e \in 1 .. Len(source) + 1, offset <= e
  PROVE  /\ Line(e) \in Nat
         /\ Column(e) \in Int
         /\ Exact(source, offset, line, column) => Exact(source, e, Line(e), Column(e))
<1> DEFINE between == {i \in offset .. e - 1 : Char(i) = "LF"}
           before == Breaks(source, offset)
<1>1. /\ Breaks(source, e) = before \cup between
      /\ before \cap between = {}
  BY DEF Breaks, Char
<1>2. IsFiniteSet(between)
  <2>1. IsFiniteSet(offset .. e - 1)
    BY FS_Interval
  <2> QED
    BY <2>1, FS_Subset
<1>3. Cardinality(between) \in Nat
  BY <1>2, FS_CardinalityType
<1>4. IsFiniteSet(before) /\ Cardinality(before) \in Nat
  BY BreaksFinite
<1>5. Cardinality(Breaks(source, e)) = Cardinality(before) + Cardinality(between)
  <2>1. PICK A, B : A = before /\ B = between
    OBVIOUS
  <2>2. Cardinality(A \cup B) = Cardinality(A) + Cardinality(B) - Cardinality(A \cap B)
    BY <2>1, <1>2, <1>4, FS_Union
  <2>3. A \cap B = {} /\ A \cup B = Breaks(source, e)
    BY <2>1, <1>1
  <2>4. Cardinality(A \cap B) = 0
    BY <2>3, FS_EmptySet
  <2>5. Cardinality(A) \in Nat /\ Cardinality(B) \in Nat
    BY <2>1, <1>3, <1>4
  <2>6. Cardinality(A \cup B) = Cardinality(A) + Cardinality(B)
    BY <2>2, <2>4, <2>5
  <2> HIDE DEF between, before
  <2> QED
    BY <2>1, <2>3, <2>6, Zenon
<1>6. Line(e) \in Nat
  BY <1>3 DEF Line
<1>7. \/ Column(e) = column + (e - offset) /\ between = {}
      \/ \E m \in between : Column(e) = e - m /\ \A j \in between : j <= m
  <2>1. CASE between = {}
    BY <2>1 DEF Column
  <2>2. CASE between # {}
    <3> DEFINE P(i) == \A j \in between : j <= i
    <3>1. PICK B : B = between
      OBVIOUS
    <3>1a. e \in Nat /\ B \subseteq 0 .. e /\ B # {}
      BY <3>1, <2>2
    <3>1b. \E i \in B : \A j \in B : j <= i
      BY <3>1a, GreatestExists
    <3>2. \E i \in between : P(i)
      BY <3>1, <3>1b
    <3>3. PICK m : m = CHOOSE i \in between : P(i)
      OBVIOUS
    <3>4. m \in between /\ P(m)
      BY <3>2, <3>3
    <3>5. Column(e) = e - m
      BY <3>3, <2>2 DEF Column
    <3> QED
      BY <3>4, <3>5
  <2> QED
    BY <2>1, <2>2
<1>8. Column(e) \in Int
  BY <1>7
<1>9. ASSUME Exact(source, offset, line, column)
      PROVE  Exact(source, e, Line(e), Column(e))
  <2>1. Line(e) = 1 + Cardinality(Breaks(source, e))
    BY <1>3, <1>4, <1>5, <1>9 DEF Line, Exact
  <2>2. /\ e - Column(e) \in {0} \cup Breaks(source, e)
        /\ \A i \in Breaks(source, e) : e - Column(e) >= i
    <3>1. CASE Column(e) = column + (e - offset) /\ between = {}
      <4>1. e - Column(e) = offset - column
        BY <3>1
      <4> QED
        BY <4>1, <1>1, <1>9, <3>1 DEF Exact
    <3>2. CASE \E m \in between : Column(e) = e - m /\ \A j \in between : j <= m
      <4>1. PICK m \in between : Column(e) = e - m /\ \A j \in between : j <= m
        BY <3>2
      <4>2. e - Column(e) = m
        BY <4>1
      <4> QED
        BY <4>1, <4>2, <1>1 DEF Breaks
    <3> QED
      BY <1>7, <3>1, <3>2
  <2> QED
    BY <2>1, <2>2 DEF Exact
<1> QED
  BY <1>6, <1>8, <1>9

-----------------------------------------------------------------------------
(* Strings *)

\* A round of a string goes on behind where it began.
LEMMA UnitAdvances ==
  ASSUME source \in Seq(Characters), NEW i \in 1 .. Len(source)
  PROVE  Unit(i).next \in Nat /\ i < Unit(i).next
<1>1. CASE Char(i) = "\\" /\ Char(i + 1) = "x"
  <2>1. i + 2 \in 1 .. Len(source) + 1
    BY <1>1, CharType
  <2>2. Past(i + 2, HexDigits) \in i + 2 .. Len(source) + 1
    BY <2>1, PastStops
  <2>3. Unit(i).next = Past(i + 2, HexDigits)
    BY <1>1 DEF Unit, Quotes
  <2> QED
    BY <2>2, <2>3
<1>2. CASE ~(Char(i) = "\\" /\ Char(i + 1) = "x")
  <2>1. Unit(i).next \in {i + 1, i + 2}
    BY <1>2 DEF Unit
  <2> QED
    BY <2>1
<1> QED
  BY <1>1, <1>2

\* The rounds from i on, given those from each later position on.
RoundsFrom(from, terminator, i) ==
  IF i > Len(source) THEN Never
  ELSE IF Char(i) = terminator THEN [at |-> i, bytes |-> <<0>>]
  ELSE IF Unit(i).next > Len(source) + 1 THEN Never
  ELSE LET rest == from[Unit(i).next]
       IN  IF rest.at = 0 THEN Never
           ELSE [at |-> rest.at, bytes |-> Unit(i).bytes \o rest.bytes]

\* String is a function that obeys its own definition.
LEMMA StringUnfolds ==
  ASSUME source \in Seq(Characters), NEW t
  PROVE  String(t) = [i \in 1 .. Len(source) + 2 |-> RoundsFrom(String(t), t, i)]
<1> DEFINE N == Len(source) + 2
           Upto(k) == N - k + 1 .. N
           Solves(g, k) == g = [i \in Upto(k) |-> RoundsFrom(g, t, i)]
           Unsolved == {k \in 0 .. N : \A g : ~Solves(g, k)}
<1>0. N \in Nat
  OBVIOUS
<1>1. Unsolved = {}
  <2> SUFFICES ASSUME Unsolved # {} PROVE FALSE
    OBVIOUS
  <2>1. Unsolved \subseteq Nat
    OBVIOUS
  <2>2. PICK k \in Unsolved : \A l \in Unsolved : k <= l
    BY <2>1, LeastExists
  <2>2a. k \in 0 .. N
    OBVIOUS
  <2>3. k # 0
    <3> DEFINE none == [i \in {} |-> 0]
    <3>1. Solves(none, 0)
      BY <1>0
    <3> QED
      BY <3>1
  <2>4. k - 1 \in 0 .. N /\ k - 1 \notin Unsolved
    <3>1. k \in 1 .. N
      BY <1>0, <2>2a, <2>3
    <3>2. k - 1 \in 0 .. N /\ ~(k <= k - 1)
      BY <1>0, <3>1
    <3> HIDE DEF Unsolved
    <3> QED
      BY <2>2, <3>2
  <2>5. PICK g : Solves(g, k - 1)
    BY <2>4
  <2> DEFINE h == [i \in Upto(k) |-> IF i \in Upto(k - 1) THEN g[i] ELSE RoundsFrom(g, t, i)]
  <2>6. \A i \in Upto(k) : h[i] = RoundsFrom(g, t, i)
    BY <2>5
  <2>7. \A i \in Upto(k) : RoundsFrom(h, t, i) = RoundsFrom(g, t, i)
    <3> TAKE i \in Upto(k)
    <3>1. CASE i <= Len(source) /\ Unit(i).next <= Len(source) + 1
      <4>1. i \in 1 .. Len(source)
        BY <3>1, <2>4
      <4>2. Unit(i).next \in Nat /\ i < Unit(i).next
        BY <4>1, UnitAdvances
      <4>3. Unit(i).next \in Upto(k - 1) /\ Unit(i).next \in Upto(k)
        BY <4>1, <4>2, <3>1, <2>4
      <4>4. h[Unit(i).next] = g[Unit(i).next]
        BY <4>3
      <4> HIDE DEF h
      <4> QED
        BY <4>4 DEF RoundsFrom
    <3>2. CASE ~(i <= Len(source))
      <4>1. i > Len(source)
        BY <3>2, <1>0, <2>2a
      <4> QED
        BY <4>1 DEF RoundsFrom
    <3>3. CASE i <= Len(source) /\ ~(Unit(i).next <= Len(source) + 1)
      <4>1. i \in 1 .. Len(source)
        BY <3>3, <2>4
      <4>2. Unit(i).next > Len(source) + 1
        BY <3>3, <4>1, UnitAdvances
      <4> QED
        BY <4>2 DEF RoundsFrom
    <3> QED
      BY <3>1, <3>2, <3>3
  <2>8. h = [i \in Upto(k) |-> RoundsFrom(h, t, i)]
    <3>1. \A i \in Upto(k) : h[i] = RoundsFrom(h, t, i)
      BY <2>6, <2>7
    <3>2. h = [i \in Upto(k) |-> h[i]]
      OBVIOUS
    <3> HIDE DEF h, Upto
    <3> QED
      BY <3>1, <3>2
  <2> QED
    BY <2>2, <2>8
<1>2. PICK g : Solves(g, N)
  <2>1. N \in 0 .. N
    BY <1>0
  <2> HIDE DEF N, Solves
  <2> QED
    BY <1>1, <2>1
<1>3. Upto(N) = 1 .. Len(source) + 2
  BY <1>0
<1>4. g = [i \in 1 .. Len(source) + 2 |-> RoundsFrom(g, t, i)]
  BY <1>2, <1>3
<1>5. String(t) = CHOOSE f : f = [i \in 1 .. Len(source) + 2 |-> RoundsFrom(f, t, i)]
  BY Zenon DEF String, RoundsFrom
<1> QED
  BY <1>4, <1>5, Zenon

\* A string ends behind where it began, inside the text, or never.
LEMMA StringEnds ==
  ASSUME source \in Seq(Characters), NEW t
  PROVE  \A i \in 1 .. Len(source) + 2 : String(t)[i].at \in {0} \cup (i .. Len(source))
<1> DEFINE N == Len(source) + 2
           Good(i) == String(t)[i].at \in {0} \cup (i .. Len(source))
           Bad == {i \in 1 .. N : ~Good(i)}
<1> SUFFICES ASSUME Bad # {} PROVE FALSE
  OBVIOUS
<1>1. N \in Nat /\ Bad \subseteq 0 .. N
  OBVIOUS
<1>2. PICK i \in Bad : \A j \in Bad : j <= i
  BY <1>1, GreatestExists
<1>3. String(t)[i] = RoundsFrom(String(t), t, i)
  BY StringUnfolds
<1>4. CASE i > Len(source) \/ Char(i) = t
  BY <1>2, <1>3, <1>4 DEF RoundsFrom, Never
<1>5. CASE ~(i > Len(source) \/ Char(i) = t)
  <2>1. i \in 1 .. Len(source)
    BY <1>5
  <2>2. PICK n : n = Unit(i).next
    OBVIOUS
  <2>3. n \in Nat /\ i < n
    BY <2>1, <2>2, UnitAdvances
  <2>4. CASE n > Len(source) + 1
    BY <1>2, <1>3, <1>5, <2>2, <2>4 DEF RoundsFrom, Never
  <2>5. CASE ~(n > Len(source) + 1)
    <3>1. n \in 1 .. N /\ n \notin Bad
      BY <1>2, <2>1, <2>3, <2>5
    <3>2. String(t)[n].at \in {0} \cup (n .. Len(source))
      BY <3>1
    <3>3. String(t)[i].at \in {0, String(t)[n].at}
      BY <1>3, <1>5, <2>2, <2>5 DEF RoundsFrom, Never
    <3>4. String(t)[i].at \in {0} \cup (i .. Len(source))
      BY <2>1, <2>3, <3>2, <3>3
    <3> QED
      BY <1>2, <3>4
  <2> QED
    BY <2>3, <2>4, <2>5
<1> QED
  BY <1>4, <1>5

-----------------------------------------------------------------------------
(* What a string spells *)

LEMMA ByteType == \A c \in Characters : Byte[c] \in Nat
BY DEF Byte

\* A byte in front of others.
LEMMA InFront ==
  ASSUME NEW b \in Nat, NEW n \in Nat, NEW f \in [1 .. n -> Nat]
  PROVE  <<b>> \o f = [j \in 1 .. n + 1 |-> IF j = 1 THEN b ELSE f[j - 1]]
<1>1. f \in Seq(Nat) /\ Len(f) = n
  OBVIOUS
<1>2. <<b>> \in Seq(Nat) /\ Len(<<b>>) = 1 /\ <<b>>[1] = b
  OBVIOUS
<1>3. <<b>> \o f \in Seq(Nat) /\ Len(<<b>> \o f) = n + 1
  BY <1>1, <1>2
<1>4. \A j \in 1 .. n + 1 : (<<b>> \o f)[j] = IF j = 1 THEN b ELSE f[j - 1]
  BY <1>1, <1>2
<1> QED
  BY <1>3, <1>4

\* A string ends at its terminator.
LEMMA StringCloses ==
  ASSUME source \in Seq(Characters), NEW t
  PROVE  \A i \in 1 .. Len(source) + 2 :
           String(t)[i].at # 0 => Char(String(t)[i].at) = t
<1> DEFINE N == Len(source) + 2
           Good(i) == String(t)[i].at # 0 => Char(String(t)[i].at) = t
           Bad == {i \in 1 .. N : ~Good(i)}
<1> SUFFICES ASSUME Bad # {} PROVE FALSE
  OBVIOUS
<1>1. N \in Nat /\ Bad \subseteq 0 .. N
  OBVIOUS
<1>2. PICK i \in Bad : \A j \in Bad : j <= i
  BY <1>1, GreatestExists
<1>3. String(t)[i] = RoundsFrom(String(t), t, i)
  BY StringUnfolds
<1>4. CASE i > Len(source) \/ Char(i) = t
  BY <1>2, <1>3, <1>4 DEF RoundsFrom, Never
<1>5. CASE ~(i > Len(source) \/ Char(i) = t)
  <2>1. i \in 1 .. Len(source)
    BY <1>5
  <2>2. PICK n : n = Unit(i).next
    OBVIOUS
  <2>3. n \in Nat /\ i < n
    BY <2>1, <2>2, UnitAdvances
  <2>4. CASE n > Len(source) + 1
    BY <1>2, <1>3, <1>5, <2>2, <2>4 DEF RoundsFrom, Never
  <2>5. CASE ~(n > Len(source) + 1)
    <3>1. n \in 1 .. N /\ n \notin Bad
      BY <1>2, <2>1, <2>3, <2>5
    <3>2. Good(n)
      BY <3>1
    <3>3. String(t)[i].at \in {0, String(t)[n].at}
      BY <1>3, <1>5, <2>2, <2>5 DEF RoundsFrom, Never
    <3>4. Good(i)
      BY <3>2, <3>3
    <3> QED
      BY <1>2, <3>4
  <2> QED
    BY <2>3, <2>4, <2>5
<1> QED
  BY <1>4, <1>5

\* The bytes of the characters from i on to the terminator at a, and a NUL.
Plain(i, a) == [j \in 1 .. a - i + 1 |-> IF j > a - i THEN 0 ELSE Byte[Char(i + j - 1)]]

\* Without a backslash a string is its characters.
LEMMA PlainStrings ==
  ASSUME source \in Seq(Characters), NEW t
  PROVE  \A i \in 1 .. Len(source) + 2 :
           LET a == String(t)[i].at
           IN  a # 0 /\ (\A j \in i .. a - 1 : Char(j) # "\\") => String(t)[i].bytes = Plain(i, a)
<1> DEFINE N == Len(source) + 2
           Good(i) == LET a == String(t)[i].at
                      IN  a # 0 /\ (\A j \in i .. a - 1 : Char(j) # "\\")
                            => String(t)[i].bytes = Plain(i, a)
           Bad == {i \in 1 .. N : ~Good(i)}
<1> SUFFICES ASSUME Bad # {} PROVE FALSE
  OBVIOUS
<1>1. N \in Nat /\ Bad \subseteq 0 .. N
  OBVIOUS
<1>2. PICK i \in Bad : \A j \in Bad : j <= i
  BY <1>1, GreatestExists
<1>3. String(t)[i] = RoundsFrom(String(t), t, i)
  BY StringUnfolds
<1>4. PICK a : a = String(t)[i].at
  OBVIOUS
<1>5. /\ a \in i .. Len(source)
      /\ \A j \in i .. a - 1 : Char(j) # "\\"
      /\ String(t)[i].bytes # Plain(i, a)
  BY <1>2, <1>4, StringEnds
<1>6. CASE Char(i) = t
  <2>1. String(t)[i] = [at |-> i, bytes |-> <<0>>]
    BY <1>3, <1>5, <1>6 DEF RoundsFrom
  <2>2. a = i
    BY <1>4, <2>1
  <2>3. Plain(i, i) = [j \in 1 .. 1 |-> 0]
    BY <1>5 DEF Plain
  <2>4. Plain(i, i) = <<0>>
    BY <2>3
  <2> QED
    BY <1>5, <2>1, <2>2, <2>4
<1>7. CASE Char(i) # t
  <2>1. i \in 1 .. Len(source)
    BY <1>5
  <2>2. i # a
    BY <1>4, <1>5, <1>7, StringCloses
  <2>3. i + 1 <= a /\ Char(i) # "\\"
    BY <1>5, <2>1, <2>2
  <2>4. Unit(i) = [next |-> i + 1, bytes |-> <<Byte[Char(i)]>>]
    BY <2>3 DEF Unit
  <2>5. PICK r : r = String(t)[i + 1]
    OBVIOUS
  <2>6. /\ String(t)[i] = IF r.at = 0 THEN Never
                          ELSE [at |-> r.at, bytes |-> <<Byte[Char(i)]>> \o r.bytes]
    <3>1. PICK from : from = String(t)
      OBVIOUS
    <3>2. ~(i > Len(source)) /\ ~(i + 1 > Len(source) + 1)
      BY <2>1
    <3>3. RoundsFrom(from, t, i) = LET rest == from[i + 1]
                                   IN IF rest.at = 0 THEN Never
                                      ELSE [at |-> rest.at, bytes |-> <<Byte[Char(i)]>> \o rest.bytes]
      BY <1>7, <2>4, <3>2 DEF RoundsFrom
    <3> QED
      BY <1>3, <2>5, <3>1, <3>3
  <2>7. r.at = a /\ String(t)[i].bytes = <<Byte[Char(i)]>> \o r.bytes
    BY <1>4, <1>5, <2>6 DEF Never
  <2>8. i + 1 \in 1 .. N /\ i + 1 \notin Bad
    BY <1>2, <2>1
  <2>9. r.bytes = Plain(i + 1, a)
    <3>1. Good(i + 1)
      BY <2>8
    <3> QED
      BY <1>5, <2>1, <2>5, <2>7, <3>1
  <2>10. PICK b, f : b = Byte[Char(i)] /\ f = Plain(i + 1, a)
    OBVIOUS
  <2>11. b \in Nat /\ a - i \in Nat /\ f \in [1 .. a - i -> Nat]
    <3>1. a - (i + 1) + 1 = a - i
      BY <1>5, <2>1
    <3>2. \A j \in 1 .. a - i : ~(j > a - (i + 1)) => Byte[Char((i + 1) + j - 1)] \in Nat
      BY <1>5, <2>1, CharType, ByteType
    <3>3. f = [j \in 1 .. a - i |-> IF j > a - (i + 1) THEN 0 ELSE Byte[Char((i + 1) + j - 1)]]
      BY <2>10, <3>1 DEF Plain
    <3>4. b \in Nat
      BY <2>1, <2>10, CharType, ByteType
    <3>5. a - i \in Nat
      BY <1>5, <2>1
    <3>6. f \in [1 .. a - i -> Nat]
      BY <3>2, <3>3
    <3> QED
      BY <3>4, <3>5, <3>6
  <2>12. <<b>> \o f = [j \in 1 .. a - i + 1 |-> IF j = 1 THEN b ELSE f[j - 1]]
    BY <2>11, InFront
  <2>13. \A j \in 1 .. a - i + 1 : (IF j = 1 THEN b ELSE f[j - 1])
                                  = (IF j > a - i THEN 0 ELSE Byte[Char(i + j - 1)])
    <3> TAKE j \in 1 .. a - i + 1
    <3>1. CASE j = 1
      <4>1. ~(1 > a - i) /\ i + 1 - 1 = i
        BY <1>5, <2>1, <2>3
      <4> QED
        BY <2>10, <3>1, <4>1
    <3>2. CASE j # 1
      <4>1. j - 1 \in 1 .. a - (i + 1) + 1
        BY <1>5, <2>1, <3>2
      <4>2. f[j - 1] = IF j - 1 > a - (i + 1) THEN 0 ELSE Byte[Char((i + 1) + (j - 1) - 1)]
        BY <2>10, <4>1 DEF Plain
      <4>3. (i + 1) + (j - 1) - 1 = i + j - 1 /\ (j - 1 > a - (i + 1) <=> j > a - i)
        BY <1>5, <2>1
      <4> QED
        BY <3>2, <4>2, <4>3
    <3> QED
      BY <3>1, <3>2
  <2>14. <<b>> \o f = Plain(i, a)
    BY <2>12, <2>13 DEF Plain
  <2> QED
    BY <1>5, <2>7, <2>9, <2>10, <2>14
<1> QED
  BY <1>6, <1>7

\* The byte of the digits before position i.
HexFrom(upto, s, i) == IF i = s THEN 0 ELSE (upto[i - 1] * 16 + HexDigit(Char(i - 1))) % 256

LEMMA HexDigitType == \A c \in Characters : HexDigit(c) \in Int
<1>1. "0" \in Characters /\ "A" \in Characters
  BY DEF Characters, Digits, Letters
<1>2. Byte["0"] \in Nat /\ Byte["A"] \in Nat
  BY <1>1, ByteType
<1> QED
  BY <1>2, ByteType DEF HexDigit

LEMMA HexDigitValues ==
  \A c \in DOMAIN HexValue : HexDigit(c) = HexValue[c] /\ HexValue[c] \in 0 .. 15
<1>1. {"0", "1", "2", "A", "B"} \subseteq Characters
  BY DEF Characters, Digits, Letters
<1>2. Byte["0"] = 48 /\ Byte["1"] = 49 /\ Byte["2"] = 50
  BY <1>1 DEF Byte
<1>3. Byte["A"] = 65 /\ Byte["B"] = 66
  BY <1>1 DEF Byte
<1>4. DOMAIN HexValue = {"0", "1", "2", "A", "B"}
  BY DEF HexValue, Digits
<1>5. HexValue["0"] = 0 /\ HexValue["1"] = 1 /\ HexValue["2"] = 2
  BY DEF HexValue, Digits
<1>6. HexValue["A"] = 10 /\ HexValue["B"] = 11
  BY DEF HexValue, Digits
<1>7. HexDigit("0") = 0 /\ HexDigit("1") = 1 /\ HexDigit("2") = 2
  BY <1>2 DEF HexDigit, Digits
<1>8. HexDigit("A") = 10 /\ HexDigit("B") = 11
  BY <1>3 DEF HexDigit, Digits
<1> QED
  BY <1>4, <1>5, <1>6, <1>7, <1>8

\* Hex follows its own definition, from the first digit to the last.
LEMMA HexUnfolds ==
  ASSUME source \in Seq(Characters), NEW s \in Nat \ {0}, NEW e \in Nat, s <= e
  PROVE  \E upto : /\ Hex(s, e) = upto[e]
                   /\ upto = [i \in s .. e |-> HexFrom(upto, s, i)]
<1> DEFINE Upto(k) == s .. s + k
           Solves(g, k) == g = [i \in Upto(k) |-> HexFrom(g, s, i)]
           Unsolved == {k \in Nat : \A g : ~Solves(g, k)}
<1>1. Unsolved = {}
  <2> SUFFICES ASSUME Unsolved # {} PROVE FALSE
    OBVIOUS
  <2>1. Unsolved \subseteq Nat
    OBVIOUS
  <2>2. PICK k \in Unsolved : \A l \in Unsolved : k <= l
    BY <2>1, LeastExists
  <2>3. k # 0
    <3> DEFINE first == [i \in Upto(0) |-> 0]
    <3>1. \A i \in Upto(0) : HexFrom(first, s, i) = 0
      BY DEF HexFrom
    <3>2. Solves(first, 0)
      BY <3>1
    <3> QED
      BY <3>2
  <2>4. k - 1 \in Nat /\ k - 1 \notin Unsolved
    <3>1. k \in Nat /\ k - 1 \in Nat /\ ~(k <= k - 1)
      BY <2>3
    <3> HIDE DEF Unsolved
    <3> QED
      BY <2>2, <3>1
  <2>5. PICK g : Solves(g, k - 1)
    BY <2>4
  <2> DEFINE h == [i \in Upto(k) |-> IF i \in Upto(k - 1) THEN g[i] ELSE HexFrom(g, s, i)]
  <2>6. \A i \in Upto(k) : h[i] = HexFrom(g, s, i)
    BY <2>5
  <2>7. \A i \in Upto(k) : HexFrom(h, s, i) = HexFrom(g, s, i)
    <3> TAKE i \in Upto(k)
    <3>1. CASE i = s
      BY <3>1 DEF HexFrom
    <3>2. CASE i # s
      <4>1. i - 1 \in Upto(k - 1) /\ i - 1 \in Upto(k)
        BY <2>4, <3>2
      <4>2. h[i - 1] = g[i - 1]
        BY <4>1
      <4> HIDE DEF h
      <4> QED
        BY <4>2 DEF HexFrom
    <3> QED
      BY <3>1, <3>2
  <2>8. h = [i \in Upto(k) |-> HexFrom(h, s, i)]
    <3>1. \A i \in Upto(k) : h[i] = HexFrom(h, s, i)
      BY <2>6, <2>7
    <3>2. h = [i \in Upto(k) |-> h[i]]
      OBVIOUS
    <3> HIDE DEF h, Upto
    <3> QED
      BY <3>1, <3>2
  <2> QED
    BY <2>2, <2>8
<1>2. PICK k \in Nat : k = e - s
  OBVIOUS
<1>3. PICK g : Solves(g, k)
  BY <1>1
<1>4. Upto(k) = s .. e
  BY <1>2
<1>5. g = [i \in s .. e |-> HexFrom(g, s, i)]
  BY <1>3, <1>4
<1>6. PICK upto : upto = CHOOSE f : f = [i \in s .. e |-> HexFrom(f, s, i)]
  OBVIOUS
<1>7. upto = [i \in s .. e |-> HexFrom(upto, s, i)]
  BY <1>5, <1>6, Zenon
<1>8. Hex(s, e) = (CHOOSE f : f = [i \in s .. e |-> HexFrom(f, s, i)])[e]
  BY Zenon DEF Hex, HexFrom
<1>9. Hex(s, e) = upto[e]
  BY <1>6, <1>8, Zenon
<1> QED
  BY <1>7, <1>9

\* hex_digit with one more digit.
Shifted(u, d) == (u * 16 + d) % 256

\* A byte is what its last two digits are.
LEMMA LastTwoDigits ==
  ASSUME NEW u \in Int, NEW c \in 0 .. 15, NEW d \in 0 .. 15
  PROVE  Shifted(Shifted(u, c), d) = 16 * c + d
<1>1. PICK k \in Int, q \in 0 .. 255 : u * 16 + c = 256 * k + q /\ q = (u * 16 + c) % 256
  <2>1. u * 16 + c \in Int
    OBVIOUS
  <2> QED
    BY <2>1
<1>2. q * 16 + d = 256 * (u - 16 * k) + (16 * c + d)
  BY <1>1
<1>3. 16 * c + d \in 0 .. 255
  OBVIOUS
<1>4. (256 * (u - 16 * k) + (16 * c + d)) % 256 = 16 * c + d
  BY <1>1, <1>3
<1> QED
  BY <1>1, <1>2, <1>4 DEF Shifted

\* Hex of at least two digits.
LEMMA HexOfTwo ==
  ASSUME source \in Seq(Characters), NEW s \in Nat \ {0}, NEW e \in Nat, s + 2 <= e,
         Char(e - 2) \in DOMAIN HexValue, Char(e - 1) \in DOMAIN HexValue
  PROVE  Hex(s, e) = 16 * HexValue[Char(e - 2)] + HexValue[Char(e - 1)]
<1>0. s <= e
  OBVIOUS
<1>1. PICK upto : Hex(s, e) = upto[e] /\ upto = [i \in s .. e |-> HexFrom(upto, s, i)]
  BY <1>0, HexUnfolds
<1>2. \A x \in DOMAIN HexValue : HexDigit(x) = HexValue[x] /\ HexValue[x] \in 0 .. 15
  BY HexDigitValues
<1>3. PICK c, d : c = HexDigit(Char(e - 2)) /\ d = HexDigit(Char(e - 1))
  OBVIOUS
<1>4. /\ c \in 0 .. 15 /\ d \in 0 .. 15
      /\ c = HexValue[Char(e - 2)] /\ d = HexValue[Char(e - 1)]
  BY <1>2, <1>3
<1>5. PICK u : u = upto[e - 2]
  OBVIOUS
<1>6. u \in Int
  <2>0. e - 2 \in s .. e
    OBVIOUS
  <2>1. u = HexFrom(upto, s, e - 2)
    BY <1>1, <1>5, <2>0
  <2>2. CASE e - 2 = s
    BY <2>1, <2>2 DEF HexFrom
  <2>3. CASE e - 2 # s
    <3>1. e - 3 \in s .. e
      BY <2>3
    <3> QED
      BY <2>1, <2>3 DEF HexFrom
  <2> QED
    BY <2>2, <2>3
<1>7. upto[e - 1] = Shifted(u, c)
  <2>1. e - 1 \in s .. e /\ e - 1 # s /\ (e - 1) - 1 = e - 2
    OBVIOUS
  <2>2. upto[e - 1] = HexFrom(upto, s, e - 1)
    BY <1>1, <2>1
  <2> QED
    BY <1>3, <1>5, <2>1, <2>2 DEF HexFrom, Shifted
<1>8. upto[e] = Shifted(upto[e - 1], d)
  <2>1. e \in s .. e /\ e # s
    OBVIOUS
  <2>2. upto[e] = HexFrom(upto, s, e)
    BY <1>1, <2>1
  <2> QED
    BY <1>3, <2>1, <2>2 DEF HexFrom, Shifted
<1>9. Shifted(Shifted(u, c), d) = 16 * c + d
  BY <1>4, <1>6, LastTwoDigits
<1> QED
  BY <1>1, <1>4, <1>7, <1>8, <1>9

\* A string that is one escape \x of at least two digits is one byte, and a NUL.
LEMMA HexStrings ==
  ASSUME source \in Seq(Characters), NEW t \in Quotes, NEW i \in 1 .. Len(source) + 2,
         NEW a, a = String(t)[i].at, a # 0, i + 4 <= a, Char(i) = "\\", Char(i + 1) = "x",
         \A j \in i + 2 .. a - 1 : Char(j) \in DOMAIN HexValue
  PROVE  String(t)[i].bytes = <<16 * HexValue[Char(a - 2)] + HexValue[Char(a - 1)], 0>>
<1>1. a \in i + 4 .. Len(source) /\ Char(a) = t /\ t # "\\"
  BY StringEnds, StringCloses DEF Quotes
<1>2. PICK e : e = Past(i + 2, HexDigits)
  OBVIOUS
<1>3. e \in i + 2 .. Len(source) + 1 /\ (Char(e) \notin HexDigits \/ e = Len(source) + 1)
  <2>1. i + 2 \in 1 .. Len(source) + 1
    BY <1>1
  <2> QED
    BY <1>2, <2>1, PastStops
<1>4. Unit(i) = [next |-> e, bytes |-> <<Hex(i + 2, e)>>]
  BY <1>2 DEF Unit, Quotes
<1>5. PICK b, r : b = Hex(i + 2, e) /\ r = String(t)[e]
  OBVIOUS
<1>6. String(t)[i] = IF r.at = 0 THEN Never ELSE [at |-> r.at, bytes |-> <<b>> \o r.bytes]
  <2>1. PICK from : from = String(t)
    OBVIOUS
  <2>2. ~(i > Len(source)) /\ ~(e > Len(source) + 1) /\ Char(i) # t
    BY <1>1, <1>3
  <2>3. RoundsFrom(from, t, i) =
          IF from[e].at = 0 THEN Never ELSE [at |-> from[e].at, bytes |-> <<b>> \o from[e].bytes]
    BY <1>4, <1>5, <2>2 DEF RoundsFrom
  <2> QED
    BY <1>5, <2>1, <2>3, StringUnfolds
<1>7. r.at = a /\ String(t)[i].bytes = <<b>> \o r.bytes
  BY <1>6 DEF Never
<1>8. e = a
  <2>1. a \in e .. Len(source)
    <3>1. e \in 1 .. Len(source) + 2
      BY <1>3
    <3>2. r.at \in {0} \cup (e .. Len(source))
      BY <1>5, <3>1, StringEnds
    <3> QED
      BY <1>7, <3>2
  <2>2. DOMAIN HexValue \subseteq HexDigits
    BY DEF HexValue, HexDigits
  <2>3. e # a => e \in i + 2 .. a - 1
    BY <1>3, <2>1
  <2> QED
    BY <1>1, <1>3, <2>1, <2>2, <2>3
<1>9. r = [at |-> a, bytes |-> <<0>>]
  <2>1. PICK from : from = String(t)
    OBVIOUS
  <2>2. RoundsFrom(from, t, a) = [at |-> a, bytes |-> <<0>>]
    BY <1>1 DEF RoundsFrom
  <2>3. a \in 1 .. Len(source) + 2
    BY <1>1
  <2> QED
    BY <1>5, <1>8, <2>1, <2>2, <2>3, StringUnfolds
<1>10. b = 16 * HexValue[Char(a - 2)] + HexValue[Char(a - 1)]
  <2>1. a - 2 \in i + 2 .. a - 1 /\ a - 1 \in i + 2 .. a - 1
    BY <1>1
  <2>2. i + 2 \in Nat \ {0} /\ a \in Nat /\ (i + 2) + 2 <= a
    BY <1>1
  <2> QED
    BY <1>5, <1>8, <2>1, <2>2, HexOfTwo
<1>11. <<b>> \o <<0>> = <<b, 0>>
  <2>1. b \in Nat
    <3>1. a - 2 \in i + 2 .. a - 1 /\ a - 1 \in i + 2 .. a - 1
      BY <1>1
    <3>2. PICK c, d : c = HexValue[Char(a - 2)] /\ d = HexValue[Char(a - 1)]
      OBVIOUS
    <3>3. c \in 0 .. 15 /\ d \in 0 .. 15
      BY <3>1, <3>2, HexDigitValues
    <3>4. b = 16 * c + d
      BY <1>10, <3>2
    <3> QED
      BY <3>3, <3>4
  <2>2. PICK f : f = <<0>>
    OBVIOUS
  <2>3. f \in [1 .. 1 -> Nat] /\ f[1] = 0
    BY <2>2
  <2>4. <<b>> \o f = [j \in 1 .. 1 + 1 |-> IF j = 1 THEN b ELSE f[j - 1]]
    <3>1. PICK m \in Nat : m = 1
      OBVIOUS
    <3>2. f \in [1 .. m -> Nat]
      BY <2>3, <3>1
    <3>3. <<b>> \o f = [j \in 1 .. m + 1 |-> IF j = 1 THEN b ELSE f[j - 1]]
      BY <2>1, <3>2, InFront
    <3> QED
      BY <3>1, <3>3
  <2>5. [j \in 1 .. 1 + 1 |-> IF j = 1 THEN b ELSE f[j - 1]] = <<b, 0>>
    BY <2>3
  <2> QED
    BY <2>2, <2>4, <2>5
<1> QED
  BY <1>7, <1>9, <1>10, <1>11

\* What BytesExact says of a string behind the terminator at f, n characters long.
SpeltFrom(text, f, n, value) ==
  /\ (\A i \in 1 .. n : text[f + i] # "\\") =>
       value = [i \in 1 .. n + 1 |-> IF i > n THEN 0 ELSE Byte[text[f + i]]]
  /\ /\ n > 3 /\ text[f + 1] = "\\" /\ text[f + 2] = "x"
     /\ \A i \in 3 .. n : text[f + i] \in DOMAIN HexValue
     => value = <<16 * HexValue[text[f + n - 1]] + HexValue[text[f + n]], 0>>

Spelt(text, token) ==
  token.kind \in {"string", "char"} =>
    /\ token.from + 2 <= token.to /\ token.to <= Len(text) + 1
    /\ SpeltFrom(text, token.from, token.to - token.from - 2, token.value)

LEMMA StringSpelt ==
  ASSUME source \in Seq(Characters), NEW s \in 1 .. Len(source), NEW t \in Quotes,
         NEW a, a = String(t)[s + 1].at, a # 0, NEW kind, NEW token,
         token = TokenAt(kind, s, a + 1, String(t)[s + 1].bytes)
  PROVE  Spelt(source, token)
<1>1. a \in s + 1 .. Len(source)
  BY StringEnds
<1>2. token.from = s /\ token.to = a + 1 /\ token.value = String(t)[s + 1].bytes
  BY DEF TokenAt
<1>3. PICK n \in Nat : n = a + 1 - s - 2 /\ a = s + n + 1
  BY <1>1
<1>4. \A i \in 1 .. n : source[s + i] = Char(s + i)
  BY <1>1, <1>3 DEF Char
<1>5. ASSUME \A i \in 1 .. n : source[s + i] # "\\"
      PROVE  token.value = [i \in 1 .. n + 1 |-> IF i > n THEN 0 ELSE Byte[source[s + i]]]
  <2>1. \A j \in s + 1 .. a - 1 : Char(j) # "\\"
    <3> TAKE j \in s + 1 .. a - 1
    <3>1. j - s \in 1 .. n /\ s + (j - s) = j
      BY <1>3
    <3> QED
      BY <1>4, <1>5, <3>1
  <2>2. token.value = Plain(s + 1, a)
    BY <1>2, <2>1, PlainStrings
  <2>3. a - (s + 1) = n
    BY <1>3
  <2>4. \A i \in 1 .. n + 1 : ~(i > n) => Byte[Char(s + 1 + i - 1)] = Byte[source[s + i]]
    <3> TAKE i \in 1 .. n + 1
    <3>1. s + 1 + i - 1 = s + i
      OBVIOUS
    <3>2. ~(i > n) => i \in 1 .. n
      OBVIOUS
    <3> QED
      BY <1>4, <3>1, <3>2
  <2> QED
    BY <2>2, <2>3, <2>4 DEF Plain
<1>6. ASSUME n > 3, source[s + 1] = "\\", source[s + 2] = "x",
             \A i \in 3 .. n : source[s + i] \in DOMAIN HexValue
      PROVE  token.value = <<16 * HexValue[source[s + n - 1]] + HexValue[source[s + n]], 0>>
  <2>1. 1 \in 1 .. n /\ 2 \in 1 .. n /\ n - 1 \in 1 .. n /\ n \in 1 .. n
    BY <1>6
  <2>2. Char(s + 1) = "\\" /\ Char((s + 1) + 1) = "x"
    <3>1. (s + 1) + 1 = s + 2
      OBVIOUS
    <3> QED
      BY <1>4, <1>6, <2>1, <3>1
  <2>3. Char(a - 2) = source[s + n - 1] /\ Char(a - 1) = source[s + n]
    <3>1. a - 2 = s + (n - 1) /\ s + (n - 1) = s + n - 1 /\ a - 1 = s + n
      BY <1>3
    <3> QED
      BY <1>4, <2>1, <3>1
  <2>4. \A j \in (s + 1) + 2 .. a - 1 : Char(j) \in DOMAIN HexValue
    <3> TAKE j \in (s + 1) + 2 .. a - 1
    <3>1. j - s \in 3 .. n /\ j - s \in 1 .. n /\ s + (j - s) = j
      BY <1>3
    <3> QED
      BY <1>4, <1>6, <3>1
  <2>5. s + 1 \in 1 .. Len(source) + 2 /\ (s + 1) + 4 <= a
    BY <1>3, <1>6
  <2> QED
    BY <1>2, <2>2, <2>3, <2>4, <2>5, HexStrings
<1>7. /\ token.from + 2 <= token.to /\ token.to <= Len(source) + 1
      /\ token.to - token.from - 2 = n
  <2>1. s + 2 <= a + 1 /\ a + 1 <= Len(source) + 1 /\ a + 1 - s - 2 = n
    BY <1>1, <1>3
  <2> QED
    BY <1>1, <1>2, <2>1
<1>8. SpeltFrom(source, s, n, token.value)
  BY <1>5, <1>6 DEF SpeltFrom
<1>9. SpeltFrom(source, token.from, token.to - token.from - 2, token.value)
  BY <1>2, <1>7, <1>8
<1> QED
  BY <1>7, <1>9 DEF Spelt

-----------------------------------------------------------------------------
(* Comments *)

\* The end of a comment, given those from each later position on.
EndFrom(end, i, level) ==
  IF level = 0 \/ Char(i) = "NUL" THEN i
  ELSE IF Char(i) = "/" /\ Char(i + 1) = "*" THEN end[<<i + 2, level + 1>>]
  ELSE IF Char(i) = "*" /\ Char(i + 1) = "/" THEN end[<<i + 2, level - 1>>]
  ELSE end[<<i + 1, level>>]

\* Where the next round of the loop over a comment is.
Onward(i, level) ==
  IF Char(i) = "/" /\ Char(i + 1) = "*" THEN <<i + 2, level + 1>>
  ELSE IF Char(i) = "*" /\ Char(i + 1) = "/" THEN <<i + 2, level - 1>>
  ELSE <<i + 1, level>>

\* It is further on, and inside the text.
LEMMA OnwardInside ==
  ASSUME source \in Seq(Characters), NEW i \in Nat \ {0}, NEW level \in Nat,
         level # 0, Char(i) # "NUL"
  PROVE  \E j \in i + 1 .. Len(source) + 1, l \in Nat : Onward(i, level) = <<j, l>>
<1>1. i <= Len(source)
  BY CharType
<1>2. CASE Char(i) = "/" /\ Char(i + 1) = "*"
  <2>1. i + 1 <= Len(source)
    BY <1>2, CharType
  <2> QED
    BY <1>2, <2>1 DEF Onward
<1>3. CASE Char(i) = "*" /\ Char(i + 1) = "/"
  <2>1. i + 1 <= Len(source)
    BY <1>3, CharType
  <2> QED
    BY <1>3, <2>1 DEF Onward
<1>4. CASE ~(Char(i) = "/" /\ Char(i + 1) = "*") /\ ~(Char(i) = "*" /\ Char(i + 1) = "/")
  BY <1>1, <1>4 DEF Onward
<1> QED
  BY <1>2, <1>3, <1>4

\* CommentEnd is a function that obeys its own definition.
LEMMA CommentUnfolds ==
  ASSUME source \in Seq(Characters)
  PROVE  CommentEnd =
           [p \in (1 .. Len(source) + 2) \X Nat |-> EndFrom(CommentEnd, p[1], p[2])]
<1> DEFINE N == Len(source) + 2
           Upto(k) == (N - k + 1 .. N) \X Nat
           Solves(g, k) == g = [p \in Upto(k) |-> EndFrom(g, p[1], p[2])]
           Unsolved == {k \in 0 .. N : \A g : ~Solves(g, k)}
<1>0. N \in Nat
  OBVIOUS
<1>1. Unsolved = {}
  <2> SUFFICES ASSUME Unsolved # {} PROVE FALSE
    OBVIOUS
  <2>1. Unsolved \subseteq Nat
    OBVIOUS
  <2>2. PICK k \in Unsolved : \A l \in Unsolved : k <= l
    BY <2>1, LeastExists
  <2>2a. k \in 0 .. N
    OBVIOUS
  <2>3. k # 0
    <3> DEFINE none == [p \in {} |-> 0]
    <3>1. Upto(0) = {}
      BY <1>0
    <3>2. Solves(none, 0)
      BY <3>1
    <3> QED
      BY <3>2
  <2>4. k - 1 \in 0 .. N /\ k - 1 \notin Unsolved
    <3>1. k \in 1 .. N
      BY <1>0, <2>2a, <2>3
    <3>2. k - 1 \in 0 .. N /\ ~(k <= k - 1)
      BY <1>0, <3>1
    <3> HIDE DEF Unsolved
    <3> QED
      BY <2>2, <3>2
  <2>5. PICK g : Solves(g, k - 1)
    BY <2>4
  <2> DEFINE h == [p \in Upto(k) |-> IF p \in Upto(k - 1) THEN g[p] ELSE EndFrom(g, p[1], p[2])]
  <2>6. \A p \in Upto(k) : h[p] = EndFrom(g, p[1], p[2])
    BY <2>5
  <2>7. \A p \in Upto(k) : EndFrom(h, p[1], p[2]) = EndFrom(g, p[1], p[2])
    <3> TAKE p \in Upto(k)
    <3>0. PICK i \in N - k + 1 .. N, level \in Nat : p = <<i, level>>
      OBVIOUS
    <3>1. i \in Nat \ {0} /\ p[1] = i /\ p[2] = level
      BY <3>0, <2>4
    <3>2. CASE level # 0 /\ Char(i) # "NUL"
      <4>1. PICK j \in i + 1 .. Len(source) + 1, l \in Nat : Onward(i, level) = <<j, l>>
        BY <3>1, <3>2, OnwardInside
      <4>2. <<j, l>> \in Upto(k - 1) /\ <<j, l>> \in Upto(k)
        BY <4>1, <2>4, <3>1
      <4>3. h[<<j, l>>] = g[<<j, l>>]
        BY <4>2
      <4> HIDE DEF h, Upto
      <4>4. EndFrom(h, i, level) = h[<<j, l>>] /\ EndFrom(g, i, level) = g[<<j, l>>]
        BY <3>2, <4>1 DEF EndFrom, Onward
      <4> QED
        BY <3>1, <4>3, <4>4
    <3>3. CASE ~(level # 0 /\ Char(i) # "NUL")
      BY <3>1, <3>3 DEF EndFrom
    <3> QED
      BY <3>2, <3>3
  <2>8. h = [p \in Upto(k) |-> EndFrom(h, p[1], p[2])]
    <3>1. \A p \in Upto(k) : h[p] = EndFrom(h, p[1], p[2])
      BY <2>6, <2>7
    <3>2. h = [p \in Upto(k) |-> h[p]]
      OBVIOUS
    <3> HIDE DEF h, Upto
    <3> QED
      BY <3>1, <3>2
  <2> QED
    BY <2>2, <2>8
<1>2. PICK g : Solves(g, N)
  <2>1. N \in 0 .. N
    BY <1>0
  <2> HIDE DEF N, Solves
  <2> QED
    BY <1>1, <2>1
<1>3. Upto(N) = (1 .. Len(source) + 2) \X Nat
  BY <1>0
<1>4. g = [p \in (1 .. Len(source) + 2) \X Nat |-> EndFrom(g, p[1], p[2])]
  BY <1>2, <1>3
<1>5. CommentEnd =
        CHOOSE f : f = [p \in (1 .. Len(source) + 2) \X Nat |-> EndFrom(f, p[1], p[2])]
  BY Zenon DEF CommentEnd, EndFrom
<1> QED
  BY <1>4, <1>5, Zenon

\* A comment ends behind where it began, inside the text.
LEMMA CommentEnds ==
  ASSUME source \in Seq(Characters)
  PROVE  \A i \in 1 .. Len(source) + 1, level \in Nat :
           CommentEnd[<<i, level>>] \in i .. Len(source) + 1
<1> DEFINE N == Len(source) + 1
           Good(i) == \A level \in Nat : CommentEnd[<<i, level>>] \in i .. Len(source) + 1
           Bad == {i \in 1 .. N : ~Good(i)}
<1> SUFFICES ASSUME Bad # {} PROVE FALSE
  OBVIOUS
<1>1. N \in Nat /\ Bad \subseteq 0 .. N
  OBVIOUS
<1>2. PICK i \in Bad : \A j \in Bad : j <= i
  BY <1>1, GreatestExists
<1>3. PICK level \in Nat : CommentEnd[<<i, level>>] \notin i .. Len(source) + 1
  BY <1>2
<1>4. CommentEnd[<<i, level>>] = EndFrom(CommentEnd, i, level)
  <2>1. <<i, level>> \in (1 .. Len(source) + 2) \X Nat
    OBVIOUS
  <2> QED
    BY <2>1, CommentUnfolds
<1>5. CASE level = 0 \/ Char(i) = "NUL"
  BY <1>3, <1>4, <1>5 DEF EndFrom
<1>6. CASE ~(level = 0 \/ Char(i) = "NUL")
  <2>0. i \in Nat \ {0} /\ level # 0 /\ Char(i) # "NUL"
    BY <1>6
  <2>1. PICK j \in i + 1 .. Len(source) + 1, l \in Nat : Onward(i, level) = <<j, l>>
    BY <2>0, OnwardInside
  <2>2. CommentEnd[<<i, level>>] = CommentEnd[<<j, l>>]
    <3>1. PICK end : end = CommentEnd
      OBVIOUS
    <3>2. EndFrom(end, i, level) = end[<<j, l>>]
      BY <2>0, <2>1 DEF EndFrom, Onward
    <3> QED
      BY <1>4, <3>1, <3>2
  <2>3. j \in 1 .. N /\ j \notin Bad
    BY <1>2, <2>1
  <2>4. CommentEnd[<<j, l>>] \in j .. Len(source) + 1
    BY <2>3
  <2> QED
    BY <1>3, <2>1, <2>2, <2>4
<1> QED
  BY <1>5, <1>6

-----------------------------------------------------------------------------
(* The invariant *)

\* A number in front of a second dot.
Back(text, token) ==
  /\ token.kind = "number"
  /\ token.to <= Len(text) /\ text[token.to] = "."
  /\ Dots(token.value) # {}

Inside(token, o) ==
  /\ token.from \in 1 .. o
  /\ token.to \in Nat /\ token.from <= token.to

\* The tokens in front of the offset o, and where l and c say it is.
TokensOK(text, ts, o, l, c) ==
  /\ \E T : ts \in Seq(T)
  /\ \A k \in DOMAIN ts : Inside(ts[k], o) /\ (k > 1 => ts[k - 1].from <= ts[k].from)
  /\ \A k \in DOMAIN ts :
       (\A j \in 1 .. k - 1 : ~Back(text, ts[j])) =>
         Exact(text, ts[k].from, ts[k].line, ts[k].column)
  /\ \A k \in DOMAIN ts : Spelt(text, ts[k])
  /\ (\A j \in DOMAIN ts : ~Back(text, ts[j])) => Exact(text, o, l, c)

Inv ==
  /\ source \in Seq(Characters)
  /\ offset \in 1 .. Len(source) + 1
  /\ line \in Nat /\ column \in Int
  /\ phase \in {"lexing", "done", "stuck"}
  /\ TokensOK(source, tokens, offset, line, column)

\* The invariant says of the tokens what the properties do.
LEMMA InvImplies == Inv => TypeOK /\ LocationsExact /\ BytesExact
<1> SUFFICES ASSUME Inv PROVE TypeOK /\ LocationsExact /\ BytesExact
  OBVIOUS
<1>1. PICK T : tokens \in Seq(T)
  BY DEF Inv, TokensOK
<1>2. \A k \in DOMAIN tokens :
        Inside(tokens[k], offset) /\ (k > 1 => tokens[k - 1].from <= tokens[k].from)
  BY DEF Inv, TokensOK
<1>3. TypeOK
  BY <1>2 DEF TypeOK, Inv, Inside
<1>4. \A k \in DOMAIN tokens : Back(source, tokens[k]) => Backward(k)
  BY <1>2 DEF Back, Backward, Char, Inside
<1>5. \A p \in 1 .. Len(source) + 1 : Breaks(source, p) = {i \in 1 .. p - 1 : Char(i) = "LF"}
  BY DEF Breaks, Char, Inv
<1>6. LocationsExact
  <2> SUFFICES ASSUME NEW k \in DOMAIN tokens, \A j \in 1 .. k - 1 : ~Backward(j)
               PROVE  LET breaks == {i \in 1 .. tokens[k].from - 1 : Char(i) = "LF"}
                      IN  /\ tokens[k].line = 1 + Cardinality(breaks)
                          /\ tokens[k].from - tokens[k].column \in {0} \cup breaks
                          /\ \A i \in breaks : tokens[k].from - tokens[k].column >= i
    BY DEF LocationsExact
  <2>1. \A j \in 1 .. k - 1 : ~Back(source, tokens[j])
    BY <1>1, <1>4
  <2>2. Exact(source, tokens[k].from, tokens[k].line, tokens[k].column)
    BY <2>1 DEF Inv, TokensOK
  <2>3. tokens[k].from \in 1 .. Len(source) + 1
    BY <1>2 DEF Inv, Inside
  <2>4. Breaks(source, tokens[k].from) = {i \in 1 .. tokens[k].from - 1 : Char(i) = "LF"}
    BY <1>5, <2>3
  <2> QED
    BY <2>2, <2>4 DEF Exact
<1>7. BytesExact
  <2> SUFFICES ASSUME NEW k \in DOMAIN tokens, tokens[k].kind \in {"string", "char"}
               PROVE
                 LET inside == Text(tokens[k].from + 1, tokens[k].to - 1)
                     n == Len(inside)
                 IN  /\ "\\" \notin {inside[i] : i \in DOMAIN inside} =>
                          tokens[k].value = [i \in 1 .. n + 1 |-> IF i > n THEN 0 ELSE Byte[inside[i]]]
                     /\ n > 3 /\ inside[1] = "\\" /\ inside[2] = "x"
                          /\ (\A i \in 3 .. n : inside[i] \in DOMAIN HexValue) =>
                          tokens[k].value = <<16 * HexValue[inside[n - 1]] + HexValue[inside[n]], 0>>
    BY Zenon DEF BytesExact
  <2>1. PICK f, e, value : f = tokens[k].from /\ e = tokens[k].to /\ value = tokens[k].value
    OBVIOUS
  <2>2. Spelt(source, tokens[k])
    BY DEF Inv, TokensOK
  <2>3. f \in Nat \ {0} /\ e \in Nat /\ f + 2 <= e /\ e <= Len(source) + 1
    BY <1>2, <2>1, <2>2 DEF Spelt, Inside, Inv
  <2>4. PICK n \in Nat : n = e - f - 2
    BY <2>3
  <2>5. SpeltFrom(source, f, n, value)
    BY <2>1, <2>2, <2>4 DEF Spelt
  <2>6. PICK inside : inside = Text(f + 1, e - 1)
    OBVIOUS
  <2>7. inside = [i \in 1 .. n |-> source[f + i]]
    <3>1. (e - 1) - (f + 1) = n
      BY <2>3, <2>4
    <3>2. \A i \in 1 .. n : Char(f + 1 + i - 1) = source[f + i]
      <4> TAKE i \in 1 .. n
      <4>1. f + 1 + i - 1 = f + i /\ f + i <= Len(source)
        BY <2>3, <2>4
      <4> QED
        BY <4>1 DEF Char
    <3> QED
      BY <2>6, <3>1, <3>2 DEF Text
  <2>8. Len(inside) = n /\ DOMAIN inside = 1 .. n /\ \A i \in 1 .. n : inside[i] = source[f + i]
    BY <2>7
  <2>9. ASSUME "\\" \notin {inside[i] : i \in DOMAIN inside}
        PROVE  value = [i \in 1 .. n + 1 |-> IF i > n THEN 0 ELSE Byte[inside[i]]]
    <3>1. \A i \in 1 .. n : source[f + i] # "\\"
      BY <2>8, <2>9
    <3>2. value = [i \in 1 .. n + 1 |-> IF i > n THEN 0 ELSE Byte[source[f + i]]]
      BY <2>5, <3>1 DEF SpeltFrom
    <3>3. \A i \in 1 .. n + 1 : ~(i > n) => inside[i] = source[f + i]
      BY <2>8
    <3> QED
      BY <3>2, <3>3
  <2>10. ASSUME n > 3, inside[1] = "\\", inside[2] = "x",
                \A i \in 3 .. n : inside[i] \in DOMAIN HexValue
         PROVE  value = <<16 * HexValue[inside[n - 1]] + HexValue[inside[n]], 0>>
    <3>1. source[f + 1] = "\\" /\ source[f + 2] = "x"
      BY <2>8, <2>10
    <3>2. \A i \in 3 .. n : source[f + i] \in DOMAIN HexValue
      BY <2>8, <2>10
    <3>3. value = <<16 * HexValue[source[f + n - 1]] + HexValue[source[f + n]], 0>>
      BY <2>5, <2>10, <3>1, <3>2 DEF SpeltFrom
    <3>4. f + n - 1 = f + (n - 1) /\ n - 1 \in 1 .. n /\ n \in 1 .. n
      BY <2>3, <2>10
    <3> QED
      BY <2>8, <3>3, <3>4
  <2> QED
    BY <2>1, <2>6, <2>8, <2>9, <2>10
<1> QED
  BY <1>3, <1>6, <1>7

LEMMA InitInv == Init => Inv
<1> SUFFICES ASSUME Init PROVE Inv
  OBVIOUS
<1>1. source \in Seq(Characters)
  BY SourcesAssumption DEF Init
<1>2. Exact(source, 1, 1, 1)
  <2>1. Breaks(source, 1) = {}
    BY DEF Breaks
  <2> QED
    BY <2>1, FS_EmptySet DEF Exact
<1>3. <<>> \in Seq({}) /\ DOMAIN <<>> = {}
  OBVIOUS
<1>4. TokensOK(source, <<>>, 1, 1, 1)
  BY <1>2, <1>3 DEF TokensOK
<1> QED
  BY <1>1, <1>4 DEF Init, Inv

-----------------------------------------------------------------------------
(* Rounds *)

\* A token is added.  Unless it is a number in front of a second dot, all it was
\* read from is behind it.
LEMMA Emitting ==
  ASSUME Inv, NEW s \in offset .. Len(source) + 1, NEW e \in s .. Len(source) + 1, NEW kind, NEW value,
         NEW o \in s .. Len(source) + 1,
         o = e \/ (kind = "number" /\ e <= Len(source) /\ source[e] = "." /\ Dots(value) # {}),
         tokens' = Append(tokens, TokenAt(kind, s, e, value)), offset' = o,
         source' = source, line' = Line(e), column' = Column(e), phase' \in {"lexing", "done"},
         Spelt(source, TokenAt(kind, s, e, value))
  PROVE  Inv'
<1>1. s \in offset .. Len(source) + 1
  OBVIOUS
<1>2. PICK T : tokens \in Seq(T)
  BY DEF Inv, TokensOK
<1>3. PICK t : t = TokenAt(kind, s, e, value)
  OBVIOUS
<1>4. /\ t.kind = kind /\ t.from = s /\ t.to = e /\ t.value = value
      /\ t.line = Line(s) /\ t.column = Column(s)
  BY <1>3 DEF TokenAt
<1>5. PICK n \in Nat : n = Len(tokens)
  BY <1>2
<1>6. /\ tokens' \in Seq(T \cup {t})
      /\ DOMAIN tokens = 1 .. n
      /\ DOMAIN tokens' = 1 .. n + 1
      /\ \A k \in 1 .. n : tokens'[k] = tokens[k]
      /\ tokens'[n + 1] = t
  BY <1>2, <1>3, <1>5
<1>7. /\ Line(e) \in Nat /\ Column(e) \in Int
      /\ Exact(source, offset, line, column) =>
           Exact(source, e, Line(e), Column(e)) /\ Exact(source, s, Line(s), Column(s))
  BY <1>1, ReadingExact DEF Inv
<1>8. \A k \in 1 .. n : Inside(tokens[k], offset) /\ (k > 1 => tokens[k - 1].from <= tokens[k].from)
  BY <1>6 DEF Inv, TokensOK
<1>9. \A k \in 1 .. n + 1 :
        Inside(tokens'[k], o) /\ (k > 1 => tokens'[k - 1].from <= tokens'[k].from)
  <2>1. \A k \in 1 .. n : Inside(tokens[k], o) /\ tokens[k].from <= s
    BY <1>1, <1>8 DEF Inside, Inv
  <2>2. Inside(t, o)
    BY <1>1, <1>4 DEF Inside, Inv
  <2> TAKE k \in 1 .. n + 1
  <2>3. CASE k \in 1 .. n
    <3>1. k > 1 => k - 1 \in 1 .. n
      BY <2>3
    <3> QED
      BY <1>6, <1>8, <2>1, <2>3, <3>1
  <2>4. CASE k = n + 1
    <3>1. k > 1 => k - 1 \in 1 .. n
      BY <2>4
    <3> QED
      BY <1>4, <1>6, <2>1, <2>2, <2>4, <3>1
  <2>5. k \in 1 .. n \/ k = n + 1
    OBVIOUS
  <2> QED
    BY <2>3, <2>4, <2>5
<1>10. \A k \in 1 .. n + 1 :
         (\A j \in 1 .. k - 1 : ~Back(source, tokens'[j])) =>
           Exact(source, tokens'[k].from, tokens'[k].line, tokens'[k].column)
  <2> SUFFICES ASSUME NEW k \in 1 .. n + 1, \A j \in 1 .. k - 1 : ~Back(source, tokens'[j])
               PROVE  Exact(source, tokens'[k].from, tokens'[k].line, tokens'[k].column)
    OBVIOUS
  <2>1. \A j \in 1 .. k - 1 : j \in 1 .. n /\ ~Back(source, tokens[j])
    BY <1>6
  <2>2. CASE k \in 1 .. n
    <3>1. Exact(source, tokens[k].from, tokens[k].line, tokens[k].column)
      BY <1>6, <2>1, <2>2 DEF Inv, TokensOK
    <3> QED
      BY <1>6, <2>2, <3>1
  <2>3. CASE k = n + 1
    <3>1. \A j \in 1 .. n : ~Back(source, tokens[j])
      BY <2>1, <2>3
    <3>2. Exact(source, offset, line, column)
      BY <1>6, <3>1 DEF Inv, TokensOK
    <3> QED
      BY <1>4, <1>6, <1>7, <2>3, <3>2
  <2>4. k \in 1 .. n \/ k = n + 1
    OBVIOUS
  <2> QED
    BY <2>2, <2>3, <2>4
<1>11. (\A j \in 1 .. n + 1 : ~Back(source, tokens'[j])) => Exact(source, o, Line(e), Column(e))
  <2> SUFFICES ASSUME \A j \in 1 .. n + 1 : ~Back(source, tokens'[j])
               PROVE  Exact(source, o, Line(e), Column(e))
    OBVIOUS
  <2>1. ~Back(source, t) /\ \A j \in 1 .. n : ~Back(source, tokens[j])
    BY <1>6
  <2>2. Exact(source, offset, line, column)
    BY <1>6, <2>1 DEF Inv, TokensOK
  <2>3. o = e
    BY <1>4, <2>1 DEF Back
  <2> QED
    BY <1>7, <2>2, <2>3
<1>12. \A k \in 1 .. n + 1 : Spelt(source, tokens'[k])
  <2>1. \A k \in 1 .. n : Spelt(source, tokens[k])
    BY <1>6 DEF Inv, TokensOK
  <2>2. \A k \in 1 .. n + 1 : k \in 1 .. n \/ k = n + 1
    OBVIOUS
  <2> QED
    BY <1>3, <1>6, <2>1, <2>2
<1>13. TokensOK(source, tokens', o, Line(e), Column(e))
  BY <1>6, <1>9, <1>10, <1>11, <1>12 DEF TokensOK
<1>14. o \in 1 .. Len(source) + 1
  BY <1>1 DEF Inv
<1> QED
  BY <1>7, <1>13, <1>14 DEF Inv

\* What is no string spells nothing.
LEMMA SpeltOthers ==
  ASSUME NEW kind \in {"keyword", "identifier", "number", "operator", "none", "EOF"}
  PROVE  \A s, e, value : Spelt(source, TokenAt(kind, s, e, value))
BY DEF Spelt, TokenAt

LEMMA EmitsKeeps ==
  ASSUME Inv, phase = "lexing", NEW e, e \in Start .. Len(source) + 1, NEW kind, NEW value,
         Emits(kind, e, value),
         \/ kind \in {"keyword", "identifier", "number", "operator", "none", "EOF"}
         \/ Spelt(source, TokenAt(kind, Start, e, value))
  PROVE  Inv'
<1>1. PICK s : s = Start
  OBVIOUS
<1>2. s \in offset .. Len(source) + 1 /\ s \in Nat /\ e \in s .. Len(source) + 1
  BY <1>1, PastStops DEF Inv, Start
<1>3. /\ tokens' = Append(tokens, TokenAt(kind, s, e, value)) /\ offset' = e
      /\ source' = source /\ line' = Line(e) /\ column' = Column(e) /\ phase' = "lexing"
  BY <1>1 DEF Emits, Reads
<1> QED
  BY <1>1, <1>2, <1>3, Emitting, SpeltOthers

\* A comment is read, and no token added.
LEMMA SkipsKeeps ==
  ASSUME Inv, NEW e, e \in Start .. Len(source) + 1, Skips(e)
  PROVE  Inv'
<1>1. Start \in offset .. Len(source) + 1
  BY PastStops DEF Inv, Start
<1>2. e \in offset .. Len(source) + 1
  BY <1>1 DEF Inv
<1>3. /\ Line(e) \in Nat /\ Column(e) \in Int
      /\ Exact(source, offset, line, column) => Exact(source, e, Line(e), Column(e))
  BY <1>2, ReadingExact DEF Inv
<1>4. TokensOK(source, tokens, e, Line(e), Column(e))
  <2>1. \A k \in DOMAIN tokens : Inside(tokens[k], e)
    BY <1>2 DEF Inv, TokensOK, Inside
  <2> QED
    BY <1>3, <2>1 DEF Inv, TokensOK
<1>5. /\ source' = source /\ phase' = phase /\ line' = Line(e) /\ column' = Column(e)
      /\ offset' = e /\ tokens' = tokens
  BY DEF Skips, Reads
<1> QED
  BY <1>2, <1>3, <1>4, <1>5 DEF Inv

\* White space ends inside the text, and a round that is for a character has one.
LEMMA StartInside ==
  ASSUME Inv
  PROVE  /\ Start \in 1 .. Len(source) + 1
         /\ \A S : Round(S) /\ "NUL" \notin S => Start \in 1 .. Len(source)
<1>1. Start \in 1 .. Len(source) + 1
  BY PastStops DEF Inv, Start
<1>2. Char(Start) # "NUL" => Start <= Len(source)
  BY <1>1, CharType DEF Inv
<1> QED
  BY <1>1, <1>2 DEF Round, Inv

\* An operator ends inside the text.
LEMMA OperatorEnds ==
  ASSUME source \in Seq(Characters), NEW s \in 1 .. Len(source)
  PROVE  Operator(s) \in s .. Len(source) + 1
<1>1. Char(s + 1) # "NUL" => s + 1 <= Len(source)
  BY CharType
<1>2. Char(s + 2) # "NUL" => s + 2 <= Len(source)
  BY CharType
<1>3. Char(s + 1) = "=" \/ Char(s + 1) = "." \/ Char(s + 1) \in MaybeDouble => s + 1 <= Len(source)
  BY <1>1 DEF MaybeDouble
<1>4. Char(s + 2) = "=" => s + 2 <= Len(source)
  BY <1>2
<1>5. CASE Operator(s) = s + 1
  BY <1>5
<1>6. CASE Operator(s) = s + 2 /\ s + 1 <= Len(source)
  BY <1>6
<1>7. CASE Operator(s) = s + 3 /\ s + 2 <= Len(source)
  BY <1>7
<1>8. \/ Operator(s) = s + 1
      \/ Operator(s) = s + 2 /\ s + 1 <= Len(source)
      \/ Operator(s) = s + 3 /\ s + 2 <= Len(source)
  BY <1>3, <1>4 DEF Operator
<1> QED
  BY <1>5, <1>6, <1>7, <1>8

LEMMA IdentifierKeeps == Inv /\ lexer_build_identifier => Inv'
<1> SUFFICES ASSUME Inv, lexer_build_identifier PROVE Inv'
  OBVIOUS
<1>0. phase = "lexing"
  BY DEF lexer_build_identifier, Round
<1>1. PICK e : e = Past(Start, Letters \cup Digits)
  OBVIOUS
<1>2. e \in Start .. Len(source) + 1
  BY <1>1, StartInside, PastStops DEF Inv
<1>3. PICK kind, value : kind \in {"keyword", "identifier"} /\ Emits(kind, e, value)
  BY <1>1 DEF lexer_build_identifier
<1> QED
  BY <1>0, <1>2, <1>3, EmitsKeeps

LEMMA NumberKeeps == Inv /\ lexer_build_number => Inv'
<1> SUFFICES ASSUME Inv, lexer_build_number PROVE Inv'
  OBVIOUS
<1>0. phase = "lexing"
  BY DEF lexer_build_number, Round
<1>1. PICK s : s = Start
  OBVIOUS
<1>2. s \in 1 .. Len(source) /\ Char(s) \in Digits
  BY <1>1, StartInside DEF lexer_build_number, Round, Digits
<1>3. PICK dot : dot = Past(s, Digits)
  OBVIOUS
<1>4. dot \in s + 1 .. Len(source) + 1
  BY <1>2, <1>3, PastStops DEF Inv
<1>5. PICK e : e = IF Char(dot) = "." THEN Past(dot + 1, Digits) ELSE dot
  OBVIOUS
<1>6. /\ e \in dot .. Len(source) + 1
      /\ e > dot => Char(dot) = "."
  <2>1. CASE Char(dot) = "."
    <3>1. dot <= Len(source)
      BY <1>4, <2>1, CharType DEF Inv
    <3>2. dot + 1 \in 1 .. Len(source) + 1
      BY <1>2, <1>4, <3>1
    <3> QED
      BY <1>4, <1>5, <2>1, <3>2, PastStops DEF Inv
  <2>2. CASE Char(dot) # "."
    BY <1>4, <1>5, <2>2
  <2> QED
    BY <2>1, <2>2
<1>7. PICK value : value = Text(s, e)
  OBVIOUS
<1>8. CASE e > dot /\ Char(e) = "."
  <2>1. /\ tokens' = Append(tokens, TokenAt("number", s, e, value))
        /\ offset' = e - 1
        /\ source' = source /\ line' = Line(e) /\ column' = Column(e) /\ phase' = "lexing"
    BY <1>1, <1>3, <1>5, <1>7, <1>8 DEF lexer_build_number, Reads, Round
  <2>2. e <= Len(source) /\ source[e] = "."
    BY <1>4, <1>6, <1>8, CharType DEF Char, Inv
  <2>3. Dots(value) # {}
    <3>1. dot - s + 1 \in 1 .. e - s
      BY <1>2, <1>4, <1>6, <1>8
    <3>2. value[dot - s + 1] = "."
      <4>1. s + (dot - s + 1) - 1 = dot
        BY <1>2, <1>4
      <4> QED
        BY <1>6, <1>7, <1>8, <3>1, <4>1 DEF Text
    <3>3. DOMAIN value = 1 .. e - s
      BY <1>7 DEF Text
    <3> QED
      BY <3>1, <3>2, <3>3 DEF Dots
  <2>4. PICK o : o = e - 1
    OBVIOUS
  <2>5. o \in s .. Len(source) + 1 /\ e \in s .. Len(source) + 1
    BY <1>2, <1>4, <1>6, <1>8, <2>4
  <2>6. s \in offset .. Len(source) + 1
    BY <1>1, PastStops DEF Inv, Start
  <2> QED
    BY <2>1, <2>2, <2>3, <2>4, <2>5, <2>6, Emitting, SpeltOthers
<1>9. CASE ~(e > dot /\ Char(e) = ".")
  <2>1. Emits("number", e, value)
    BY <1>1, <1>3, <1>5, <1>7, <1>9 DEF lexer_build_number
  <2>2. e \in Start .. Len(source) + 1
    BY <1>1, <1>2, <1>4, <1>6
  <2> QED
    BY <1>0, <2>1, <2>2, EmitsKeeps
<1> QED
  BY <1>8, <1>9

LEMMA StringKeeps == Inv /\ lexer_build_string_or_char => Inv'
<1> SUFFICES ASSUME Inv, lexer_build_string_or_char PROVE Inv'
  OBVIOUS
<1>0. phase = "lexing"
  BY DEF lexer_build_string_or_char, Round
<1>1. PICK s : s = Start
  OBVIOUS
<1>2. s \in 1 .. Len(source)
  BY <1>1, StartInside DEF lexer_build_string_or_char, Quotes
<1>3. PICK string : string = String(Char(Start))[Start + 1]
  OBVIOUS
<1>4. string.at \in {0} \cup (s + 1 .. Len(source))
  <2>1. PICK t : t = Char(Start)
    OBVIOUS
  <2>2. s + 1 \in 1 .. Len(source) + 2
    BY <1>2
  <2> QED
    BY <1>1, <1>3, <2>1, <2>2, StringEnds DEF Inv
<1>5. PICK e, value : e = string.at + 1 /\ value = string.bytes
  OBVIOUS
<1>6. string.at # 0
  BY <1>3 DEF lexer_build_string_or_char
<1>7. e \in Start .. Len(source) + 1
  BY <1>1, <1>2, <1>4, <1>5, <1>6
<1>8. PICK kind \in {"string", "char"} : Emits(kind, e, value)
  BY <1>3, <1>5 DEF lexer_build_string_or_char
<1>9. Spelt(source, TokenAt(kind, Start, e, value))
  <2>1. PICK t \in Quotes : t = Char(Start)
    BY DEF lexer_build_string_or_char, Round
  <2>2. PICK a : a = String(t)[s + 1].at
    OBVIOUS
  <2>3. PICK token : token = TokenAt(kind, s, a + 1, String(t)[s + 1].bytes)
    OBVIOUS
  <2>4. Spelt(source, token)
    BY <1>1, <1>2, <1>3, <1>6, <2>1, <2>2, <2>3, StringSpelt DEF Inv
  <2> QED
    BY <1>1, <1>3, <1>5, <2>1, <2>2, <2>3, <2>4
<1> QED
  BY <1>0, <1>7, <1>8, <1>9, EmitsKeeps

LEMMA ForeverKeeps == Inv /\ lexer_build_string_forever => Inv'
BY DEF Inv, lexer_build_string_forever

LEMMA OperatorKeeps == Inv /\ lexer_build_operator => Inv'
<1> SUFFICES ASSUME Inv, lexer_build_operator PROVE Inv'
  OBVIOUS
<1>0. phase = "lexing"
  BY DEF lexer_build_operator, Round
<1>1. PICK s : s = Start
  OBVIOUS
<1>2. s \in 1 .. Len(source)
  BY <1>1, StartInside DEF lexer_build_operator, MaybeEqual, MaybeDouble, Single
<1>3. PICK e : e = Operator(s)
  OBVIOUS
<1>4. e \in Start .. Len(source) + 1
  BY <1>1, <1>2, <1>3, OperatorEnds DEF Inv
<1>5. PICK value : Emits("operator", e, value)
  BY <1>1, <1>3 DEF lexer_build_operator
<1> QED
  BY <1>0, <1>4, <1>5, EmitsKeeps

LEMMA NothingKeeps == Inv /\ lexer_build_nothing => Inv'
<1> SUFFICES ASSUME Inv, lexer_build_nothing PROVE Inv'
  OBVIOUS
<1>0. phase = "lexing"
  BY DEF lexer_build_nothing, Round
<1>1. PICK e : e = Start + 1
  OBVIOUS
<1>2. e \in Start .. Len(source) + 1
  BY <1>1, StartInside DEF lexer_build_nothing, Unknown, Inv
<1>3. Emits("none", e, <<>>)
  BY <1>1 DEF lexer_build_nothing
<1> QED
  BY <1>0, <1>2, <1>3, EmitsKeeps

LEMMA CommentKeeps == Inv /\ lexer_skip_comment => Inv'
<1> SUFFICES ASSUME Inv, lexer_skip_comment PROVE Inv'
  OBVIOUS
<1>1. PICK s : s = Start
  OBVIOUS
<1>2. s + 1 <= Len(source) /\ s \in Nat
  BY <1>1, StartInside, CharType DEF lexer_skip_comment, Inv
<1>3. PICK S : S = Characters \ {"NUL", "CR", "LF"}
  OBVIOUS
<1>4. PICK e : e = Past(s + 2, S)
  OBVIOUS
<1>5. e \in s + 2 .. Len(source) + 1
  BY <1>2, <1>4, PastStops DEF Inv
<1>6. Skips(e)
  BY <1>1, <1>3, <1>4 DEF lexer_skip_comment, To
<1>7. e \in Start .. Len(source) + 1
  BY <1>1, <1>2, <1>5
<1> QED
  BY <1>6, <1>7, SkipsKeeps

LEMMA MultilineKeeps == Inv /\ lexer_skip_multiline_comment => Inv'
<1> SUFFICES ASSUME Inv, lexer_skip_multiline_comment PROVE Inv'
  OBVIOUS
<1>1. PICK s : s = Start
  OBVIOUS
<1>2. s + 1 <= Len(source) /\ s \in Nat
  BY <1>1, StartInside, CharType DEF lexer_skip_multiline_comment, Inv
<1>3. PICK e : e = CommentEnd[<<s + 2, 1>>]
  OBVIOUS
<1>4. e \in s + 2 .. Len(source) + 1
  BY <1>2, <1>3, CommentEnds DEF Inv
<1>5. Skips(e)
  BY <1>1, <1>3 DEF lexer_skip_multiline_comment
<1>6. e \in Start .. Len(source) + 1
  BY <1>1, <1>2, <1>4
<1> QED
  BY <1>5, <1>6, SkipsKeeps

LEMMA AtEndKeeps == Inv /\ lexer_at_end => Inv'
<1> SUFFICES ASSUME Inv, lexer_at_end PROVE Inv'
  OBVIOUS
<1>0. phase = "lexing"
  BY DEF lexer_at_end, Round
<1>1. PICK e : e = IF Start <= Len(source) THEN Start + 1 ELSE Start
  OBVIOUS
<1>2. e \in Start .. Len(source) + 1
  BY <1>1, StartInside DEF Inv
<1>3. Emits("EOF", e, <<>>)
  BY <1>1 DEF lexer_at_end
<1> QED
  BY <1>0, <1>2, <1>3, EmitsKeeps

LEMMA TokenizeKeeps == Inv /\ lexer_tokenize => Inv'
<1> SUFFICES ASSUME Inv, lexer_tokenize PROVE Inv'
  OBVIOUS
<1>1. PICK o : o = offset
  OBVIOUS
<1>2. o \in offset .. Len(source) + 1 /\ o \in o .. Len(source) + 1
  BY <1>1 DEF Inv
<1>3. {i \in offset .. o - 1 : Char(i) = "LF"} = {}
  BY <1>1, <1>2 DEF Inv
<1>4. line = Line(o) /\ column = Column(o)
  <2>1. Cardinality({}) = 0
    BY FS_EmptySet
  <2>2. Line(o) = line + Cardinality({})
    BY <1>3 DEF Line
  <2>3. Column(o) = column + (o - offset)
    BY <1>3 DEF Column
  <2> QED
    BY <1>1, <2>1, <2>2, <2>3 DEF Inv
<1>5. /\ tokens' = Append(tokens, TokenAt("EOF", o, o, <<>>)) /\ offset' = o
      /\ source' = source /\ line' = Line(o) /\ column' = Column(o) /\ phase' = "done"
  BY <1>1, <1>4 DEF lexer_tokenize
<1> QED
  BY <1>2, <1>5, Emitting, SpeltOthers

\* Every round keeps the invariant.
LEMMA NextInv == Inv /\ [Next]_vars => Inv'
<1> SUFFICES ASSUME Inv, [Next]_vars PROVE Inv'
  OBVIOUS
<1>1. CASE UNCHANGED vars
  BY <1>1 DEF Inv, vars
<1>2. CASE Next
  BY <1>2, IdentifierKeeps, NumberKeeps, StringKeeps, ForeverKeeps, OperatorKeeps, NothingKeeps,
     CommentKeeps, MultilineKeeps, AtEndKeeps, TokenizeKeeps DEF Next
<1> QED
  BY <1>1, <1>2

-----------------------------------------------------------------------------
(* The insides of comments *)

\* The insides from s on, given those from each later place on.
InsideFrom(ends, s) ==
  {s}
  \cup (IF Pair(s) \in {Opening, Closing} \/ Char(s) = "NUL" THEN {} ELSE ends[s + 1])
  \cup (IF Pair(s) # Opening THEN {}
        ELSE UNION {ends[m + 2] : m \in {n \in s + 2 .. Len(source) - 1 :
                                          n \in ends[s + 2] /\ Pair(n) = Closing}})

\* A mark is two characters, and behind it there is a place of the text.
LEMMA MarksInside ==
  ASSUME source \in Seq(Characters), NEW i \in Nat \ {0}
  PROVE  /\ Pair(i) = Opening <=> Char(i) = "/" /\ Char(i + 1) = "*"
         /\ Pair(i) = Closing <=> Char(i) = "*" /\ Char(i + 1) = "/"
         /\ Pair(i) \in {Opening, Closing} => i + 1 <= Len(source)
<1>1. Pair(i) = Opening <=> Char(i) = "/" /\ Char(i + 1) = "*"
  BY DEF Pair, Opening
<1>2. Pair(i) = Closing <=> Char(i) = "*" /\ Char(i + 1) = "/"
  BY DEF Pair, Closing
<1>3. Char(i + 1) # "NUL" => i + 1 <= Len(source)
  BY CharType
<1> QED
  BY <1>1, <1>2, <1>3

\* Insides is a function that obeys its own definition.
LEMMA InsidesUnfolds ==
  ASSUME source \in Seq(Characters)
  PROVE  Insides = [s \in 1 .. Len(source) + 1 |-> InsideFrom(Insides, s)]
<1> DEFINE N == Len(source) + 1
           Upto(k) == N - k + 1 .. N
           Solves(g, k) == g = [i \in Upto(k) |-> InsideFrom(g, i)]
           Unsolved == {k \in 0 .. N : \A g : ~Solves(g, k)}
<1>0. N \in Nat
  OBVIOUS
<1>1. Unsolved = {}
  <2> SUFFICES ASSUME Unsolved # {} PROVE FALSE
    OBVIOUS
  <2>1. Unsolved \subseteq Nat
    OBVIOUS
  <2>2. PICK k \in Unsolved : \A l \in Unsolved : k <= l
    BY <2>1, LeastExists
  <2>2a. k \in 0 .. N
    OBVIOUS
  <2>3. k # 0
    <3> DEFINE none == [i \in {} |-> 0]
    <3>1. Solves(none, 0)
      BY <1>0
    <3> QED
      BY <3>1
  <2>4. k - 1 \in 0 .. N /\ k - 1 \notin Unsolved
    <3>1. k \in 1 .. N
      BY <1>0, <2>2a, <2>3
    <3>2. k - 1 \in 0 .. N /\ ~(k <= k - 1)
      BY <1>0, <3>1
    <3> HIDE DEF Unsolved
    <3> QED
      BY <2>2, <3>2
  <2>5. PICK g : Solves(g, k - 1)
    BY <2>4
  <2> DEFINE h == [i \in Upto(k) |-> IF i \in Upto(k - 1) THEN g[i] ELSE InsideFrom(g, i)]
  <2>6. \A i \in Upto(k) : h[i] = InsideFrom(g, i)
    BY <2>5
  <2>7. \A i \in Upto(k) : InsideFrom(h, i) = InsideFrom(g, i)
    <3> TAKE i \in Upto(k)
    <3>0. i \in Nat \ {0} /\ i \in 1 .. N
      BY <1>0, <2>2a
    <3>1. \A j \in i + 1 .. N : h[j] = g[j]
      <4>1. \A j \in i + 1 .. N : j \in Upto(k) /\ j \in Upto(k - 1)
        BY <1>0, <2>2a, <3>0
      <4> QED
        BY <4>1
    <3> HIDE DEF h
    <3>2. Char(i) # "NUL" => h[i + 1] = g[i + 1]
      BY <3>0, <3>1, CharType
    <3>3. Pair(i) = Opening => h[i + 2] = g[i + 2]
      BY <3>0, <3>1, MarksInside
    <3>4. Pair(i) = Opening => \A m \in i + 2 .. Len(source) - 1 : h[m + 2] = g[m + 2]
      BY <3>0, <3>1
    <3>5. CASE Pair(i) # Opening
      BY <3>2, <3>5 DEF InsideFrom
    <3>6. CASE Pair(i) = Opening
      <4>1. {n \in i + 2 .. Len(source) - 1 : n \in h[i + 2] /\ Pair(n) = Closing}
              = {n \in i + 2 .. Len(source) - 1 : n \in g[i + 2] /\ Pair(n) = Closing}
        BY <3>3, <3>6
      <4>2. PICK M : M = {n \in i + 2 .. Len(source) - 1 : n \in h[i + 2] /\ Pair(n) = Closing}
        OBVIOUS
      <4>3. {h[m + 2] : m \in M} = {g[m + 2] : m \in M}
        BY <3>4, <3>6, <4>2
      <4>4. InsideFrom(h, i) = {i} \cup UNION {h[m + 2] : m \in M}
        BY <3>6, <4>2 DEF InsideFrom
      <4>5. InsideFrom(g, i) = {i} \cup UNION {g[m + 2] : m \in M}
        BY <3>6, <4>1, <4>2 DEF InsideFrom
      <4> QED
        BY <4>3, <4>4, <4>5
    <3> QED
      BY <3>5, <3>6
  <2>8. h = [i \in Upto(k) |-> InsideFrom(h, i)]
    <3>1. \A i \in Upto(k) : h[i] = InsideFrom(h, i)
      BY <2>6, <2>7
    <3>2. h = [i \in Upto(k) |-> h[i]]
      OBVIOUS
    <3> HIDE DEF h, Upto
    <3> QED
      BY <3>1, <3>2
  <2> QED
    BY <2>2, <2>8
<1>2. PICK g : Solves(g, N)
  <2>1. N \in 0 .. N
    BY <1>0
  <2> HIDE DEF N, Solves
  <2> QED
    BY <1>1, <2>1
<1>3. Upto(N) = 1 .. Len(source) + 1
  BY <1>0
<1>4. g = [i \in 1 .. Len(source) + 1 |-> InsideFrom(g, i)]
  BY <1>2, <1>3
<1>5. Insides = CHOOSE f : f = [i \in 1 .. Len(source) + 1 |-> InsideFrom(f, i)]
  BY Zenon DEF Insides, InsideFrom
<1> QED
  BY <1>4, <1>5, Zenon

\* Where CommentEnd leads in one round.
LEMMA EndStep ==
  ASSUME source \in Seq(Characters), NEW i \in 1 .. Len(source) + 1, NEW level \in Nat \ {0}
  PROVE  /\ CommentEnd[<<i, 0>>] = i
         /\ Char(i) = "NUL" => CommentEnd[<<i, level>>] = i
         /\ Char(i) # "NUL" /\ Pair(i) \notin {Opening, Closing} =>
              CommentEnd[<<i, level>>] = CommentEnd[<<i + 1, level>>]
         /\ Pair(i) = Opening => CommentEnd[<<i, level>>] = CommentEnd[<<i + 2, level + 1>>]
         /\ Pair(i) = Closing => CommentEnd[<<i, level>>] = CommentEnd[<<i + 2, level - 1>>]
<1>1. PICK end : end = CommentEnd
  OBVIOUS
<1>2. end = [p \in (1 .. Len(source) + 2) \X Nat |-> EndFrom(end, p[1], p[2])]
  BY <1>1, CommentUnfolds
<1>3. \A l \in Nat : end[<<i, l>>] = EndFrom(end, i, l)
  BY <1>2
<1>4. /\ Pair(i) = Opening <=> Char(i) = "/" /\ Char(i + 1) = "*"
      /\ Pair(i) = Closing <=> Char(i) = "*" /\ Char(i + 1) = "/"
      /\ Pair(i) \in {Opening, Closing} => i + 1 <= Len(source)
  BY MarksInside
<1>5. end[<<i, 0>>] = i
  BY <1>3 DEF EndFrom
<1>6. end[<<i, level>>] = EndFrom(end, i, level) /\ level # 0
  BY <1>3
<1> QED
  BY <1>1, <1>4, <1>5, <1>6 DEF EndFrom

\* A list of the ends that an inside has, and the two longer ones it is made of.
LEMMA InsideStep ==
  ASSUME source \in Seq(Characters), NEW i \in 1 .. Len(source) + 1
  PROVE  /\ i \in Insides[i]
         /\ Char(i) # "NUL" /\ Pair(i) \notin {Opening, Closing} =>
              Insides[i] = {i} \cup Insides[i + 1]
         /\ Pair(i) # Opening /\ (Char(i) = "NUL" \/ Pair(i) = Closing) => Insides[i] = {i}
         /\ Pair(i) = Opening =>
              Insides[i] = {i} \cup UNION {Insides[m + 2] : m \in
                             {n \in i + 2 .. Len(source) - 1 : n \in Insides[i + 2] /\ Pair(n) = Closing}}
<1>1. PICK ends : ends = Insides
  OBVIOUS
<1>2. ends[i] = InsideFrom(ends, i)
  BY <1>1, InsidesUnfolds
<1>3. PICK U : U = UNION {ends[m + 2] : m \in
                            {n \in i + 2 .. Len(source) - 1 : n \in ends[i + 2] /\ Pair(n) = Closing}}
  OBVIOUS
<1>4. ends[i] = {i} \cup (IF Pair(i) \in {Opening, Closing} \/ Char(i) = "NUL" THEN {} ELSE ends[i + 1])
                    \cup (IF Pair(i) # Opening THEN {} ELSE U)
  BY <1>2, <1>3 DEF InsideFrom
<1>5. i \in ends[i]
  BY <1>4
<1>6. Char(i) # "NUL" /\ Pair(i) \notin {Opening, Closing} => ends[i] = {i} \cup ends[i + 1]
  BY <1>4
<1>7. Pair(i) # Opening /\ (Char(i) = "NUL" \/ Pair(i) = Closing) => ends[i] = {i}
  BY <1>4
<1>8. Pair(i) = Opening => ends[i] = {i} \cup U
  BY <1>4
<1> QED
  BY <1>1, <1>3, <1>5, <1>6, <1>7, <1>8

\* Over an inside CommentEnd goes from its beginning to its end, and keeps the level.
LEMMA InsideKeepsLevel ==
  ASSUME source \in Seq(Characters)
  PROVE  \A i \in 1 .. Len(source) + 1 : \A e \in Insides[i] :
           /\ e \in i .. Len(source) + 1
           /\ \A l \in Nat \ {0} : CommentEnd[<<i, l>>] = CommentEnd[<<e, l>>]
<1> DEFINE N == Len(source) + 1
           Keeps(i, e) == /\ e \in i .. Len(source) + 1
                          /\ \A l \in Nat \ {0} : CommentEnd[<<i, l>>] = CommentEnd[<<e, l>>]
           Good(i) == \A e \in Insides[i] : Keeps(i, e)
           Bad == {i \in 1 .. N : ~Good(i)}
<1> SUFFICES ASSUME Bad # {} PROVE FALSE
  OBVIOUS
<1>1. N \in Nat /\ Bad \subseteq 0 .. N
  OBVIOUS
<1>2. PICK i \in Bad : \A j \in Bad : j <= i
  BY <1>1, GreatestExists
<1>3. i \in 1 .. N /\ \A j \in i + 1 .. N : Good(j)
  BY <1>2
<1>4. PICK e \in Insides[i] : ~Keeps(i, e)
  BY <1>2
<1>5. e # i
  BY <1>3, <1>4
<1>6. CASE Char(i) # "NUL" /\ Pair(i) \notin {Opening, Closing}
  <2>1. e \in Insides[i + 1]
    BY <1>3, <1>4, <1>5, <1>6, InsideStep
  <2>2. i + 1 \in i + 1 .. N
    BY <1>3, <1>6, CharType
  <2>3. Keeps(i + 1, e)
    BY <1>3, <2>1, <2>2
  <2>4. \A l \in Nat \ {0} : CommentEnd[<<i, l>>] = CommentEnd[<<i + 1, l>>]
    BY <1>3, <1>6, EndStep
  <2>5. \A l \in Nat \ {0} : CommentEnd[<<i, l>>] = CommentEnd[<<e, l>>]
    BY <2>3, <2>4
  <2>6. e \in i .. N
    BY <1>3, <2>2, <2>3
  <2> QED
    BY <1>4, <2>5, <2>6
<1>7. CASE Pair(i) = Opening
  <2>0. PICK M, U : /\ M = {n \in i + 2 .. Len(source) - 1 : n \in Insides[i + 2] /\ Pair(n) = Closing}
                    /\ U = {Insides[m + 2] : m \in M}
    OBVIOUS
  <2>0a. Insides[i] = {i} \cup UNION U
    BY <1>3, <1>7, <2>0, InsideStep
  <2>0b. PICK m \in M : e \in Insides[m + 2]
    BY <1>4, <1>5, <2>0, <2>0a
  <2>1. /\ m \in i + 2 .. Len(source) - 1
        /\ m \in Insides[i + 2] /\ Pair(m) = Closing /\ e \in Insides[m + 2]
    BY <2>0, <2>0b
  <2>2. i + 2 \in i + 1 .. N /\ m + 2 \in i + 1 .. N /\ m \in 1 .. N
    BY <1>3, <2>1
  <2>3. Keeps(i + 2, m) /\ Keeps(m + 2, e)
    BY <1>3, <2>1, <2>2
  <2>4. ASSUME NEW l \in Nat \ {0} PROVE CommentEnd[<<i, l>>] = CommentEnd[<<e, l>>]
    <3>1. CommentEnd[<<i, l>>] = CommentEnd[<<i + 2, l + 1>>]
      BY <1>3, <1>7, EndStep
    <3>2. l + 1 \in Nat \ {0} /\ (l + 1) - 1 = l
      OBVIOUS
    <3>3. CommentEnd[<<i + 2, l + 1>>] = CommentEnd[<<m, l + 1>>]
      BY <2>3, <3>2
    <3>4. CommentEnd[<<m, l + 1>>] = CommentEnd[<<m + 2, l>>]
      <4>1. PICK k \in Nat \ {0} : k = l + 1
        BY <3>2
      <4>2. CommentEnd[<<m, k>>] = CommentEnd[<<m + 2, k - 1>>]
        BY <2>1, <2>2, EndStep
      <4> QED
        BY <3>2, <4>1, <4>2
    <3> QED
      BY <2>3, <3>1, <3>3, <3>4
  <2>5. e \in i .. N
    BY <1>3, <2>2, <2>3
  <2> QED
    BY <1>4, <2>4, <2>5
<1>8. CASE Pair(i) # Opening /\ (Char(i) = "NUL" \/ Pair(i) = Closing)
  BY <1>3, <1>4, <1>5, <1>8, InsideStep
<1> QED
  BY <1>6, <1>7, <1>8

\* CommentEnd stops at a NUL, or at the mark behind an inside, one level up.
LEMMA InsideOrNul ==
  ASSUME source \in Seq(Characters)
  PROVE  \A i \in 1 .. Len(source) + 1 : \A l \in Nat \ {0} :
           \/ Char(CommentEnd[<<i, l>>]) = "NUL"
           \/ \E m \in Insides[i] : /\ Pair(m) = Closing
                                    /\ CommentEnd[<<i, l>>] = CommentEnd[<<m + 2, l - 1>>]
<1> DEFINE N == Len(source) + 1
           Ends(i, l) == \/ Char(CommentEnd[<<i, l>>]) = "NUL"
                         \/ \E m \in Insides[i] :
                              /\ Pair(m) = Closing
                              /\ CommentEnd[<<i, l>>] = CommentEnd[<<m + 2, l - 1>>]
           Good(i) == \A l \in Nat \ {0} : Ends(i, l)
           Bad == {i \in 1 .. N : ~Good(i)}
<1> SUFFICES ASSUME Bad # {} PROVE FALSE
  OBVIOUS
<1>1. N \in Nat /\ Bad \subseteq 0 .. N
  OBVIOUS
<1>2. PICK i \in Bad : \A j \in Bad : j <= i
  BY <1>1, GreatestExists
<1>4. PICK l \in Nat \ {0} : ~Ends(i, l)
  BY <1>2
<1>3. i \in 1 .. N /\ \A j \in i + 1 .. N : Good(j)
  <2> HIDE DEF Ends
  <2> QED
    BY <1>1, <1>2
<1>5. CASE Char(i) = "NUL"
  BY <1>3, <1>4, <1>5, EndStep
<1>6. CASE Char(i) # "NUL" /\ Pair(i) \notin {Opening, Closing}
  <2>1. i + 1 \in i + 1 .. N
    BY <1>3, <1>6, CharType
  <2>2. Ends(i + 1, l)
    BY <1>3, <2>1
  <2>3. CommentEnd[<<i, l>>] = CommentEnd[<<i + 1, l>>]
    BY <1>3, <1>6, EndStep
  <2>4. Insides[i] = {i} \cup Insides[i + 1]
    BY <1>3, <1>6, InsideStep
  <2> QED
    BY <1>4, <2>2, <2>3, <2>4
<1>7. CASE Pair(i) = Closing
  <2>1. i \in Insides[i]
    BY <1>3, InsideStep
  <2>2. CommentEnd[<<i, l>>] = CommentEnd[<<i + 2, l - 1>>]
    BY <1>3, <1>7, EndStep
  <2> QED
    BY <1>4, <1>7, <2>1, <2>2
<1>8. CASE Pair(i) = Opening
  <2>1. i + 2 \in i + 1 .. N
    <3>1. i \in 1 .. N
      BY <1>3
    <3>2. i + 1 <= Len(source)
      BY <3>1, <1>8, MarksInside
    <3> QED
      BY <3>1, <3>2
  <2>2. l + 1 \in Nat \ {0} /\ (l + 1) - 1 = l
    OBVIOUS
  <2>3. CommentEnd[<<i, l>>] = CommentEnd[<<i + 2, l + 1>>]
    BY <1>3, <1>8, EndStep
  <2>4. Ends(i + 2, l + 1)
    BY <1>3, <2>1, <2>2
  <2>5. PICK m \in Insides[i + 2] :
          Pair(m) = Closing /\ CommentEnd[<<i + 2, l + 1>>] = CommentEnd[<<m + 2, l>>]
    BY <1>4, <2>2, <2>3, <2>4
  <2>6. m \in i + 2 .. Len(source) - 1
    <3>1. m \in i + 2 .. N
      BY <2>1, <2>5, InsideKeepsLevel
    <3>2. m + 1 <= Len(source)
      BY <1>3, <2>5, <3>1, MarksInside
    <3> QED
      BY <1>3, <3>1, <3>2
  <2>7. m + 2 \in i + 1 .. N
    BY <1>3, <2>6
  <2>8. Ends(m + 2, l)
    BY <1>3, <2>7
  <2>9. Insides[m + 2] \subseteq Insides[i]
    <3>1. PICK M, U : /\ M = {n \in i + 2 .. Len(source) - 1 : n \in Insides[i + 2] /\ Pair(n) = Closing}
                      /\ U = {Insides[n + 2] : n \in M}
      OBVIOUS
    <3>2. Insides[i] = {i} \cup UNION U
      BY <1>3, <1>8, <3>1, InsideStep
    <3>3. m \in M
      BY <2>5, <2>6, <3>1
    <3>4. Insides[m + 2] \in U
      BY <3>1, <3>3
    <3> QED
      BY <3>2, <3>4
  <2> QED
    BY <1>4, <2>3, <2>5, <2>8, <2>9
<1> QED
  BY <1>5, <1>6, <1>7, <1>8

\* There is no NUL in front of where CommentEnd stops.
LEMMA NoNulBeforeEnd ==
  ASSUME source \in Seq(Characters)
  PROVE  \A i \in 1 .. Len(source) + 1 : \A l \in Nat :
           \A j \in i .. CommentEnd[<<i, l>>] - 1 : Char(j) # "NUL"
<1> DEFINE N == Len(source) + 1
           Free(i, l) == \A j \in i .. CommentEnd[<<i, l>>] - 1 : Char(j) # "NUL"
           Good(i) == \A l \in Nat : Free(i, l)
           Bad == {i \in 1 .. N : ~Good(i)}
<1> SUFFICES ASSUME Bad # {} PROVE FALSE
  OBVIOUS
<1>1. N \in Nat /\ Bad \subseteq 0 .. N
  OBVIOUS
<1>2. PICK i \in Bad : \A j \in Bad : j <= i
  BY <1>1, GreatestExists
<1>3. i \in 1 .. N /\ \A j \in i + 1 .. N : Good(j)
  BY <1>2
<1>4. PICK l \in Nat : ~Free(i, l)
  BY <1>2
<1>5. PICK j \in i .. CommentEnd[<<i, l>>] - 1 : Char(j) = "NUL"
  BY <1>4
<1>6. l # 0 /\ Char(i) # "NUL"
  <2>1. CommentEnd[<<i, l>>] # i
    BY <1>3, <1>5
  <2>2. CommentEnd[<<i, 0>>] = i
    <3>1. 1 \in Nat \ {0}
      OBVIOUS
    <3> QED
      BY <1>3, <3>1, EndStep
  <2> QED
    BY <1>3, <2>1, <2>2, EndStep
<1>7. j # i
  BY <1>5, <1>6
<1>8. CASE Pair(i) \notin {Opening, Closing}
  <2>1. i + 1 \in i + 1 .. N /\ j \in i + 1 .. CommentEnd[<<i, l>>] - 1
    BY <1>3, <1>5, <1>6, <1>7, CharType
  <2>2. CommentEnd[<<i, l>>] = CommentEnd[<<i + 1, l>>]
    BY <1>3, <1>6, <1>8, EndStep
  <2>3. Free(i + 1, l)
    BY <1>3, <2>1
  <2> QED
    BY <1>5, <2>1, <2>2, <2>3
<1>9. CASE Pair(i) \in {Opening, Closing}
  <2>1. i + 2 \in i + 1 .. N /\ Char(i + 1) # "NUL"
    BY <1>3, <1>9, MarksInside
  <2>2. j \in i + 2 .. CommentEnd[<<i, l>>] - 1
    <3>1. j # i + 1
      BY <1>5, <2>1
    <3> QED
      BY <1>3, <1>5, <1>7, <3>1
  <2>3. PICK k \in Nat : CommentEnd[<<i, l>>] = CommentEnd[<<i + 2, k>>]
    <3>1. l + 1 \in Nat /\ l - 1 \in Nat
      BY <1>6
    <3>2. l \in Nat \ {0}
      BY <1>6
    <3>3. CASE Pair(i) = Opening
      <4>1. CommentEnd[<<i, l>>] = CommentEnd[<<i + 2, l + 1>>]
        BY <1>3, <3>2, <3>3, EndStep
      <4> QED
        BY <3>1, <4>1
    <3>4. CASE Pair(i) = Closing
      <4>1. CommentEnd[<<i, l>>] = CommentEnd[<<i + 2, l - 1>>]
        BY <1>3, <3>2, <3>4, EndStep
      <4> QED
        BY <3>1, <4>1
    <3> QED
      BY <1>9, <3>3, <3>4
  <2>4. Free(i + 2, k)
    BY <1>3, <2>1
  <2> QED
    BY <1>5, <2>2, <2>3, <2>4
<1> QED
  BY <1>8, <1>9

\* The comment that begins at s ends where CommentEnd says, closed or not, and
\* nowhere else.
LEMMA CommentExact ==
  ASSUME source \in Seq(Characters), NEW s \in 1 .. Len(source), Pair(s) = Opening,
         NEW e, e = CommentEnd[<<s + 2, 1>>], NEW f \in s + 1 .. Len(source) + 1
  PROVE  /\ e \in s + 2 .. Len(source) + 1
         /\ IsComment(s, f) \/ IsOpenComment(s, f) <=> f = e
<1>1. s + 2 \in 1 .. Len(source) + 1 /\ 1 \in Nat \ {0} /\ 1 - 1 = 0 /\ 1 \in Nat
  BY MarksInside
<1>2. e \in s + 2 .. Len(source) + 1
  BY <1>1, CommentEnds
<1>3. ASSUME NEW g \in s + 1 .. Len(source) + 1, IsComment(s, g) PROVE g = e
  <2>1. g - 2 \in Insides[s + 2] /\ Pair(g - 2) = Closing /\ g >= s + 4
    BY <1>3 DEF IsComment
  <2>2. CommentEnd[<<s + 2, 1>>] = CommentEnd[<<g - 2, 1>>]
    BY <1>1, <2>1, InsideKeepsLevel
  <2>3. g - 2 \in 1 .. Len(source) + 1 /\ (g - 2) + 2 = g
    BY <1>3, <2>1
  <2>4. CommentEnd[<<g - 2, 1>>] = CommentEnd[<<g, 0>>]
    <3>1. PICK h, k : h = g - 2 /\ k = 1
      OBVIOUS
    <3>2. h \in 1 .. Len(source) + 1 /\ k \in Nat \ {0} /\ Pair(h) = Closing
      BY <2>1, <2>3, <3>1
    <3>3. CommentEnd[<<h, k>>] = CommentEnd[<<h + 2, k - 1>>]
      BY <3>2, EndStep
    <3>4. h + 2 = g /\ k - 1 = 0
      BY <2>3, <3>1
    <3> QED
      BY <3>1, <3>3, <3>4
  <2>5. CommentEnd[<<g, 0>>] = g
    <3>1. g \in 1 .. Len(source) + 1
      BY <1>3
    <3> QED
      BY <1>1, <3>1, EndStep
  <2> QED
    BY <2>2, <2>4, <2>5
<1>4. \A j \in s .. e - 1 : Char(j) # "NUL"
  <2>1. Char(s) # "NUL" /\ Char(s + 1) # "NUL"
    BY MarksInside
  <2>2. \A j \in s + 2 .. e - 1 : Char(j) # "NUL"
    BY <1>1, NoNulBeforeEnd
  <2> QED
    BY <1>2, <2>1, <2>2
<1>5. ASSUME IsOpenComment(s, f) PROVE f = e
  <2>1. Char(f) = "NUL" /\ \A i \in s .. f - 1 : Char(i) # "NUL"
    BY <1>5 DEF IsOpenComment
  <2>2. ~(f < e)
    BY <1>2, <1>4, <2>1
  <2>3. CASE Char(e) = "NUL"
    <3>1. ~(e < f)
      BY <1>2, <2>1, <2>3
    <3> QED
      BY <1>2, <2>2, <3>1
  <2>4. CASE Char(e) # "NUL"
    <3>1. PICK m \in Insides[s + 2] :
            Pair(m) = Closing /\ CommentEnd[<<s + 2, 1>>] = CommentEnd[<<m + 2, 0>>]
      BY <1>1, <2>4, InsideOrNul
    <3>2. m \in s + 2 .. Len(source) + 1
      BY <1>1, <3>1, InsideKeepsLevel
    <3>3. m + 1 <= Len(source)
      BY <3>1, <3>2, MarksInside
    <3>4. m + 2 \in 1 .. Len(source) + 1 /\ (m + 2) - 2 = m /\ m + 2 >= s + 4
      BY <3>2, <3>3
    <3>5. e = m + 2
      BY <1>1, <3>1, <3>4, EndStep
    <3>6. IsComment(s, e)
      BY <3>1, <3>4, <3>5 DEF IsComment
    <3>7. e \in s .. f
      BY <1>2, <2>2
    <3> QED
      BY <1>5, <3>6, <3>7 DEF IsOpenComment
  <2> QED
    BY <2>3, <2>4
<1>6. IsComment(s, e) \/ IsOpenComment(s, e)
  <2>1. CASE Char(e) = "NUL"
    <3>1. CASE \E m \in s .. e : IsComment(s, m)
      <4>1. PICK m \in s .. e : IsComment(s, m)
        BY <3>1
      <4>2. m \in s + 1 .. Len(source) + 1
        BY <1>2, <4>1 DEF IsComment
      <4> QED
        BY <1>3, <4>1, <4>2
    <3>2. CASE ~\E m \in s .. e : IsComment(s, m)
      BY <1>4, <2>1, <3>2 DEF IsOpenComment
    <3> QED
      BY <3>1, <3>2
  <2>2. CASE Char(e) # "NUL"
    <3>1. PICK m \in Insides[s + 2] :
            Pair(m) = Closing /\ CommentEnd[<<s + 2, 1>>] = CommentEnd[<<m + 2, 0>>]
      BY <1>1, <2>2, InsideOrNul
    <3>2. m \in s + 2 .. Len(source) + 1
      BY <1>1, <3>1, InsideKeepsLevel
    <3>3. m + 1 <= Len(source)
      BY <3>1, <3>2, MarksInside
    <3>4. m + 2 \in 1 .. Len(source) + 1 /\ (m + 2) - 2 = m /\ m + 2 >= s + 4
      BY <3>2, <3>3
    <3>5. e = m + 2
      BY <1>1, <3>1, <3>4, EndStep
    <3> QED
      BY <3>1, <3>4, <3>5 DEF IsComment
  <2> QED
    BY <2>1, <2>2
<1> QED
  BY <1>2, <1>3, <1>5, <1>6

-----------------------------------------------------------------------------
(* Where a string closes *)

\* An even number of backslashes is in front of i.
EvenAt(s, i) == Cardinality(Backslashes(s, i)) % 2 = 0

\* How the parity goes on: a backslash turns it, any other character makes it even.
LEMMA ParityStep ==
  ASSUME NEW s \in Nat, NEW i \in Nat, s < i
  PROVE  /\ EvenAt(s, s + 1)
         /\ Char(i) # "\\" => EvenAt(s, i + 1)
         /\ Char(i) = "\\" => (EvenAt(s, i + 1) <=> ~EvenAt(s, i))
<1>1. Cardinality({}) = 0
  BY FS_EmptySet
<1>2. EvenAt(s, s + 1)
  <2>1. Backslashes(s, s + 1) = {}
    BY DEF Backslashes
  <2>2. Cardinality(Backslashes(s, s + 1)) % 2 = 0
    <3>1. Cardinality(Backslashes(s, s + 1)) = 0
      BY <1>1, <2>1, Zenon
    <3> QED
      BY <3>1
  <2> QED
    BY <2>2, Zenon DEF EvenAt
<1>3. ASSUME Char(i) # "\\" PROVE EvenAt(s, i + 1)
  <2>1. Backslashes(s, i + 1) = {}
    <3> SUFFICES ASSUME NEW j \in s + 1 .. (i + 1) - 1, \A k \in j .. (i + 1) - 1 : Char(k) = "\\"
                 PROVE  FALSE
      BY DEF Backslashes
    <3>1. i \in j .. (i + 1) - 1
      OBVIOUS
    <3> QED
      BY <1>3, <3>1
  <2>2. Cardinality(Backslashes(s, i + 1)) % 2 = 0
    <3>1. Cardinality(Backslashes(s, i + 1)) = 0
      BY <1>1, <2>1, Zenon
    <3> QED
      BY <3>1
  <2> QED
    BY <2>2, Zenon DEF EvenAt
<1>4. ASSUME Char(i) = "\\" PROVE EvenAt(s, i + 1) <=> ~EvenAt(s, i)
  <2>1. PICK B : B = Backslashes(s, i)
    OBVIOUS
  <2>2. B \subseteq s + 1 .. i - 1
    BY <2>1 DEF Backslashes
  <2>3. IsFiniteSet(B) /\ i \notin B
    <3>1. IsFiniteSet(s + 1 .. i - 1)
      BY FS_Interval
    <3>2. IsFiniteSet(B)
      BY <2>2, <3>1, FS_Subset
    <3> QED
      BY <2>2, <3>2
  <2>4. Backslashes(s, i + 1) = B \cup {i}
    <3>1. \A j \in s + 1 .. i - 1 :
            (\A k \in j .. i - 1 : Char(k) = "\\") <=> (\A k \in j .. (i + 1) - 1 : Char(k) = "\\")
      <4> TAKE j \in s + 1 .. i - 1
      <4>1. \A k : k \in j .. (i + 1) - 1 <=> k \in j .. i - 1 \/ k = i
        OBVIOUS
      <4> QED
        BY <1>4, <4>1
    <3>2. \A k \in i .. (i + 1) - 1 : Char(k) = "\\"
      <4>1. \A k \in i .. (i + 1) - 1 : k = i
        OBVIOUS
      <4> QED
        BY <1>4, <4>1
    <3>3. \A j : j \in s + 1 .. (i + 1) - 1 <=> j \in s + 1 .. i - 1 \/ j = i
      OBVIOUS
    <3> QED
      BY <2>1, <3>1, <3>2, <3>3 DEF Backslashes
  <2>5. Cardinality(B) \in Nat /\ Cardinality(B \cup {i}) = Cardinality(B) + 1
    BY <2>3, FS_CardinalityType, FS_AddElement
  <2>6. PICK n \in Nat : n = Cardinality(B)
    BY <2>5
  <2>7. (n + 1) % 2 = 0 <=> ~(n % 2 = 0)
    OBVIOUS
  <2> QED
    BY <2>1, <2>4, <2>5, <2>6, <2>7 DEF EvenAt
<1> QED
  BY <1>2, <1>3, <1>4

\* A round of a string leads from an even place to an even one, and no quote
\* between them closes the string.
LEMMA UnitKeepsParity ==
  ASSUME source \in Seq(Characters), NEW s \in Nat \ {0}, Char(s) \in Quotes,
         NEW i \in s + 1 .. Len(source), EvenAt(s, i), Char(i) # Char(s)
  PROVE  /\ Unit(i).next \in Nat /\ i < Unit(i).next
         /\ \A j \in i .. Unit(i).next - 1 : j <= Len(source) => ~Closes(s, j)
         /\ Unit(i).next <= Len(source) + 1 => EvenAt(s, Unit(i).next)
<1>1. PICK n : n = Unit(i).next
  OBVIOUS
<1>2. n \in Nat /\ i < n
  BY <1>1, UnitAdvances
<1>3. ~Closes(s, i)
  BY DEF Closes
<1>4. CASE Char(i) # "\\"
  <2>1. n = i + 1
    BY <1>1, <1>4 DEF Unit
  <2>2. EvenAt(s, i + 1)
    BY <1>4, ParityStep
  <2> QED
    BY <1>1, <1>2, <1>3, <2>1, <2>2
<1>5. CASE Char(i) = "\\"
  <2>1. ~EvenAt(s, i + 1)
    BY <1>5, ParityStep
  <2>2. ~Closes(s, i + 1)
    BY <2>1 DEF Closes, EvenAt
  <2>3. EvenAt(s, i + 2)
    <3>1. PICK k \in Nat : k = i + 1 /\ s < k /\ k + 1 = i + 2
      OBVIOUS
    <3>2. EvenAt(s, k + 1)
      BY <2>1, <3>1, ParityStep
    <3> QED
      BY <3>1, <3>2
  <2>4. CASE Char(i + 1) = "x"
    <3>1. i + 2 \in 1 .. Len(source) + 1
      BY <2>4, CharType
    <3>2. n = Past(i + 2, HexDigits)
      BY <1>1, <1>5, <2>4 DEF Unit, Quotes
    <3>3. n \in i + 2 .. Len(source) + 1 /\ \A j \in i + 2 .. n - 1 : Char(j) \in HexDigits
      BY <3>1, <3>2, PastStops
    <3>4. \A j \in i + 2 .. n - 1 : ~Closes(s, j) /\ Char(j) # "\\"
      BY <3>3 DEF Closes, Quotes, HexDigits, Digits
    <3>5. EvenAt(s, n)
      <4>1. CASE n = i + 2
        BY <2>3, <4>1
      <4>2. CASE n # i + 2
        <5>1. PICK k \in Nat : k = n - 1 /\ s < k /\ k + 1 = n /\ k \in i + 2 .. n - 1
          BY <3>3, <4>2
        <5>2. EvenAt(s, k + 1)
          BY <3>4, <5>1, ParityStep
        <5> QED
          BY <5>1, <5>2
      <4> QED
        BY <4>1, <4>2
    <3>6. \A j \in i .. n - 1 : j = i \/ j = i + 1 \/ j \in i + 2 .. n - 1
      BY <3>3
    <3> QED
      BY <1>1, <1>2, <1>3, <2>2, <3>4, <3>5, <3>6
  <2>5. CASE Char(i + 1) # "x"
    <3>1. n = i + 2
      BY <1>1, <1>5, <2>5 DEF Unit
    <3>2. \A j \in i .. n - 1 : j = i \/ j = i + 1
      BY <3>1
    <3> QED
      BY <1>1, <1>2, <1>3, <2>2, <2>3, <3>1, <3>2
  <2> QED
    BY <2>4, <2>5
<1> QED
  BY <1>4, <1>5

\* String finds the first quote that closes, if there is one.
LEMMA StringFindsClosing ==
  ASSUME source \in Seq(Characters), NEW s \in Nat \ {0}, Char(s) \in Quotes
  PROVE  \A i \in s + 1 .. Len(source) + 1 : EvenAt(s, i) =>
           LET a == String(Char(s))[i].at
           IN  /\ a # 0 => a \in i .. Len(source) /\ Closes(s, a) /\ \A j \in i .. a - 1 : ~Closes(s, j)
               /\ a = 0 => \A j \in i .. Len(source) : ~Closes(s, j)
<1> DEFINE N == Len(source) + 1
           Finds(i, a) ==
             /\ a # 0 => a \in i .. Len(source) /\ Closes(s, a) /\ \A j \in i .. a - 1 : ~Closes(s, j)
             /\ a = 0 => \A j \in i .. Len(source) : ~Closes(s, j)
           Good(i) == EvenAt(s, i) => Finds(i, String(Char(s))[i].at)
           Bad == {i \in s + 1 .. N : ~Good(i)}
<1> SUFFICES ASSUME Bad # {} PROVE FALSE
  OBVIOUS
<1>1. N \in Nat /\ Bad \subseteq 0 .. N
  OBVIOUS
<1>2. PICK i \in Bad : \A j \in Bad : j <= i
  BY <1>1, GreatestExists
<1>3. i \in s + 1 .. N /\ (\A j \in i + 1 .. N : Good(j)) /\ ~Good(i)
  <2> HIDE DEF Good
  <2> QED
    BY <1>1, <1>2
<1>4. EvenAt(s, i)
  BY <1>3
<1>5. PICK t, from : t = Char(s) /\ from = String(t)
  OBVIOUS
<1>6. from[i] = RoundsFrom(from, t, i)
  <2>1. from = [k \in 1 .. Len(source) + 2 |-> RoundsFrom(from, t, k)]
    BY <1>5, StringUnfolds
  <2>2. i \in 1 .. Len(source) + 2
    BY <1>3
  <2> QED
    BY <2>1, <2>2
<1>7. ~Finds(i, from[i].at)
  <2> HIDE DEF Finds
  <2> QED
    BY <1>3, <1>5
<1>8. CASE i > Len(source)
  <2>1. from[i].at = 0
    BY <1>6, <1>8 DEF RoundsFrom, Never
  <2> QED
    BY <1>7, <1>8, <2>1
<1>9. CASE ~(i > Len(source)) /\ Char(i) = t
  <2>1. from[i].at = i
    BY <1>6, <1>9 DEF RoundsFrom
  <2>2. Closes(s, i)
    BY <1>4, <1>5, <1>9 DEF Closes, EvenAt
  <2> QED
    BY <1>3, <1>7, <1>9, <2>1, <2>2
<1>10. CASE ~(i > Len(source)) /\ Char(i) # t
  <2>1. PICK n : n = Unit(i).next
    OBVIOUS
  <2>2. i \in s + 1 .. Len(source) /\ Char(i) # Char(s)
    BY <1>3, <1>5, <1>10
  <2>3. /\ n \in Nat /\ i < n
        /\ \A j \in i .. n - 1 : j <= Len(source) => ~Closes(s, j)
        /\ n <= Len(source) + 1 => EvenAt(s, n)
    BY <1>4, <2>1, <2>2, UnitKeepsParity
  <2>4. CASE n > Len(source) + 1
    <3>1. from[i].at = 0
      BY <1>6, <1>10, <2>1, <2>4 DEF RoundsFrom, Never
    <3>2. \A j \in i .. Len(source) : ~Closes(s, j)
      BY <2>2, <2>3, <2>4
    <3> QED
      BY <1>7, <3>1, <3>2
  <2>5. CASE ~(n > Len(source) + 1)
    <3>1. n \in i + 1 .. N
      BY <1>3, <2>3, <2>5
    <3>2. from[i].at = from[n].at
      BY <1>6, <1>10, <2>1, <2>5 DEF RoundsFrom, Never
    <3>3. PICK a : a = from[n].at
      OBVIOUS
    <3>4. Finds(n, a)
      <4> HIDE DEF Finds
      <4> QED
        BY <1>3, <1>5, <2>3, <3>1, <3>3
    <3>5. CASE a # 0
      <4>1. a \in n .. Len(source) /\ Closes(s, a) /\ \A j \in n .. a - 1 : ~Closes(s, j)
        BY <3>4, <3>5
      <4>2. a \in i .. Len(source)
        BY <2>2, <2>3, <4>1
      <4>3. \A j \in i .. a - 1 : ~Closes(s, j)
        <5> TAKE j \in i .. a - 1
        <5>1. j \in i .. n - 1 \/ j \in n .. a - 1
          BY <2>2, <2>3, <4>1
        <5>2. j <= Len(source)
          BY <2>2, <4>1
        <5> QED
          BY <2>3, <4>1, <5>1, <5>2
      <4> QED
        BY <1>7, <3>2, <3>3, <3>5, <4>1, <4>2, <4>3
    <3>6. CASE a = 0
      <4>1. \A j \in n .. Len(source) : ~Closes(s, j)
        BY <3>4, <3>6
      <4>2. \A j \in i .. Len(source) : ~Closes(s, j)
        <5> TAKE j \in i .. Len(source)
        <5>1. j \in i .. n - 1 \/ j \in n .. Len(source)
          BY <2>2, <2>3
        <5> QED
          BY <2>3, <4>1, <5>1
      <4> QED
        BY <1>7, <3>2, <3>3, <3>6, <4>2
    <3> QED
      BY <3>5, <3>6
  <2> QED
    BY <2>4, <2>5
<1> QED
  BY <1>8, <1>9, <1>10

\* So the string that begins at s ends where String says, or nowhere.
LEMMA StringExact ==
  ASSUME source \in Seq(Characters), NEW s \in 1 .. Len(source), Char(s) \in Quotes,
         NEW a, a = String(Char(s))[s + 1].at, NEW f \in s + 1 .. Len(source) + 1
  PROVE  /\ a # 0 => a \in s + 1 .. Len(source)
         /\ IsString(s, f) <=> a # 0 /\ f = a + 1
<1>1. s + 1 \in s + 1 .. Len(source) + 1 /\ EvenAt(s, s + 1)
  <2>1. s \in Nat /\ s + 1 \in Nat /\ s < s + 1
    OBVIOUS
  <2>2. EvenAt(s, s + 1)
    BY <2>1, ParityStep
  <2> QED
    BY <2>2
<1>2. /\ a # 0 => a \in s + 1 .. Len(source) /\ Closes(s, a) /\ \A j \in s + 1 .. a - 1 : ~Closes(s, j)
      /\ a = 0 => \A j \in s + 1 .. Len(source) : ~Closes(s, j)
  BY <1>1, StringFindsClosing
<1>3. ASSUME IsString(s, f) PROVE a # 0 /\ f = a + 1
  <2>1. f >= s + 2 /\ Closes(s, f - 1) /\ \A i \in s + 1 .. f - 2 : ~Closes(s, i)
    BY <1>3 DEF IsString
  <2>2. f - 1 \in s + 1 .. Len(source)
    BY <2>1
  <2>3. a # 0
    BY <1>2, <2>1, <2>2
  <2>4. ~(a < f - 1)
    BY <1>2, <2>1, <2>3
  <2>5. ~(f - 1 < a)
    BY <1>2, <2>1, <2>2, <2>3
  <2> QED
    BY <1>2, <2>2, <2>3, <2>4, <2>5
<1>4. ASSUME a # 0, f = a + 1 PROVE IsString(s, f)
  <2>1. a \in s + 1 .. Len(source) /\ f - 1 = a /\ f - 2 = a - 1 /\ f >= s + 2
    BY <1>2, <1>4
  <2> QED
    BY <1>2, <1>4, <2>1 DEF IsString
<1> QED
  BY <1>2, <1>3, <1>4

-----------------------------------------------------------------------------
(* The longest lexeme at each place *)

\* The characters of a piece of the text.
LEMMA TextIs ==
  ASSUME NEW s \in Nat \ {0}, NEW f \in Nat, s < f
  PROVE  /\ Len(Text(s, f)) = f - s /\ DOMAIN Text(s, f) = 1 .. f - s
         /\ \A i \in 1 .. f - s : Text(s, f)[i] = Char(s + i - 1)
         /\ Text(s, f)[1] = Char(s) /\ Text(s, f)[f - s] = Char(f - 1)
         /\ \A j \in s .. f - 1 : j - s + 1 \in 1 .. f - s /\ Text(s, f)[j - s + 1] = Char(j)
         /\ \A S : (\A i \in 1 .. f - s : Text(s, f)[i] \in S) <=> (\A j \in s .. f - 1 : Char(j) \in S)
<1>1. PICK t : t = Text(s, f)
  OBVIOUS
<1>2. t = [i \in 1 .. f - s |-> Char(s + i - 1)]
  BY <1>1 DEF Text
<1>3. f - s \in Nat \ {0}
  OBVIOUS
<1>4. Len(t) = f - s /\ DOMAIN t = 1 .. f - s
  BY <1>2, <1>3
<1>5. \A i \in 1 .. f - s : t[i] = Char(s + i - 1)
  BY <1>2
<1>6. t[1] = Char(s) /\ t[f - s] = Char(f - 1)
  <2>1. 1 \in 1 .. f - s /\ f - s \in 1 .. f - s /\ s + 1 - 1 = s /\ s + (f - s) - 1 = f - 1
    BY <1>3
  <2> QED
    BY <1>5, <2>1
<1>7. \A j \in s .. f - 1 : j - s + 1 \in 1 .. f - s /\ t[j - s + 1] = Char(j)
  <2> TAKE j \in s .. f - 1
  <2>1. j - s + 1 \in 1 .. f - s /\ s + (j - s + 1) - 1 = j
    OBVIOUS
  <2> QED
    BY <1>5, <2>1
<1>8. ASSUME NEW S
      PROVE  (\A i \in 1 .. f - s : t[i] \in S) <=> (\A j \in s .. f - 1 : Char(j) \in S)
  <2>1. \A i \in 1 .. f - s : s + i - 1 \in s .. f - 1
    OBVIOUS
  <2> QED
    BY <1>5, <1>7, <2>1
<1> QED
  BY <1>1, <1>4, <1>5, <1>6, <1>7, <1>8

Starters == MaybeEqual \cup MaybeDouble \cup Single \cup {".", "/"}

\* What a lexeme is of is said by its first character, but for the slash.
LEMMA FirstCharacter ==
  ASSUME source \in Seq(Characters), NEW s \in Nat \ {0}, NEW f \in Nat, s < f
  PROVE  /\ IsWord(Text(s, f)) => Char(s) \in Letters
         /\ IsNumber(Text(s, f)) => Char(s) \in Digits
         /\ IsOperator(Text(s, f)) => Char(s) \in Starters
         /\ IsString(s, f) => Char(s) \in Quotes
         /\ IsLine(Text(s, f)) => Char(s) = "/" /\ Char(s + 1) = "/"
         /\ IsComment(s, f) \/ IsOpenComment(s, f) => Pair(s) = Opening /\ Char(s) = "/" /\ Char(s + 1) = "*"
<1>1. Text(s, f)[1] = Char(s)
  BY TextIs
<1>2. IsWord(Text(s, f)) => Char(s) \in Letters
  BY <1>1 DEF IsWord
<1>3. IsNumber(Text(s, f)) => Char(s) \in Digits
  BY <1>1 DEF IsNumber
<1>4. IsOperator(Text(s, f)) => Char(s) \in Starters
  BY <1>1 DEF IsOperator, Starters
<1>5. IsString(s, f) => Char(s) \in Quotes
  BY DEF IsString
<1>6. ASSUME IsLine(Text(s, f)) PROVE Char(s) = "/" /\ Char(s + 1) = "/"
  <2>1. f - s >= 2
    BY <1>6, TextIs DEF IsLine
  <2>2. 2 \in 1 .. f - s /\ s + 2 - 1 = s + 1
    BY <2>1
  <2>3. Text(s, f)[2] = Char(s + 1)
    BY <2>2, TextIs
  <2> QED
    BY <1>1, <1>6, <2>3 DEF IsLine
<1>7. ASSUME IsComment(s, f) \/ IsOpenComment(s, f)
      PROVE  Pair(s) = Opening /\ Char(s) = "/" /\ Char(s + 1) = "*"
  <2>1. Pair(s) = Opening
    BY <1>7 DEF IsComment, IsOpenComment
  <2> QED
    BY <2>1, MarksInside
<1> QED
  BY <1>2, <1>3, <1>4, <1>5, <1>6, <1>7

\* The classes of characters have nothing in common.
LEMMA ClassesApart ==
  /\ \A c \in Letters : c \notin Digits /\ c \notin Starters /\ c \notin Quotes
  /\ \A c \in Digits : c \notin Letters /\ c \notin Starters /\ c \notin Quotes
  /\ \A c \in Starters : c \notin Letters /\ c \notin Digits /\ c \notin Quotes
  /\ \A c \in Quotes : c \notin Letters /\ c \notin Digits /\ c \notin Starters
  /\ \A c \in Unknown \cup {"\\", "NUL"} : c \notin Letters /\ c \notin Digits /\ c \notin Starters /\ c \notin Quotes
  /\ "/" \in Starters /\ "." \in Starters /\ "NUL" \notin Spaces
  /\ "/" \notin MaybeEqual \cup MaybeDouble \cup Single \cup {"."}
  /\ "." \notin MaybeEqual \cup MaybeDouble \cup Single
  /\ MaybeEqual \cap MaybeDouble = {} /\ MaybeEqual \cap Single = {} /\ MaybeDouble \cap Single = {}
BY DEF Letters, Digits, Starters, MaybeEqual, MaybeDouble, Single, Quotes, Unknown, Spaces

\* Of the pieces that are lexemes, the longest.
LEMMA LongestIs ==
  ASSUME source \in Seq(Characters), NEW s \in 1 .. Len(source),
         NEW e \in s + 1 .. Len(source) + 1, KindsOf(s, e) # {},
         \A f \in s + 1 .. Len(source) + 1 : KindsOf(s, f) # {} => f <= e
  PROVE  LexemesAt(s) # {} /\ Longest(s) = e
<1>1. PICK L : L = LexemesAt(s)
  OBVIOUS
<1>2. L \subseteq s + 1 .. Len(source) + 1 /\ e \in L /\ \A f \in L : f <= e
  BY <1>1 DEF LexemesAt
<1>3. Longest(s) = CHOOSE g \in L : \A f \in L : f <= g
  BY <1>1 DEF Longest
<1>4. \A g \in L : (\A f \in L : f <= g) => g = e
  BY <1>2
<1> QED
  BY <1>1, <1>2, <1>3, <1>4

\* The words.
LEMMA WordLexeme ==
  ASSUME source \in Seq(Characters), NEW s \in 1 .. Len(source), Char(s) \in Letters,
         NEW e, e = Past(s, Letters \cup Digits)
  PROVE  /\ e \in s + 1 .. Len(source) + 1
         /\ LexemesAt(s) # {} /\ Longest(s) = e
         /\ KindsOf(s, e) = {IF Text(s, e) \in Keywords THEN "keyword" ELSE "identifier"}
<1>1. PICK S : S = Letters \cup Digits
  OBVIOUS
<1>2. /\ e \in s .. Len(source) + 1 /\ \A j \in s .. e - 1 : Char(j) \in S
      /\ Char(e) \notin S \/ e = Len(source) + 1
  BY <1>1, PastStops
<1>3. e \in s + 1 .. Len(source) + 1
  BY <1>1, <1>2
<1>4. \A f \in s + 1 .. Len(source) + 1 :
        KindsOf(s, f) = IF \A j \in s .. f - 1 : Char(j) \in S
                          THEN {IF Text(s, f) \in Keywords THEN "keyword" ELSE "identifier"} ELSE {}
  <2> TAKE f \in s + 1 .. Len(source) + 1
  <2>1. s \in Nat \ {0} /\ f \in Nat /\ s < f
    OBVIOUS
  <2>2. IsWord(Text(s, f)) <=> \A j \in s .. f - 1 : Char(j) \in S
    <3>1. PICK t : t = Text(s, f)
      OBVIOUS
    <3>2. /\ DOMAIN t = 1 .. f - s /\ t[1] = Char(s)
          /\ (\A i \in 1 .. f - s : t[i] \in S) <=> (\A j \in s .. f - 1 : Char(j) \in S)
      BY <2>1, <3>1, TextIs
    <3>3. IsWord(t) <=> \A i \in 1 .. f - s : t[i] \in S
      BY <1>1, <3>2 DEF IsWord
    <3> QED
      BY <3>1, <3>2, <3>3
  <2>3. /\ ~IsNumber(Text(s, f)) /\ ~IsOperator(Text(s, f)) /\ ~IsString(s, f) /\ ~IsLine(Text(s, f))
        /\ ~IsComment(s, f) /\ ~IsOpenComment(s, f)
    BY <2>1, FirstCharacter, ClassesApart
  <2> QED
    BY <2>2, <2>3, Zenon DEF KindsOf
<1>5. KindsOf(s, e) = {IF Text(s, e) \in Keywords THEN "keyword" ELSE "identifier"}
  BY <1>2, <1>3, <1>4
<1>6. \A f \in s + 1 .. Len(source) + 1 : KindsOf(s, f) # {} => f <= e
  <2> SUFFICES ASSUME NEW f \in s + 1 .. Len(source) + 1, KindsOf(s, f) # {} PROVE f <= e
    OBVIOUS
  <2>1. \A j \in s .. f - 1 : Char(j) \in S
    BY <1>4
  <2>2. e < f => e \in s .. f - 1 /\ e # Len(source) + 1
    BY <1>3
  <2>3. ~(e < f)
    BY <1>2, <2>1, <2>2
  <2> QED
    BY <1>3, <2>3
<1> QED
  BY <1>3, <1>5, <1>6, LongestIs

\* What begins with a slash and is no comment, or with another mark, is an operator.
LEMMA OperatorLexeme ==
  ASSUME source \in Seq(Characters), NEW s \in 1 .. Len(source), Char(s) \in Starters,
         ~(Char(s) = "/" /\ Char(s + 1) \in {"/", "*"}), NEW e, e = Operator(s)
  PROVE  /\ e \in s + 1 .. Len(source) + 1
         /\ LexemesAt(s) # {} /\ Longest(s) = e
         /\ KindsOf(s, e) = {"operator"}
<1>1. PICK c, d, g : c = Char(s) /\ d = Char(s + 1) /\ g = Char(s + 2)
  OBVIOUS
<1>2. e \in s + 1 .. Len(source) + 1
  <2>1. e \in s .. Len(source) + 1
    BY OperatorEnds
  <2>2. e # s
    BY DEF Operator
  <2> QED
    BY <2>1, <2>2
<1>3. \A f \in s + 1 .. Len(source) + 1 :
        KindsOf(s, f) = IF IsOperator(Text(s, f)) THEN {"operator"} ELSE {}
  <2> TAKE f \in s + 1 .. Len(source) + 1
  <2>1. s \in Nat \ {0} /\ f \in Nat /\ s < f
    OBVIOUS
  <2>2. /\ ~IsNumber(Text(s, f)) /\ ~IsWord(Text(s, f)) /\ ~IsString(s, f) /\ ~IsLine(Text(s, f))
        /\ ~IsComment(s, f) /\ ~IsOpenComment(s, f)
    BY <2>1, FirstCharacter, ClassesApart
  <2> QED
    BY <2>2, Zenon DEF KindsOf
<1>4. \A f \in s + 1 .. Len(source) + 1 :
        IsOperator(Text(s, f)) <=>
          \/ f = s + 1
          \/ f = s + 2 /\ d = "=" /\ c \in MaybeEqual \cup MaybeDouble \cup {"/"}
          \/ f = s + 2 /\ d = c /\ c \in MaybeDouble \cup {"."}
          \/ f = s + 3 /\ d = c /\ c \in MaybeDouble /\ g = "="
  <2> TAKE f \in s + 1 .. Len(source) + 1
  <2>1. s \in Nat \ {0} /\ f \in Nat /\ s < f
    OBVIOUS
  <2>2. PICK t : t = Text(s, f)
    OBVIOUS
  <2>3. Len(t) = f - s /\ t[1] = c /\ \A i \in 1 .. f - s : t[i] = Char(s + i - 1)
    BY <1>1, <2>1, <2>2, TextIs
  <2>4. f - s >= 2 => t[2] = d
    <3>1. f - s >= 2 => 2 \in 1 .. f - s /\ s + 2 - 1 = s + 1
      OBVIOUS
    <3> QED
      BY <1>1, <2>3, <3>1
  <2>5. f - s >= 3 => t[3] = g
    <3>1. f - s >= 3 => 3 \in 1 .. f - s /\ s + 3 - 1 = s + 2
      OBVIOUS
    <3> QED
      BY <1>1, <2>3, <3>1
  <2>6. /\ f - s = 1 <=> f = s + 1
        /\ f - s = 2 <=> f = s + 2
        /\ f - s = 3 <=> f = s + 3
    OBVIOUS
  <2>7. c \in Starters
    BY <1>1
  <2>8. IsOperator(t) <=>
          \/ Len(t) = 1
          \/ Len(t) = 2 /\ t[2] = "=" /\ c \in MaybeEqual \cup MaybeDouble \cup {"/"}
          \/ Len(t) = 2 /\ t[2] = c /\ c \in MaybeDouble \cup {"."}
          \/ Len(t) = 3 /\ t[2] = c /\ c \in MaybeDouble /\ t[3] = "="
    BY <2>3, <2>7, Zenon DEF IsOperator, Starters
  <2>9. CASE Len(t) = 1
    BY <2>2, <2>3, <2>6, <2>8, <2>9
  <2>10. CASE Len(t) = 2
    <3>0. f - s = 2
      BY <2>3, <2>10
    <3>1. t[2] = d /\ f = s + 2 /\ f # s + 1 /\ f # s + 3
      BY <2>4, <3>0
    <3> QED
      BY <2>2, <2>8, <2>10, <3>1
  <2>11. CASE Len(t) = 3
    <3>0. f - s = 3
      BY <2>3, <2>11
    <3>1. t[2] = d /\ t[3] = g /\ f = s + 3 /\ f # s + 1 /\ f # s + 2
      BY <2>4, <2>5, <3>0
    <3> QED
      BY <2>2, <2>8, <2>11, <3>1
  <2>12. CASE Len(t) \notin {1, 2, 3}
    <3>1. f # s + 1 /\ f # s + 2 /\ f # s + 3
      BY <2>3, <2>6, <2>12
    <3> QED
      BY <2>2, <2>8, <2>12, <3>1
  <2> QED
    BY <2>9, <2>10, <2>11, <2>12
<1>5. e = IF c \in MaybeDouble /\ d = c THEN IF g = "=" THEN s + 3 ELSE s + 2
          ELSE IF c \in MaybeEqual \cup MaybeDouble \cup {"/"} /\ d = "=" THEN s + 2
          ELSE IF c = "." /\ d = "." THEN s + 2
          ELSE s + 1
  BY <1>1 DEF Operator
<1>6. IsOperator(Text(s, e))
  <2>1. \/ e = s + 1
        \/ e = s + 2 /\ d = "=" /\ c \in MaybeEqual \cup MaybeDouble \cup {"/"}
        \/ e = s + 2 /\ d = c /\ c \in MaybeDouble \cup {"."}
        \/ e = s + 3 /\ d = c /\ c \in MaybeDouble /\ g = "="
    BY <1>5
  <2> QED
    BY <1>2, <1>4, <2>1
<1>7. \A f \in s + 1 .. Len(source) + 1 : IsOperator(Text(s, f)) => f <= e
  <2> SUFFICES ASSUME NEW f \in s + 1 .. Len(source) + 1, IsOperator(Text(s, f)) PROVE f <= e
    OBVIOUS
  <2>1. CASE f = s + 1
    BY <1>2, <2>1
  <2>2. CASE f = s + 2 /\ d = "=" /\ c \in MaybeEqual \cup MaybeDouble \cup {"/"}
    BY <1>5, <2>2
  <2>3. CASE f = s + 2 /\ d = c /\ c \in MaybeDouble \cup {"."}
    BY <1>5, <2>3
  <2>4. CASE f = s + 3 /\ d = c /\ c \in MaybeDouble /\ g = "="
    BY <1>5, <2>4
  <2> QED
    BY <1>4, <2>1, <2>2, <2>3, <2>4
<1>8. \A f \in s + 1 .. Len(source) + 1 : KindsOf(s, f) # {} => f <= e
  BY <1>3, <1>7
<1>9. KindsOf(s, e) = {"operator"}
  BY <1>2, <1>3, <1>6
<1> QED
  BY <1>2, <1>8, <1>9, LongestIs

\* A comment to the end of its line.
LEMMA LineLexeme ==
  ASSUME source \in Seq(Characters), NEW s \in 1 .. Len(source), Char(s) = "/", Char(s + 1) = "/",
         NEW e, e = To(s + 2, {"NUL", "CR", "LF"})
  PROVE  /\ e \in s + 2 .. Len(source) + 1
         /\ LexemesAt(s) # {} /\ Longest(s) = e /\ KindsOf(s, e) = {"comment"}
<1>1. PICK S : S = Characters \ {"NUL", "CR", "LF"}
  OBVIOUS
<1>2. s + 2 \in 1 .. Len(source) + 1
  BY CharType
<1>3. /\ e \in s + 2 .. Len(source) + 1 /\ \A j \in s + 2 .. e - 1 : Char(j) \in S
      /\ Char(e) \notin S \/ e = Len(source) + 1
  BY <1>1, <1>2, PastStops DEF To
<1>4. \A f \in s + 1 .. Len(source) + 1 :
        KindsOf(s, f) = IF f = s + 1 THEN {"operator"}
                        ELSE IF \A j \in s .. f - 1 : Char(j) \in S THEN {"comment"} ELSE {}
  <2> TAKE f \in s + 1 .. Len(source) + 1
  <2>1. s \in Nat \ {0} /\ f \in Nat /\ s < f
    OBVIOUS
  <2>2. PICK t : t = Text(s, f)
    OBVIOUS
  <2>3. /\ Len(t) = f - s /\ DOMAIN t = 1 .. f - s /\ t[1] = "/"
        /\ \A i \in 1 .. f - s : t[i] = Char(s + i - 1)
        /\ (\A i \in 1 .. f - s : t[i] \in S) <=> (\A j \in s .. f - 1 : Char(j) \in S)
    BY <2>1, <2>2, TextIs
  <2>4. /\ ~IsNumber(t) /\ ~IsWord(t) /\ ~IsString(s, f) /\ ~IsComment(s, f) /\ ~IsOpenComment(s, f)
    BY <2>1, <2>2, FirstCharacter, ClassesApart
  <2>5. f # s + 1 => t[2] = "/"
    <3>1. f # s + 1 => 2 \in 1 .. f - s /\ s + 2 - 1 = s + 1
      OBVIOUS
    <3> QED
      BY <2>3, <3>1
  <2>6. IsOperator(t) <=> f = s + 1
    <3>1. CASE f = s + 1
      <4>1. Len(t) = 1
        BY <2>3, <3>1
      <4> QED
        BY <2>3, <3>1, <4>1 DEF IsOperator
    <3>2. CASE f # s + 1
      <4>1. Len(t) # 1
        BY <2>3, <3>2
      <4>2. "/" \notin MaybeDouble /\ "/" # "." /\ "/" # "="
        BY ClassesApart
      <4> QED
        BY <2>3, <2>5, <3>2, <4>1, <4>2 DEF IsOperator
    <3> QED
      BY <3>1, <3>2
  <2>7. IsLine(t) <=> f # s + 1 /\ \A j \in s .. f - 1 : Char(j) \in S
    <3>1. \A i \in 1 .. f - s : t[i] \in Characters
      <4>1. \A i \in 1 .. f - s : s + i - 1 \in Nat \ {0}
        OBVIOUS
      <4> QED
        BY <2>3, <4>1, CharType
    <3>2. Len(t) >= 2 <=> f # s + 1
      BY <2>3
    <3>3. (\A i \in 1 .. f - s : t[i] \notin {"LF", "CR", "NUL"}) <=> (\A i \in 1 .. f - s : t[i] \in S)
      BY <1>1, <3>1
    <3>4. IsLine(t) <=> Len(t) >= 2 /\ \A i \in 1 .. f - s : t[i] \notin {"LF", "CR", "NUL"}
      BY <2>3, <2>5, <3>2 DEF IsLine
    <3> QED
      BY <2>3, <3>2, <3>3, <3>4
  <2>8. KindsOf(s, f) = (IF IsOperator(t) THEN {"operator"} ELSE {})
                        \cup (IF IsLine(t) THEN {"comment"} ELSE {})
    BY <2>2, <2>4, Zenon DEF KindsOf
  <2> QED
    BY <2>6, <2>7, <2>8
<1>5. \A j \in s .. e - 1 : Char(j) \in S
  <2>1. Char(s) \in Characters /\ Char(s + 1) \in Characters
    BY CharType
  <2>2. Char(s) \in S /\ Char(s + 1) \in S
    BY <1>1, <2>1
  <2>3. \A j \in s .. e - 1 : j = s \/ j = s + 1 \/ j \in s + 2 .. e - 1
    BY <1>3
  <2> QED
    BY <1>3, <2>2, <2>3
<1>6. e \in s + 1 .. Len(source) + 1 /\ e # s + 1
  BY <1>3
<1>7. KindsOf(s, e) = {"comment"}
  BY <1>4, <1>5, <1>6
<1>8. \A f \in s + 1 .. Len(source) + 1 : KindsOf(s, f) # {} => f <= e
  <2> SUFFICES ASSUME NEW f \in s + 1 .. Len(source) + 1, KindsOf(s, f) # {}, e < f PROVE FALSE
    BY <1>3
  <2>1. f # s + 1
    BY <1>3
  <2>2. \A j \in s .. f - 1 : Char(j) \in S
    BY <1>4, <2>1
  <2>3. e \in s .. f - 1 /\ e # Len(source) + 1
    BY <1>3
  <2> QED
    BY <1>3, <2>2, <2>3
<1> QED
  BY <1>3, <1>6, <1>7, <1>8, LongestIs

\* A comment between marks.
LEMMA MultilineLexeme ==
  ASSUME source \in Seq(Characters), NEW s \in 1 .. Len(source), Char(s) = "/", Char(s + 1) = "*",
         NEW e, e = CommentEnd[<<s + 2, 1>>]
  PROVE  /\ e \in s + 2 .. Len(source) + 1
         /\ LexemesAt(s) # {} /\ Longest(s) = e /\ KindsOf(s, e) = {"comment"}
<1>1. Pair(s) = Opening
  BY MarksInside
<1>2. /\ e \in s + 2 .. Len(source) + 1
      /\ \A f \in s + 1 .. Len(source) + 1 : IsComment(s, f) \/ IsOpenComment(s, f) <=> f = e
  <2>1. s + 1 \in s + 1 .. Len(source) + 1
    OBVIOUS
  <2> QED
    BY <1>1, <2>1, CommentExact
<1>3. \A f \in s + 1 .. Len(source) + 1 :
        KindsOf(s, f) = IF f = s + 1 THEN {"operator"} ELSE IF f = e THEN {"comment"} ELSE {}
  <2> TAKE f \in s + 1 .. Len(source) + 1
  <2>1. s \in Nat \ {0} /\ f \in Nat /\ s < f
    OBVIOUS
  <2>2. PICK t : t = Text(s, f)
    OBVIOUS
  <2>3. /\ Len(t) = f - s /\ t[1] = "/"
        /\ \A i \in 1 .. f - s : t[i] = Char(s + i - 1)
    BY <2>1, <2>2, TextIs
  <2>4. /\ ~IsNumber(t) /\ ~IsWord(t) /\ ~IsString(s, f) /\ ~IsLine(t)
    BY <2>1, <2>2, FirstCharacter, ClassesApart
  <2>5. f # s + 1 => t[2] = "*"
    <3>1. f # s + 1 => 2 \in 1 .. f - s /\ s + 2 - 1 = s + 1
      OBVIOUS
    <3> QED
      BY <2>3, <3>1
  <2>6. IsOperator(t) <=> f = s + 1
    <3>1. CASE f = s + 1
      <4>1. Len(t) = 1
        BY <2>3, <3>1
      <4> QED
        BY <2>3, <3>1, <4>1 DEF IsOperator
    <3>2. CASE f # s + 1
      <4>1. Len(t) # 1
        BY <2>3, <3>2
      <4>2. "/" \notin MaybeDouble /\ "/" # "." /\ "*" # "=" /\ "*" # "/"
        BY ClassesApart
      <4> QED
        BY <2>3, <2>5, <3>2, <4>1, <4>2 DEF IsOperator
    <3> QED
      BY <3>1, <3>2
  <2>7. KindsOf(s, f) = (IF IsOperator(t) THEN {"operator"} ELSE {})
                        \cup (IF IsComment(s, f) \/ IsOpenComment(s, f) THEN {"comment"} ELSE {})
    BY <2>2, <2>4, Zenon DEF KindsOf
  <2>8. e # s + 1
    BY <1>2
  <2> QED
    BY <1>2, <2>6, <2>7, <2>8
<1>4. e \in s + 1 .. Len(source) + 1 /\ e # s + 1
  BY <1>2
<1>5. KindsOf(s, e) = {"comment"}
  BY <1>3, <1>4
<1>6. \A f \in s + 1 .. Len(source) + 1 : KindsOf(s, f) # {} => f <= e
  BY <1>2, <1>3
<1> QED
  BY <1>2, <1>4, <1>5, <1>6, LongestIs

\* A string or a character that is closed, and one that is not.
LEMMA StringLexeme ==
  ASSUME source \in Seq(Characters), NEW s \in 1 .. Len(source), Char(s) \in Quotes,
         NEW a, a = String(Char(s))[s + 1].at
  PROVE  /\ a # 0 => /\ a + 1 \in s + 1 .. Len(source) + 1
                     /\ LexemesAt(s) # {} /\ Longest(s) = a + 1
                     /\ KindsOf(s, a + 1) = {IF Char(s) = "quote" THEN "string" ELSE "char"}
         /\ a = 0 => LexemesAt(s) = {}
<1>1. \A f \in s + 1 .. Len(source) + 1 :
        /\ a # 0 => a \in s + 1 .. Len(source)
        /\ IsString(s, f) <=> a # 0 /\ f = a + 1
  BY StringExact
<1>2. a # 0 => a \in s + 1 .. Len(source)
  <2>1. s + 1 \in s + 1 .. Len(source) + 1
    OBVIOUS
  <2> QED
    BY <1>1, <2>1
<1>3. \A f \in s + 1 .. Len(source) + 1 :
        KindsOf(s, f) = IF a # 0 /\ f = a + 1
                          THEN {IF Char(s) = "quote" THEN "string" ELSE "char"} ELSE {}
  <2> TAKE f \in s + 1 .. Len(source) + 1
  <2>1. s \in Nat \ {0} /\ f \in Nat /\ s < f
    OBVIOUS
  <2>2. PICK t : t = Text(s, f)
    OBVIOUS
  <2>3. t[1] = Char(s)
    BY <2>1, <2>2, TextIs
  <2>4. /\ ~IsNumber(t) /\ ~IsWord(t) /\ ~IsOperator(t) /\ ~IsLine(t)
        /\ ~IsComment(s, f) /\ ~IsOpenComment(s, f)
    BY <2>1, <2>2, FirstCharacter, ClassesApart
  <2>5. KindsOf(s, f) = IF IsString(s, f) THEN {IF t[1] = "quote" THEN "string" ELSE "char"} ELSE {}
    BY <2>2, <2>4, Zenon DEF KindsOf
  <2> QED
    BY <1>1, <2>3, <2>5
<1>4. ASSUME a # 0
      PROVE  /\ a + 1 \in s + 1 .. Len(source) + 1
             /\ LexemesAt(s) # {} /\ Longest(s) = a + 1
             /\ KindsOf(s, a + 1) = {IF Char(s) = "quote" THEN "string" ELSE "char"}
  <2>1. PICK e : e = a + 1
    OBVIOUS
  <2>2. e \in s + 1 .. Len(source) + 1
    BY <1>2, <1>4, <2>1
  <2>3. KindsOf(s, e) = {IF Char(s) = "quote" THEN "string" ELSE "char"}
    BY <1>3, <1>4, <2>1, <2>2
  <2>4. \A f \in s + 1 .. Len(source) + 1 : KindsOf(s, f) # {} => f <= e
    BY <1>3, <2>1
  <2>5. LexemesAt(s) # {} /\ Longest(s) = e
    BY <2>2, <2>3, <2>4, LongestIs
  <2> QED
    BY <2>1, <2>2, <2>3, <2>5
<1>5. ASSUME a = 0 PROVE LexemesAt(s) = {}
  BY <1>3, <1>5 DEF LexemesAt
<1> QED
  BY <1>4, <1>5

\* Nothing begins with a character of no class.
LEMMA NothingLexeme ==
  ASSUME source \in Seq(Characters), NEW s \in 1 .. Len(source), Char(s) \in Unknown \cup {"\\"}
  PROVE  LexemesAt(s) = {}
<1>1. \A f \in s + 1 .. Len(source) + 1 : KindsOf(s, f) = {}
  <2> TAKE f \in s + 1 .. Len(source) + 1
  <2>1. s \in Nat \ {0} /\ f \in Nat /\ s < f
    OBVIOUS
  <2>2. PICK t : t = Text(s, f)
    OBVIOUS
  <2>3. /\ ~IsNumber(t) /\ ~IsWord(t) /\ ~IsOperator(t) /\ ~IsString(s, f) /\ ~IsLine(t)
        /\ ~IsComment(s, f) /\ ~IsOpenComment(s, f)
    BY <2>1, <2>2, FirstCharacter, ClassesApart
  <2> QED
    BY <2>2, <2>3, Zenon DEF KindsOf
<1> QED
  BY <1>1 DEF LexemesAt

\* A piece is a number when it is digits and dots, and no two dots.
LEMMA NumberIs ==
  ASSUME source \in Seq(Characters), NEW s \in Nat \ {0}, NEW f \in Nat, s < f, Char(s) \in Digits
  PROVE  IsNumber(Text(s, f)) <=>
           /\ \A j \in s .. f - 1 : Char(j) \in Digits \cup {"."}
           /\ \A j, k \in s .. f - 1 : Char(j) = "." /\ Char(k) = "." => j = k
<1>1. PICK t, S : t = Text(s, f) /\ S = Digits \cup {"."}
  OBVIOUS
<1>2. /\ DOMAIN t = 1 .. f - s /\ t[1] = Char(s)
      /\ \A i \in 1 .. f - s : t[i] = Char(s + i - 1)
      /\ \A j \in s .. f - 1 : j - s + 1 \in 1 .. f - s /\ t[j - s + 1] = Char(j)
      /\ (\A i \in 1 .. f - s : t[i] \in S) <=> (\A j \in s .. f - 1 : Char(j) \in S)
  BY <1>1, TextIs
<1>3. PICK D : D = Dots(t)
  OBVIOUS
<1>4. D = {i \in 1 .. f - s : t[i] = "."}
  BY <1>2, <1>3 DEF Dots
<1>5. IsFiniteSet(D) /\ Cardinality(D) \in Nat
  <2>1. IsFiniteSet(1 .. f - s)
    BY FS_Interval
  <2>2. IsFiniteSet(D)
    BY <1>4, <2>1, FS_Subset
  <2> QED
    BY <2>2, FS_CardinalityType
<1>6. ASSUME \A j, k \in s .. f - 1 : Char(j) = "." /\ Char(k) = "." => j = k
      PROVE  Cardinality(D) <= 1
  <2>1. CASE D = {}
    <3>1. Cardinality(D) = 0
      BY <2>1, FS_EmptySet
    <3> QED
      BY <3>1
  <2>2. CASE D # {}
    <3>1. PICK x \in D : TRUE
      BY <2>2
    <3>2. \A y \in D : y = x
      <4> TAKE y \in D
      <4>1. s + x - 1 \in s .. f - 1 /\ s + y - 1 \in s .. f - 1
        BY <1>4
      <4>2. Char(s + x - 1) = "." /\ Char(s + y - 1) = "."
        BY <1>2, <1>4
      <4>3. s + x - 1 = s + y - 1
        BY <1>6, <4>1, <4>2
      <4> QED
        BY <1>4, <4>3
    <3>3. D = {x}
      BY <3>1, <3>2
    <3>4. Cardinality(D) = 1
      BY <3>3, FS_Singleton
    <3> QED
      BY <3>4
  <2> QED
    BY <2>1, <2>2
<1>7. ASSUME NEW j \in s .. f - 1, NEW k \in s .. f - 1, Char(j) = ".", Char(k) = ".", j # k
      PROVE  ~(Cardinality(D) <= 1)
  <2>1. PICK x, y : x = j - s + 1 /\ y = k - s + 1
    OBVIOUS
  <2>2. x \in D /\ y \in D /\ x # y
    BY <1>2, <1>4, <1>7, <2>1
  <2>3. IsFiniteSet({x}) /\ Cardinality({x}) = 1
    BY FS_Singleton
  <2>4. Cardinality({x} \cup {y}) = 2
    <3>1. y \notin {x}
      BY <2>2
    <3>2. Cardinality({x} \cup {y}) = Cardinality({x}) + 1
      BY <2>3, <3>1, FS_AddElement
    <3>3. PICK A, B : A = {x} /\ B = {x} \cup {y}
      OBVIOUS
    <3>4. Cardinality(A) = 1 /\ Cardinality(B) = Cardinality(A) + 1
      BY <2>3, <3>2, <3>3
    <3>5. Cardinality(B) = 2
      BY <3>4
    <3> QED
      BY <3>3, <3>5
  <2>5. {x} \cup {y} \subseteq D
    BY <2>2
  <2>6. Cardinality({x} \cup {y}) <= Cardinality(D)
    BY <1>5, <2>5, FS_Subset
  <2>7. PICK n, d : n = Cardinality({x} \cup {y}) /\ d = Cardinality(D)
    OBVIOUS
  <2>8. n = 2 /\ n <= d /\ d \in Nat
    BY ONLY <1>5, <2>4, <2>6, <2>7
  <2>9. ~(d <= 1)
    BY ONLY <2>8
  <2> QED
    BY ONLY <2>7, <2>9
<1>8. IsNumber(t) <=> (\A i \in 1 .. f - s : t[i] \in S) /\ Cardinality(D) <= 1
  BY <1>1, <1>2, <1>3 DEF IsNumber
<1> QED
  BY <1>1, <1>2, <1>6, <1>7, <1>8

\* The pieces that begin with a digit and are lexemes.
LEMMA NumberKinds ==
  ASSUME source \in Seq(Characters), NEW s \in 1 .. Len(source), Char(s) \in Digits,
         NEW f \in s + 1 .. Len(source) + 1
  PROVE  KindsOf(s, f) =
           IF /\ \A j \in s .. f - 1 : Char(j) \in Digits \cup {"."}
              /\ \A j, k \in s .. f - 1 : Char(j) = "." /\ Char(k) = "." => j = k
              /\ ~(Char(f) = "." /\ Char(f - 1) = ".")
           THEN {"number"} ELSE {}
<1>1. s \in Nat \ {0} /\ f \in Nat /\ s < f
  OBVIOUS
<1>2. PICK t : t = Text(s, f)
  OBVIOUS
<1>3. t[Len(t)] = Char(f - 1)
  <2>1. Len(t) = f - s /\ t[f - s] = Char(f - 1)
    BY <1>1, <1>2, TextIs
  <2> QED
    BY <2>1
<1>4. /\ ~IsWord(t) /\ ~IsOperator(t) /\ ~IsString(s, f) /\ ~IsLine(t)
      /\ ~IsComment(s, f) /\ ~IsOpenComment(s, f)
  BY <1>1, <1>2, FirstCharacter, ClassesApart
<1>5. KindsOf(s, f) = IF IsNumber(t) /\ ~(Char(f) = "." /\ t[Len(t)] = ".") THEN {"number"} ELSE {}
  BY <1>2, <1>4, Zenon DEF KindsOf
<1>6. IsNumber(t) <=>
        /\ \A j \in s .. f - 1 : Char(j) \in Digits \cup {"."}
        /\ \A j, k \in s .. f - 1 : Char(j) = "." /\ Char(k) = "." => j = k
  BY <1>1, <1>2, NumberIs
<1> QED
  BY <1>3, <1>5, <1>6

\* Where a number ends, and where the lexer goes on behind it.
NumberEnd(s) ==
  LET dot == Past(s, Digits) IN IF Char(dot) = "." THEN Past(dot + 1, Digits) ELSE dot
NumberNext(s) ==
  LET e == NumberEnd(s) IN IF e > Past(s, Digits) /\ Char(e) = "." THEN e - 1 ELSE e

\* The numbers.  One that ends in front of a second dot, and in a dot, is one
\* lexeme too long; if it ends in a digit, the lexer goes back.
LEMMA NumberLexeme ==
  ASSUME source \in Seq(Characters), NEW s \in 1 .. Len(source), Char(s) \in Digits,
         NEW dot, dot = Past(s, Digits), NEW e, e = NumberEnd(s), NEW o, o = NumberNext(s)
  PROVE  /\ dot \in s + 1 .. Len(source) + 1 /\ e \in dot .. Len(source) + 1
         /\ e > dot => Char(dot) = "."
         /\ \/ e > dot /\ Char(e) = "." /\ Text(s, e)[Len(Text(s, e))] # "."
            \/ /\ o \in s + 1 .. Len(source) + 1
               /\ LexemesAt(s) # {} /\ Longest(s) = o /\ KindsOf(s, o) = {"number"}
<1>0. /\ e = IF Char(dot) = "." THEN Past(dot + 1, Digits) ELSE dot
      /\ o = IF e > dot /\ Char(e) = "." THEN e - 1 ELSE e
  BY DEF NumberEnd, NumberNext
<1>1. "." \notin Digits
  BY ClassesApart
<1>2. /\ dot \in s .. Len(source) + 1 /\ \A j \in s .. dot - 1 : Char(j) \in Digits
      /\ Char(dot) \notin Digits \/ dot = Len(source) + 1
  BY PastStops
<1>3. dot \in s + 1 .. Len(source) + 1 /\ Char(dot) \notin Digits
  <2>1. dot # s \/ Char(dot) \notin Digits
    BY <1>2
  <2>2. dot = Len(source) + 1 => Char(dot) = "NUL"
    BY DEF Char
  <2>3. "NUL" \notin Digits
    BY ClassesApart
  <2> QED
    BY <1>2, <2>2, <2>3
<1>4. CASE Char(dot) # "."
  <2>1. e = dot /\ o = dot
    BY <1>0, <1>3, <1>4
  <2>2. KindsOf(s, dot) = {"number"}
    <3>1. \A j \in s .. dot - 1 : Char(j) \in Digits /\ Char(j) # "."
      BY <1>1, <1>2
    <3> QED
      BY <1>3, <1>4, <3>1, NumberKinds
  <2>3. \A f \in s + 1 .. Len(source) + 1 : KindsOf(s, f) # {} => f <= dot
    <3> SUFFICES ASSUME NEW f \in s + 1 .. Len(source) + 1, KindsOf(s, f) # {} PROVE f <= dot
      OBVIOUS
    <3>1. \A j \in s .. f - 1 : Char(j) \in Digits \cup {"."}
      BY NumberKinds
    <3>2. dot \notin s .. f - 1
      BY <1>3, <1>4, <3>1
    <3> QED
      BY <1>3, <3>2
  <2>4. LexemesAt(s) # {} /\ Longest(s) = dot
    BY <1>3, <2>2, <2>3, LongestIs
  <2> QED
    BY <1>3, <2>1, <2>2, <2>4
<1>5. CASE Char(dot) = "."
  <2>1. dot + 1 \in 1 .. Len(source) + 1
    BY <1>3, <1>5, CharType
  <2>2. /\ e \in dot + 1 .. Len(source) + 1 /\ \A j \in dot + 1 .. e - 1 : Char(j) \in Digits
        /\ Char(e) \notin Digits \/ e = Len(source) + 1
    BY <1>0, <1>5, <2>1, PastStops
  <2>3. Char(e) \notin Digits
    <3>1. e = Len(source) + 1 => Char(e) = "NUL"
      BY DEF Char
    <3>2. "NUL" \notin Digits
      BY ClassesApart
    <3> QED
      BY <2>2, <3>1, <3>2
  <2>4. dot \in s + 1 .. Len(source) + 1 /\ e \in dot .. Len(source) + 1 /\ e > dot
    BY <1>3, <2>2
  <2>5. \A j \in s .. e - 1 : Char(j) \in Digits \cup {"."} /\ (Char(j) = "." => j = dot)
    <3> TAKE j \in s .. e - 1
    <3>1. j \in s .. dot - 1 \/ j = dot \/ j \in dot + 1 .. e - 1
      BY <1>3, <2>2
    <3> QED
      BY <1>1, <1>2, <1>5, <2>2, <3>1
  <2>6. CASE Char(e) # "."
    <3>1. o = e /\ e \in s + 1 .. Len(source) + 1
      BY <1>0, <1>3, <2>2, <2>6
    <3>2. KindsOf(s, e) = {"number"}
      <4>1. \A j, k \in s .. e - 1 : Char(j) = "." /\ Char(k) = "." => j = k
        BY <2>5
      <4>2. \A j \in s .. e - 1 : Char(j) \in Digits \cup {"."}
        BY <2>5
      <4> QED
        BY <2>6, <3>1, <4>1, <4>2, NumberKinds
    <3>3. \A f \in s + 1 .. Len(source) + 1 : KindsOf(s, f) # {} => f <= e
      <4> SUFFICES ASSUME NEW f \in s + 1 .. Len(source) + 1, KindsOf(s, f) # {} PROVE f <= e
        OBVIOUS
      <4>1. \A j \in s .. f - 1 : Char(j) \in Digits \cup {"."}
        BY NumberKinds
      <4>2. e \notin s .. f - 1
        BY <2>3, <2>6, <4>1
      <4> QED
        BY <3>1, <4>2
    <3>4. LexemesAt(s) # {} /\ Longest(s) = e
      BY <3>1, <3>2, <3>3, LongestIs
    <3> QED
      BY <1>5, <2>4, <3>1, <3>2, <3>4
  <2>7. CASE Char(e) = "." /\ e # dot + 1
    <3>1. e - 1 \in dot + 1 .. e - 1
      <4>1. dot \in Nat /\ e \in Nat /\ e >= dot + 1 /\ e # dot + 1
        BY ONLY <1>3, <2>2, <2>7, source \in Seq(Characters)
      <4> QED
        BY ONLY <4>1
    <3>2. Char(e - 1) # "."
      BY <1>1, <2>2, <3>1
    <3>3. PICK t : t = Text(s, e)
      OBVIOUS
    <3>4. s \in Nat \ {0} /\ e \in Nat /\ s < e
      BY <2>4
    <3>5. Len(t) = e - s /\ t[e - s] = Char(e - 1)
      <4>1. PICK g \in Nat : g = e /\ s < g
        BY <3>4
      <4>2. Len(Text(s, g)) = g - s /\ Text(s, g)[g - s] = Char(g - 1)
        BY ONLY <3>4, <4>1, TextIs
      <4> QED
        BY ONLY <3>3, <4>1, <4>2
    <3> QED
      BY <1>5, <2>4, <2>7, <3>2, <3>3, <3>5
  <2>8. CASE Char(e) = "." /\ e = dot + 1
    <3>1. o = dot
      BY <1>0, <1>3, <2>8
    <3>2. KindsOf(s, dot) = {"number"}
      <4>1. \A j \in s .. dot - 1 : Char(j) \in Digits /\ Char(j) # "."
        BY <1>1, <1>2
      <4>2. Char(dot - 1) # "."
        BY <1>3, <4>1
      <4> QED
        BY <1>3, <4>1, <4>2, NumberKinds
    <3>3. \A f \in s + 1 .. Len(source) + 1 : KindsOf(s, f) # {} => f <= dot
      <4> SUFFICES ASSUME NEW f \in s + 1 .. Len(source) + 1, KindsOf(s, f) # {} PROVE f <= dot
        OBVIOUS
      <4>1. /\ \A j, k \in s .. f - 1 : Char(j) = "." /\ Char(k) = "." => j = k
            /\ ~(Char(f) = "." /\ Char(f - 1) = ".")
        BY NumberKinds
      <4>2. CASE f = dot + 1
        <5>1. Char(f) = "." /\ Char(f - 1) = "."
          BY <1>3, <1>5, <2>8, <4>2
        <5> QED
          BY <4>1, <5>1
      <4>3. CASE f > dot + 1
        <5>1. dot \in s .. f - 1 /\ dot + 1 \in s .. f - 1
          BY <1>3, <4>3
        <5>2. dot = dot + 1
          BY <1>5, <2>8, <4>1, <5>1
        <5> QED
          BY <1>3, <5>2
      <4> QED
        BY <1>3, <4>2, <4>3
    <3>4. LexemesAt(s) # {} /\ Longest(s) = dot
      BY <1>3, <3>2, <3>3, LongestIs
    <3> QED
      BY <1>3, <1>5, <2>4, <3>1, <3>2, <3>4
  <2> QED
    BY <2>6, <2>7, <2>8
<1> QED
  BY <1>4, <1>5

-----------------------------------------------------------------------------
(* The lexemes of a text *)

\* What the piece from s to e is.
KindAt(s, e) == CHOOSE k \in KindsOf(s, e) : TRUE
\* The lexemes from the lexeme at s on, given those from each later place on.
FromStart(from, s) ==
  IF Char(s) = "NUL" THEN <<Lexeme("EOF", s)>>
  ELSE IF Char(s) \in Quotes /\ LexemesAt(s) = {} THEN <<Lexeme("open string", s)>>
  ELSE IF LexemesAt(s) = {} THEN <<Lexeme("none", s)>> \o from[s + 1]
  ELSE IF KindAt(s, Longest(s)) = "comment" THEN from[Longest(s)]
  ELSE <<Lexeme(KindAt(s, Longest(s)), s)>> \o from[Longest(s)]

\* The lexemes from i on, given those from each later place on.
FromAt(from, i) == FromStart(from, Past(i, Spaces))

\* A text that stays keeps its lexemes.
LEMMA SameText ==
  ASSUME source' = source
  PROVE  LexemesFrom' = LexemesFrom
<1>1. \A i : Char(i)' = Char(i)
  BY DEF Char
<1>2. \A i, S : Past(i, S)' = Past(i, S)
  BY DEF Past, Char
<1>3. \A s, e : Text(s, e)' = Text(s, e)
  BY <1>1 DEF Text
<1>4. \A i : Pair(i)' = Pair(i)
  BY <1>1 DEF Pair
<1>5. Insides' = Insides
  BY DEF Insides, Pair, Char, Opening, Closing
<1>6. \A s, i : Backslashes(s, i)' = Backslashes(s, i)
  BY <1>1 DEF Backslashes
<1>7. \A s, i : Closes(s, i)' <=> Closes(s, i)
  BY <1>1, <1>6 DEF Closes
<1>8. \A s, e : IsString(s, e)' <=> IsString(s, e)
  BY <1>1, <1>7 DEF IsString
<1>9. \A s, e : IsComment(s, e)' <=> IsComment(s, e)
  BY <1>4, <1>5 DEF IsComment, Opening, Closing
<1>10. \A s, e : IsOpenComment(s, e)' <=> IsOpenComment(s, e)
  BY <1>1, <1>4, <1>9 DEF IsOpenComment, Opening
<1>11. \A s, e : KindsOf(s, e)' = KindsOf(s, e)
  BY <1>1, <1>3, <1>8, <1>9, <1>10 DEF KindsOf, IsWord, IsNumber, IsOperator, IsLine
<1>12. \A s : LexemesAt(s)' = LexemesAt(s)
  BY <1>11 DEF LexemesAt
<1>13. \A s : Longest(s)' = Longest(s)
  BY <1>12 DEF Longest
<1>14. \A from, i : FromAt(from, i)' = FromAt(from, i)
  <2>1. \A s, e : KindAt(s, e)' = KindAt(s, e)
    BY <1>11 DEF KindAt
  <2>2. \A s : KindAt(s, Longest(s))' = KindAt(s, Longest(s))
    BY <1>13, <2>1
  <2>3. ASSUME NEW from, NEW s PROVE FromStart(from, s)' = FromStart(from, s)
    <3>1. /\ Char(s)' = Char(s) /\ LexemesAt(s)' = LexemesAt(s) /\ Longest(s)' = Longest(s)
          /\ KindAt(s, Longest(s))' = KindAt(s, Longest(s))
      BY <1>1, <1>12, <1>13, <2>2
    <3> QED
      BY <3>1 DEF FromStart, Lexeme
  <2> QED
    BY <1>2, <2>3 DEF FromAt
<1>15. LexemesFrom = CHOOSE f : f = [i \in 1 .. Len(source) + 1 |-> FromAt(f, i)]
  BY Zenon DEF LexemesFrom, FromAt, FromStart, KindAt
<1>16. LexemesFrom' = CHOOSE f : f = [i \in 1 .. Len(source)' + 1 |-> FromAt(f, i)']
  BY Zenon DEF LexemesFrom, FromAt, FromStart, KindAt
<1>17. \A f : [i \in 1 .. Len(source)' + 1 |-> FromAt(f, i)'] = [i \in 1 .. Len(source) + 1 |-> FromAt(f, i)]
  BY <1>14
<1> QED
  BY <1>15, <1>16, <1>17

\* A lexeme ends behind where it begins.
LEMMA LongestLater ==
  ASSUME source \in Seq(Characters), NEW s \in 1 .. Len(source) + 1, LexemesAt(s) # {}
  PROVE  Longest(s) \in s + 1 .. Len(source) + 1 /\ KindsOf(s, Longest(s)) # {}
<1>1. PICK L, n : L = LexemesAt(s) /\ n = Len(source) + 1
  OBVIOUS
<1>2. L \subseteq s + 1 .. Len(source) + 1 /\ L # {} /\ \A e \in L : KindsOf(s, e) # {}
  BY <1>1 DEF LexemesAt
<1>3. n \in Nat /\ L \subseteq 0 .. n
  BY <1>1, <1>2
<1>4. \E e \in L : \A f \in L : f <= e
  BY <1>2, <1>3, GreatestExists
<1>5. Longest(s) = CHOOSE e \in L : \A f \in L : f <= e
  BY <1>1 DEF Longest
<1>6. Longest(s) \in L
  BY <1>4, <1>5
<1> QED
  BY <1>2, <1>6

\* LexemesFrom is a function that obeys its own definition.
LEMMA LexemesUnfold ==
  ASSUME source \in Seq(Characters)
  PROVE  LexemesFrom = [i \in 1 .. Len(source) + 1 |-> FromAt(LexemesFrom, i)]
<1> DEFINE N == Len(source) + 1
           Upto(k) == N - k + 1 .. N
           Solves(g, k) == g = [i \in Upto(k) |-> FromAt(g, i)]
           Unsolved == {k \in 0 .. N : \A g : ~Solves(g, k)}
<1>0. N \in Nat
  OBVIOUS
<1>1. Unsolved = {}
  <2> SUFFICES ASSUME Unsolved # {} PROVE FALSE
    OBVIOUS
  <2>1. Unsolved \subseteq Nat
    OBVIOUS
  <2>2. PICK k \in Unsolved : \A l \in Unsolved : k <= l
    BY <2>1, LeastExists
  <2>2a. k \in 0 .. N
    OBVIOUS
  <2>3. k # 0
    <3> DEFINE none == [i \in {} |-> 0]
    <3>1. Solves(none, 0)
      BY <1>0
    <3> QED
      BY <3>1
  <2>4. k - 1 \in 0 .. N /\ k - 1 \notin Unsolved
    <3>1. k \in 1 .. N
      BY <1>0, <2>2a, <2>3
    <3>2. k - 1 \in 0 .. N /\ ~(k <= k - 1)
      BY <1>0, <3>1
    <3> HIDE DEF Unsolved
    <3> QED
      BY <2>2, <3>2
  <2>5. PICK g : Solves(g, k - 1)
    BY <2>4
  <2> DEFINE h == [i \in Upto(k) |-> IF i \in Upto(k - 1) THEN g[i] ELSE FromAt(g, i)]
  <2>6. \A i \in Upto(k) : h[i] = FromAt(g, i)
    BY <2>5
  <2>7. \A i \in Upto(k) : FromAt(h, i) = FromAt(g, i)
    <3> TAKE i \in Upto(k)
    <3>0. i \in 1 .. N
      BY <1>0, <2>2a
    <3>1. \A j \in i + 1 .. N : h[j] = g[j]
      <4>1. \A j \in i + 1 .. N : j \in Upto(k) /\ j \in Upto(k - 1)
        BY <1>0, <2>2a, <3>0
      <4> QED
        BY <4>1
    <3> HIDE DEF h
    <3>2. PICK s : s = Past(i, Spaces)
      OBVIOUS
    <3>3. s \in i .. N /\ s \in 1 .. N
      BY <3>0, <3>2, PastStops
    <3>4. Char(s) # "NUL" => h[s + 1] = g[s + 1]
      BY <3>0, <3>1, <3>3, CharType
    <3>5. LexemesAt(s) # {} => h[Longest(s)] = g[Longest(s)]
      BY <3>0, <3>1, <3>3, LongestLater
    <3>6. FromStart(h, s) = FromStart(g, s)
      BY <3>4, <3>5 DEF FromStart
    <3> QED
      BY <3>2, <3>6 DEF FromAt
  <2>8. h = [i \in Upto(k) |-> FromAt(h, i)]
    <3>1. \A i \in Upto(k) : h[i] = FromAt(h, i)
      BY <2>6, <2>7
    <3>2. h = [i \in Upto(k) |-> h[i]]
      OBVIOUS
    <3> HIDE DEF h, Upto
    <3> QED
      BY <3>1, <3>2
  <2> QED
    BY <2>2, <2>8
<1>2. PICK g : Solves(g, N)
  <2>1. N \in 0 .. N
    BY <1>0
  <2> HIDE DEF N, Solves
  <2> QED
    BY <1>1, <2>1
<1>3. Upto(N) = 1 .. Len(source) + 1
  BY <1>0
<1>4. g = [i \in 1 .. Len(source) + 1 |-> FromAt(g, i)]
  BY <1>2, <1>3
<1>5. LexemesFrom = CHOOSE f : f = [i \in 1 .. Len(source) + 1 |-> FromAt(f, i)]
  BY Zenon DEF LexemesFrom, FromAt, FromStart, KindAt
<1> QED
  BY <1>4, <1>5, Zenon

Kinds == {"keyword", "identifier", "number", "operator", "string", "char", "comment",
          "EOF", "open string", "none"}
Lexs == [kind : Kinds, from : Nat]

\* The lexemes from i on, by what is there behind the white space.
LEMMA LexemesAhead ==
  ASSUME source \in Seq(Characters), NEW i \in 1 .. Len(source) + 1, NEW s, s = Past(i, Spaces)
  PROVE  /\ s \in i .. Len(source) + 1
         /\ Char(s) = "NUL" => LexemesFrom[i] = <<Lexeme("EOF", s)>>
         /\ Char(s) # "NUL" /\ LexemesAt(s) = {} =>
              LexemesFrom[i] = IF Char(s) \in Quotes THEN <<Lexeme("open string", s)>>
                               ELSE <<Lexeme("none", s)>> \o LexemesFrom[s + 1]
         /\ Char(s) # "NUL" /\ LexemesAt(s) # {} =>
              \A kind : KindsOf(s, Longest(s)) = {kind} =>
                LexemesFrom[i] = IF kind = "comment" THEN LexemesFrom[Longest(s)]
                                 ELSE <<Lexeme(kind, s)>> \o LexemesFrom[Longest(s)]
<1>1. s \in i .. Len(source) + 1
  BY PastStops
<1>2. PICK from : from = LexemesFrom
  OBVIOUS
<1>3. from[i] = FromStart(from, s)
  <2>1. from = [k \in 1 .. Len(source) + 1 |-> FromAt(from, k)]
    BY <1>2, LexemesUnfold
  <2> QED
    BY <2>1 DEF FromAt
<1>4. \A kind, e : KindsOf(s, e) = {kind} => KindAt(s, e) = kind
  BY DEF KindAt
<1>5. Char(s) = "NUL" => from[i] = <<Lexeme("EOF", s)>>
  BY <1>3 DEF FromStart
<1>6. Char(s) # "NUL" /\ LexemesAt(s) = {} =>
        from[i] = IF Char(s) \in Quotes THEN <<Lexeme("open string", s)>>
                  ELSE <<Lexeme("none", s)>> \o from[s + 1]
  BY <1>3 DEF FromStart
<1>7. ASSUME Char(s) # "NUL", LexemesAt(s) # {}, NEW kind, KindsOf(s, Longest(s)) = {kind}
      PROVE  from[i] = IF kind = "comment" THEN from[Longest(s)]
                       ELSE <<Lexeme(kind, s)>> \o from[Longest(s)]
  <2>1. KindAt(s, Longest(s)) = kind
    BY <1>4, <1>7
  <2> QED
    BY <1>3, <1>7, <2>1 DEF FromStart
<1> QED
  BY <1>1, <1>2, <1>5, <1>6, <1>7

\* They are lexemes.
LEMMA LexemesType ==
  ASSUME source \in Seq(Characters)
  PROVE  \A i \in 1 .. Len(source) + 1 : LexemesFrom[i] \in Seq(Lexs)
<1> DEFINE N == Len(source) + 1
           Good(i) == LexemesFrom[i] \in Seq(Lexs)
           Bad == {i \in 1 .. N : ~Good(i)}
<1> SUFFICES ASSUME Bad # {} PROVE FALSE
  OBVIOUS
<1>1. N \in Nat /\ Bad \subseteq 0 .. N
  OBVIOUS
<1>2. PICK i \in Bad : \A j \in Bad : j <= i
  BY <1>1, GreatestExists
<1>3. i \in 1 .. N /\ (\A j \in i + 1 .. N : LexemesFrom[j] \in Seq(Lexs)) /\ LexemesFrom[i] \notin Seq(Lexs)
  BY <1>1, <1>2
<1>4. PICK s : s = Past(i, Spaces)
  OBVIOUS
<1>5. s \in i .. N /\ s \in Nat
  <2>1. s \in i .. Len(source) + 1
    BY <1>3, <1>4, PastStops
  <2> QED
    BY <1>3, <2>1
<1>6. ASSUME NEW kind \in Kinds PROVE <<Lexeme(kind, s)>> \in Seq(Lexs)
  <2>1. Lexeme(kind, s) \in Lexs
    BY <1>5 DEF Lexeme, Lexs
  <2> QED
    BY <2>1
<1>7. ASSUME NEW kind \in Kinds, NEW j \in i + 1 .. N
      PROVE  <<Lexeme(kind, s)>> \o LexemesFrom[j] \in Seq(Lexs)
  <2>1. <<Lexeme(kind, s)>> \in Seq(Lexs) /\ LexemesFrom[j] \in Seq(Lexs)
    BY <1>3, <1>6
  <2> QED
    BY <2>1, ConcatProperties
<1>8. CASE Char(s) = "NUL"
  <2>1. LexemesFrom[i] = <<Lexeme("EOF", s)>>
    BY <1>3, <1>4, <1>8, LexemesAhead
  <2> QED
    BY <1>3, <1>6, <2>1 DEF Kinds
<1>9. CASE Char(s) # "NUL" /\ LexemesAt(s) = {}
  <2>1. LexemesFrom[i] = IF Char(s) \in Quotes THEN <<Lexeme("open string", s)>>
                         ELSE <<Lexeme("none", s)>> \o LexemesFrom[s + 1]
    BY <1>3, <1>4, <1>9, LexemesAhead
  <2>2. s + 1 \in i + 1 .. N
    BY <1>3, <1>5, <1>9, CharType
  <2>3. "open string" \in Kinds /\ "none" \in Kinds
    BY DEF Kinds
  <2> QED
    BY <1>3, <1>6, <1>7, <2>1, <2>2, <2>3
<1>10. CASE Char(s) # "NUL" /\ LexemesAt(s) # {}
  <2>1. PICK e : e = Longest(s)
    OBVIOUS
  <2>2. e \in i + 1 .. N /\ KindsOf(s, e) # {}
    <3>1. s \in 1 .. Len(source) + 1
      BY <1>3, <1>5
    <3>2. e \in s + 1 .. Len(source) + 1 /\ KindsOf(s, e) # {}
      BY <1>10, <2>1, <3>1, LongestLater
    <3> QED
      BY <1>3, <1>5, <3>2
  <2>3. PICK kind : kind = KindAt(s, e)
    OBVIOUS
  <2>4. kind \in Kinds
    <3>1. kind \in KindsOf(s, e)
      BY <2>2, <2>3 DEF KindAt
    <3>2. KindsOf(s, e) \subseteq {"keyword", "identifier", "number", "operator", "string", "char", "comment"}
      BY DEF KindsOf
    <3> QED
      BY <3>1, <3>2 DEF Kinds
  <2>5. LexemesFrom[i] = IF kind = "comment" THEN LexemesFrom[e]
                         ELSE <<Lexeme(kind, s)>> \o LexemesFrom[e]
    <3>1. PICK from : from = LexemesFrom
      OBVIOUS
    <3>2. from[i] = FromStart(from, s)
      <4>1. from = [k \in 1 .. Len(source) + 1 |-> FromAt(from, k)]
        BY <3>1, LexemesUnfold
      <4> QED
        BY <1>3, <1>4, <4>1 DEF FromAt
    <3>3. FromStart(from, s) = IF kind = "comment" THEN from[e] ELSE <<Lexeme(kind, s)>> \o from[e]
      BY <1>10, <2>1, <2>3 DEF FromStart
    <3> QED
      BY <3>1, <3>2, <3>3
  <2> QED
    BY <1>3, <1>7, <2>2, <2>4, <2>5
<1> QED
  BY <1>8, <1>9, <1>10

-----------------------------------------------------------------------------
(* What has been read, and what is ahead *)

SeenUpto(ts, n) == [k \in 1 .. n |-> Lexeme(ts[k].kind, ts[k].from)]

\* A number that ends in a digit in front of a second dot.
GoneBack(text, token) == Back(text, token) /\ token.value[Len(token.value)] # "."

\* The tokens are the first of all lexemes and the rest is ahead; or they are all,
\* up to the string that begins at s and does not end, or up to an EOF; or the
\* lexer has gone back.
SplitOK(text, ts, all, rest, s, ph) ==
  /\ \E T : ts \in Seq(T)
  /\ \A k \in DOMAIN ts : ts[k].kind \in Kinds /\ ts[k].from \in Nat
  /\ \/ \E k \in DOMAIN ts : GoneBack(text, ts[k])
     \/ \E n \in DOMAIN ts : /\ ts[n].kind = "EOF" /\ \A j \in 1 .. n - 1 : ts[j].kind # "EOF"
                             /\ SeenUpto(ts, n) = all
     \/ /\ \A k \in DOMAIN ts : ts[k].kind # "EOF"
        /\ \/ ph = "lexing" /\ SeenUpto(ts, Len(ts)) \o rest = all
           \/ ph = "stuck" /\ Append(SeenUpto(ts, Len(ts)), Lexeme("open string", s)) = all

Split == SplitOK(source, tokens, LexemesFrom[1], LexemesFrom[offset], Start, phase)

\* A token more.
LEMMA Adding ==
  ASSUME NEW text, NEW ts, NEW all, NEW rest, NEW s, SplitOK(text, ts, all, rest, s, "lexing"),
         NEW t, t.kind \in Kinds, t.from \in Nat, NEW ts2, ts2 = Append(ts, t),
         NEW rest2 \in Seq(Lexs), NEW s2, NEW ph2,
         \/ GoneBack(text, t)
         \/ t.kind = "EOF" /\ rest = <<Lexeme("EOF", t.from)>>
         \/ t.kind # "EOF" /\ ph2 = "lexing" /\ rest = <<Lexeme(t.kind, t.from)>> \o rest2
  PROVE  SplitOK(text, ts2, all, rest2, s2, ph2)
<1>1. PICK T : ts \in Seq(T)
  BY DEF SplitOK
<1>2. PICK n \in Nat : n = Len(ts)
  BY <1>1
<1>3. /\ ts2 \in Seq(T \cup {t}) /\ Len(ts2) = n + 1
      /\ DOMAIN ts = 1 .. n /\ DOMAIN ts2 = 1 .. n + 1
      /\ \A k \in 1 .. n : ts2[k] = ts[k]
      /\ ts2[n + 1] = t
  BY <1>1, <1>2
<1>4. \A k \in 1 .. n + 1 : k \in 1 .. n \/ k = n + 1
  OBVIOUS
<1>5. \A k \in DOMAIN ts2 : ts2[k].kind \in Kinds /\ ts2[k].from \in Nat
  BY <1>3, <1>4 DEF SplitOK
<1>6. \A m \in 1 .. n : SeenUpto(ts2, m) = SeenUpto(ts, m)
  BY <1>3 DEF SeenUpto
<1>7. CASE \E k \in DOMAIN ts2 : GoneBack(text, ts2[k])
  BY <1>3, <1>5, <1>7 DEF SplitOK
<1>8. CASE \E k \in DOMAIN ts : GoneBack(text, ts[k])
  BY <1>3, <1>7, <1>8
<1>9. CASE GoneBack(text, t)
  <2>1. n + 1 \in DOMAIN ts2
    BY <1>3
  <2> QED
    BY <1>3, <1>7, <1>9, <2>1
<1>10. ASSUME NEW m \in DOMAIN ts2, ts2[m].kind = "EOF", \A j \in 1 .. m - 1 : ts2[j].kind # "EOF",
              SeenUpto(ts2, m) = all
       PROVE  SplitOK(text, ts2, all, rest2, s2, ph2)
  BY <1>3, <1>5, <1>10 DEF SplitOK
<1>11. CASE \E m \in DOMAIN ts : /\ ts[m].kind = "EOF" /\ \A j \in 1 .. m - 1 : ts[j].kind # "EOF"
                                 /\ SeenUpto(ts, m) = all
  <2>1. PICK m \in DOMAIN ts : /\ ts[m].kind = "EOF" /\ \A j \in 1 .. m - 1 : ts[j].kind # "EOF"
                               /\ SeenUpto(ts, m) = all
    BY <1>11
  <2>2. m \in 1 .. n /\ \A j \in 1 .. m - 1 : j \in 1 .. n
    BY <1>3, <2>1
  <2>3. m \in DOMAIN ts2
    BY <1>3, <2>2
  <2>4. ts2[m].kind = "EOF" /\ \A j \in 1 .. m - 1 : ts2[j].kind # "EOF"
    BY <1>3, <2>1, <2>2
  <2>5. SeenUpto(ts2, m) = all
    BY <1>6, <2>1, <2>2
  <2> QED
    BY <1>10, <2>3, <2>4, <2>5
<1>12. CASE /\ \A k \in DOMAIN ts : ts[k].kind # "EOF"
            /\ SeenUpto(ts, n) \o rest = all
            /\ ~GoneBack(text, t)
  <2>1. PICK S, l : S = SeenUpto(ts, n) /\ l = Lexeme(t.kind, t.from)
    OBVIOUS
  <2>2. l \in Lexs
    BY <2>1 DEF Lexeme, Lexs
  <2>3. S \in Seq(Lexs) /\ Len(S) = n
    <3>1. \A k \in 1 .. n : Lexeme(ts[k].kind, ts[k].from) \in Lexs
      BY <1>3 DEF SplitOK, Lexeme, Lexs
    <3> QED
      BY <2>1, <3>1 DEF SeenUpto
  <2>4. <<l>> \in Seq(Lexs) /\ Len(<<l>>) = 1 /\ <<l>>[1] = l
    BY <2>2
  <2>5. SeenUpto(ts2, n + 1) = S \o <<l>>
    <3>1. PICK A, B : A = SeenUpto(ts2, n + 1) /\ B = S \o <<l>>
      OBVIOUS
    <3>2. A = [k \in 1 .. n + 1 |-> Lexeme(ts2[k].kind, ts2[k].from)]
      BY <3>1 DEF SeenUpto
    <3>3. B \in Seq(Lexs) /\ Len(B) = n + 1 /\ \A k \in 1 .. n + 1 : B[k] = IF k <= n THEN S[k] ELSE <<l>>[k - n]
      BY <2>3, <2>4, <3>1, ConcatProperties
    <3>4. \A k \in 1 .. n + 1 : A[k] = B[k]
      <4> TAKE k \in 1 .. n + 1
      <4>1. CASE k \in 1 .. n
        <5>1. S[k] = Lexeme(ts[k].kind, ts[k].from)
          BY <2>1, <4>1 DEF SeenUpto
        <5>2. B[k] = S[k]
          BY <3>3, <4>1
        <5>3. A[k] = Lexeme(ts[k].kind, ts[k].from)
          BY <1>3, <3>2, <4>1
        <5> QED
          BY <5>1, <5>2, <5>3
      <4>2. CASE k = n + 1
        <5>1. ~(k <= n) /\ k - n = 1
          BY <4>2
        <5>2. B[k] = l
          BY <2>4, <3>3, <5>1
        <5>3. A[k] = l
          BY <1>3, <2>1, <3>2, <4>2
        <5> QED
          BY <5>2, <5>3
      <4> QED
        BY <1>4, <4>1, <4>2
    <3>5. B = [k \in 1 .. n + 1 |-> B[k]]
      BY <3>3
    <3> QED
      BY <3>1, <3>2, <3>4, <3>5
  <2>6. CASE t.kind = "EOF" /\ rest = <<Lexeme("EOF", t.from)>>
    <3>1. SeenUpto(ts2, n + 1) = all
      BY <1>12, <2>1, <2>5, <2>6
    <3>2. n + 1 \in DOMAIN ts2 /\ ts2[n + 1].kind = "EOF"
      BY <1>3, <2>6
    <3>3. \A j \in 1 .. (n + 1) - 1 : ts2[j].kind # "EOF"
      <4>1. \A j \in 1 .. (n + 1) - 1 : j \in 1 .. n
        OBVIOUS
      <4> QED
        BY <1>3, <1>12, <4>1
    <3> QED
      BY <1>10, <3>1, <3>2, <3>3
  <2>7. CASE t.kind # "EOF" /\ ph2 = "lexing" /\ rest = <<Lexeme(t.kind, t.from)>> \o rest2
    <3>1. (S \o <<l>>) \o rest2 = S \o (<<l>> \o rest2)
      BY <2>3, <2>4, ConcatAssociative
    <3>2. SeenUpto(ts2, Len(ts2)) \o rest2 = all
      BY <1>3, <1>12, <2>1, <2>5, <2>7, <3>1
    <3>3. \A k \in DOMAIN ts2 : ts2[k].kind # "EOF"
      BY <1>3, <1>4, <1>12, <2>7
    <3> QED
      BY <1>3, <1>5, <2>7, <3>2, <3>3 DEF SplitOK
  <2> QED
    BY <1>12, <2>6, <2>7
<1>13. \/ \E k \in DOMAIN ts : GoneBack(text, ts[k])
       \/ \E m \in DOMAIN ts : /\ ts[m].kind = "EOF" /\ \A j \in 1 .. m - 1 : ts[j].kind # "EOF"
                               /\ SeenUpto(ts, m) = all
       \/ /\ \A k \in DOMAIN ts : ts[k].kind # "EOF"
          /\ SeenUpto(ts, n) \o rest = all
  BY <1>2 DEF SplitOK
<1> QED
  BY <1>8, <1>9, <1>11, <1>12, <1>13

\* The split says of the tokens what the property does.
LEMMA SplitImplies == Inv /\ Split => TokensExact
<1> SUFFICES ASSUME Inv, Split, phase # "lexing" PROVE TokensExact
  BY DEF TokensExact
<1>1. PICK T : tokens \in Seq(T)
  BY DEF Split, SplitOK
<1>2. PICK N \in Nat : N = Len(tokens)
  BY <1>1
<1>3. DOMAIN tokens = 1 .. N
  BY <1>1, <1>2
<1>4. ASSUME NEW n \in Nat, {k \in DOMAIN tokens : \A j \in EOFs : k <= j} = 1 .. n
      PROVE  Read = IF EOFs = {} THEN Append(SeenUpto(tokens, n), Lexeme("open string", Start))
                                 ELSE SeenUpto(tokens, n)
  <2>1. Cardinality(1 .. n) = n
    BY FS_Interval
  <2>2. PICK seen : seen = {k \in DOMAIN tokens : \A j \in EOFs : k <= j}
    OBVIOUS
  <2>3. Cardinality(seen) = n
    BY <1>4, <2>1, <2>2
  <2>4. Read = LET here == [k \in 1 .. Cardinality(seen) |-> Lexeme(tokens[k].kind, tokens[k].from)]
               IN  IF EOFs = {} THEN Append(here, Lexeme("open string", Start)) ELSE here
    BY <2>2, Zenon DEF Read
  <2> QED
    BY <2>3, <2>4 DEF SeenUpto
<1>5. CASE \E k \in DOMAIN tokens : GoneBack(source, tokens[k])
  BY <1>5 DEF GoneBack, Back, Backward, Char, TokensExact
<1>6. CASE \E n \in DOMAIN tokens :
             /\ tokens[n].kind = "EOF" /\ \A j \in 1 .. n - 1 : tokens[j].kind # "EOF"
             /\ SeenUpto(tokens, n) = LexemesFrom[1]
  <2>1. PICK n \in DOMAIN tokens :
             /\ tokens[n].kind = "EOF" /\ \A j \in 1 .. n - 1 : tokens[j].kind # "EOF"
             /\ SeenUpto(tokens, n) = LexemesFrom[1]
    BY <1>6
  <2>2. n \in 1 .. N /\ n \in EOFs /\ EOFs \subseteq 1 .. N
    BY <1>3, <2>1 DEF EOFs
  <2>3. \A j \in EOFs : n <= j
    <3> SUFFICES ASSUME NEW j \in EOFs PROVE n <= j
      OBVIOUS
    <3>1. j \in 1 .. N /\ tokens[j].kind = "EOF"
      BY <2>2 DEF EOFs
    <3>2. j \notin 1 .. n - 1
      BY <2>1, <3>1
    <3> QED
      BY <2>2, <3>1, <3>2
  <2>4. {k \in DOMAIN tokens : \A j \in EOFs : k <= j} = 1 .. n
    <3>1. \A k \in 1 .. N : (\A j \in EOFs : k <= j) <=> k <= n
      BY <2>2, <2>3
    <3> QED
      BY <1>3, <2>2, <3>1
  <2>5. Read = SeenUpto(tokens, n)
    <3>1. n \in Nat /\ EOFs # {}
      BY <2>2
    <3>2. Read = IF EOFs = {} THEN Append(SeenUpto(tokens, n), Lexeme("open string", Start))
                 ELSE SeenUpto(tokens, n)
      BY <1>4, <2>4, <3>1
    <3> QED
      BY <3>1, <3>2
  <2> QED
    BY <2>1, <2>5 DEF TokensExact
<1>7. CASE /\ \A k \in DOMAIN tokens : tokens[k].kind # "EOF"
           /\ Append(SeenUpto(tokens, Len(tokens)), Lexeme("open string", Start)) = LexemesFrom[1]
  <2>1. EOFs = {}
    BY <1>7 DEF EOFs
  <2>2. {k \in DOMAIN tokens : \A j \in EOFs : k <= j} = 1 .. N
    BY <1>3, <2>1
  <2>3. Read = Append(SeenUpto(tokens, N), Lexeme("open string", Start))
    BY <1>4, <2>1, <2>2
  <2> QED
    BY <1>2, <1>7, <2>3 DEF TokensExact
<1> QED
  BY <1>5, <1>6, <1>7 DEF Split, SplitOK

\* At the beginning all lexemes are ahead.
LEMMA InitSplit == Init => Split
<1> SUFFICES ASSUME Init PROVE Split
  OBVIOUS
<1>1. source \in Seq(Characters)
  BY SourcesAssumption DEF Init
<1>2. PICK all : all = LexemesFrom[1]
  OBVIOUS
<1>3. all \in Seq(Lexs)
  <2>1. 1 \in 1 .. Len(source) + 1
    BY <1>1
  <2> QED
    BY <1>1, <1>2, <2>1, LexemesType
<1>4. PICK ts : ts = <<>>
  OBVIOUS
<1>5. ts \in Seq({}) /\ DOMAIN ts = {} /\ Len(ts) = 0
  BY <1>4
<1>6. SeenUpto(ts, Len(ts)) = <<>>
  BY <1>5 DEF SeenUpto
<1>7. SeenUpto(ts, Len(ts)) \o all = all
  BY <1>3, <1>6, ConcatEmptySeq
<1>8. \A s : SplitOK(source, ts, all, all, s, "lexing")
  BY <1>5, <1>7 DEF SplitOK
<1> QED
  BY <1>2, <1>4, <1>8 DEF Init, Split

\* A round that adds a token.
LEMMA AddsSplit ==
  ASSUME Inv, Split, phase = "lexing", source' = source,
         NEW kind \in Kinds, NEW e, NEW value, NEW o \in 1 .. Len(source) + 1,
         NEW s, s = Start, NEW t, t = TokenAt(kind, s, e, value),
         tokens' = Append(tokens, t), offset' = o,
         \/ GoneBack(source, t)
         \/ kind = "EOF" /\ LexemesFrom[offset] = <<Lexeme("EOF", s)>>
         \/ /\ kind # "EOF" /\ phase' = "lexing"
            /\ LexemesFrom[offset] = <<Lexeme(kind, s)>> \o LexemesFrom[o]
  PROVE  Split'
<1>1. LexemesFrom' = LexemesFrom
  BY SameText
<1>2. PICK text, ts, all, rest, rest2 :
        /\ text = source /\ ts = tokens /\ all = LexemesFrom[1]
        /\ rest = LexemesFrom[offset] /\ rest2 = LexemesFrom[o]
  OBVIOUS
<1>3. PICK ts2, s2, ph2 : ts2 = tokens' /\ s2 = Start' /\ ph2 = phase'
  OBVIOUS
<1>4. SplitOK(text, ts, all, rest, s, "lexing")
  BY <1>2 DEF Split
<1>5. s \in Nat
  BY StartInside
<1>6. t.kind = kind /\ t.from = s
  BY DEF TokenAt
<1>7. rest2 \in Seq(Lexs)
  BY <1>2, LexemesType DEF Inv
<1>8. ts2 = Append(ts, t)
  BY <1>2, <1>3
<1>9. \/ GoneBack(text, t)
      \/ t.kind = "EOF" /\ rest = <<Lexeme("EOF", t.from)>>
      \/ t.kind # "EOF" /\ ph2 = "lexing" /\ rest = <<Lexeme(t.kind, t.from)>> \o rest2
  BY <1>2, <1>3, <1>6
<1>10. SplitOK(text, ts2, all, rest2, s2, ph2)
  BY <1>4, <1>5, <1>6, <1>7, <1>8, <1>9, Adding
<1>11. /\ source' = text /\ tokens' = ts2 /\ LexemesFrom'[1] = all /\ LexemesFrom'[offset'] = rest2
       /\ Start' = s2 /\ phase' = ph2
  BY <1>1, <1>2, <1>3
<1> QED
  BY <1>10, <1>11 DEF Split

\* A round that adds a lexeme: its token is the longest piece of the text.
LEMMA LexemeSplit ==
  ASSUME Inv, Split, phase = "lexing", NEW kind \in Kinds \ {"EOF", "comment"}, NEW s, s = Start,
         NEW e, NEW value, NEW o \in 1 .. Len(source) + 1,
         source' = source, phase' = "lexing", tokens' = Append(tokens, TokenAt(kind, s, e, value)), offset' = o,
         Char(s) # "NUL", LexemesAt(s) # {}, Longest(s) = o, KindsOf(s, o) = {kind}
  PROVE  Split'
<1>1. source \in Seq(Characters) /\ offset \in 1 .. Len(source) + 1 /\ s = Past(offset, Spaces)
  BY DEF Inv, Start
<1>2. LexemesFrom[offset] = <<Lexeme(kind, s)>> \o LexemesFrom[o]
  <2>1. PICK i : i = offset
    OBVIOUS
  <2>2. i \in 1 .. Len(source) + 1 /\ s = Past(i, Spaces)
    BY <1>1, <2>1
  <2>3. LexemesFrom[i] = IF kind = "comment" THEN LexemesFrom[o]
                         ELSE <<Lexeme(kind, s)>> \o LexemesFrom[o]
    BY <1>1, <2>2, LexemesAhead
  <2> QED
    BY <2>1, <2>3
<1>3. PICK t : t = TokenAt(kind, s, e, value)
  OBVIOUS
<1>4. kind # "EOF" /\ kind \in Kinds
  OBVIOUS
<1> QED
  BY <1>2, <1>3, <1>4, AddsSplit

\* A round that reads a comment.
LEMMA CommentSplit ==
  ASSUME Inv, Split, phase = "lexing", NEW s, s = Start, NEW e, Skips(e),
         Char(s) # "NUL", LexemesAt(s) # {}, Longest(s) = e, KindsOf(s, e) = {"comment"}
  PROVE  Split'
<1>1. source \in Seq(Characters) /\ offset \in 1 .. Len(source) + 1 /\ s = Past(offset, Spaces)
  BY DEF Inv, Start
<1>2. LexemesFrom[offset] = LexemesFrom[e]
  <2>1. PICK i : i = offset
    OBVIOUS
  <2>2. i \in 1 .. Len(source) + 1 /\ s = Past(i, Spaces)
    BY <1>1, <2>1
  <2>3. LexemesFrom[i] = LexemesFrom[e]
    BY <1>1, <2>2, LexemesAhead
  <2> QED
    BY <2>1, <2>3
<1>3. source' = source /\ tokens' = tokens /\ phase' = phase /\ offset' = e
  BY DEF Skips, Reads
<1>4. LexemesFrom' = LexemesFrom
  BY <1>3, SameText
<1>5. PICK text, ts, all, rest, s2 :
        /\ text = source /\ ts = tokens /\ all = LexemesFrom[1] /\ rest = LexemesFrom[offset] /\ s2 = Start'
  OBVIOUS
<1>6. SplitOK(text, ts, all, rest, s, "lexing")
  BY <1>5 DEF Split
<1>7. SplitOK(text, ts, all, rest, s2, "lexing")
  BY <1>6 DEF SplitOK
<1>8. /\ source' = text /\ tokens' = ts /\ LexemesFrom'[1] = all /\ LexemesFrom'[offset'] = rest
      /\ Start' = s2 /\ phase' = "lexing"
  BY <1>2, <1>3, <1>4, <1>5
<1> QED
  BY <1>7, <1>8 DEF Split

\* A word.
LEMMA IdentifierSplit == Inv /\ Split /\ lexer_build_identifier => Split'
<1> SUFFICES ASSUME Inv, Split, lexer_build_identifier PROVE Split'
  OBVIOUS
<1>1. PICK s, e, value : s = Start /\ e = Past(s, Letters \cup Digits) /\ value = Text(s, e)
  OBVIOUS
<1>2. PICK kind : kind = IF value \in Keywords THEN "keyword" ELSE "identifier"
  OBVIOUS
<1>3. /\ phase = "lexing" /\ Char(s) \in Letters
      /\ Emits(kind, e, value)
  BY <1>1, <1>2 DEF lexer_build_identifier, Round
<1>4. source \in Seq(Characters) /\ s \in 1 .. Len(source) /\ Char(s) # "NUL"
  <2>1. "NUL" \notin Letters
    BY ClassesApart
  <2> QED
    BY <1>1, <1>3, <2>1, StartInside, CharType DEF Inv
<1>5. e \in s + 1 .. Len(source) + 1 /\ LexemesAt(s) # {} /\ Longest(s) = e /\ KindsOf(s, e) = {kind}
  BY <1>1, <1>2, <1>3, <1>4, WordLexeme
<1>6. /\ tokens' = Append(tokens, TokenAt(kind, s, e, value)) /\ offset' = e
      /\ source' = source /\ phase' = "lexing"
  BY <1>1, <1>3 DEF Emits, Reads
<1>7. kind \in Kinds \ {"EOF", "comment"} /\ e \in 1 .. Len(source) + 1
  BY <1>2, <1>4, <1>5 DEF Kinds
<1> QED
  BY <1>1, <1>3, <1>4, <1>5, <1>6, <1>7, LexemeSplit

\* A number, or one that goes back over digits between two dots.
LEMMA NumberSplit == Inv /\ Split /\ lexer_build_number => Split'
<1> SUFFICES ASSUME Inv, Split, lexer_build_number PROVE Split'
  OBVIOUS
<1>1. PICK s, dot : s = Start /\ dot = Past(s, Digits)
  OBVIOUS
<1>2. PICK e, o, value : e = NumberEnd(s) /\ o = NumberNext(s) /\ value = Text(s, e)
  OBVIOUS
<1>3. /\ e = IF Char(dot) = "." THEN Past(dot + 1, Digits) ELSE dot
      /\ o = IF e > dot /\ Char(e) = "." THEN e - 1 ELSE e
      /\ value = Text(s, e)
  BY <1>1, <1>2 DEF NumberEnd, NumberNext
<1>4. phase = "lexing" /\ Char(s) \in Digits
  BY <1>1 DEF lexer_build_number, Round
<1>5. /\ tokens' = Append(tokens, TokenAt("number", s, e, value)) /\ offset' = o
      /\ source' = source /\ phase' = "lexing"
  BY <1>1, <1>2, <1>3, <1>4 DEF lexer_build_number, Emits, Reads
<1>6. source \in Seq(Characters) /\ s \in 1 .. Len(source) /\ Char(s) # "NUL"
  <2>1. "NUL" \notin Digits
    BY ClassesApart
  <2> QED
    BY <1>1, <1>4, <2>1, StartInside, CharType DEF Inv
<1>7. /\ dot \in s + 1 .. Len(source) + 1 /\ e \in dot .. Len(source) + 1
      /\ e > dot => Char(dot) = "."
      /\ \/ e > dot /\ Char(e) = "." /\ Text(s, e)[Len(Text(s, e))] # "."
         \/ /\ o \in s + 1 .. Len(source) + 1
            /\ LexemesAt(s) # {} /\ Longest(s) = o /\ KindsOf(s, o) = {"number"}
  BY <1>1, <1>2, <1>4, <1>6, NumberLexeme
<1>8. o \in 1 .. Len(source) + 1
  BY <1>3, <1>6, <1>7
<1>9. CASE e > dot /\ Char(e) = "." /\ Text(s, e)[Len(Text(s, e))] # "."
  <2>1. PICK t : t = TokenAt("number", s, e, value)
    OBVIOUS
  <2>2. t.kind = "number" /\ t.to = e /\ t.value = value
    BY <2>1 DEF TokenAt
  <2>3. e <= Len(source) /\ source[e] = "."
    BY <1>6, <1>7, <1>9, CharType DEF Char
  <2>4. Dots(value) # {}
    <3>1. s \in Nat \ {0} /\ e \in Nat /\ s < e /\ dot \in s .. e - 1
      BY <1>6, <1>7, <1>9
    <3>2. DOMAIN value = 1 .. e - s /\ dot - s + 1 \in 1 .. e - s /\ value[dot - s + 1] = Char(dot)
      <4>1. PICK g \in Nat : g = e /\ s < g /\ dot \in s .. g - 1
        BY <3>1
      <4>2. PICK t2 : t2 = Text(s, g)
        OBVIOUS
      <4>3. DOMAIN t2 = 1 .. g - s
        BY <3>1, <4>1, <4>2, TextIs
      <4>3a. \A j \in s .. g - 1 : j - s + 1 \in 1 .. g - s /\ t2[j - s + 1] = Char(j)
        BY <3>1, <4>1, <4>2, TextIs
      <4>4. value = t2
        BY <1>3, <4>1, <4>2
      <4> QED
        BY <4>1, <4>3, <4>3a, <4>4
    <3> QED
      BY <1>7, <1>9, <3>2 DEF Dots
  <2>5. GoneBack(source, t)
    BY <1>3, <1>9, <2>2, <2>3, <2>4 DEF GoneBack, Back
  <2>6. "number" \in Kinds
    BY DEF Kinds
  <2> QED
    BY <1>1, <1>4, <1>5, <1>8, <2>1, <2>5, <2>6, AddsSplit
<1>10. CASE LexemesAt(s) # {} /\ Longest(s) = o /\ KindsOf(s, o) = {"number"}
  <2>1. "number" \in Kinds \ {"EOF", "comment"}
    BY DEF Kinds
  <2> QED
    BY <1>1, <1>4, <1>5, <1>6, <1>8, <1>10, <2>1, LexemeSplit
<1> QED
  BY <1>7, <1>9, <1>10

\* A string that is closed.
LEMMA StringSplit == Inv /\ Split /\ lexer_build_string_or_char => Split'
<1> SUFFICES ASSUME Inv, Split, lexer_build_string_or_char PROVE Split'
  OBVIOUS
<1>1. PICK s : s = Start
  OBVIOUS
<1>2. PICK a, value : a = String(Char(s))[s + 1].at /\ value = String(Char(s))[s + 1].bytes
  OBVIOUS
<1>3. PICK kind, e : kind = (IF Char(s) = "quote" THEN "string" ELSE "char") /\ e = a + 1
  OBVIOUS
<1>4. phase = "lexing" /\ Char(s) \in Quotes /\ a # 0 /\ Emits(kind, e, value)
  BY <1>1, <1>2, <1>3 DEF lexer_build_string_or_char, Round
<1>5. source \in Seq(Characters) /\ s \in 1 .. Len(source) /\ Char(s) # "NUL"
  <2>1. "NUL" \notin Quotes
    BY ClassesApart
  <2> QED
    BY <1>1, <1>4, <2>1, StartInside, CharType DEF Inv
<1>6. /\ e \in s + 1 .. Len(source) + 1
      /\ LexemesAt(s) # {} /\ Longest(s) = e /\ KindsOf(s, e) = {kind}
  BY <1>2, <1>3, <1>4, <1>5, StringLexeme
<1>7. /\ tokens' = Append(tokens, TokenAt(kind, s, e, value)) /\ offset' = e
      /\ source' = source /\ phase' = "lexing"
  BY <1>1, <1>4 DEF Emits, Reads
<1>8. kind \in Kinds \ {"EOF", "comment"} /\ e \in 1 .. Len(source) + 1
  BY <1>3, <1>5, <1>6 DEF Kinds
<1> QED
  BY <1>1, <1>4, <1>5, <1>6, <1>7, <1>8, LexemeSplit

\* A string that is not: the lexer is stuck in it.
LEMMA ForeverSplit == Inv /\ Split /\ lexer_build_string_forever => Split'
<1> SUFFICES ASSUME Inv, Split, lexer_build_string_forever PROVE Split'
  OBVIOUS
<1>1. PICK s : s = Start
  OBVIOUS
<1>2. PICK a : a = String(Char(s))[s + 1].at
  OBVIOUS
<1>3. /\ phase = "lexing" /\ Char(s) \in Quotes /\ a = 0
      /\ phase' = "stuck" /\ source' = source /\ offset' = offset /\ tokens' = tokens
  BY <1>1, <1>2 DEF lexer_build_string_forever, Round
<1>4. source \in Seq(Characters) /\ s \in 1 .. Len(source) /\ Char(s) # "NUL"
  <2>1. "NUL" \notin Quotes
    BY ClassesApart
  <2> QED
    BY <1>1, <1>3, <2>1, StartInside, CharType DEF Inv
<1>5. LexemesAt(s) = {}
  BY <1>2, <1>3, <1>4, StringLexeme
<1>6. LexemesFrom[offset] = <<Lexeme("open string", s)>>
  <2>1. PICK i : i = offset
    OBVIOUS
  <2>2. i \in 1 .. Len(source) + 1 /\ s = Past(i, Spaces)
    BY <1>1, <2>1 DEF Inv, Start
  <2>3. LexemesFrom[i] = <<Lexeme("open string", s)>>
    BY <1>3, <1>4, <1>5, <2>2, LexemesAhead
  <2> QED
    BY <2>1, <2>3
<1>7. LexemesFrom' = LexemesFrom
  BY <1>3, SameText
<1>8. Start' = s
  BY <1>1, <1>3 DEF Start, Past, Char
<1>9. PICK text, ts, all, rest :
        text = source /\ ts = tokens /\ all = LexemesFrom[1] /\ rest = LexemesFrom[offset]
  OBVIOUS
<1>10. SplitOK(text, ts, all, rest, s, "lexing")
  BY <1>1, <1>3, <1>9 DEF Split
<1>11. PICK l : l = Lexeme("open string", s)
  OBVIOUS
<1>12. rest = <<l>>
  BY <1>6, <1>9, <1>11
<1>13. SeenUpto(ts, Len(ts)) \o rest = Append(SeenUpto(ts, Len(ts)), l)
  <2>1. PICK T : ts \in Seq(T)
    BY <1>10 DEF SplitOK
  <2>2. PICK n \in Nat : n = Len(ts) /\ DOMAIN ts = 1 .. n
    BY <2>1
  <2>3. PICK S : S = SeenUpto(ts, n)
    OBVIOUS
  <2>4. S \in Seq(Lexs)
    <3>1. \A k \in 1 .. n : Lexeme(ts[k].kind, ts[k].from) \in Lexs
      BY <1>10, <2>2 DEF SplitOK, Lexeme, Lexs
    <3> QED
      BY <2>3, <3>1 DEF SeenUpto
  <2>5. l \in Lexs
    <3>1. "open string" \in Kinds /\ s \in Nat
      BY <1>4 DEF Kinds
    <3> QED
      BY <1>11, <3>1 DEF Lexeme, Lexs
  <2>6. Append(S, l) = S \o <<l>>
    BY <2>4, <2>5, AppendIsConcat
  <2> QED
    BY <1>12, <2>2, <2>3, <2>6
<1>14. SplitOK(text, ts, all, rest, s, "stuck")
  BY <1>10, <1>11, <1>13 DEF SplitOK
<1> QED
  BY <1>3, <1>7, <1>8, <1>9, <1>14 DEF Split

\* An operator.
LEMMA OperatorSplit == Inv /\ Split /\ lexer_build_operator => Split'
<1> SUFFICES ASSUME Inv, Split, lexer_build_operator PROVE Split'
  OBVIOUS
<1>1. PICK s, e, value : s = Start /\ e = Operator(s) /\ value = Text(s, e)
  OBVIOUS
<1>2. /\ phase = "lexing" /\ Char(s) \in Starters
      /\ ~(Char(s) = "/" /\ Char(s + 1) \in {"/", "*"})
      /\ Emits("operator", e, value)
  BY <1>1 DEF lexer_build_operator, Round, Starters, Comments
<1>3. source \in Seq(Characters) /\ s \in 1 .. Len(source) /\ Char(s) # "NUL"
  <2>1. "NUL" \notin Starters
    BY ClassesApart
  <2> QED
    BY <1>1, <1>2, <2>1, StartInside, CharType DEF Inv
<1>4. e \in s + 1 .. Len(source) + 1 /\ LexemesAt(s) # {} /\ Longest(s) = e /\ KindsOf(s, e) = {"operator"}
  BY <1>1, <1>2, <1>3, OperatorLexeme
<1>5. /\ tokens' = Append(tokens, TokenAt("operator", s, e, value)) /\ offset' = e
      /\ source' = source /\ phase' = "lexing"
  BY <1>1, <1>2 DEF Emits, Reads
<1>6. "operator" \in Kinds \ {"EOF", "comment"} /\ e \in 1 .. Len(source) + 1
  BY <1>3, <1>4 DEF Kinds
<1> QED
  BY <1>1, <1>2, <1>3, <1>4, <1>5, <1>6, LexemeSplit

\* A character no lexeme begins with.
LEMMA NothingSplit == Inv /\ Split /\ lexer_build_nothing => Split'
<1> SUFFICES ASSUME Inv, Split, lexer_build_nothing PROVE Split'
  OBVIOUS
<1>1. PICK s, e : s = Start /\ e = s + 1
  OBVIOUS
<1>2. /\ phase = "lexing" /\ Char(s) \in Unknown \cup {"\\"}
      /\ Emits("none", e, <<>>)
  BY <1>1 DEF lexer_build_nothing, Round
<1>3. Char(s) # "NUL" /\ Char(s) \notin Quotes
  BY <1>2, ClassesApart DEF Unknown
<1>4. source \in Seq(Characters) /\ s \in 1 .. Len(source)
  BY <1>1, <1>3, StartInside, CharType DEF Inv
<1>5. LexemesAt(s) = {}
  BY <1>2, <1>4, NothingLexeme
<1>6. LexemesFrom[offset] = <<Lexeme("none", s)>> \o LexemesFrom[e]
  <2>1. PICK i : i = offset
    OBVIOUS
  <2>2. i \in 1 .. Len(source) + 1 /\ s = Past(i, Spaces)
    BY <1>1, <2>1 DEF Inv, Start
  <2>3. LexemesFrom[i] = <<Lexeme("none", s)>> \o LexemesFrom[s + 1]
    BY <1>3, <1>4, <1>5, <2>2, LexemesAhead
  <2> QED
    BY <1>1, <2>1, <2>3
<1>7. PICK t : t = TokenAt("none", s, e, <<>>)
  OBVIOUS
<1>8. tokens' = Append(tokens, t) /\ offset' = e /\ source' = source /\ phase' = "lexing"
  BY <1>1, <1>2, <1>7 DEF Emits, Reads
<1>9. "none" \in Kinds /\ "none" # "EOF" /\ e \in 1 .. Len(source) + 1
  BY <1>1, <1>4 DEF Kinds
<1> QED
  BY <1>1, <1>2, <1>6, <1>7, <1>8, <1>9, AddsSplit

\* A comment up to the end of its line.
LEMMA LineSplit == Inv /\ Split /\ lexer_skip_comment => Split'
<1> SUFFICES ASSUME Inv, Split, lexer_skip_comment PROVE Split'
  OBVIOUS
<1>1. PICK s, e : s = Start /\ e = To(s + 2, {"NUL", "CR", "LF"})
  OBVIOUS
<1>2. phase = "lexing" /\ Char(s) = "/" /\ Char(s + 1) = "/" /\ Skips(e)
  BY <1>1 DEF lexer_skip_comment, Round
<1>3. source \in Seq(Characters) /\ s \in 1 .. Len(source)
  BY <1>1, <1>2, StartInside, CharType DEF Inv
<1>4. LexemesAt(s) # {} /\ Longest(s) = e /\ KindsOf(s, e) = {"comment"}
  BY <1>1, <1>2, <1>3, LineLexeme
<1> QED
  BY <1>1, <1>2, <1>4, CommentSplit

\* A comment between marks, or one that is not closed.
LEMMA MultilineSplit == Inv /\ Split /\ lexer_skip_multiline_comment => Split'
<1> SUFFICES ASSUME Inv, Split, lexer_skip_multiline_comment PROVE Split'
  OBVIOUS
<1>1. PICK s, e : s = Start /\ e = CommentEnd[<<s + 2, 1>>]
  OBVIOUS
<1>2. phase = "lexing" /\ Char(s) = "/" /\ Char(s + 1) = "*" /\ Skips(e)
  BY <1>1 DEF lexer_skip_multiline_comment, Round
<1>3. source \in Seq(Characters) /\ s \in 1 .. Len(source)
  BY <1>1, <1>2, StartInside, CharType DEF Inv
<1>4. LexemesAt(s) # {} /\ Longest(s) = e /\ KindsOf(s, e) = {"comment"}
  BY <1>1, <1>2, <1>3, MultilineLexeme
<1> QED
  BY <1>1, <1>2, <1>4, CommentSplit

\* A NUL, in the text or behind it.
LEMMA AtEndSplit == Inv /\ Split /\ lexer_at_end => Split'
<1> SUFFICES ASSUME Inv, Split, lexer_at_end PROVE Split'
  OBVIOUS
<1>1. PICK s, e : s = Start /\ e = IF s <= Len(source) THEN s + 1 ELSE s
  OBVIOUS
<1>2. phase = "lexing" /\ Char(s) = "NUL" /\ Emits("EOF", e, <<>>)
  BY <1>1 DEF lexer_at_end, Round
<1>3. source \in Seq(Characters) /\ s \in 1 .. Len(source) + 1 /\ e \in 1 .. Len(source) + 1
  BY <1>1, StartInside DEF Inv
<1>4. LexemesFrom[offset] = <<Lexeme("EOF", s)>>
  <2>1. PICK i : i = offset
    OBVIOUS
  <2>2. i \in 1 .. Len(source) + 1 /\ s = Past(i, Spaces)
    BY <1>1, <2>1 DEF Inv, Start
  <2>3. LexemesFrom[i] = <<Lexeme("EOF", s)>>
    BY <1>2, <1>3, <2>2, LexemesAhead
  <2> QED
    BY <2>1, <2>3
<1>5. PICK t : t = TokenAt("EOF", s, e, <<>>)
  OBVIOUS
<1>6. tokens' = Append(tokens, t) /\ offset' = e /\ source' = source
  BY <1>1, <1>2, <1>5 DEF Emits, Reads
<1>7. "EOF" \in Kinds
  BY DEF Kinds
<1> QED
  BY <1>1, <1>2, <1>3, <1>4, <1>5, <1>6, <1>7, AddsSplit

\* The text ends where the last round ended.
LEMMA TokenizeSplit == Inv /\ Split /\ lexer_tokenize => Split'
<1> SUFFICES ASSUME Inv, Split, lexer_tokenize PROVE Split'
  OBVIOUS
<1>1. PICK o : o = offset
  OBVIOUS
<1>2. phase = "lexing" /\ Char(o) = "NUL" /\ source \in Seq(Characters) /\ o \in 1 .. Len(source) + 1
  BY <1>1 DEF lexer_tokenize, Inv
<1>3. PICK s : s = Start
  OBVIOUS
<1>4. s = o
  <2>1. s = Past(o, Spaces)
    BY <1>1, <1>3 DEF Start
  <2>2. s \in o .. Len(source) + 1 /\ \A j \in o .. s - 1 : Char(j) \in Spaces
    BY <1>2, <2>1, PastStops
  <2>3. Char(o) \notin Spaces
    BY <1>2, ClassesApart
  <2>4. o \notin o .. s - 1
    BY <2>2, <2>3
  <2> QED
    BY <1>2, <2>2, <2>4
<1>5. LexemesFrom[offset] = <<Lexeme("EOF", s)>>
  <2>1. s = Past(o, Spaces)
    BY <1>1, <1>3 DEF Start
  <2>2. LexemesFrom[o] = <<Lexeme("EOF", s)>>
    BY <1>2, <1>4, <2>1, LexemesAhead
  <2> QED
    BY <1>1, <2>2
<1>6. PICK t : t = TokenAt("EOF", s, o, <<>>)
  OBVIOUS
<1>7. tokens' = Append(tokens, t) /\ offset' = o /\ source' = source
  BY <1>1, <1>4, <1>6 DEF lexer_tokenize
<1>8. "EOF" \in Kinds
  BY DEF Kinds
<1> QED
  BY <1>2, <1>3, <1>5, <1>6, <1>7, <1>8, AddsSplit

\* Every round keeps the split.
LEMMA NextSplit == Inv /\ Split /\ [Next]_vars => Split'
<1> SUFFICES ASSUME Inv, Split, [Next]_vars PROVE Split'
  OBVIOUS
<1>1. CASE UNCHANGED vars
  <2>1. /\ source' = source /\ tokens' = tokens /\ offset' = offset /\ phase' = phase
    BY <1>1 DEF vars
  <2>2. LexemesFrom' = LexemesFrom
    BY <2>1, SameText
  <2>3. Start' = Start
    BY <2>1 DEF Start, Past, Char
  <2> QED
    BY <2>1, <2>2, <2>3 DEF Split
<1>2. CASE Next
  BY <1>2, IdentifierSplit, NumberSplit, StringSplit, ForeverSplit, OperatorSplit, NothingSplit,
     LineSplit, MultilineSplit, AtEndSplit, TokenizeSplit DEF Next
<1> QED
  BY <1>1, <1>2

-----------------------------------------------------------------------------
(* Theorems *)

LEMMA InvHolds == Spec => []Inv
<1>1. Init => Inv
  BY InitInv
<1>2. Inv /\ [Next]_vars => Inv'
  BY NextInv
<1> QED
  BY <1>1, <1>2, PTL DEF Spec

\* lexer_tokenize: whatever the text, the lexer reads inside it, and each token
\* begins behind the one before.
THEOREM TypeCorrect == Spec => []TypeOK
<1>1. Inv => TypeOK
  BY InvImplies
<1> QED
  BY <1>1, InvHolds, PTL

\* lexer_read: whatever the text, a token stands where its line and column say,
\* unless a number in front of a second dot came before it.
THEOREM TokensStandWhereTheySay == Spec => []LocationsExact
<1>1. Inv => LocationsExact
  BY InvImplies
<1> QED
  BY <1>1, InvHolds, PTL

\* lexer_build_string_or_char: whatever the text, a string without a backslash has
\* the bytes of its characters, and an escape \x however long the byte of its last
\* two digits.
THEOREM StringsHaveTheirBytes == Spec => []BytesExact
<1>1. Inv => BytesExact
  BY InvImplies
<1> QED
  BY <1>1, InvHolds, PTL

\* lexer_tokenize: whatever the text, its tokens are the longest lexemes it is made
\* of up to the first EOF, and it gets stuck in a string that is not closed and
\* nowhere else; unless digits between two dots were read again.
THEOREM TokensAreLexemes == Spec => []TokensExact
<1>1. Init => Inv /\ Split
  BY InitInv, InitSplit
<1>2. Inv /\ Split /\ [Next]_vars => Inv' /\ Split'
  BY NextInv, NextSplit
<1>3. Inv /\ Split => TokensExact
  BY SplitImplies
<1> QED
  BY <1>1, <1>2, <1>3, PTL DEF Spec
=============================================================================
