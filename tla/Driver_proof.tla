---------------------------- MODULE Driver_proof ------------------------------
(***************************************************************************)
(* For every text, command line and set of files: the option file is read  *)
(* inside its text and token by token, the settings are what is said, and  *)
(* what is asked for and has a meaning is done, with exit code 0.          *)
(***************************************************************************)
EXTENDS Driver, TLAPS, FiniteSetTheorems, FunctionTheorems, WellFoundedInduction

-----------------------------------------------------------------------------
(* Reading ahead *)

\* Every set of naturals that is not empty has a least element.
LEMMA LeastExists ==
  ASSUME NEW S, S \subseteq Nat, S # {}
  PROVE  \E x \in S : \A y \in S : x <= y
<1> DEFINE R == {ss \in Nat \X Nat : ss[1] < ss[2]}
<1>1. IsWellFoundedOn(R, Nat)
  BY NatLessThanWellFounded DEF OpToRel
<1>2. PICK x \in S : \A y \in S : ~(<<y, x>> \in R)
  BY <1>1, WFMin
<1>3. \A y \in S : ~(y < x)
  BY <1>2
<1> QED
  BY <1>3

\* So has every set of naturals below a bound a greatest one.
LEMMA GreatestExists ==
  ASSUME NEW n \in Nat, NEW S, S \subseteq 0 .. n, S # {}
  PROVE  \E x \in S : \A y \in S : y <= x
<1> DEFINE T == {n - y : y \in S}
<1>1. \A y \in S : y \in 0 .. n
  OBVIOUS
<1>2. T \subseteq Nat
  BY <1>1
<1>3. T # {}
  BY Zenon
<1>4. PICK t \in T : \A u \in T : t <= u
  BY <1>2, <1>3, LeastExists
<1>5. PICK x \in S : t = n - x
  BY <1>4
<1>6. \A y \in S : n - y \in T
  OBVIOUS
<1>7. \A y \in S : y <= x
  BY <1>1, <1>4, <1>5, <1>6
<1> QED
  BY <1>7

\* Reading while the characters are in a set stops inside the text; where it
\* began if the first is not.
LEMMA EndOfInside ==
  ASSUME text \in Seq(Chars), NEW i \in 0 .. Len(text), NEW S
  PROVE  /\ EndOf(i, S) \in i .. Len(text)
         /\ i < Len(text) /\ text[i + 1] \in S => i < EndOf(i, S)
<1> DEFINE Stops == {j \in i .. Len(text) : j = Len(text) \/ text[j + 1] \notin S}
           P(j) == /\ \A k \in i + 1 .. j : text[k] \in S
                   /\ j = Len(text) \/ text[j + 1] \notin S
<1>1. Stops \subseteq Nat /\ Len(text) \in Stops
  OBVIOUS
<1>2. PICK j \in Stops : \A k \in Stops : j <= k
  BY <1>1, LeastExists
<1>3. \A k \in i + 1 .. j : text[k] \in S
  <2> TAKE k \in i + 1 .. j
  <2>1. k - 1 \in i .. Len(text) /\ ~(j <= k - 1) /\ k - 1 # Len(text) /\ (k - 1) + 1 = k
    OBVIOUS
  <2> QED
    BY <1>2, <2>1
<1>4. \E f \in i .. Len(text) : P(f)
  BY <1>2, <1>3
<1>5. EndOf(i, S) = CHOOSE f \in i .. Len(text) : P(f)
  BY DEF EndOf
<1>6. EndOf(i, S) \in i .. Len(text) /\ P(EndOf(i, S))
  BY <1>4, <1>5
<1> QED
  BY <1>6

-----------------------------------------------------------------------------
(* The cursor *)

\* Where a cursor can be.
Cursors == [index : 0 .. Len(text), line : Nat \ {0}, column : Nat \ {0}]

\* A cursor that is advanced to a place of the text is at that place.
LEMMA AdvancedInside ==
  ASSUME text \in Seq(Chars), NEW l \in Cursors, NEW j \in l.index .. Len(text)
  PROVE  Advanced(l, j) \in Cursors /\ Advanced(l, j).index = j
<1>1. PICK i \in 0 .. Len(text), r \in Nat \ {0}, c \in Nat \ {0} :
        l = [index |-> i, line |-> r, column |-> c]
  BY DEF Cursors
<1>2. c + j - i \in Nat \ {0}
  BY <1>1
<1>3. Advanced(l, j) = [index |-> j, line |-> r, column |-> c + j - i]
  <2>1. l.index = i /\ l.line = r /\ l.column = c
    BY <1>1
  <2>2. Advanced(l, j) = [l EXCEPT !.index = j, !.column = c + j - i]
    BY <2>1 DEF Advanced
  <2>3. PICK d : d = c + j - i
    OBVIOUS
  <2>4. [l EXCEPT !.index = j, !.column = d] = [index |-> j, line |-> r, column |-> d]
    <3>1. PICK m : m = [l EXCEPT !.index = j]
      OBVIOUS
    <3>2. [l EXCEPT !.index = j, !.column = d] = [m EXCEPT !.column = d]
      BY <3>1
    <3>3. m = [index |-> j, line |-> r, column |-> c]
      BY <1>1, <3>1
    <3> QED
      BY <3>2, <3>3
  <2> QED
    BY <2>2, <2>3, <2>4
<1> QED
  BY <1>1, <1>2, <1>3 DEF Cursors

\* White space is skipped inside the text, and forwards.
LEMMA WhitespaceInside ==
  ASSUME text \in Seq(Chars), NEW l \in Cursors
  PROVE  /\ opt_lexer_skip_whitespace(l) \in Cursors
         /\ l.index <= opt_lexer_skip_whitespace(l).index
<1>1. PICK i \in 0 .. Len(text) : i = l.index
  BY DEF Cursors
<1>2. PICK j : j = EndOf(i, Spaces)
  OBVIOUS
<1>3. j \in i .. Len(text)
  BY <1>2, EndOfInside
<1> DEFINE lines == {k \in i + 1 .. j : text[k] = "eol"}
<1>4. CASE lines = {}
  <2>1. opt_lexer_skip_whitespace(l) = Advanced(l, j)
    BY <1>1, <1>2, <1>4 DEF opt_lexer_skip_whitespace
  <2> QED
    BY <1>1, <1>3, <2>1, AdvancedInside
<1>5. CASE lines # {}
  <2>1. PICK B : B = lines
    OBVIOUS
  <2>2. B \subseteq 0 .. j /\ B # {} /\ j \in Nat
    BY <1>3, <1>5, <2>1
  <2>3. \E m \in B : \A n \in B : n <= m
    BY <2>2, GreatestExists
  <2>4. PICK last : last = CHOOSE k \in B : \A n \in B : n <= k
    OBVIOUS
  <2>5. last \in B
    BY <2>3, <2>4
  <2>6. last \in i + 1 .. j
    BY <2>1, <2>5
  <2>7. PICK n : n = Cardinality(B)
    OBVIOUS
  <2>8. n \in Nat
    <3>1. IsFiniteSet(0 .. j)
      BY <2>2, FS_Interval
    <3> QED
      BY <2>2, <2>7, <3>1, FS_Subset, FS_CardinalityType
  <2>9. opt_lexer_skip_whitespace(l) = [index |-> j, line |-> l.line + n, column |-> 1 + j - last]
    BY <1>1, <1>2, <1>5, <2>1, <2>4, <2>7 DEF opt_lexer_skip_whitespace
  <2>10. l.line + n \in Nat \ {0} /\ 1 + j - last \in Nat \ {0}
    BY <1>3, <2>6, <2>8 DEF Cursors
  <2> QED
    BY <1>1, <1>3, <2>9, <2>10 DEF Cursors
<1> QED
  BY <1>4, <1>5

\* So are white space and comments in turn.
LEMMA SkippedInside ==
  ASSUME text \in Seq(Chars), NEW l \in Cursors
  PROVE  Skipped(l) \in Cursors /\ l.index <= Skipped(l).index
<1>1. PICK k \in Cursors : k = opt_lexer_skip_whitespace(l)
  BY WhitespaceInside
<1>2. l.index <= k.index /\ l.index \in Nat /\ k.index \in 0 .. Len(text) /\ k.line \in Nat \ {0}
  BY <1>1, WhitespaceInside DEF Cursors
<1>3. CASE Skipped(l) = k
  BY <1>2, <1>3
<1>4. CASE Skipped(l) = opt_lexer_skip_comment(k)
  <2>1. PICK i : i = k.index
    OBVIOUS
  <2>2. PICK j : j = EndOf(i, Chars \ {"eol"})
    OBVIOUS
  <2>3. j \in i .. Len(text)
    BY <1>2, <2>1, <2>2, EndOfInside
  <2>4. CASE j = Len(text)
    <3>1. Skipped(l) = Advanced(k, j)
      BY <1>4, <2>1, <2>2, <2>4 DEF opt_lexer_skip_comment
    <3> QED
      BY <1>2, <2>1, <2>3, <3>1, AdvancedInside
  <2>5. CASE j # Len(text)
    <3>1. PICK m : m = [index |-> j, line |-> k.line + 1, column |-> 1]
      OBVIOUS
    <3>2. m \in Cursors /\ m.index = j
      BY <1>2, <2>1, <2>3, <3>1 DEF Cursors
    <3>3. Skipped(l) = opt_lexer_skip_whitespace(m)
      BY <1>4, <2>1, <2>2, <2>5, <3>1 DEF opt_lexer_skip_comment
    <3>4. Skipped(l) \in Cursors /\ j <= Skipped(l).index
      BY <3>2, <3>3, WhitespaceInside
    <3> QED
      BY <1>2, <2>1, <2>3, <3>4 DEF Cursors
  <2> QED
    BY <2>4, <2>5
<1> QED
  BY <1>1, <1>3, <1>4 DEF Skipped

\* A token ends inside the text, and behind where the cursor was, unless it is an
\* error or the end.
LEMMA TokenInside ==
  ASSUME text \in Seq(Chars), lexer \in Cursors
  PROVE  /\ opt_lexer_next.lexer \in Cursors
         /\ \/ opt_lexer_next.kind \in {"eof", "error"}
            \/ lexer.index < opt_lexer_next.lexer.index
<1>1. PICK l \in Cursors : l = Skipped(lexer) /\ lexer.index <= l.index
  BY SkippedInside
<1>2. lexer.index \in Nat /\ l.index \in 0 .. Len(text)
  BY <1>1 DEF Cursors
<1>3. CASE ~More(l)
  <2>1. opt_lexer_next = Token("eof", Empty, l)
    BY <1>1, <1>3 DEF opt_lexer_next
  <2> QED
    BY <2>1 DEF Token
<1>4. CASE More(l) /\ Peek(l) = "quote"
  <2>0. "quote" \notin Letters /\ "quote" \notin Marks
    BY CharsAssumption DEF Marks
  <2>1. opt_lexer_next = String(l)
    BY <1>1, <1>4, <2>0 DEF opt_lexer_next
  <2>2. l.index + 1 \in 0 .. Len(text)
    BY <1>2, <1>4 DEF More
  <2>3. PICK close : close = EndOf(l.index + 1, Chars \ {"quote"})
    OBVIOUS
  <2>4. close \in l.index + 1 .. Len(text)
    BY <2>2, <2>3, EndOfInside
  <2>5. CASE close = Len(text)
    <3>1. opt_lexer_next = Token("error", Empty, Advanced(l, close))
      BY <2>1, <2>3, <2>5 DEF String
    <3>2. close \in l.index .. Len(text)
      BY <1>2, <2>4
    <3>3. Advanced(l, close) \in Cursors
      BY <3>2, AdvancedInside
    <3> QED
      BY <3>1, <3>3 DEF Token
  <2>6. CASE close # Len(text)
    <3>1. PICK value : opt_lexer_next = Token("string", value, Advanced(l, close + 1))
      BY <2>1, <2>3, <2>6 DEF String
    <3>2. close + 1 \in l.index .. Len(text) /\ lexer.index < close + 1
      BY <1>1, <1>2, <2>4, <2>6
    <3>3. Advanced(l, close + 1) \in Cursors /\ Advanced(l, close + 1).index = close + 1
      BY <3>2, AdvancedInside
    <3> QED
      BY <3>1, <3>2, <3>3 DEF Token
  <2> QED
    BY <2>5, <2>6
<1>5. CASE More(l) /\ Peek(l) \in Letters
  <2>1. PICK word : word = EndOf(l.index, Letters \cup Digits)
    OBVIOUS
  <2>2. word \in l.index .. Len(text) /\ l.index < word
    BY <1>2, <1>5, <2>1, EndOfInside DEF More, Peek
  <2>3. PICK value : opt_lexer_next = Token("identifier", value, Advanced(l, word))
    BY <1>1, <1>5, <2>1, CharsAssumption DEF opt_lexer_next
  <2>4. Advanced(l, word) \in Cursors /\ Advanced(l, word).index = word
    BY <2>2, AdvancedInside
  <2>5. lexer.index < word
    BY <1>1, <1>2, <2>2
  <2> QED
    BY <2>3, <2>4, <2>5 DEF Token
<1>6. CASE More(l) /\ Peek(l) \in Marks
  <2>1. opt_lexer_next = Token(Peek(l), Empty, Advanced(l, l.index + 1))
    BY <1>1, <1>6, CharsAssumption DEF opt_lexer_next, Marks
  <2>2. l.index + 1 \in l.index .. Len(text) /\ lexer.index < l.index + 1
    BY <1>1, <1>2, <1>6 DEF More
  <2>3. Advanced(l, l.index + 1) \in Cursors /\ Advanced(l, l.index + 1).index = l.index + 1
    BY <2>2, AdvancedInside
  <2> QED
    BY <2>1, <2>2, <2>3 DEF Token
<1>7. CASE More(l) /\ Peek(l) # "quote" /\ Peek(l) \notin Letters /\ Peek(l) \notin Marks
  <2>1. opt_lexer_next = Token("error", Empty, l)
    BY <1>1, <1>7 DEF opt_lexer_next
  <2> QED
    BY <2>1 DEF Token
<1> QED
  BY <1>3, <1>4, <1>5, <1>6, <1>7

-----------------------------------------------------------------------------
(* The invariant *)

Inside == {"=", "value", "item", "tag", "string", ","}
Places == {"key", "done", "failed"} \cup Inside

\* The options are a sequence of keys with entries.
OptionsAre(os) == \E K, E : os \in Seq([key : K, entries : Seq(E)])

Reading ==
  /\ text \in Seq(Chars)
  /\ lexer \in Cursors
  /\ at \in Places
  /\ OptionsAre(options)
  /\ at \in Inside => options # <<>>

\* What holds while reading has the types that the model states.
LEMMA ReadingTyped == Reading => OptionsTypeOK
<1> SUFFICES ASSUME Reading PROVE OptionsTypeOK
  OBVIOUS
<1>1. PICK K, E : options \in Seq([key : K, entries : Seq(E)])
  BY DEF Reading, OptionsAre
<1>2. \A i \in DOMAIN options : DOMAIN options[i] = {"key", "entries"}
  <2> TAKE i \in DOMAIN options
  <2>1. options[i] \in [key : K, entries : Seq(E)]
    <3>1. PICK R : R = [key : K, entries : Seq(E)]
      OBVIOUS
    <3>2. options \in Seq(R)
      BY <1>1, <3>1, Zenon
    <3>3. options[i] \in R
      BY <3>2
    <3> QED
      BY <3>1, <3>3
  <2> QED
    BY <2>1
<1> QED
  BY <1>2 DEF Reading, OptionsTypeOK, Cursors, Places, Inside

\* A sequence over a set is one over a larger set.
LEMMA SubSeqType ==
  ASSUME NEW S, NEW T, S \subseteq T, NEW s \in Seq(S)
  PROVE  s \in Seq(T)
<1>1. s \in [1 .. Len(s) -> T] /\ Len(s) \in Nat
  OBVIOUS
<1> QED
  BY <1>1

\* What a token does to the options.
Begins == \E v : options' = Append(options, option(v, <<>>))
Adds == options # <<>> /\ \E e : options' = AddEntry(e)

\* An option that begins, or an entry added to the last, leaves a sequence of options.
LEMMA OptionsGrow ==
  ASSUME OptionsAre(options), options' = options \/ Begins \/ Adds
  PROVE  /\ OptionsAre(options)'
         /\ Begins \/ options # <<>> => options' # <<>>
<1>1. PICK K, E : options \in Seq([key : K, entries : Seq(E)])
  BY DEF OptionsAre
<1>2. CASE options' = options /\ ~Begins
  BY <1>1, <1>2 DEF OptionsAre
<1>3. CASE Begins
  <2>1. PICK v : options' = Append(options, option(v, <<>>))
    BY <1>3 DEF Begins
  <2>2. PICK o : o = option(v, <<>>)
    OBVIOUS
  <2>3. PICK Es : Es = Seq(E)
    OBVIOUS
  <2>4. PICK S : S = [key : K \cup {v}, entries : Es]
    OBVIOUS
  <2>5. o \in S
    <3>1. <<>> \in Es
      BY <2>3
    <3> QED
      BY <2>2, <2>4, <3>1 DEF option
  <2>6. options \in Seq(S)
    <3>1. [key : K, entries : Es] \subseteq S
      BY <2>4
    <3> QED
      BY <1>1, <2>3, <3>1, SubSeqType
  <2>7. options' \in Seq(S) /\ options' # <<>>
    BY <2>1, <2>2, <2>5, <2>6
  <2>8. options' \in Seq([key : K \cup {v}, entries : Seq(E)])
    BY <2>3, <2>4, <2>7
  <2> QED
    BY <2>7, <2>8, Zenon DEF OptionsAre
<1>4. CASE Adds
  <2>1. PICK e : options' = AddEntry(e)
    BY <1>4 DEF Adds
  <2>2. PICK n \in Nat : n = Len(options) /\ n \in 1 .. Len(options)
    BY <1>1, <1>4 DEF Adds
  <2>3. PICK Es : Es = Seq(E)
    OBVIOUS
  <2>4. PICK key \in K, entries \in Es : options[n] = [key |-> key, entries |-> entries]
    <3>1. PICK R : R = [key : K, entries : Es]
      OBVIOUS
    <3>2. options \in Seq(R)
      BY <1>1, <2>3, <3>1, Zenon
    <3>3. options[n] \in R
      BY <2>2, <3>2
    <3> QED
      BY <3>1, <3>3
  <2>5. PICK es : es = Append(entries, e)
    OBVIOUS
  <2>6. PICK o : o = [key |-> key, entries |-> es]
    OBVIOUS
  <2>7. options' = [options EXCEPT ![n] = o]
    <3>1. PICK r : r = options[n]
      OBVIOUS
    <3>2. r = [key |-> key, entries |-> entries] /\ r.entries = entries
      BY <2>4, <3>1
    <3>3. [r EXCEPT !.entries = es] = [key |-> key, entries |-> es]
      BY <3>2
    <3>4. options' = [options EXCEPT ![n] = [r EXCEPT !.entries = Append(r.entries, e)]]
      BY <2>1, <2>2, <3>1 DEF AddEntry
    <3> QED
      BY <2>5, <2>6, <3>2, <3>3, <3>4
  <2>8. PICK Fs : Fs = Seq(E \cup {e})
    OBVIOUS
  <2>9. Es \subseteq Fs
    BY <2>3, <2>8, SubSeqType
  <2>10. es \in Fs
    <3>1. entries \in Seq(E \cup {e})
      BY <2>8, <2>9
    <3> QED
      BY <2>5, <2>8, <3>1
  <2>11. PICK S : S = [key : K, entries : Fs]
    OBVIOUS
  <2>12. o \in S
    BY <2>6, <2>10, <2>11
  <2>13. options \in Seq(S)
    <3>1. [key : K, entries : Es] \subseteq S
      BY <2>9, <2>11
    <3> QED
      BY <1>1, <2>3, <3>1, SubSeqType
  <2>14. options' \in Seq(S) /\ Len(options') = Len(options)
    BY <2>2, <2>7, <2>12, <2>13
  <2>15. options' # <<>>
    BY <2>2, <2>14
  <2>16. options' \in Seq([key : K, entries : Seq(E \cup {e})])
    BY <2>8, <2>11, <2>14
  <2> QED
    BY <2>15, <2>16, Zenon DEF OptionsAre
<1> QED
  BY <1>2, <1>3, <1>4

\* Each action asks for one token, and stops at the end and at an error.
Step(token) ==
  /\ text' = text /\ lexer' = token.lexer
  /\ at' \in {"done", "failed"} \/ token.kind \notin {"eof", "error"}
  /\ at' \in Places
  /\ options' = options \/ Begins \/ Adds
  /\ at' \in Inside => at \in Inside \/ Begins

LEMMA EveryStep ==
  ASSUME Reading, options_parse
  PROVE  Step(opt_lexer_next)
<1>1. PICK token : token = opt_lexer_next
  OBVIOUS
<1> USE DEF Step, Read, Fail, Places, Inside
<1>2. CASE ReadKey
  BY <1>1, <1>2 DEF ReadKey, Begins
<1>3. CASE ReadEquals
  BY <1>1, <1>3 DEF ReadEquals
<1>4. CASE ReadValue
  BY <1>1, <1>4 DEF ReadValue, Adds, Reading
<1>5. CASE ReadItem
  BY <1>1, <1>5 DEF ReadItem, Adds, Reading
<1>6. CASE ReadTag
  BY <1>1, <1>6 DEF ReadTag
<1>7. CASE ReadTagged
  BY <1>1, <1>7 DEF ReadTagged, Adds, Reading
<1>8. CASE ReadComma
  BY <1>1, <1>8 DEF ReadComma
<1> QED
  BY <1>2, <1>3, <1>4, <1>5, <1>6, <1>7, <1>8 DEF options_parse

\* Reading begins at the first character.
LEMMA InitReading == ASSUME NEW t \in Seq(Chars), options_parse_init(t) PROVE Reading
<1>1. lexer \in Cursors
  BY DEF options_parse_init, Cursors
<1>2. OptionsAre(options)
  <2>1. <<>> \in Seq([key : {}, entries : Seq({})])
    OBVIOUS
  <2> QED
    BY <2>1 DEF options_parse_init, OptionsAre
<1> QED
  BY <1>1, <1>2 DEF options_parse_init, Reading, Places, Inside

\* No step of the parse breaks it.
LEMMA StepReading == Reading /\ [options_parse]_optionVars => Reading'
<1> SUFFICES ASSUME Reading, [options_parse]_optionVars PROVE Reading'
  OBVIOUS
<1>1. CASE UNCHANGED optionVars
  BY <1>1 DEF Reading, optionVars, Cursors, OptionsAre
<1>2. CASE options_parse
  <2>1. Step(opt_lexer_next)
    BY <1>2, EveryStep
  <2>2. opt_lexer_next.lexer \in Cursors
    BY TokenInside DEF Reading
  <2>3. lexer' \in Cursors'
    BY <2>1, <2>2 DEF Step, Cursors
  <2>4. OptionsAre(options)' /\ (Begins \/ options # <<>> => options' # <<>>)
    BY <2>1, OptionsGrow DEF Reading, Step
  <2>5. at' \in Inside => options' # <<>>
    BY <2>1, <2>4 DEF Reading, Step
  <2> QED
    BY <2>1, <2>3, <2>4, <2>5 DEF Reading, Step
<1> QED
  BY <1>1, <1>2

-----------------------------------------------------------------------------
(* What is picked *)

Before(P, i) == {j \in P : j < i}
Rank(P, i) == Cardinality(Before(P, i))

\* The rank of a place is its number of places before: they are numbered in order,
\* from zero on.
LEMMA RankInside ==
  ASSUME NEW n \in Nat, NEW P \in SUBSET (1 .. n)
  PROVE  /\ IsFiniteSet(P) /\ Cardinality(P) \in Nat
         /\ \A i \in P : Rank(P, i) \in 0 .. Cardinality(P) - 1
         /\ \A i, j \in P : i < j => Rank(P, i) < Rank(P, j)
<1>1. IsFiniteSet(1 .. n)
  BY FS_Interval
<1>2. IsFiniteSet(P)
  BY <1>1, FS_Subset
<1>3. Cardinality(P) \in Nat
  BY <1>2, FS_CardinalityType
<1>4. ASSUME NEW i \in P
      PROVE  /\ IsFiniteSet(Before(P, i)) /\ Rank(P, i) \in Nat
             /\ IsFiniteSet(Before(P, i) \cup {i})
             /\ Cardinality(Before(P, i) \cup {i}) = Rank(P, i) + 1
  <2>1. Before(P, i) \in SUBSET P
    BY DEF Before
  <2>2. IsFiniteSet(Before(P, i))
    BY <1>2, <2>1, FS_Subset
  <2>3. Cardinality(Before(P, i)) \in Nat
    BY <2>2, FS_CardinalityType
  <2>4. i \notin Before(P, i)
    <3>1. i \in Nat
      OBVIOUS
    <3> QED
      BY <3>1 DEF Before
  <2>5. /\ IsFiniteSet(Before(P, i) \cup {i})
        /\ Cardinality(Before(P, i) \cup {i}) = Cardinality(Before(P, i)) + 1
    BY <2>2, <2>4, FS_AddElement
  <2> QED
    BY <2>2, <2>3, <2>5 DEF Rank
<1>5. ASSUME NEW i \in P
      PROVE  Rank(P, i) \in 0 .. Cardinality(P) - 1
  <2>1. Before(P, i) \cup {i} \in SUBSET P
    BY DEF Before
  <2>2. Cardinality(Before(P, i) \cup {i}) <= Cardinality(P)
    BY <1>2, <2>1, FS_Subset
  <2> QED
    BY <1>3, <1>4, <2>2
<1>6. ASSUME NEW i \in P, NEW j \in P, i < j
      PROVE  Rank(P, i) < Rank(P, j)
  <2>1. \A k \in P : k \in Nat
    OBVIOUS
  <2>2. Before(P, i) \cup {i} \in SUBSET Before(P, j)
    <3> SUFFICES ASSUME NEW k, k \in Before(P, i) \cup {i}
                 PROVE  k \in Before(P, j)
      OBVIOUS
    <3>1. k \in P /\ (k < i \/ k = i)
      BY DEF Before
    <3>2. k \in Nat /\ i \in Nat /\ j \in Nat
      BY <2>1, <3>1
    <3>3. k < j
      BY <1>6, <3>1, <3>2
    <3> QED
      BY <3>1, <3>3 DEF Before
  <2>3. IsFiniteSet(Before(P, j))
    BY <1>4
  <2>4. Cardinality(Before(P, i) \cup {i}) <= Rank(P, j)
    BY <2>2, <2>3, FS_Subset DEF Rank
  <2>5. /\ Cardinality(Before(P, i) \cup {i}) = Rank(P, i) + 1
        /\ Rank(P, i) \in Nat /\ Rank(P, j) \in Nat
    BY <1>4
  <2> QED
    BY <2>4, <2>5
<1> QED
  BY <1>2, <1>3, <1>5, <1>6

\* Every number below theirs is the rank of one place.
LEMMA RankOf ==
  ASSUME NEW n \in Nat, NEW P \in SUBSET (1 .. n)
  PROVE  /\ \A m \in 0 .. Cardinality(P) - 1 : \E i \in P : Rank(P, i) = m
         /\ \A i, j \in P : Rank(P, i) = Rank(P, j) => i = j
<1> DEFINE T == 0 .. Cardinality(P) - 1
           f == [i \in P |-> Rank(P, i)]
<1>1. /\ IsFiniteSet(P) /\ Cardinality(P) \in Nat
      /\ \A i \in P : Rank(P, i) \in T
      /\ \A i, j \in P : i < j => Rank(P, i) < Rank(P, j)
  BY RankInside
<1>2. \A i, j \in P : Rank(P, i) = Rank(P, j) => i = j
  <2> SUFFICES ASSUME NEW i \in P, NEW j \in P, Rank(P, i) = Rank(P, j)
               PROVE  i = j
    OBVIOUS
  <2>1. Rank(P, i) \in Int /\ i \in Int /\ j \in Int
    BY <1>1
  <2> QED
    BY <1>1, <2>1
<1>3. f \in [P -> T]
  BY <1>1
<1>4. \A a, b \in P : f[a] = f[b] => a = b
  BY <1>2
<1>5. f \in Injection(P, T)
  <2> HIDE DEF f, T
  <2> QED
    BY <1>3, <1>4, Fun_IsInj
<1>6. IsFiniteSet(T) /\ Cardinality(T) = Cardinality(P)
  BY <1>1, FS_Interval
<1>7. f \in Surjection(P, T)
  <2> HIDE DEF f, T
  <2> QED
    BY <1>5, <1>6, FS_Injection
<1>8. \A m \in T : \E i \in P : f[i] = m
  <2> HIDE DEF f, T
  <2> QED
    BY <1>7, Fun_SurjectionProperties
<1> QED
  BY <1>2, <1>8

\* What is picked is a member at each place, behind as many as there are places
\* before.
LEMMA PickedAt ==
  ASSUME NEW n \in Nat, NEW P \in SUBSET (1 .. n), NEW s
  PROVE  /\ Cardinality(P) \in Nat
         /\ DOMAIN Picked(s, P) = 1 .. Cardinality(P)
         /\ \A m \in 1 .. Cardinality(P) :
              \E i \in P : Rank(P, i) = m - 1 /\ Picked(s, P)[m] = s[i]
         /\ \A i \in P : /\ Rank(P, i) + 1 \in 1 .. Cardinality(P)
                         /\ Picked(s, P)[Rank(P, i) + 1] = s[i]
<1>1. Cardinality(P) \in Nat /\ \A i \in P : Rank(P, i) \in 0 .. Cardinality(P) - 1
  BY RankInside
<1>2. DOMAIN Picked(s, P) = 1 .. Cardinality(P)
  BY DEF Picked
<1>3. ASSUME NEW m \in 1 .. Cardinality(P)
      PROVE  \E i \in P : Rank(P, i) = m - 1 /\ Picked(s, P)[m] = s[i]
  <2> DEFINE c == CHOOSE i \in P : Rank(P, i) = m - 1
  <2>1. m - 1 \in 0 .. Cardinality(P) - 1
    BY <1>1
  <2>2. \E i \in P : Rank(P, i) = m - 1
    BY <2>1, RankOf
  <2>3. c \in P /\ Rank(P, c) = m - 1
    BY <2>2
  <2>4. Picked(s, P)[m] = s[c]
    BY DEF Picked, Rank, Before
  <2> QED
    BY <2>3, <2>4
<1>4. ASSUME NEW i \in P
      PROVE  /\ Rank(P, i) + 1 \in 1 .. Cardinality(P)
             /\ Picked(s, P)[Rank(P, i) + 1] = s[i]
  <2>1. Rank(P, i) + 1 \in 1 .. Cardinality(P) /\ (Rank(P, i) + 1) - 1 = Rank(P, i)
    BY <1>1
  <2>2. PICK k \in P : /\ Rank(P, k) = (Rank(P, i) + 1) - 1
                       /\ Picked(s, P)[Rank(P, i) + 1] = s[k]
    BY <1>3, <2>1
  <2>3. k = i
    BY <2>1, <2>2, RankOf
  <2> QED
    BY <2>1, <2>2, <2>3
<1> QED
  BY <1>1, <1>2, <1>3, <1>4

\* What is picked is a sequence of what is at the places picked.
LEMMA PickedType ==
  ASSUME NEW n \in Nat, NEW P \in SUBSET (1 .. n), NEW s, NEW S, \A i \in P : s[i] \in S
  PROVE  Picked(s, P) \in Seq(S)
<1>0. /\ Cardinality(P) \in Nat
      /\ DOMAIN Picked(s, P) = 1 .. Cardinality(P)
      /\ \A m \in 1 .. Cardinality(P) :
           \E i \in P : Rank(P, i) = m - 1 /\ Picked(s, P)[m] = s[i]
      /\ \A i \in P : /\ Rank(P, i) + 1 \in 1 .. Cardinality(P)
                      /\ Picked(s, P)[Rank(P, i) + 1] = s[i]
  BY PickedAt
<1>1. PICK p :
      /\ p = Picked(s, P)
      /\ Cardinality(P) \in Nat
      /\ DOMAIN p = 1 .. Cardinality(P)
      /\ \A m \in 1 .. Cardinality(P) :
           \E i \in P : Rank(P, i) = m - 1 /\ p[m] = s[i]
      /\ \A i \in P : /\ Rank(P, i) + 1 \in 1 .. Cardinality(P)
                      /\ p[Rank(P, i) + 1] = s[i]
  BY <1>0, Zenon
<1>2. \A m \in 1 .. Cardinality(P) : p[m] \in S
  BY <1>1
<1>3. p = [m \in 1 .. Cardinality(P) |-> p[m]]
  BY <1>1 DEF Picked
<1>4. PICK c \in Nat : c = Cardinality(P)
  BY <1>1
<1>5. p \in [1 .. c -> S]
  BY <1>2, <1>3, <1>4
<1> QED
  BY <1>1, <1>5

\* The members picked are those at the places.
LEMMA PickedSet ==
  ASSUME NEW n \in Nat, NEW P \in SUBSET (1 .. n), NEW s
  PROVE  ToSet(Picked(s, P)) = {s[i] : i \in P}
<1>0. /\ Cardinality(P) \in Nat
      /\ DOMAIN Picked(s, P) = 1 .. Cardinality(P)
      /\ \A m \in 1 .. Cardinality(P) :
           \E i \in P : Rank(P, i) = m - 1 /\ Picked(s, P)[m] = s[i]
      /\ \A i \in P : /\ Rank(P, i) + 1 \in 1 .. Cardinality(P)
                      /\ Picked(s, P)[Rank(P, i) + 1] = s[i]
  BY PickedAt
<1>1. PICK p :
      /\ p = Picked(s, P)
      /\ Cardinality(P) \in Nat
      /\ DOMAIN p = 1 .. Cardinality(P)
      /\ \A m \in 1 .. Cardinality(P) :
           \E i \in P : Rank(P, i) = m - 1 /\ p[m] = s[i]
      /\ \A i \in P : /\ Rank(P, i) + 1 \in 1 .. Cardinality(P)
                      /\ p[Rank(P, i) + 1] = s[i]
  BY <1>0, Zenon
<1>2. ToSet(p) = {p[m] : m \in DOMAIN p}
  BY DEF ToSet
<1> QED
  BY <1>1, <1>2

\* One place more, behind the others, adds its member at the end.
LEMMA PickedNext ==
  ASSUME NEW n \in Nat, NEW P \in SUBSET (1 .. n), NEW S, NEW s, \A i \in 1 .. n + 1 : s[i] \in S
  PROVE  Picked(s, P \cup {n + 1}) = Append(Picked(s, P), s[n + 1])
<1> PICK Q : Q = P \cup {n + 1}
  OBVIOUS
<1>1. /\ IsFiniteSet(P) /\ Cardinality(P) \in Nat
  BY RankInside
<1>2. n + 1 \notin P /\ n + 1 \in Nat /\ Q \in SUBSET (1 .. n + 1)
  OBVIOUS
<1>0. /\ Cardinality(P) \in Nat
      /\ DOMAIN Picked(s, P) = 1 .. Cardinality(P)
      /\ \A m \in 1 .. Cardinality(P) :
           \E i \in P : Rank(P, i) = m - 1 /\ Picked(s, P)[m] = s[i]
      /\ \A i \in P : /\ Rank(P, i) + 1 \in 1 .. Cardinality(P)
                      /\ Picked(s, P)[Rank(P, i) + 1] = s[i]
  BY PickedAt
<1> PICK p :
      /\ p = Picked(s, P)
      /\ Cardinality(P) \in Nat
      /\ DOMAIN p = 1 .. Cardinality(P)
      /\ \A m \in 1 .. Cardinality(P) :
           \E i \in P : Rank(P, i) = m - 1 /\ p[m] = s[i]
      /\ \A i \in P : /\ Rank(P, i) + 1 \in 1 .. Cardinality(P)
                      /\ p[Rank(P, i) + 1] = s[i]
  BY <1>0, Zenon
<1> PICK q :
      /\ q = Picked(s, Q)
      /\ Cardinality(Q) \in Nat
      /\ DOMAIN q = 1 .. Cardinality(Q)
      /\ \A m \in 1 .. Cardinality(Q) :
           \E i \in Q : Rank(Q, i) = m - 1 /\ q[m] = s[i]
      /\ \A i \in Q : /\ Rank(Q, i) + 1 \in 1 .. Cardinality(Q)
                      /\ q[Rank(Q, i) + 1] = s[i]
  <2> PICK N \in Nat : Q \in SUBSET (1 .. N)
    BY <1>2
  <2>0. Q \in SUBSET (1 .. N)
    OBVIOUS
  <2>1. /\ Cardinality(Q) \in Nat
        /\ DOMAIN Picked(s, Q) = 1 .. Cardinality(Q)
        /\ \A m \in 1 .. Cardinality(Q) :
             \E i \in Q : Rank(Q, i) = m - 1 /\ Picked(s, Q)[m] = s[i]
        /\ \A i \in Q : /\ Rank(Q, i) + 1 \in 1 .. Cardinality(Q)
                        /\ Picked(s, Q)[Rank(Q, i) + 1] = s[i]
    BY ONLY <2>0, PickedAt
  <2> QED
    BY <2>1, Zenon
<1>3. Cardinality(Q) = Cardinality(P) + 1
  BY <1>1, <1>2, FS_AddElement
<1>4. p \in Seq(S) /\ q \in Seq(S)
  <2>1. \A i \in P : s[i] \in S
    OBVIOUS
  <2>2. \A i \in Q : s[i] \in S
    OBVIOUS
  <2>3. p \in Seq(S)
    BY <2>1, PickedType
  <2>4. Picked(s, Q) \in Seq(S)
    <3> QED
      BY <1>2, <2>2, PickedType
  <2> QED
    BY <2>3, <2>4
<1>5. DOMAIN p = 1 .. Cardinality(P) /\ DOMAIN q = 1 .. Cardinality(P) + 1
  BY <1>3
<1>6. \A i \in P : Before(Q, i) = Before(P, i)
  BY DEF Before
<1>7. Before(Q, n + 1) = P
  <2>1. \A k \in P : k \in Nat /\ k < n + 1
    OBVIOUS
  <2>2. ~(n + 1 < n + 1)
    OBVIOUS
  <2> QED
    BY <2>1, <2>2 DEF Before
<1>8. \A i \in Q : q[Rank(Q, i) + 1] = s[i]
  OBVIOUS
<1>9. ASSUME NEW m \in 1 .. Cardinality(P)
      PROVE  q[m] = p[m]
  <2>1. PICK i \in P : Rank(P, i) = m - 1 /\ p[m] = s[i]
    OBVIOUS
  <2>2. Rank(Q, i) = m - 1
    BY <1>6, <2>1 DEF Rank
  <2>3. Rank(Q, i) + 1 = m
    BY <1>1, <2>2
  <2>4. q[Rank(Q, i) + 1] = s[i]
    BY <1>8
  <2> QED
    BY <2>1, <2>3, <2>4, Zenon
<1>10. q[Cardinality(P) + 1] = s[n + 1]
  BY <1>7, <1>8 DEF Rank
<1>11. Len(p) = Cardinality(P) /\ Len(q) = Cardinality(P) + 1
  BY <1>1, <1>4, <1>5
<1>12. s[n + 1] \in S
  OBVIOUS
<1>13. q = Append(p, s[n + 1])
  <2>3. PICK e \in S : e = s[n + 1]
    BY <1>12
  <2>4. PICK c \in Nat : c = Cardinality(P)
    BY <1>1
  <2>1. \A m \in 1 .. c : q[m] = p[m]
    BY <1>9, <2>4
  <2>2. q[c + 1] = e /\ Len(p) = c /\ Len(q) = c + 1
    BY <1>10, <1>11, <2>3, <2>4
  <2>5. q = Append(p, e)
    BY ONLY <1>4, <2>1, <2>2, c \in Nat, e \in S
  <2> QED
    BY <2>3, <2>5
<1> QED
  BY <1>13

-----------------------------------------------------------------------------
(* The command line *)

Words == Seq(STRING) \cup {Missing}

\* The first argument is no value.
LEMMA FirstNoValue == ASSUME NEW argv PROVE ~IsValue(argv, 1)
  BY DEF IsValue

\* Behind the first, an argument is a value if the one before takes one and is no value
\* itself: the parity of IsValue, said of neighbours.
LEMMA NextValue ==
  ASSUME NEW argv, NEW i \in Nat \ {0}
  PROVE  IsValue(argv, i + 1) <=> argv[i] \in Taking /\ ~IsValue(argv, i)
<1>1. ASSUME IsValue(argv, i + 1)
      PROVE  argv[i] \in Taking /\ ~IsValue(argv, i)
  <2>1. PICK n \in 1 .. (i + 1) - 1 :
          /\ n % 2 = 1
          /\ \A k \in (i + 1) - n .. (i + 1) - 1 : argv[k] \in Taking
          /\ (i + 1) - n > 1 => argv[(i + 1) - n - 1] \notin Taking
    BY <1>1 DEF IsValue
  <2>2. argv[i] \in Taking
    BY <2>1
  <2>3. ASSUME IsValue(argv, i)
        PROVE  FALSE
    <3>1. PICK m \in 1 .. i - 1 :
            /\ m % 2 = 1
            /\ \A k \in i - m .. i - 1 : argv[k] \in Taking
            /\ i - m > 1 => argv[i - m - 1] \notin Taking
      BY <2>3 DEF IsValue
    <3>2. PICK a \in Nat : a = (i + 1) - n
      BY <2>1
    <3>3. PICK b \in Nat : b = i - m
      BY <3>1
    <3>4. a \in 1 .. i /\ b \in 1 .. i - 1
      BY <2>1, <3>1, <3>2, <3>3
    <3>5. \A k \in a .. i : argv[k] \in Taking
      BY <2>1, <3>2
    <3>6. \A k \in b .. i - 1 : argv[k] \in Taking
      BY <3>1, <3>3
    <3>7. a > 1 => argv[a - 1] \notin Taking
      BY <2>1, <3>2
    <3>8. b > 1 => argv[b - 1] \notin Taking
      BY <3>1, <3>3
    <3>9. ~(a < b)
      BY <3>4, <3>5, <3>8
    <3>10. ~(b < a)
      BY <3>4, <3>6, <3>7
    <3>11. a = b
      BY <3>9, <3>10
    <3>12. n = m + 1
      BY <2>1, <3>1, <3>2, <3>3, <3>11
    <3> QED
      BY <2>1, <3>1, <3>12
  <2> QED
    BY <2>2, <2>3
<1>2. ASSUME argv[i] \in Taking, ~IsValue(argv, i)
      PROVE  IsValue(argv, i + 1)
  <2> DEFINE Starts == {b \in 1 .. i : \A k \in b .. i : argv[k] \in Taking}
  <2>1. i \in Starts
    BY <1>2
  <2>2. PICK b \in Starts : \A c \in Starts : b <= c
    <3>1. Starts \subseteq Nat /\ Starts # {}
      BY <2>1
    <3> HIDE DEF Starts
    <3> QED
      BY <3>1, LeastExists
  <2>3. b \in 1 .. i /\ \A k \in b .. i : argv[k] \in Taking
    OBVIOUS
  <2>4. b > 1 => argv[b - 1] \notin Taking
    <3> SUFFICES ASSUME b > 1, argv[b - 1] \in Taking
                 PROVE  FALSE
      OBVIOUS
    <3>1. b - 1 \in 1 .. i
      BY <2>3
    <3>2. \A k \in b - 1 .. i : argv[k] \in Taking
      <4> TAKE k \in b - 1 .. i
      <4>1. k = b - 1 \/ k \in b .. i
        BY <2>3
      <4> QED
        BY <2>3, <4>1
    <3>3. b - 1 \in Starts
      BY <3>1, <3>2
    <3>4. b <= b - 1
      BY <2>2, <3>3
    <3> QED
      BY <2>3, <3>4
  <2>5. CASE (i - b) % 2 = 0
    <3>1. PICK n \in 1 .. (i + 1) - 1 : n = (i + 1) - b /\ n % 2 = 1
      BY <2>3, <2>5
    <3>2. (i + 1) - n = b /\ (i + 1) - 1 = i /\ (i + 1) - n - 1 = b - 1
      BY <2>3, <3>1
    <3>3. /\ \A k \in (i + 1) - n .. (i + 1) - 1 : argv[k] \in Taking
          /\ (i + 1) - n > 1 => argv[(i + 1) - n - 1] \notin Taking
      BY <2>3, <2>4, <3>2
    <3> QED
      BY <3>1, <3>3 DEF IsValue
  <2>6. CASE (i - b) % 2 = 1
    <3>1. PICK n \in 1 .. i - 1 : n = i - b /\ n % 2 = 1
      BY <2>3, <2>6
    <3>2. i - n = b /\ i - n - 1 = b - 1
      BY <2>3, <3>1
    <3>3. /\ \A k \in i - n .. i - 1 : argv[k] \in Taking
          /\ i - n > 1 => argv[i - n - 1] \notin Taking
      BY <2>3, <2>4, <3>2
    <3>4. IsValue(argv, i)
      BY <3>1, <3>3 DEF IsValue
    <3> QED
      BY <1>2, <3>4
  <2>7. (i - b) % 2 = 0 \/ (i - b) % 2 = 1
    BY <2>3
  <2> QED
    BY <2>5, <2>6, <2>7
<1> QED
  BY <1>1, <1>2

-----------------------------------------------------------------------------
(* What the first arguments say *)

FlagsTo(argv, S, n) == Flags(argv, S) \cap (1 .. n)
InputsTo(argv, n) == InputsIn(argv) \cap (1 .. n)
ValueTo(argv, flag, default, n) ==
  LET given == FlagsTo(argv, {flag}, n)
  IN  IF given = {} THEN default ELSE argv[Max(given) + 1]
UnderstoodTo(argv, n) ==
  /\ FlagsTo(argv, {<<"-x">>, <<"--config">>}, n) = {}
  /\ Len(argv) \notin FlagsTo(argv, {<<"-o">>, <<"-b">>, <<"-d">>}, n)
SettingsTo(argv, n) ==
  [inputs |-> Picked(argv, InputsTo(argv, n)),
   output |-> ValueTo(argv, <<"-o">>, GENERATED, n), backend |-> ValueTo(argv, <<"-b">>, C, n),
   write_dot |-> FlagsTo(argv, {<<"-d">>}, n) # {}]

\* The command lines that are read to their end.
Accepted(argv) == Understood(argv) /\ ~DotLast(argv)

\* All arguments say what the command line says.
LEMMA AllArguments ==
  ASSUME NEW argv \in Seq(Words)
  PROVE  /\ SettingsTo(argv, Len(argv)) = CommandLineSettings(argv)
         /\ UnderstoodTo(argv, Len(argv)) <=> Accepted(argv)
<1>1. DOMAIN argv = 1 .. Len(argv)
  OBVIOUS
<1>2. \A S : FlagsTo(argv, S, Len(argv)) = Flags(argv, S)
  BY <1>1 DEF FlagsTo, Flags
<1>3. InputsTo(argv, Len(argv)) = InputsIn(argv)
  BY <1>1 DEF InputsTo, InputsIn
<1>4. \A flag, default : ValueTo(argv, flag, default, Len(argv)) = ValueOf(argv, flag, default)
  <2> TAKE flag, default
  <2>1. FlagsTo(argv, {flag}, Len(argv)) = Flags(argv, {flag})
    BY <1>2
  <2> QED
    BY <2>1 DEF ValueTo, ValueOf
<1>5. SettingsTo(argv, Len(argv)) = CommandLineSettings(argv)
  BY <1>2, <1>3, <1>4 DEF SettingsTo, CommandLineSettings
<1>6. UnderstoodTo(argv, Len(argv)) <=> Accepted(argv)
  <2>1. Len(argv) \in Flags(argv, {<<"-o">>, <<"-b">>, <<"-d">>}) <=>
          Len(argv) \in Flags(argv, Taking) \/ Len(argv) \in Flags(argv, {<<"-d">>})
    BY DEF Flags, Taking
  <2> QED
    BY <1>2, <2>1 DEF UnderstoodTo, Accepted, Understood, DotLast
<1> QED
  BY <1>5, <1>6

\* No arguments say nothing.
LEMMA NoArguments ==
  ASSUME NEW argv \in Seq(Words)
  PROVE  SettingsTo(argv, 0) = NoSettings /\ UnderstoodTo(argv, 0)
<1>1. \A S : FlagsTo(argv, S, 0) = {}
  BY DEF FlagsTo
<1>2. InputsTo(argv, 0) = {}
  BY DEF InputsTo
<1>3. Picked(argv, {}) = <<>>
  <2>1. {} \in SUBSET (1 .. 0) /\ Cardinality({}) = 0
    BY FS_EmptySet
  <2>2. Picked(argv, {}) \in Seq({})
    BY <2>1, PickedType
  <2> QED
    BY <2>2
<1>4. \A flag, default : ValueTo(argv, flag, default, 0) = default
  BY <1>1 DEF ValueTo
<1>5. SettingsTo(argv, 0) = NoSettings
  BY <1>1, <1>2, <1>3, <1>4 DEF SettingsTo, NoSettings
<1> QED
  BY <1>1, <1>5 DEF UnderstoodTo

\* An argument that is no value is a flag of each set it is in, or an input.
LEMMA OneArgument ==
  ASSUME NEW argv \in Seq(Words), NEW n \in 0 .. Len(argv) - 1, ~IsValue(argv, n + 1)
  PROVE  /\ \A S : FlagsTo(argv, S, n + 1) =
                     FlagsTo(argv, S, n) \cup (IF argv[n + 1] \in S THEN {n + 1} ELSE {})
         /\ InputsTo(argv, n + 1) =
              InputsTo(argv, n) \cup (IF argv[n + 1] \in Dashed \cup Verbs THEN {} ELSE {n + 1})
<1>1. n + 1 \in DOMAIN argv /\ 1 .. n + 1 = (1 .. n) \cup {n + 1} /\ n \in Nat
  OBVIOUS
<1>2. ASSUME NEW S
      PROVE  FlagsTo(argv, S, n + 1) =
               FlagsTo(argv, S, n) \cup (IF argv[n + 1] \in S THEN {n + 1} ELSE {})
  BY <1>1 DEF FlagsTo, Flags
<1>3. InputsTo(argv, n + 1) =
        InputsTo(argv, n) \cup (IF argv[n + 1] \in Dashed \cup Verbs THEN {} ELSE {n + 1})
  BY <1>1 DEF InputsTo, InputsIn, Flags
<1> QED
  BY <1>2, <1>3

\* One that is a value is neither.
LEMMA ValueArgument ==
  ASSUME NEW argv \in Seq(Words), NEW n \in 0 .. Len(argv) - 1, IsValue(argv, n + 1)
  PROVE  /\ \A S : FlagsTo(argv, S, n + 1) = FlagsTo(argv, S, n)
         /\ InputsTo(argv, n + 1) = InputsTo(argv, n)
<1>1. 1 .. n + 1 = (1 .. n) \cup {n + 1} /\ n \in Nat
  OBVIOUS
<1> QED
  BY <1>1 DEF FlagsTo, Flags, InputsTo, InputsIn

\* The last of some places and one behind them is that one.
LEMMA LastAdded ==
  ASSUME NEW n \in Nat, NEW F \in SUBSET (1 .. n)
  PROVE  Max(F \cup {n + 1}) = n + 1
<1> DEFINE G == F \cup {n + 1}
<1>1. n + 1 \in G /\ \A y \in G : n + 1 >= y
  OBVIOUS
<1>2. \A x \in G : (\A y \in G : x >= y) => x = n + 1
  OBVIOUS
<1> HIDE DEF G
<1>3. Max(G) = n + 1
  BY <1>1, <1>2 DEF Max
<1> QED
  BY <1>3 DEF G

\* The dashed options are five.
LEMMA DashedWords ==
  /\ <<"-o">> # <<"-b">> /\ <<"-o">> # <<"-d">> /\ <<"-o">> # <<"-x">> /\ <<"-o">> # <<"--config">>
  /\ <<"-b">> # <<"-d">> /\ <<"-b">> # <<"-x">> /\ <<"-b">> # <<"--config">>
  /\ <<"-d">> # <<"-x">> /\ <<"-d">> # <<"--config">>
<1>1. \A v, w : <<v>> = <<w>> => v = w
  <2> TAKE v, w
  <2>1. <<v>>[1] = v /\ <<w>>[1] = w
    OBVIOUS
  <2> QED
    BY <2>1
<1>2. /\ "-o" # "-b" /\ "-o" # "-d" /\ "-o" # "-x" /\ "-o" # "--config"
      /\ "-b" # "-d" /\ "-b" # "-x" /\ "-b" # "--config"
      /\ "-d" # "-x" /\ "-d" # "--config"
  OBVIOUS
<1> QED
  BY <1>1, <1>2, Zenon

\* What an argument that takes no value changes of the settings.
LEMMA PlainArgument ==
  ASSUME NEW argv \in Seq(Words), NEW n \in 0 .. Len(argv) - 1, ~IsValue(argv, n + 1),
         argv[n + 1] \notin Taking
  PROVE  /\ ~IsValue(argv, n + 2)
         /\ ValueTo(argv, <<"-o">>, GENERATED, n + 1) = ValueTo(argv, <<"-o">>, GENERATED, n)
         /\ ValueTo(argv, <<"-b">>, C, n + 1) = ValueTo(argv, <<"-b">>, C, n)
<1>1. \A S : FlagsTo(argv, S, n + 1) =
               FlagsTo(argv, S, n) \cup (IF argv[n + 1] \in S THEN {n + 1} ELSE {})
  BY OneArgument
<1>2. argv[n + 1] \notin {<<"-o">>} /\ argv[n + 1] \notin {<<"-b">>}
  BY DEF Taking
<1>3. FlagsTo(argv, {<<"-o">>}, n + 1) = FlagsTo(argv, {<<"-o">>}, n)
  BY <1>1, <1>2
<1>4. FlagsTo(argv, {<<"-b">>}, n + 1) = FlagsTo(argv, {<<"-b">>}, n)
  BY <1>1, <1>2
<1>5. ~IsValue(argv, n + 2)
  <2>1. n + 1 \in Nat \ {0} /\ (n + 1) + 1 = n + 2
    OBVIOUS
  <2>2. IsValue(argv, (n + 1) + 1) <=> argv[n + 1] \in Taking /\ ~IsValue(argv, n + 1)
    BY <2>1, NextValue
  <2> QED
    BY <2>1, <2>2
<1> QED
  BY <1>3, <1>4, <1>5 DEF ValueTo

\* -o and -b take the argument behind them, which says nothing else.
LEMMA TakingArgument ==
  ASSUME NEW argv \in Seq(Words), NEW n \in 0 .. Len(argv) - 1, ~IsValue(argv, n + 1),
         argv[n + 1] \in Taking, n + 1 # Len(argv)
  PROVE  /\ ~IsValue(argv, n + 3)
         /\ \A S : FlagsTo(argv, S, n + 2) =
                     FlagsTo(argv, S, n) \cup (IF argv[n + 1] \in S THEN {n + 1} ELSE {})
         /\ InputsTo(argv, n + 2) = InputsTo(argv, n)
         /\ \A flag, default : argv[n + 1] = flag =>
              ValueTo(argv, flag, default, n + 2) = argv[n + 2]
         /\ \A flag, default : argv[n + 1] # flag =>
              ValueTo(argv, flag, default, n + 2) = ValueTo(argv, flag, default, n)
<1> PICK m \in 0 .. Len(argv) - 1 : m = n + 1
  OBVIOUS
<1>1. m \in Nat \ {0} /\ m + 1 \in Nat \ {0} /\ m + 1 = n + 2 /\ (m + 1) + 1 = n + 3
  OBVIOUS
<1>2. IsValue(argv, m + 1)
  BY <1>1, NextValue
<1>3. ~IsValue(argv, n + 3)
  <2>1. IsValue(argv, (m + 1) + 1) <=> argv[m + 1] \in Taking /\ ~IsValue(argv, m + 1)
    BY <1>1, NextValue
  <2> QED
    BY <1>1, <1>2, <2>1
<1>4. /\ \A S : FlagsTo(argv, S, n + 1) =
               FlagsTo(argv, S, n) \cup (IF argv[n + 1] \in S THEN {n + 1} ELSE {})
      /\ InputsTo(argv, n + 1) =
           InputsTo(argv, n) \cup (IF argv[n + 1] \in Dashed \cup Verbs THEN {} ELSE {n + 1})
  BY OneArgument
<1>5. /\ \A S : FlagsTo(argv, S, m + 1) = FlagsTo(argv, S, m)
      /\ InputsTo(argv, m + 1) = InputsTo(argv, m)
  BY <1>2, ValueArgument
<1>6. \A S : FlagsTo(argv, S, n + 2) =
             FlagsTo(argv, S, n) \cup (IF argv[n + 1] \in S THEN {n + 1} ELSE {})
  BY <1>1, <1>4, <1>5
<1>7. InputsTo(argv, n + 2) = InputsTo(argv, n)
  <2>1. argv[n + 1] \in Dashed
    BY DEF Taking, Dashed
  <2> QED
    BY <1>1, <1>4, <1>5, <2>1
<1>8. ASSUME NEW flag, NEW default, argv[n + 1] = flag
      PROVE  ValueTo(argv, flag, default, n + 2) = argv[n + 2]
  <2>1. FlagsTo(argv, {flag}, n + 2) = FlagsTo(argv, {flag}, n) \cup {n + 1}
    BY <1>6, <1>8
  <2>2. FlagsTo(argv, {flag}, n) \in SUBSET (1 .. n) /\ n \in Nat
    BY DEF FlagsTo
  <2>3. Max(FlagsTo(argv, {flag}, n) \cup {n + 1}) = n + 1
    BY <2>2, LastAdded
  <2>4. (n + 1) + 1 = n + 2
    OBVIOUS
  <2>5. FlagsTo(argv, {flag}, n + 2) # {}
    BY <2>1
  <2> QED
    BY <2>1, <2>3, <2>4, <2>5 DEF ValueTo
<1>9. ASSUME NEW flag, NEW default, argv[n + 1] # flag
      PROVE  ValueTo(argv, flag, default, n + 2) = ValueTo(argv, flag, default, n)
  <2>1. FlagsTo(argv, {flag}, n + 2) = FlagsTo(argv, {flag}, n)
    BY <1>6, <1>9
  <2> QED
    BY <2>1 DEF ValueTo
<1> QED
  BY <1>3, <1>6, <1>7, <1>8, <1>9, Zenon

-----------------------------------------------------------------------------
(* A round of the loop over the arguments *)

Record(inputs, output, backend, write_dot) ==
  [inputs |-> inputs, output |-> output, backend |-> backend, write_dot |-> write_dot]

\* Records of settings, as EXCEPT changes them.
LEMMA ChangeOutput ==
  ASSUME NEW r, NEW i, NEW o, NEW b, NEW d, NEW v, r = Record(i, o, b, d)
  PROVE  [r EXCEPT !.output = v] = Record(i, v, b, d)
  BY DEF Record
LEMMA ChangeBackend ==
  ASSUME NEW r, NEW i, NEW o, NEW b, NEW d, NEW v, r = Record(i, o, b, d)
  PROVE  [r EXCEPT !.backend = v] = Record(i, o, v, d)
  BY DEF Record
LEMMA ChangeDot ==
  ASSUME NEW r, NEW i, NEW o, NEW b, NEW d, NEW v, r = Record(i, o, b, d)
  PROVE  [r EXCEPT !.write_dot = v] = Record(i, o, b, v)
  BY DEF Record
LEMMA ChangeInputs ==
  ASSUME NEW r, NEW i, NEW o, NEW b, NEW d, NEW v, r = Record(i, o, b, d)
  PROVE  [r EXCEPT !.inputs = Append(@, v)] = Record(Append(i, v), o, b, d)
<1>1. r.inputs = i
  BY DEF Record
<1>2. PICK w : w = Append(r.inputs, v)
  OBVIOUS
<1>3. [r EXCEPT !.inputs = w] = Record(w, o, b, d)
  BY DEF Record
<1>4. [r EXCEPT !.inputs = Append(@, v)] = [r EXCEPT !.inputs = w]
  BY <1>2
<1> QED BY <1>1, <1>2, <1>3, <1>4

\* What the first arguments say, as such a record.
LEMMA SettingsAre ==
  ASSUME NEW argv, NEW n
  PROVE  SettingsTo(argv, n) =
           Record(Picked(argv, InputsTo(argv, n)), ValueTo(argv, <<"-o">>, GENERATED, n),
                  ValueTo(argv, <<"-b">>, C, n), FlagsTo(argv, {<<"-d">>}, n) # {})
  BY DEF SettingsTo, Record

ReadsTo(argv, n) == ~IsValue(argv, n + 1) /\ UnderstoodTo(argv, n)

\* An argument that is in none of the sets that stop the loop leaves it understood.
LEMMA StillUnderstood ==
  ASSUME NEW argv \in Seq(Words), NEW n \in 0 .. Len(argv) - 1, NEW m,
         UnderstoodTo(argv, n),
         \A S : FlagsTo(argv, S, m) =
                 FlagsTo(argv, S, n) \cup (IF argv[n + 1] \in S THEN {n + 1} ELSE {}),
         argv[n + 1] \notin {<<"-x">>, <<"--config">>},
         argv[n + 1] \in {<<"-o">>, <<"-b">>, <<"-d">>} => n + 1 # Len(argv)
  PROVE  UnderstoodTo(argv, m)
<1>1. FlagsTo(argv, {<<"-x">>, <<"--config">>}, m) = FlagsTo(argv, {<<"-x">>, <<"--config">>}, n)
  OBVIOUS
<1>2. Len(argv) \notin FlagsTo(argv, {<<"-o">>, <<"-b">>, <<"-d">>}, m)
  BY DEF UnderstoodTo
<1> QED
  BY <1>1, <1>2 DEF UnderstoodTo

\* Behind -o and its value, the value is the output.
LEMMA ReadOutput ==
  ASSUME NEW argv \in Seq(Words), NEW n \in 0 .. Len(argv) - 1, ReadsTo(argv, n),
         argv[n + 1] = <<"-o">>, n + 1 # Len(argv)
  PROVE  /\ ReadsTo(argv, n + 2)
         /\ SettingsTo(argv, n + 2) = [SettingsTo(argv, n) EXCEPT !.output = argv[n + 2]]
<1>1. argv[n + 1] \in Taking /\ ~IsValue(argv, n + 1)
  BY DEF Taking, ReadsTo
<1>2. /\ ~IsValue(argv, n + 3)
      /\ \A S : FlagsTo(argv, S, n + 2) =
                  FlagsTo(argv, S, n) \cup (IF argv[n + 1] \in S THEN {n + 1} ELSE {})
      /\ InputsTo(argv, n + 2) = InputsTo(argv, n)
      /\ \A flag, default : argv[n + 1] = flag =>
           ValueTo(argv, flag, default, n + 2) = argv[n + 2]
      /\ \A flag, default : argv[n + 1] # flag =>
           ValueTo(argv, flag, default, n + 2) = ValueTo(argv, flag, default, n)
  BY <1>1, TakingArgument
<1>3. UnderstoodTo(argv, n + 2)
  <2>1. argv[n + 1] \notin {<<"-x">>, <<"--config">>}
    BY DashedWords, Zenon
  <2> QED
    BY <1>2, <2>1, StillUnderstood DEF ReadsTo
<1>4. ValueTo(argv, <<"-o">>, GENERATED, n + 2) = argv[n + 2]
  BY <1>2, Zenon
<1>5. ValueTo(argv, <<"-b">>, C, n + 2) = ValueTo(argv, <<"-b">>, C, n)
  BY <1>2, DashedWords, Zenon
<1>6. FlagsTo(argv, {<<"-d">>}, n + 2) = FlagsTo(argv, {<<"-d">>}, n)
  <2>1. argv[n + 1] \notin {<<"-d">>}
    BY DashedWords, Zenon
  <2> QED
    BY <1>2, <2>1
<1>7. SettingsTo(argv, n + 2) = [SettingsTo(argv, n) EXCEPT !.output = argv[n + 2]]
  <2>1. PICK r : r = SettingsTo(argv, n)
    OBVIOUS
  <2>2. PICK i, o, b, d :
          /\ i = Picked(argv, InputsTo(argv, n)) /\ o = ValueTo(argv, <<"-o">>, GENERATED, n)
          /\ b = ValueTo(argv, <<"-b">>, C, n) /\ d = (FlagsTo(argv, {<<"-d">>}, n) # {})
    OBVIOUS
  <2>3. PICK v : v = argv[n + 2]
    OBVIOUS
  <2>4. r = Record(i, o, b, d)
    BY <2>1, <2>2, SettingsAre, Zenon
  <2>5. [r EXCEPT !.output = v] = Record(i, v, b, d)
    BY <2>4, ChangeOutput
  <2>6. SettingsTo(argv, n + 2) = Record(i, v, b, d)
    BY <1>2, <1>4, <1>5, <1>6, <2>2, <2>3, SettingsAre, Zenon
  <2> QED
    BY <2>1, <2>3, <2>5, <2>6, Zenon
<1>8. (n + 2) + 1 = n + 3
  OBVIOUS
<1> QED
  BY <1>2, <1>3, <1>7, <1>8 DEF ReadsTo

\* Behind -b and its value, the value is the back end.
LEMMA ReadBackend ==
  ASSUME NEW argv \in Seq(Words), NEW n \in 0 .. Len(argv) - 1, ReadsTo(argv, n),
         argv[n + 1] = <<"-b">>, n + 1 # Len(argv)
  PROVE  /\ ReadsTo(argv, n + 2)
         /\ SettingsTo(argv, n + 2) = [SettingsTo(argv, n) EXCEPT !.backend = argv[n + 2]]
<1>1. argv[n + 1] \in Taking /\ ~IsValue(argv, n + 1)
  BY DEF Taking, ReadsTo
<1>2. /\ ~IsValue(argv, n + 3)
      /\ \A S : FlagsTo(argv, S, n + 2) =
                  FlagsTo(argv, S, n) \cup (IF argv[n + 1] \in S THEN {n + 1} ELSE {})
      /\ InputsTo(argv, n + 2) = InputsTo(argv, n)
      /\ \A flag, default : argv[n + 1] = flag =>
           ValueTo(argv, flag, default, n + 2) = argv[n + 2]
      /\ \A flag, default : argv[n + 1] # flag =>
           ValueTo(argv, flag, default, n + 2) = ValueTo(argv, flag, default, n)
  BY <1>1, TakingArgument
<1>3. UnderstoodTo(argv, n + 2)
  <2>1. argv[n + 1] \notin {<<"-x">>, <<"--config">>}
    BY DashedWords, Zenon
  <2> QED
    BY <1>2, <2>1, StillUnderstood DEF ReadsTo
<1>4. ValueTo(argv, <<"-b">>, C, n + 2) = argv[n + 2]
  BY <1>2, Zenon
<1>5. ValueTo(argv, <<"-o">>, GENERATED, n + 2) = ValueTo(argv, <<"-o">>, GENERATED, n)
  BY <1>2, DashedWords, Zenon
<1>6. FlagsTo(argv, {<<"-d">>}, n + 2) = FlagsTo(argv, {<<"-d">>}, n)
  <2>1. argv[n + 1] \notin {<<"-d">>}
    BY DashedWords, Zenon
  <2> QED
    BY <1>2, <2>1
<1>7. SettingsTo(argv, n + 2) = [SettingsTo(argv, n) EXCEPT !.backend = argv[n + 2]]
  <2>1. PICK r : r = SettingsTo(argv, n)
    OBVIOUS
  <2>2. PICK i, o, b, d :
          /\ i = Picked(argv, InputsTo(argv, n)) /\ o = ValueTo(argv, <<"-o">>, GENERATED, n)
          /\ b = ValueTo(argv, <<"-b">>, C, n) /\ d = (FlagsTo(argv, {<<"-d">>}, n) # {})
    OBVIOUS
  <2>3. PICK v : v = argv[n + 2]
    OBVIOUS
  <2>4. r = Record(i, o, b, d)
    BY <2>1, <2>2, SettingsAre, Zenon
  <2>5. [r EXCEPT !.backend = v] = Record(i, o, v, d)
    BY <2>4, ChangeBackend
  <2>6. SettingsTo(argv, n + 2) = Record(i, o, v, d)
    BY <1>2, <1>4, <1>5, <1>6, <2>2, <2>3, SettingsAre, Zenon
  <2> QED
    BY <2>1, <2>3, <2>5, <2>6, Zenon
<1>8. (n + 2) + 1 = n + 3
  OBVIOUS
<1> QED
  BY <1>2, <1>3, <1>7, <1>8 DEF ReadsTo

\* Of an argument that takes no value: what the settings become.
LEMMA PlainSettings ==
  ASSUME NEW argv \in Seq(Words), NEW n \in 0 .. Len(argv) - 1, ReadsTo(argv, n),
         argv[n + 1] \notin Taking, argv[n + 1] \notin {<<"-x">>, <<"--config">>},
         argv[n + 1] = <<"-d">> => n + 1 # Len(argv)
  PROVE  /\ ReadsTo(argv, n + 1)
         /\ SettingsTo(argv, n + 1) =
              Record(Picked(argv, InputsTo(argv, n + 1)), ValueTo(argv, <<"-o">>, GENERATED, n),
                     ValueTo(argv, <<"-b">>, C, n), FlagsTo(argv, {<<"-d">>}, n + 1) # {})
<1>1. ~IsValue(argv, n + 1)
  BY DEF ReadsTo
<1>2. /\ ~IsValue(argv, n + 2)
      /\ ValueTo(argv, <<"-o">>, GENERATED, n + 1) = ValueTo(argv, <<"-o">>, GENERATED, n)
      /\ ValueTo(argv, <<"-b">>, C, n + 1) = ValueTo(argv, <<"-b">>, C, n)
  BY <1>1, PlainArgument
<1>3. \A S : FlagsTo(argv, S, n + 1) =
             FlagsTo(argv, S, n) \cup (IF argv[n + 1] \in S THEN {n + 1} ELSE {})
  BY <1>1, OneArgument
<1>4. argv[n + 1] \in {<<"-o">>, <<"-b">>, <<"-d">>} => n + 1 # Len(argv)
  BY DEF Taking
<1>5. UnderstoodTo(argv, n + 1)
  BY <1>3, <1>4, StillUnderstood DEF ReadsTo
<1>6. (n + 1) + 1 = n + 2
  OBVIOUS
<1>7. ReadsTo(argv, n + 1)
  BY <1>2, <1>5, <1>6 DEF ReadsTo
<1>8. SettingsTo(argv, n + 1) =
        Record(Picked(argv, InputsTo(argv, n + 1)), ValueTo(argv, <<"-o">>, GENERATED, n + 1),
               ValueTo(argv, <<"-b">>, C, n + 1), FlagsTo(argv, {<<"-d">>}, n + 1) # {})
  BY SettingsAre
<1> QED
  BY <1>2, <1>7, <1>8, Zenon

\* Behind -d, dot files are written.
LEMMA ReadDot ==
  ASSUME NEW argv \in Seq(Words), NEW n \in 0 .. Len(argv) - 1, ReadsTo(argv, n),
         argv[n + 1] = <<"-d">>, n + 1 # Len(argv)
  PROVE  /\ ReadsTo(argv, n + 1)
         /\ SettingsTo(argv, n + 1) = [SettingsTo(argv, n) EXCEPT !.write_dot = TRUE]
<1>1. argv[n + 1] \notin Taking /\ argv[n + 1] \notin {<<"-x">>, <<"--config">>}
  BY DashedWords, Zenon DEF Taking
<1>2. /\ ReadsTo(argv, n + 1)
      /\ SettingsTo(argv, n + 1) =
           Record(Picked(argv, InputsTo(argv, n + 1)), ValueTo(argv, <<"-o">>, GENERATED, n),
                  ValueTo(argv, <<"-b">>, C, n), FlagsTo(argv, {<<"-d">>}, n + 1) # {})
  BY <1>1, PlainSettings
<1>3. ~IsValue(argv, n + 1)
  BY DEF ReadsTo
<1>4. /\ \A S : FlagsTo(argv, S, n + 1) =
               FlagsTo(argv, S, n) \cup (IF argv[n + 1] \in S THEN {n + 1} ELSE {})
      /\ InputsTo(argv, n + 1) =
           InputsTo(argv, n) \cup (IF argv[n + 1] \in Dashed \cup Verbs THEN {} ELSE {n + 1})
  BY <1>3, OneArgument
<1>5. (FlagsTo(argv, {<<"-d">>}, n + 1) # {}) = TRUE
  <2>1. n + 1 \in FlagsTo(argv, {<<"-d">>}, n + 1)
    BY <1>4
  <2> QED
    BY <2>1
<1>6. InputsTo(argv, n + 1) = InputsTo(argv, n)
  <2>1. argv[n + 1] \in Dashed \cup Verbs
    BY DEF Dashed
  <2> QED
    BY <1>4, <2>1
<1>7. SettingsTo(argv, n + 1) = [SettingsTo(argv, n) EXCEPT !.write_dot = TRUE]
  <2>1. PICK r : r = SettingsTo(argv, n)
    OBVIOUS
  <2>2. PICK i, o, b, d :
          /\ i = Picked(argv, InputsTo(argv, n)) /\ o = ValueTo(argv, <<"-o">>, GENERATED, n)
          /\ b = ValueTo(argv, <<"-b">>, C, n) /\ d = (FlagsTo(argv, {<<"-d">>}, n) # {})
    OBVIOUS
  <2>3. PICK v : v = TRUE
    OBVIOUS
  <2>4. r = Record(i, o, b, d)
    BY <2>1, <2>2, SettingsAre, Zenon
  <2>5. [r EXCEPT !.write_dot = v] = Record(i, o, b, v)
    BY <2>4, ChangeDot
  <2>6. SettingsTo(argv, n + 1) = Record(i, o, b, v)
    BY <1>2, <1>5, <1>6, <2>2, <2>3, SettingsAre, Zenon
  <2> QED
    BY <2>1, <2>3, <2>5, <2>6, Zenon
<1> QED
  BY <1>2, <1>7

\* A verb says nothing.
LEMMA ReadVerb ==
  ASSUME NEW argv \in Seq(Words), NEW n \in 0 .. Len(argv) - 1, ReadsTo(argv, n),
         argv[n + 1] \in Verbs
  PROVE  ReadsTo(argv, n + 1) /\ SettingsTo(argv, n + 1) = SettingsTo(argv, n)
<1>1. argv[n + 1] \notin Dashed
  BY WordsAssumption
<1>2. /\ argv[n + 1] \notin Taking /\ argv[n + 1] \notin {<<"-x">>, <<"--config">>}
      /\ argv[n + 1] # <<"-d">>
  BY <1>1, Zenon DEF Taking, Dashed
<1>3. /\ ReadsTo(argv, n + 1)
      /\ SettingsTo(argv, n + 1) =
           Record(Picked(argv, InputsTo(argv, n + 1)), ValueTo(argv, <<"-o">>, GENERATED, n),
                  ValueTo(argv, <<"-b">>, C, n), FlagsTo(argv, {<<"-d">>}, n + 1) # {})
  BY <1>2, PlainSettings
<1>4. ~IsValue(argv, n + 1)
  BY DEF ReadsTo
<1>5. /\ \A S : FlagsTo(argv, S, n + 1) =
               FlagsTo(argv, S, n) \cup (IF argv[n + 1] \in S THEN {n + 1} ELSE {})
      /\ InputsTo(argv, n + 1) =
           InputsTo(argv, n) \cup (IF argv[n + 1] \in Dashed \cup Verbs THEN {} ELSE {n + 1})
  BY <1>4, OneArgument
<1>6. FlagsTo(argv, {<<"-d">>}, n + 1) = FlagsTo(argv, {<<"-d">>}, n)
  BY <1>2, <1>5
<1>7. InputsTo(argv, n + 1) = InputsTo(argv, n)
  BY <1>5
<1> QED
  BY <1>3, <1>6, <1>7, SettingsAre, Zenon

\* Any other argument is the next input.
LEMMA ReadInput ==
  ASSUME NEW argv \in Seq(Words), NEW n \in 0 .. Len(argv) - 1, ReadsTo(argv, n),
         argv[n + 1] \notin Dashed \cup Verbs
  PROVE  /\ ReadsTo(argv, n + 1)
         /\ SettingsTo(argv, n + 1) =
              [SettingsTo(argv, n) EXCEPT !.inputs = Append(@, argv[n + 1])]
<1>2. /\ argv[n + 1] \notin Taking /\ argv[n + 1] \notin {<<"-x">>, <<"--config">>}
      /\ argv[n + 1] # <<"-d">>
  BY Zenon DEF Taking, Dashed
<1>3. /\ ReadsTo(argv, n + 1)
      /\ SettingsTo(argv, n + 1) =
           Record(Picked(argv, InputsTo(argv, n + 1)), ValueTo(argv, <<"-o">>, GENERATED, n),
                  ValueTo(argv, <<"-b">>, C, n), FlagsTo(argv, {<<"-d">>}, n + 1) # {})
  BY <1>2, PlainSettings
<1>4. ~IsValue(argv, n + 1)
  BY DEF ReadsTo
<1>5. /\ \A S : FlagsTo(argv, S, n + 1) =
               FlagsTo(argv, S, n) \cup (IF argv[n + 1] \in S THEN {n + 1} ELSE {})
      /\ InputsTo(argv, n + 1) =
           InputsTo(argv, n) \cup (IF argv[n + 1] \in Dashed \cup Verbs THEN {} ELSE {n + 1})
  BY <1>4, OneArgument
<1>6. FlagsTo(argv, {<<"-d">>}, n + 1) = FlagsTo(argv, {<<"-d">>}, n)
  BY <1>2, <1>5
<1>7. InputsTo(argv, n + 1) = InputsTo(argv, n) \cup {n + 1}
  BY <1>5
<1>8. Picked(argv, InputsTo(argv, n) \cup {n + 1}) =
        Append(Picked(argv, InputsTo(argv, n)), argv[n + 1])
  <2>1. InputsTo(argv, n) \in SUBSET (1 .. n) /\ n \in Nat
    BY DEF InputsTo
  <2>2. \A i \in 1 .. n + 1 : argv[i] \in Words
    OBVIOUS
  <2> QED
    BY <2>1, <2>2, PickedNext
<1>9. SettingsTo(argv, n + 1) =
        [SettingsTo(argv, n) EXCEPT !.inputs = Append(@, argv[n + 1])]
  <2>1. PICK r : r = SettingsTo(argv, n)
    OBVIOUS
  <2>2. PICK i, o, b, d :
          /\ i = Picked(argv, InputsTo(argv, n)) /\ o = ValueTo(argv, <<"-o">>, GENERATED, n)
          /\ b = ValueTo(argv, <<"-b">>, C, n) /\ d = (FlagsTo(argv, {<<"-d">>}, n) # {})
    OBVIOUS
  <2>3. PICK v : v = argv[n + 1]
    OBVIOUS
  <2>4. r = Record(i, o, b, d)
    BY <2>1, <2>2, SettingsAre, Zenon
  <2>5. [r EXCEPT !.inputs = Append(@, v)] = Record(Append(i, v), o, b, d)
    BY <2>4, ChangeInputs
  <2>6. SettingsTo(argv, n + 1) = Record(Append(i, v), o, b, d)
    BY <1>3, <1>6, <1>7, <1>8, <2>2, <2>3, SettingsAre, Zenon
  <2> QED
    BY <2>1, <2>3, <2>5, <2>6, Zenon
<1> QED
  BY <1>3, <1>9

\* The loop stops at an argument only if the command line is not understood, or ends
\* in -d.
LEMMA NotUnderstood ==
  ASSUME NEW argv \in Seq(Words), NEW n \in 0 .. Len(argv) - 1, ReadsTo(argv, n),
         \/ argv[n + 1] \in {<<"-x">>, <<"--config">>}
         \/ argv[n + 1] \in {<<"-o">>, <<"-b">>, <<"-d">>} /\ n + 1 = Len(argv)
  PROVE  ~Accepted(argv)
<1>1. n + 1 \in DOMAIN argv /\ ~IsValue(argv, n + 1)
  BY DEF ReadsTo
<1> QED
  BY <1>1 DEF Accepted, Understood, DotLast, Taking, Flags

-----------------------------------------------------------------------------
(* What the analysis visits *)

\* Every number up to N is in a set that has zero and, with a number, the next.
LEMMA Upwards ==
  ASSUME NEW N \in Nat, NEW S, 0 \in S, \A k \in 1 .. N : k - 1 \in S => k \in S
  PROVE  \A k \in 0 .. N : k \in S
<1> DEFINE Gaps == {k \in 0 .. N : k \notin S}
<1> SUFFICES ASSUME Gaps # {} PROVE FALSE
  OBVIOUS
<1>1. Gaps \subseteq Nat
  OBVIOUS
<1>2. PICK k \in Gaps : \A l \in Gaps : k <= l
  BY <1>1, LeastExists
<1>3. k \in 1 .. N
  OBVIOUS
<1>4. k - 1 \in 0 .. N /\ ~(k <= k - 1)
  BY <1>3
<1>5. k - 1 \in S
  BY <1>2, <1>4
<1> QED  BY <1>3, <1>5

KeepsTo(V, step, N) == \A k \in 1 .. N, v \in V : step[<<k, v>>] \in V
Iterated(f, b, step, N) == f[0] = b /\ \A k \in 1 .. N : f[k] = step[<<k, f[k - 1]>>]

\* A step that keeps to V can be taken as often as wanted.
LEMMA Iterates ==
  ASSUME NEW N \in Nat, NEW V, NEW b \in V, NEW step, KeepsTo(V, step, N)
  PROVE  \E f \in [0 .. N -> V] : Iterated(f, b, step, N)
<1> USE DEF KeepsTo
<1> DEFINE Upto(n, f) == f[0] = b /\ \A k \in 1 .. n : f[k] = step[<<k, f[k - 1]>>]
           S == {n \in 0 .. N : \E f \in [0 .. N -> V] : Upto(n, f)}
<1>1. 0 \in S
  <2> DEFINE z == [k \in 0 .. N |-> b]
  <2>1. z \in [0 .. N -> V] /\ Upto(0, z)
    OBVIOUS
  <2> HIDE DEF z
  <2>2. 0 \in 0 .. N /\ \E f \in [0 .. N -> V] : Upto(0, f)
    BY <2>1
  <2> QED  BY <2>2
<1>2. ASSUME NEW n \in 1 .. N, n - 1 \in S
      PROVE  n \in S
  <2>1. PICK f \in [0 .. N -> V] : Upto(n - 1, f)
    BY <1>2
  <2>2. f[n - 1] \in V /\ step[<<n, f[n - 1]>>] \in V
    OBVIOUS
  <2> DEFINE g == [f EXCEPT ![n] = step[<<n, f[n - 1]>>]]
  <2>3. g \in [0 .. N -> V]
    BY <2>2
  <2>4. g[n] = step[<<n, f[n - 1]>>] /\ \A k \in 0 .. N : k # n => g[k] = f[k]
    BY <2>2
  <2> HIDE DEF g
  <2>5. g[0] = b
    BY <2>1, <2>4
  <2>6. ASSUME NEW k \in 1 .. n
        PROVE  g[k] = step[<<k, g[k - 1]>>]
    <3>1. k - 1 \in 0 .. N /\ k - 1 # n /\ k \in 0 .. N
      OBVIOUS
    <3>2. g[k - 1] = f[k - 1]
      BY <2>4, <3>1
    <3>3. CASE k = n
      BY <2>4, <3>2, <3>3
    <3>4. CASE k # n
      <4>1. k \in 1 .. n - 1
        BY <3>4
      <4>2. g[k] = f[k]
        BY <2>4, <3>1, <3>4
      <4> QED  BY <2>1, <3>2, <4>1, <4>2
    <3> QED  BY <3>3, <3>4
  <2>7. Upto(n, g)
    BY <2>5, <2>6
  <2> QED  BY <2>3, <2>7
<1>3. \A n \in 0 .. N : n \in S
  <2> HIDE DEF S
  <2> QED  BY <1>1, <1>2, Upwards
<1>4. N \in S
  <2> HIDE DEF S
  <2>1. N \in 0 .. N
    OBVIOUS
  <2> QED  BY <1>3, <2>1
<1>5. PICK f \in [0 .. N -> V] : Upto(N, f)
  BY <1>4
<1> QED  BY <1>5 DEF Iterated

\* The parts that what is in V finds.
UsedBy(V) == {y \in PartsOf(Declared) : \E x \in V : Finds(x, y)}

\* The rounds of the visit: each adds what the round before finds.
LEMMA VisitingUnfolds ==
  ASSUME IsFiniteSet(PartsOf(Declared)), NEW ds \in SUBSET PartsOf(Declared)
  PROVE  /\ Visiting(ds)[0] = ds
         /\ \A k \in 1 .. Cardinality(PartsOf(Declared)) :
              Visiting(ds)[k] = Visiting(ds)[k - 1] \cup UsedBy(Visiting(ds)[k - 1])
         /\ \A k \in 0 .. Cardinality(PartsOf(Declared)) :
              Visiting(ds)[k] \in SUBSET PartsOf(Declared)
<1> DEFINE N == Cardinality(PartsOf(Declared))
           V == SUBSET PartsOf(Declared)
           next1(B) ==
             UNION {{x} \cup {y \in PartsOf(Declared) : Finds(x, y)} : x \in B}
           step == [x \in (1 .. N) \X V |-> next1(x[2])]
           Solves(f) == f = [k \in 0 .. N |-> IF k = 0 THEN ds ELSE next1(f[k - 1])]
<1>1. N \in Nat /\ ds \in V
  BY FS_CardinalityType
<1>13. \A B : next1(B) = B \cup UsedBy(B)
  BY DEF UsedBy
<1>2. \A B \in V : next1(B) \in V
  <2> HIDE DEF next1
  <2> QED  BY <1>13 DEF UsedBy
<1> HIDE DEF next1, V
<1>3. KeepsTo(V, step, N)
  BY <1>2 DEF KeepsTo
<1>4. \A k \in 1 .. N : \A B \in V : step[<<k, B>>] = next1(B)
  OBVIOUS
<1>5. PICK f \in [0 .. N -> V] : f[0] = ds /\ \A k \in 1 .. N : f[k] = step[<<k, f[k - 1]>>]
  <2> HIDE DEF N, step
  <2> QED  BY <1>1, <1>3, Iterates DEF Iterated
<1> HIDE DEF step
<1>6. \A k \in 1 .. N : f[k] = next1(f[k - 1])
  <2> TAKE k \in 1 .. N
  <2>1. k - 1 \in 0 .. N
    BY <1>1
  <2>2. f[k - 1] \in V
    BY <2>1
  <2> QED  BY <1>4, <1>5, <2>2
<1>7. Solves(f)
  <2>1. f = [k \in 0 .. N |-> f[k]]
    OBVIOUS
  <2>2. \A k \in 0 .. N : f[k] = IF k = 0 THEN ds ELSE next1(f[k - 1])
    BY <1>5, <1>6
  <2> QED  BY <2>1, <2>2
<1>8. Visiting(ds) = CHOOSE g : Solves(g)
  BY DEF Visiting, next1
<1>9. Solves(Visiting(ds))
  BY <1>7, <1>8
<1>10. PICK g : g = Visiting(ds)
  OBVIOUS
<1>11. g[0] = ds /\ \A k \in 1 .. N : g[k] = next1(g[k - 1])
  <2>1. g = [k \in 0 .. N |-> IF k = 0 THEN ds ELSE next1(g[k - 1])]
    BY <1>9, <1>10
  <2> QED  BY <1>1, <2>1
<1>12. \A k \in 0 .. N : g[k] \in V
  <2> DEFINE T == {k \in 0 .. N : g[k] \in V}
  <2>1. 0 \in T
    BY <1>1, <1>11
  <2>2. ASSUME NEW k \in 1 .. N, k - 1 \in T PROVE k \in T
    <3>1. g[k] \in V
      BY <1>2, <1>11, <2>2
    <3>2. k \in 0 .. N
      BY <1>1
    <3> QED  BY <3>1, <3>2
  <2>3. \A k \in 0 .. N : k \in T
    <3> HIDE DEF T, N
    <3> QED  BY <1>1, <2>1, <2>2, Upwards
  <2> QED  BY <2>3
<1> QED  BY <1>10, <1>11, <1>12, <1>13 DEF V

\* More parts find more.
LEMMA UsedByGrows ==
  ASSUME NEW S, NEW T, S \subseteq T
  PROVE  UsedBy(S) \subseteq UsedBy(T)
BY DEF UsedBy

\* What is visited is the least set of parts that has the first ones and
\* what its own members find: each round but the last adds one.
LEMMA VisitedLeast ==
  ASSUME IsFiniteSet(PartsOf(Declared)), NEW ds \in SUBSET PartsOf(Declared), NEW V,
         ds \subseteq V, UsedBy(V) \subseteq V
  PROVE  Visited(ds) \subseteq V
<1> DEFINE N == Cardinality(PartsOf(Declared))
<1>1. N \in Nat
  BY FS_CardinalityType
<1>2. PICK v : v = Visiting(ds)
  OBVIOUS
<1>3. /\ v[0] = ds
      /\ \A k \in 1 .. N : v[k] = v[k - 1] \cup UsedBy(v[k - 1])
  BY <1>2, VisitingUnfolds
<1> DEFINE T == {k \in 0 .. N : v[k] \subseteq V}
<1>4. 0 \in T
  BY <1>1, <1>3
<1>5. ASSUME NEW k \in 1 .. N, k - 1 \in T PROVE k \in T
  <2>1. k \in 0 .. N /\ v[k - 1] \subseteq V
    BY <1>1, <1>5
  <2>2. UsedBy(v[k - 1]) \subseteq V
    BY <2>1, UsedByGrows
  <2> QED  BY <1>3, <2>1, <2>2
<1>6. N \in T
  <2>1. \A k \in 0 .. N : k \in T
    <3> HIDE DEF T, N
    <3> QED  BY <1>1, <1>4, <1>5, Upwards
  <2> QED  BY <1>1, <2>1
<1> QED  BY <1>2, <1>6 DEF Visited

\* As many rounds as there are parts are enough: one that adds nothing is among
\* them, and none behind it adds anything.
LEMMA VisitedClosed ==
  ASSUME IsFiniteSet(PartsOf(Declared)), NEW ds \in SUBSET PartsOf(Declared)
  PROVE  /\ ds \subseteq Visited(ds)
         /\ Visited(ds) \subseteq PartsOf(Declared)
         /\ UsedBy(Visited(ds)) \subseteq Visited(ds)
<1> DEFINE N == Cardinality(PartsOf(Declared))
<1>1. N \in Nat
  BY FS_CardinalityType
<1>2. PICK v : v = Visiting(ds)
  OBVIOUS
<1>3. /\ v[0] = ds
      /\ \A k \in 1 .. N : v[k] = v[k - 1] \cup UsedBy(v[k - 1])
      /\ \A k \in 0 .. N : v[k] \in SUBSET PartsOf(Declared)
  BY <1>2, VisitingUnfolds
<1>4. \A k \in 0 .. N : IsFiniteSet(v[k]) /\ Cardinality(v[k]) \in Nat
  <2> TAKE k \in 0 .. N
  <2>1. IsFiniteSet(v[k])
    BY <1>3, FS_Subset
  <2> QED  BY <2>1, FS_CardinalityType
<1> DEFINE Full(k) == UsedBy(v[k]) \subseteq v[k]
           T == {k \in 0 .. N : ds \subseteq v[k] /\ (Full(k) \/ Cardinality(v[k]) >= k)}
<1>5. 0 \in T
  <2>1. 0 \in 0 .. N
    BY <1>1
  <2>2. Cardinality(v[0]) >= 0
    BY <1>4, <2>1
  <2> QED  BY <1>3, <2>1, <2>2
<1>6. ASSUME NEW k \in 1 .. N, k - 1 \in T PROVE k \in T
  <2>1. k \in 0 .. N /\ k - 1 \in 0 .. N /\ k \in Nat
    BY <1>1
  <2>2. PICK A, B : A = v[k - 1] /\ B = v[k]
    OBVIOUS
  <2>3. A \subseteq B /\ ds \subseteq B
    BY <1>3, <1>6, <2>2
  <2>4. CASE Full(k - 1)
    <3>1. B = A
      BY <1>3, <2>2, <2>4
    <3> QED  BY <2>1, <2>2, <2>3, <2>4, <3>1
  <2>5. CASE ~Full(k - 1)
    <3>1. Cardinality(A) >= k - 1 /\ A # B
      BY <1>3, <1>6, <2>1, <2>2, <2>5
    <3>2. IsFiniteSet(B) /\ Cardinality(B) \in Nat /\ Cardinality(A) \in Nat
      BY <1>4, <2>1, <2>2
    <3>3. Cardinality(A) <= Cardinality(B) /\ Cardinality(A) # Cardinality(B)
      BY <2>3, <3>1, <3>2, FS_Subset
    <3>4. Cardinality(B) >= k
      BY <2>1, <3>1, <3>2, <3>3
    <3> QED  BY <2>1, <2>2, <2>3, <3>4
  <2> QED  BY <2>4, <2>5
<1>7. N \in T
  <2>1. \A k \in 0 .. N : k \in T
    <3> HIDE DEF T, N
    <3> QED  BY <1>1, <1>5, <1>6, Upwards
  <2> QED  BY <1>1, <2>1
<1>8. v[N] \in SUBSET PartsOf(Declared)
  BY <1>1, <1>3
<1>9. Full(N)
  <2>1. CASE Cardinality(v[N]) >= N
    <3>1. Cardinality(v[N]) \in Nat
      BY <1>1, <1>4
    <3>2. Cardinality(v[N]) <= N
      BY <1>8, FS_Subset
    <3>3. Cardinality(v[N]) = Cardinality(PartsOf(Declared))
      BY <1>1, <2>1, <3>1, <3>2
    <3>4. v[N] = PartsOf(Declared)
      BY <1>8, <3>3, FS_Subset
    <3> QED  BY <3>4 DEF UsedBy
  <2> QED  BY <1>7, <2>1
<1> QED  BY <1>2, <1>7, <1>8, <1>9 DEF Visited

-----------------------------------------------------------------------------
(* What a program means *)

UniqueIn(ps) ==
  \A i, k \in DOMAIN ps : \A j \in DOMAIN ps[i], l \in DOMAIN ps[k] :
    ps[i][j].name = ps[k][l].name => i = k /\ j = l
RootsOf(ds) == {"all"} \X {d \in ds : IsRoot(d)}
ClosedIn(parts, S) == \A x \in S, y \in parts : Finds(x, y) => y \in S
FaultlessIn(names, S) == \A x \in S : ~Faulty(x, names)
Meaningful(ds) ==
  \E S \in SUBSET PartsOf(ds) :
    RootsOf(ds) \subseteq S /\ ClosedIn(PartsOf(ds), S) /\ FaultlessIn(Named(ds), S)

\* The two halves of what a program means.
LEMMA MeansParts ==
  ASSUME NEW ps
  PROVE  Means(ps) <=> UniqueIn(ps) /\ Meaningful(DeclarationsOf(ps))
<1> PICK ds : ds = DeclarationsOf(ps)
  OBVIOUS
<1> PICK parts : parts = PartsOf(ds)
  OBVIOUS
<1> PICK roots : roots = RootsOf(ds)
  OBVIOUS
<1> DEFINE Apart == \E more \in SUBSET (parts \ roots) : Sound(parts, Named(ds), roots \cup more)
<1>1. Means(ps) <=> UniqueIn(ps) /\ Apart
  BY DEF Means, UniqueIn, RootsOf
<1>2. roots \subseteq parts
  BY DEF RootsOf, PartsOf
<1>3. \A S : Sound(parts, Named(ds), S) <=> ClosedIn(parts, S) /\ FaultlessIn(Named(ds), S)
  BY DEF Sound, ClosedIn, FaultlessIn
<1>4. ASSUME Apart
      PROVE  Meaningful(ds)
  <2>1. PICK more \in SUBSET (parts \ roots) : Sound(parts, Named(ds), roots \cup more)
    BY <1>4
  <2>2. PICK S : S = roots \cup more
    OBVIOUS
  <2>3. S \in SUBSET parts /\ roots \subseteq S
    BY <1>2, <2>2
  <2> QED
    BY <1>3, <2>1, <2>2, <2>3 DEF Meaningful
<1>5. ASSUME Meaningful(ds)
      PROVE  Apart
  <2>1. PICK S \in SUBSET parts :
          roots \subseteq S /\ ClosedIn(parts, S) /\ FaultlessIn(Named(ds), S)
    BY <1>5 DEF Meaningful
  <2>2. PICK more : more = S \ roots
    OBVIOUS
  <2>3. more \in SUBSET (parts \ roots) /\ roots \cup more = S
    BY <2>1, <2>2
  <2> QED
    BY <1>3, <2>1, <2>3
<1> HIDE DEF Apart
<1> QED
  BY <1>1, <1>4, <1>5

\* What is registered are the declarations of the programs, and their names.
LEMMA RegisteredAre ==
  /\ Declared = DeclarationsOf(programs)
  /\ Registered = Named(DeclarationsOf(programs))
<1>1. Declared = DeclarationsOf(programs)
  BY DEF Declared, DeclarationsOf
<1>2. ASSUME NEW n
      PROVE  n \in Registered <=> n \in Named(DeclarationsOf(programs))
  <2>1. n \in Registered <=>
          \E i \in DOMAIN programs : \E j \in DOMAIN programs[i] : n = programs[i][j].name
    BY DEF Registered, NamesOf
  <2>2. n \in Named(DeclarationsOf(programs)) <=>
          \E i \in DOMAIN programs : \E j \in DOMAIN programs[i] : n = programs[i][j].name
    BY DEF Named, DeclarationsOf, ToSet
  <2> QED
    BY <2>1, <2>2
<1> QED
  BY <1>1, <1>2

\* The parts of finitely many declarations are finitely many.
LEMMA PartsFinite ==
  ASSUME NEW ds, IsFiniteSet(ds)
  PROVE  IsFiniteSet(PartsOf(ds))
<1>1. IsFiniteSet({"name", "all"})
  <2>1. IsFiniteSet({"name"}) /\ IsFiniteSet({"all"})
    BY FS_Singleton
  <2>2. {"name", "all"} = {"name"} \cup {"all"}
    OBVIOUS
  <2> QED
    BY <2>1, <2>2, FS_Union
<1> QED
  BY <1>1, FS_Product DEF PartsOf

\* Nothing that is visited has a fault exactly if there are parts without a fault, with
\* all of every variable and function and with all they find.
LEMMA FaultsExact ==
  ASSUME IsFiniteSet(Declared)
  PROVE  Faults = {} <=> Meaningful(DeclarationsOf(programs))
<1> PICK ds : ds = Declared
  OBVIOUS
<1> PICK parts : parts = PartsOf(ds)
  OBVIOUS
<1> PICK roots : roots = RootsOf(ds)
  OBVIOUS
<1> PICK V : V = Visited(roots)
  OBVIOUS
<1>1. roots \in SUBSET PartsOf(Declared) /\ IsFiniteSet(PartsOf(Declared))
  BY PartsFinite DEF RootsOf, PartsOf
<1>2. /\ roots \subseteq V
      /\ V \subseteq parts
      /\ UsedBy(V) \subseteq V
  BY <1>1, VisitedClosed
<1>3. Faults = {x \in V : Faulty(x, Named(ds))}
  <2>1. Analysed = roots
    BY DEF Analysed, RootsOf
  <2>2. Registered = Named(ds)
    BY RegisteredAre
  <2> QED
    BY <2>1, <2>2 DEF Faults
<1>4. Faults = {} <=> FaultlessIn(Named(ds), V)
  BY <1>3 DEF FaultlessIn
<1>5. ASSUME FaultlessIn(Named(ds), V)
      PROVE  Meaningful(ds)
  <2>1. ClosedIn(parts, V)
    BY <1>2 DEF ClosedIn, UsedBy
  <2> QED
    BY <1>2, <1>5, <2>1 DEF Meaningful
<1>6. ASSUME Meaningful(ds)
      PROVE  FaultlessIn(Named(ds), V)
  <2>1. PICK S \in SUBSET parts :
          roots \subseteq S /\ ClosedIn(parts, S) /\ FaultlessIn(Named(ds), S)
    BY <1>6 DEF Meaningful
  <2>2. UsedBy(S) \subseteq S
    BY <2>1 DEF ClosedIn, UsedBy
  <2>3. V \subseteq S
    BY <1>1, <2>1, <2>2, VisitedLeast
  <2> QED
    BY <2>1, <2>3 DEF FaultlessIn
<1> QED
  BY <1>4, <1>5, <1>6, RegisteredAre

\* What is not dropped are declarations, and all those that are not.
LEMMA ParsedTyped ==
  ASSUME NEW ds \in Seq(Declarations)
  PROVE  /\ Parsed(ds) \in Seq(Declarations)
         /\ \A i \in DOMAIN ds : ds[i].outcome # "dropped" => ds[i] \in ToSet(Parsed(ds))
<1> PICK P : P = {i \in DOMAIN ds : ds[i].outcome # "dropped"}
  OBVIOUS
<1> PICK n \in Nat : n = Len(ds)
  OBVIOUS
<1>1. P \in SUBSET (1 .. n)
  OBVIOUS
<1>2. \A i \in P : ds[i] \in Declarations
  OBVIOUS
<1>3. Parsed(ds) = Picked(ds, P)
  BY DEF Parsed
<1>4. Picked(ds, P) \in Seq(Declarations)
  BY <1>1, <1>2, PickedType
<1>5. ToSet(Picked(ds, P)) = {ds[i] : i \in P}
  BY ONLY n \in Nat, <1>1, PickedSet
<1> QED
  BY <1>3, <1>4, <1>5

\* What is declared in finitely many sequences is finite.
LEMMA DeclaredFinite ==
  ASSUME NEW n \in Nat, NEW ps, DOMAIN ps = 1 .. n,
         \A i \in 1 .. n : ps[i] \in Seq(Declarations)
  PROVE  IsFiniteSet(DeclarationsOf(ps))
<1> DEFINE Upto(k) == UNION {ToSet(ps[i]) : i \in 1 .. k}
           T == {k \in 0 .. n : IsFiniteSet(Upto(k))}
<1>1. 0 \in T
  <2>1. Upto(0) = {}
    OBVIOUS
  <2>2. IsFiniteSet(Upto(0))
    <3> HIDE DEF Upto
    <3> QED
      BY <2>1, FS_EmptySet
  <2>3. 0 \in 0 .. n
    OBVIOUS
  <2> HIDE DEF Upto
  <2> QED
    BY <2>2, <2>3
<1>2. ASSUME NEW k \in 1 .. n, k - 1 \in T
      PROVE  k \in T
  <2>1. 1 .. k = (1 .. k - 1) \cup {k}
    OBVIOUS
  <2>2. Upto(k) = Upto(k - 1) \cup ToSet(ps[k])
    BY <2>1
  <2>3. IsFiniteSet(ToSet(ps[k]))
    <3> PICK s : s = ps[k]
      OBVIOUS
    <3>1. s \in Seq(Declarations)
      OBVIOUS
    <3>2. DOMAIN s = 1 .. Len(s) /\ Len(s) \in Nat
      BY <3>1
    <3>3. IsFiniteSet(1 .. Len(s))
      BY <3>2, FS_Interval
    <3>4. s \in Surjection(1 .. Len(s), ToSet(s))
      <4>1. s \in [1 .. Len(s) -> ToSet(s)]
        BY <3>1, <3>2 DEF ToSet
      <4>2. \A t \in ToSet(s) : \E m \in 1 .. Len(s) : s[m] = t
        BY <3>2 DEF ToSet
      <4> QED
        BY <4>1, <4>2, Fun_IsSurj
    <3> QED
      BY <3>3, <3>4, FS_Surjection
  <2>4. IsFiniteSet(Upto(k - 1))
    BY <1>2
  <2>5. IsFiniteSet(Upto(k))
    <3> PICK U : U = Upto(k - 1)
      OBVIOUS
    <3> PICK R : R = ToSet(ps[k])
      OBVIOUS
    <3>1. IsFiniteSet(U \cup R)
      BY <2>3, <2>4, FS_Union
    <3>2. U \cup R = Upto(k)
      BY <2>2
    <3> HIDE DEF Upto
    <3> QED
      BY <3>1, <3>2
  <2>6. k \in 0 .. n
    OBVIOUS
  <2> HIDE DEF Upto
  <2> QED
    BY <2>5, <2>6
<1>3. \A k \in 0 .. n : k \in T
  <2> HIDE DEF T
  <2> QED
    BY <1>1, <1>2, Upwards
<1>4. IsFiniteSet(Upto(n))
  BY <1>3
<1> QED
  BY <1>4 DEF DeclarationsOf

\* Registering finds the name that is there twice.
LEMMA RedefinesExact ==
  ASSUME NEW n \in Nat, DOMAIN programs = 1 .. n, UniqueIn(programs), NEW ds, NEW ps,
         DOMAIN ps = 1 .. n + 1, \A i \in 1 .. n : ps[i] = programs[i], ps[n + 1] = ds
  PROVE  UniqueIn(ps) <=> ~Redefines(ds)
<1>1. n + 1 \in DOMAIN ps /\ \A i \in 1 .. n : i \in DOMAIN ps /\ i # n + 1
  OBVIOUS
<1>2. ASSUME UniqueIn(ps), Redefines(ds)
      PROVE  FALSE
  <2>1. CASE NamesOf(ds) \cap Registered # {}
    <3>1. PICK j \in DOMAIN ds, i \in DOMAIN programs :
            \E l \in DOMAIN programs[i] : ds[j].name = programs[i][l].name
      BY <2>1 DEF NamesOf, Registered
    <3>2. PICK l \in DOMAIN programs[i] : ds[j].name = programs[i][l].name
      BY <3>1
    <3>3. n + 1 = i
      BY <1>1, <1>2, <3>2 DEF UniqueIn
    <3> QED
      BY <1>1, <3>3
  <2>2. CASE \E i, j \in DOMAIN ds : i # j /\ ds[i].name = ds[j].name
    BY <1>1, <1>2, <2>2 DEF UniqueIn
  <2> QED
    BY <1>2, <2>1, <2>2 DEF Redefines
<1>3. ASSUME ~Redefines(ds)
      PROVE  UniqueIn(ps)
  <2> SUFFICES ASSUME NEW i \in DOMAIN ps, NEW k \in DOMAIN ps,
                      NEW j \in DOMAIN ps[i], NEW l \in DOMAIN ps[k],
                      ps[i][j].name = ps[k][l].name
               PROVE  i = k /\ j = l
    BY DEF UniqueIn
  <2>1. (i \in 1 .. n \/ i = n + 1) /\ (k \in 1 .. n \/ k = n + 1)
    OBVIOUS
  <2>2. CASE i \in 1 .. n /\ k \in 1 .. n
    BY <2>2 DEF UniqueIn
  <2>3. CASE i = n + 1 /\ k = n + 1
    BY <1>3, <2>3 DEF Redefines
  <2>4. CASE i \in 1 .. n /\ k = n + 1
    BY <1>3, <2>4 DEF Redefines, NamesOf, Registered
  <2>5. CASE i = n + 1 /\ k \in 1 .. n
    BY <1>3, <2>5 DEF Redefines, NamesOf, Registered
  <2> QED
    BY <2>1, <2>2, <2>3, <2>4, <2>5
<1> QED
  BY <1>2, <1>3

\* A part of what is unique is.
LEMMA UniquePart ==
  ASSUME NEW ps, NEW qs, DOMAIN ps \subseteq DOMAIN qs, \A i \in DOMAIN ps : ps[i] = qs[i],
         UniqueIn(qs)
  PROVE  UniqueIn(ps)
BY DEF UniqueIn

-----------------------------------------------------------------------------
(* The settings of an option file *)

PlacesOf(os, key) == {i \in DOMAIN os : os[i].key = key}
EntriesOf(os, key) == os[Min(PlacesOf(os, key))].entries
ValueIn(os, key, default) ==
  IF PlacesOf(os, key) = {} THEN default
  ELSE IF EntriesOf(os, key) = <<>> THEN Empty ELSE EntriesOf(os, key)[1].value

\* The settings of an option file, as a record.
LEMMA FileSettingsAre ==
  ASSUME NEW os
  PROVE  FileSettings(os) =
           Record(Untagged(EntriesOf(os, FILES)), ValueIn(os, OUTPUT, GENERATED),
                  ValueIn(os, BACKEND, C), ValueIn(os, DOT, Empty) = TRUTH)
BY DEF FileSettings, Record, ValueIn, EntriesOf, PlacesOf

\* The first option of a key is that at its least place.
LEMMA FirstIsLeast ==
  ASSUME NEW n \in Nat, DOMAIN options = 1 .. n, NEW key, Has(key)
  PROVE  /\ Min(PlacesOf(options, key)) \in DOMAIN options
         /\ First(key) = options[Min(PlacesOf(options, key))]
<1> PICK S : S = PlacesOf(options, key)
  OBVIOUS
<1>1. S \subseteq Nat /\ S # {} /\ \A i : i \in S <=> i \in 1 .. n /\ options[i].key = key
  BY DEF PlacesOf, Has
<1>2. PICK x \in S : \A y \in S : x <= y
  BY <1>1, LeastExists
<1>3. Min(S) = x
  <2>1. \A w \in S : (\A y \in S : w <= y) => w = x
    BY <1>1, <1>2
  <2> QED
    BY <1>2, <2>1 DEF Min
<1>4. ASSUME NEW i \in DOMAIN options
      PROVE  (options[i].key = key /\ \A j \in 1 .. i - 1 : options[j].key # key) <=> i = x
  <2>1. i \in Nat /\ x \in Nat /\ x \in 1 .. n
    BY <1>1
  <2>2. ASSUME options[i].key = key, \A j \in 1 .. i - 1 : options[j].key # key
        PROVE  i = x
    <3>1. x <= i
      BY <1>1, <1>2, <2>2
    <3>2. ~(x < i)
      BY <1>1, <2>1, <2>2
    <3> QED
      BY <2>1, <3>1, <3>2
  <2>3. ASSUME i = x, NEW j \in 1 .. i - 1
        PROVE  options[j].key # key
    <3>1. j \in 1 .. n /\ ~(x <= j)
      BY <2>1, <2>3
    <3> QED
      BY <1>1, <1>2, <3>1
  <2>4. i = x => options[i].key = key
    BY <1>1
  <2> QED
    BY <2>2, <2>3, <2>4
<1>5. (CHOOSE i \in DOMAIN options :
         options[i].key = key /\ \A j \in 1 .. i - 1 : options[j].key # key) = x
  <2>1. x \in DOMAIN options
    BY <1>1
  <2> QED
    BY <1>4, <2>1
<1>6. First(key) = options[x]
  BY <1>5 DEF First
<1> QED
  BY <1>1, <1>3, <1>6

\* What config_main looks up is what the option file says.
LEMMA OptionsRead ==
  ASSUME NEW n \in Nat, DOMAIN options = 1 .. n, Has(FILES)
  PROVE  FileSettings(options) =
           [inputs |-> Untagged(options_get_list(FILES)),
            output |-> options_get_default(OUTPUT, GENERATED),
            backend |-> options_get_default(BACKEND, C),
            write_dot |-> options_get_default(DOT, Empty) = TRUTH]
<1>1. ASSUME NEW key, Has(key)
      PROVE  First(key).entries = EntriesOf(options, key)
  BY <1>1, FirstIsLeast DEF EntriesOf
<1>2. \A key : Has(key) <=> PlacesOf(options, key) # {}
  BY DEF Has, PlacesOf
<1>3. ASSUME NEW key, NEW default
      PROVE  options_get_default(key, default) = ValueIn(options, key, default)
  BY <1>1, <1>2 DEF options_get_default, ValueIn
<1>4. options_get_list(FILES) = EntriesOf(options, FILES)
  BY <1>1 DEF options_get_list
<1> QED
  BY <1>3, <1>4, FileSettingsAre, Zenon DEF Record

\* The inputs are a sequence, of whatever the file says.
LEMMA UntaggedTyped ==
  ASSUME NEW E, NEW es \in Seq(E)
  PROVE  \E V : Untagged(es) \in Seq(V)
<1> PICK n \in Nat : n = Len(es)
  OBVIOUS
<1> PICK values : values = [i \in DOMAIN es |-> es[i].value]
  OBVIOUS
<1> PICK P : P = {i \in DOMAIN es : es[i].tag = Empty}
  OBVIOUS
<1>1. P \in SUBSET (1 .. n)
  OBVIOUS
<1>2. PICK V : V = {values[i] : i \in P}
  OBVIOUS
<1>3. \A i \in P : values[i] \in V
  BY <1>2
<1>4. Picked(values, P) \in Seq(V)
  BY ONLY n \in Nat, <1>1, <1>3, PickedType
<1>5. Untagged(es) = Picked(values, P)
  BY DEF Untagged
<1> QED
  BY <1>4, <1>5

\* The inputs of an option file are a sequence.
LEMMA FileInputsTyped ==
  ASSUME OptionsAre(options), Has(FILES)
  PROVE  \E V : FileSettings(options).inputs \in Seq(V)
<1>1. PICK K, E : options \in Seq([key : K, entries : Seq(E)])
  BY DEF OptionsAre
<1>2. PICK R : R = [key : K, entries : Seq(E)]
  OBVIOUS
<1>3. options \in Seq(R)
  BY <1>1, <1>2
<1>4. PICK n \in Nat : n = Len(options) /\ DOMAIN options = 1 .. n
  BY <1>3
<1>5. Min(PlacesOf(options, FILES)) \in DOMAIN options
  BY <1>4, FirstIsLeast
<1>6. PICK o : o = options[Min(PlacesOf(options, FILES))]
  OBVIOUS
<1>7. o \in R
  BY <1>3, <1>5, <1>6
<1>8. o.entries \in Seq(E)
  BY <1>2, <1>7
<1>9. EntriesOf(options, FILES) \in Seq(E)
  BY <1>6, <1>8 DEF EntriesOf
<1>10. \E V : Untagged(EntriesOf(options, FILES)) \in Seq(V)
  BY <1>9, UntaggedTyped
<1>11. FileSettings(options).inputs = Untagged(EntriesOf(options, FILES))
  BY FileSettingsAre DEF Record
<1> QED
  BY <1>10, <1>11

-----------------------------------------------------------------------------
(* The invariant of the driver *)

Compiled == {"analyzed", "build", "generate"}
Phases ==
  {"main", "config", "arguments", "preload", "inputs", "exit", "crashed"} \cup Compiled
Backends == {C, ARM64, AMD64, LLVM}

Content(fs, name) == IF name \in DOMAIN fs THEN fs[name] ELSE Missing
CanRead(fs, names, n) == \A i \in 1 .. n : Content(fs, names[i]) \notin Unparsed
FilesTyped(fs) == \A n \in DOMAIN fs : fs[n] \in Unparsed \cup Seq(Declarations)
CanDraw(asked, paths) ==
  asked.write_dot /\ asked.inputs # <<>> => <<DotFile, ".dot">> \notin paths

Typed ==
  /\ Reading
  /\ FilesTyped(files)
  /\ arguments \in Seq(Words)
  /\ phase \in Phases
  /\ argument \in 0 .. Len(arguments)
  /\ \E V : settings.inputs \in Seq(V)
  /\ input \in 0 .. Len(settings.inputs)
  /\ code \in {0, 1}
  /\ phase \in {"main", "config", "arguments", "preload"} =>
       programs = <<>> /\ written = {} /\ input = 0

\* The settings so far are what is said so far.
SettingsRead ==
  /\ phase = "main" => at = "key" /\ argument = 0 /\ settings = NoSettings
  /\ phase = "config" => ByFile
  /\ phase = "arguments" =>
       /\ ~ByFile
       /\ ReadsTo(arguments, argument)
       /\ settings = SettingsTo(arguments, argument)
  /\ phase \in {"preload", "inputs"} \cup Compiled => Answerable /\ settings = Asked

\* The programs so far are what is kept of the files so far.
Compiling ==
  phase \in {"inputs"} \cup Compiled =>
    /\ programs = [i \in 1 .. input + 1 |-> Kept[i]]
    /\ UniqueIn(programs)
    /\ CanRead(files, settings.inputs, input)
    /\ input > 0 => CanDraw(settings, blocked)
    /\ \A w \in written : w.suffix = ".dot"

Analyzed ==
  phase \in Compiled =>
    /\ input = Len(settings.inputs)
    /\ Meaningful(DeclarationsOf(programs))
    /\ Main \in Named(DeclarationsOf(programs))

Outputs(w, c, name, backend, kept) ==
  LET outputs == {f \in w : f.suffix # ".dot"}
  IN  IF c = 0 /\ backend = C THEN {<<f.name, f.of>> : f \in outputs} = {<<name, kept>>}
      ELSE c = 1 => outputs = {}
Good ==
  /\ Answerable
  /\ CanRead(files, Asked.inputs, Len(Asked.inputs))
  /\ CanDraw(Asked, blocked)
  /\ Means(Kept)
  /\ Asked.backend \in Backends
Regarded == ByFile \/ ~DotLast(arguments)
\* What is certain to be done.
Certain ==
  Good /\ Openable /\ Asked.backend # LLVM /\ ~Unbuildable(DeclarationsOf(Kept))
\* An exit with 0 is one that may be, one with 1 one that must be, and so is a crash;
\* what is written is what was asked for.
ExitsExactly ==
  /\ phase = "exit" /\ Regarded =>
       /\ IF code = 0 THEN Good /\ Openable ELSE ~Good
       /\ Outputs(written, code, Asked.output, Asked.backend, Kept)
  /\ phase = "crashed" /\ Regarded => ~Certain

Inv == Typed /\ SettingsRead /\ Compiling /\ Analyzed /\ ExitsExactly

-----------------------------------------------------------------------------
(* What was asked for stays *)

TextsOf(fs, inputs) == <<Preload>> \o [i \in DOMAIN inputs |-> Content(fs, inputs[i])]
KeptOf(ts) == [i \in DOMAIN ts |-> Parsed(ts[i])]
AskedIn(argv, os) ==
  IF Len(argv) > 1 /\ argv[1] = <<"--config">> THEN FileSettings(os) ELSE CommandLineSettings(argv)
AnswerableIn(argv, os, a) ==
  IF Len(argv) > 1 /\ argv[1] = <<"--config">>
    THEN a = "done" /\ \E i \in DOMAIN os : os[i].key = FILES
    ELSE Understood(argv)

\* What is asked for, as operators of the state that it is said in.
LEMMA AskedIs ==
  /\ Asked = AskedIn(arguments, options)
  /\ Answerable = AnswerableIn(arguments, options, at)
  /\ Texts = TextsOf(files, Asked.inputs)
  /\ Kept = KeptOf(Texts)
<1>1. Asked = AskedIn(arguments, options)
  BY DEF Asked, AskedIn, ByFile
<1>2. Answerable = AnswerableIn(arguments, options, at)
  BY DEF Answerable, AnswerableIn, ByFile
<1>3. Texts = TextsOf(files, Asked.inputs)
  BY DEF Texts, TextsOf, read_file, Content
<1>4. Kept = KeptOf(Texts)
  BY DEF Kept, KeptOf
<1> QED
  BY <1>1, <1>2, <1>3, <1>4

\* The same of the state behind a step.
LEMMA AskedIsNext ==
  /\ Asked' = AskedIn(arguments', options')
  /\ Answerable' = AnswerableIn(arguments', options', at')
  /\ Texts' = TextsOf(files', Asked'.inputs)
  /\ Kept' = KeptOf(Texts')
<1>1. Asked' = AskedIn(arguments', options')
  BY DEF Asked, AskedIn, ByFile
<1>2. Answerable' = AnswerableIn(arguments', options', at')
  BY DEF Answerable, AnswerableIn, ByFile
<1>3. Texts' = TextsOf(files', Asked'.inputs)
  BY DEF Texts, TextsOf, read_file, Content
<1>4. Kept' = KeptOf(Texts')
  BY DEF Kept, KeptOf
<1> QED
  BY <1>1, <1>2, <1>3, <1>4

\* What was asked for stays while the arguments, the files and the options do.
LEMMA AskedStays ==
  ASSUME UNCHANGED <<optionVars, files, blocked, arguments>>
  PROVE  /\ Asked' = Asked /\ Answerable' = Answerable /\ Texts' = Texts /\ Kept' = Kept
         /\ ByFile' = ByFile /\ Good' = Good /\ Openable' = Openable
         /\ Certain' = Certain /\ Regarded' = Regarded
<1>1. /\ options' = options /\ at' = at /\ files' = files /\ arguments' = arguments
      /\ blocked' = blocked
  BY DEF optionVars
<1>2. Asked' = Asked /\ Answerable' = Answerable
  BY <1>1, AskedIs, AskedIsNext
<1>3. Texts' = Texts
  BY <1>1, <1>2, AskedIs, AskedIsNext
<1>4. Kept' = Kept
  BY <1>3, AskedIs, AskedIsNext
<1>5. ByFile' = ByFile
  BY <1>1 DEF ByFile
<1>6. Good' = Good
  BY <1>1, <1>2, <1>4 DEF Good
<1>7. Openable' = Openable
  BY <1>1, <1>2 DEF Openable
<1>8. Certain' = Certain
  <2>1. (Asked.backend # LLVM)' = (Asked.backend # LLVM)
    BY <1>2
  <2>2. Unbuildable(DeclarationsOf(Kept))' = Unbuildable(DeclarationsOf(Kept))
    BY <1>4
  <2> QED
    BY <1>6, <1>7, <2>1, <2>2 DEF Certain
<1>9. Regarded' = Regarded
  BY <1>1, <1>5 DEF Regarded
<1> QED
  BY <1>2, <1>3, <1>4, <1>5, <1>6, <1>7, <1>8, <1>9

\* If the settings can be read, the inputs are a sequence.
LEMMA AskedInputs ==
  ASSUME Typed, Answerable
  PROVE  \E V : Asked.inputs \in Seq(V)
<1>1. CASE ByFile
  <2>1. Has(FILES)
    BY <1>1 DEF Answerable, Has
  <2>2. OptionsAre(options)
    BY DEF Typed, Reading
  <2>3. Asked = FileSettings(options)
    BY <1>1 DEF Asked
  <2> QED
    BY <2>1, <2>2, <2>3, FileInputsTyped
<1>2. CASE ~ByFile
  <2>1. PICK argv \in Seq(Words) : argv = arguments
    BY DEF Typed
  <2>2. Asked = CommandLineSettings(argv)
    BY <1>2, <2>1 DEF Asked
  <2>3. Asked.inputs = Picked(argv, InputsIn(argv))
    BY <2>2 DEF CommandLineSettings
  <2>4. PICK n \in Nat : n = Len(argv) /\ DOMAIN argv = 1 .. n
    OBVIOUS
  <2>5. PICK P : P = InputsIn(argv)
    OBVIOUS
  <2>6. P \in SUBSET (1 .. n)
    BY <2>4, <2>5 DEF InputsIn
  <2>7. \A i \in P : argv[i] \in Words
    BY <2>4, <2>6
  <2>8. Picked(argv, P) \in Seq(Words)
    BY ONLY n \in Nat, <2>6, <2>7, PickedType
  <2> QED
    BY <2>3, <2>5, <2>8
<1> QED
  BY <1>1, <1>2

\* The texts are the preload and behind it the inputs.
LEMMA TextsAre ==
  ASSUME NEW V, Asked.inputs \in Seq(V)
  PROVE  /\ DOMAIN Texts = 1 .. Len(Asked.inputs) + 1
         /\ Texts[1] = Preload
         /\ \A i \in 1 .. Len(Asked.inputs) : Texts[i + 1] = Content(files, Asked.inputs[i])
<1>1. PICK is \in Seq(V) : is = Asked.inputs
  OBVIOUS
<1>2. PICK n \in Nat : n = Len(is) /\ DOMAIN is = 1 .. n
  OBVIOUS
<1>3. PICK r : r = [i \in 1 .. n |-> Content(files, is[i])]
  OBVIOUS
<1>4. PICK T : T = {Preload} \cup {r[i] : i \in 1 .. n}
  OBVIOUS
<1>5. <<Preload>> \in Seq(T) /\ Len(<<Preload>>) = 1 /\ <<Preload>>[1] = Preload
  BY <1>4
<1>6. r \in Seq(T) /\ Len(r) = n
  <2>1. r \in [1 .. n -> T]
    BY <1>3, <1>4
  <2> QED
    BY <2>1
<1>7. Texts = <<Preload>> \o r
  <2>1. Texts = TextsOf(files, is)
    BY <1>1, AskedIs
  <2>2. TextsOf(files, is) = <<Preload>> \o r
    BY <1>2, <1>3 DEF TextsOf
  <2> QED
    BY <2>1, <2>2
<1>8. PICK p \in Seq(T) : p = <<Preload>>
  BY <1>5
<1>9. PICK t : t = p \o r
  OBVIOUS
<1>10. /\ DOMAIN t = 1 .. n + 1 /\ t[1] = p[1]
       /\ \A i \in 1 .. n : t[i + 1] = r[i]
  <2>1. Len(p) = 1
    BY <1>5, <1>8
  <2>2. /\ Len(t) = 1 + n /\ t \in Seq(T)
        /\ \A k \in 1 .. 1 + n : t[k] = IF k <= 1 THEN p[k] ELSE r[k - 1]
    <3>1. r \in Seq(T) /\ Len(r) = n /\ p \in Seq(T) /\ n \in Nat
      BY <1>6
    <3>2. t \in Seq(T)
      BY ONLY <1>9, <3>1
    <3>3. Len(t) = Len(p) + Len(r)
      <4>1. Len(p \o r) = Len(p) + Len(r)
        BY ONLY <3>1
      <4> QED
        BY ONLY <1>9, <4>1
    <3>4. \A k \in 1 .. Len(p) + Len(r) : t[k] = IF k <= Len(p) THEN p[k] ELSE r[k - Len(p)]
      BY ONLY <1>9, <3>1
    <3> QED
      BY <2>1, <3>1, <3>2, <3>3, <3>4
  <2>3. DOMAIN t = 1 .. n + 1
    BY <2>2
  <2>4. \A i \in 1 .. n : t[i + 1] = r[i]
    <3> TAKE i \in 1 .. n
    <3>1. i + 1 \in 1 .. 1 + n /\ ~(i + 1 <= 1) /\ (i + 1) - 1 = i
      OBVIOUS
    <3> QED
      BY <2>2, <3>1
  <2>5. 1 \in 1 .. 1 + n
    OBVIOUS
  <2> QED
    BY <2>2, <2>3, <2>4, <2>5
<1> QED
  BY <1>1, <1>2, <1>3, <1>5, <1>7, <1>8, <1>9, <1>10

\* What is kept of them, text for text.
LEMMA KeptAre ==
  ASSUME NEW V, Asked.inputs \in Seq(V)
  PROVE  /\ DOMAIN Kept = 1 .. Len(Asked.inputs) + 1
         /\ Kept = [i \in 1 .. Len(Asked.inputs) + 1 |-> Kept[i]]
         /\ Kept[1] = Parsed(Preload)
         /\ \A i \in 1 .. Len(Asked.inputs) : Kept[i + 1] = Parsed(Content(files, Asked.inputs[i]))
<1>1. /\ DOMAIN Texts = 1 .. Len(Asked.inputs) + 1
      /\ Texts[1] = Preload
      /\ \A i \in 1 .. Len(Asked.inputs) : Texts[i + 1] = Content(files, Asked.inputs[i])
  BY TextsAre
<1>2. PICK n \in Nat : n = Len(Asked.inputs)
  OBVIOUS
<1>3. PICK t : t = Texts
  OBVIOUS
<1>4. PICK k : k = Kept
  OBVIOUS
<1>5. k = [i \in 1 .. n + 1 |-> Parsed(t[i])]
  BY <1>1, <1>2, <1>3, <1>4 DEF Kept
<1>6. DOMAIN k = 1 .. n + 1 /\ \A i \in 1 .. n + 1 : k[i] = Parsed(t[i])
  BY <1>5
<1>7. 1 \in 1 .. n + 1 /\ \A i \in 1 .. n : i + 1 \in 1 .. n + 1
  OBVIOUS
<1>8. k = [i \in 1 .. n + 1 |-> k[i]]
  BY <1>5
<1> QED
  BY <1>1, <1>2, <1>3, <1>4, <1>6, <1>7, <1>8

\* What parses of a file that can be read.
LEMMA KeptTyped ==
  ASSUME FilesTyped(files), NEW V, Asked.inputs \in Seq(V), NEW m \in 0 .. Len(Asked.inputs),
         CanRead(files, Asked.inputs, m)
  PROVE  \A i \in 1 .. m + 1 : Kept[i] \in Seq(Declarations)
<1>1. /\ Kept[1] = Parsed(Preload)
      /\ \A i \in 1 .. Len(Asked.inputs) : Kept[i + 1] = Parsed(Content(files, Asked.inputs[i]))
  BY KeptAre
<1>2. Len(Asked.inputs) \in Nat
  OBVIOUS
<1>3. ASSUME NEW i \in 1 .. m + 1
      PROVE  Kept[i] \in Seq(Declarations)
  <2>1. CASE i = 1
    <3>1. Parsed(Preload) \in Seq(Declarations)
      BY PreloadAssumption, ParsedTyped DEF Contents
    <3> QED
      BY <1>1, <2>1, <3>1
  <2>2. CASE i # 1
    <3>1. PICK k \in 1 .. m : i = k + 1 /\ k \in 1 .. Len(Asked.inputs)
      BY <1>2, <2>2
    <3>2. PICK ds : ds = Content(files, Asked.inputs[k])
      OBVIOUS
    <3>3. ds \notin Unparsed
      BY <3>2 DEF CanRead
    <3>4. ds \in Seq(Declarations)
      BY <3>2, <3>3 DEF Content, FilesTyped, Unparsed
    <3>5. Parsed(ds) \in Seq(Declarations)
      BY <3>4, ParsedTyped
    <3> QED
      BY <1>1, <3>1, <3>2, <3>5
  <2> QED
    BY <2>1, <2>2
<1> QED
  BY <1>3

\* The invariant says of an exit what ExitExact does.
LEMMA ExitIs ==
  ASSUME Typed, ExitsExactly
  PROVE  ExitExact
<1>1. Compilable <=> Good
  <2>1. CASE Answerable
    <3>1. PICK V : Asked.inputs \in Seq(V)
      BY <2>1, AskedInputs
    <3>2. DOMAIN Asked.inputs = 1 .. Len(Asked.inputs)
      BY <3>1
    <3>3. (\A i \in DOMAIN Asked.inputs : read_file(Asked.inputs[i]) \notin Unparsed)
            <=> CanRead(files, Asked.inputs, Len(Asked.inputs))
      BY <3>2 DEF CanRead, Content, read_file
    <3> QED
      BY <3>3 DEF Compilable, Good, CanDraw, Backends
  <2>2. CASE ~Answerable
    BY <2>2 DEF Compilable, Good
  <2> QED
    BY <2>1, <2>2
<1> PICK outputs : outputs = {w \in written : w.suffix # ".dot"}
  OBVIOUS
<1> SUFFICES ASSUME phase \in {"exit", "crashed"}, Regarded
             PROVE  /\ Certain => phase = "exit" /\ code = 0
                    /\ phase = "exit" /\ code = 0 => Good /\ Openable
                    /\ phase = "exit" /\ code = 1 => ~Good /\ outputs = {}
                    /\ phase = "exit" /\ code = 0 /\ Asked.backend = C =>
                         {<<w.name, w.of>> : w \in outputs} = {<<Asked.output, Kept>>}
  BY <1>1 DEF ExitExact, Certain, Regarded
<1>2. code \in {0, 1}
  BY DEF Typed
<1>3. CASE phase = "exit"
  <2>1. /\ code = 0 => Good /\ Openable
        /\ code = 1 => ~Good
        /\ Outputs(written, code, Asked.output, Asked.backend, Kept)
    BY <1>2, <1>3 DEF ExitsExactly
  <2>2. code = 1 => outputs = {}
    BY <2>1 DEF Outputs
  <2>3. code = 0 /\ Asked.backend = C =>
          {<<w.name, w.of>> : w \in outputs} = {<<Asked.output, Kept>>}
    BY <2>1 DEF Outputs
  <2> QED
    BY <1>2, <1>3, <2>1, <2>2, <2>3 DEF Certain
<1>4. CASE phase = "crashed"
  BY <1>4 DEF ExitsExactly
<1> QED
  BY <1>3, <1>4

-----------------------------------------------------------------------------
(* Every step preserves the invariant *)

\* Most actions leave alone what was asked for.
LEMMA Stays ==
  ASSUME Typed, UNCHANGED <<optionVars, files, blocked, arguments>>
  PROVE  /\ Reading' /\ FilesTyped(files') /\ arguments' \in Seq(Words)
         /\ at' = at /\ files' = files /\ arguments' = arguments
         /\ Asked' = Asked /\ Answerable' = Answerable /\ Kept' = Kept
         /\ ByFile' = ByFile /\ Good' = Good /\ Openable' = Openable
         /\ Certain' = Certain /\ Regarded' = Regarded
<1>1. UNCHANGED optionVars /\ files' = files /\ arguments' = arguments
  OBVIOUS
<1>2. Reading'
  BY <1>1, StepReading DEF Typed
<1>3. at' = at
  BY <1>1 DEF optionVars
<1> QED
  BY <1>1, <1>2, <1>3, AskedStays DEF Typed

\* The program begins with nothing read and nothing written.
LEMMA InitInv == Init => Inv
<1> SUFFICES ASSUME Init PROVE Inv
  OBVIOUS
<1>1. PICK s \in Scenarios :
        /\ \E t \in s.texts : options_parse_init(t)
        /\ files \in s.files
        /\ arguments \in s.arguments
  BY DEF Init
<1>2. PICK t \in s.texts : options_parse_init(t)
  BY <1>1
<1>3. /\ s.texts \subseteq Seq(Chars)
      /\ s.arguments \subseteq Seq(Words)
      /\ \A f \in s.files : FilesTyped(f)
  BY ScenariosAssumption DEF Words, FilesTyped, Contents
<1>4. Reading
  BY <1>2, <1>3, InitReading
<1>5. /\ phase = "main" /\ argument = 0 /\ settings = NoSettings /\ input = 0
      /\ programs = <<>> /\ written = {} /\ code = 0
  BY DEF Init
<1>6. arguments \in Seq(Words) /\ FilesTyped(files)
  BY <1>1, <1>3
<1>7. settings.inputs \in Seq({}) /\ Len(settings.inputs) = 0
  BY <1>5 DEF NoSettings
<1>8. Typed
  <2>1. argument \in 0 .. Len(arguments)
    BY <1>5, <1>6
  <2>2. input \in 0 .. Len(settings.inputs)
    BY <1>5, <1>7
  <2>3. \E V : settings.inputs \in Seq(V)
    BY <1>7
  <2> QED
    BY <1>4, <1>5, <1>6, <2>1, <2>2, <2>3 DEF Typed, Phases
<1>9. SettingsRead
  <2>1. at = "key"
    BY <1>2 DEF options_parse_init
  <2> QED
    BY <1>5, <2>1 DEF SettingsRead, Compiled
<1> QED
  BY <1>5, <1>8, <1>9 DEF Inv, Compiling, Analyzed, ExitsExactly, Compiled

\* Dot files alone are no output.
LEMMA NothingWritten ==
  ASSUME NEW w, \A f \in w : f.suffix = ".dot", NEW name, NEW backend, NEW kept
  PROVE  Outputs(w, 1, name, backend, kept)
<1>1. {f \in w : f.suffix # ".dot"} = {}
  OBVIOUS
<1> QED
  BY <1>1 DEF Outputs

\* main: a path of --config that is missing is the only error.
LEMMA MainStep == Inv /\ main => Inv'
<1> SUFFICES ASSUME Inv, main PROVE Inv'
  OBVIOUS
<1>1. /\ phase = "main"
      /\ UNCHANGED <<optionVars, files, blocked, arguments>>
      /\ UNCHANGED <<argument, settings, input, programs, written>>
  BY DEF main
<1>2. /\ Reading' /\ FilesTyped(files') /\ arguments' \in Seq(Words)
      /\ at' = at /\ files' = files /\ arguments' = arguments
      /\ Asked' = Asked /\ Answerable' = Answerable /\ Kept' = Kept
      /\ ByFile' = ByFile /\ Good' = Good /\ Openable' = Openable
      /\ Certain' = Certain /\ Regarded' = Regarded
  BY <1>1, Stays DEF Inv
<1>3. \/ ByFile /\ phase' = "exit" /\ code' = 1
      \/ ByFile /\ phase' = "config" /\ code' = code
      \/ ~ByFile /\ phase' = "arguments" /\ code' = code
  BY DEF main, Exit
<1>4. Typed'
  <2>1. /\ argument \in 0 .. Len(arguments)
        /\ \E V : settings.inputs \in Seq(V)
        /\ input \in 0 .. Len(settings.inputs)
        /\ code \in {0, 1}
        /\ programs = <<>> /\ written = {} /\ input = 0
    BY <1>1 DEF Inv, Typed
  <2>2. phase' \in Phases /\ code' \in {0, 1}
    BY <1>3, <2>1 DEF Phases
  <2> QED
    BY <1>1, <1>2, <2>1, <2>2 DEF Typed
<1>5. at = "key" /\ argument = 0 /\ settings = NoSettings /\ written = {}
  BY <1>1 DEF Inv, SettingsRead, Typed
<1>6. SettingsRead'
  <2>1. CASE phase' = "arguments"
    <3>1. PICK argv \in Seq(Words) : argv = arguments
      BY DEF Inv, Typed
    <3>2. ReadsTo(argv, 0) /\ SettingsTo(argv, 0) = NoSettings
      BY FirstNoValue, NoArguments DEF ReadsTo
    <3>3. ReadsTo(arguments', argument') /\ settings' = SettingsTo(arguments', argument')
      BY <1>1, <1>2, <1>5, <3>1, <3>2
    <3> QED
      BY <1>2, <1>3, <2>1, <3>3 DEF SettingsRead, Compiled
  <2>2. CASE phase' # "arguments"
    BY <1>2, <1>3, <2>2 DEF SettingsRead, Compiled
  <2> QED
    BY <2>1, <2>2
<1>7. ExitsExactly'
  <2>1. CASE phase' = "exit"
    <3>1. ByFile /\ code' = 1
      BY <1>3, <2>1
    <3>2. ~Good
      BY <1>5, <3>1 DEF Good, Answerable
    <3>3. \A f \in written' : f.suffix = ".dot"
      BY <1>1, <1>5
    <3>4. Outputs(written', 1, Asked'.output, Asked'.backend, Kept')
      BY <3>3, NothingWritten
    <3> QED
      BY <1>2, <2>1, <3>1, <3>2, <3>4 DEF ExitsExactly
  <2> QED
    BY <1>3, <2>1 DEF ExitsExactly
<1> QED
  BY <1>3, <1>4, <1>6, <1>7 DEF Inv, Compiling, Analyzed, Compiled

\* A token of the option file.
LEMMA ReadOptionsStep == Inv /\ ReadOptions => Inv'
<1> SUFFICES ASSUME Inv, ReadOptions PROVE Inv'
  OBVIOUS
<1>1. phase = "config" /\ options_parse /\ UNCHANGED driverVars
  BY DEF ReadOptions
<1>2. UNCHANGED <<files, arguments, phase, argument, settings, input, programs, written, code>>
  BY <1>1 DEF driverVars
<1>3. Reading'
  BY <1>1, StepReading DEF Inv, Typed
<1>4. Typed'
  BY <1>2, <1>3 DEF Inv, Typed
<1>5. SettingsRead'
  BY <1>1, <1>2 DEF Inv, SettingsRead, ByFile, Compiled
<1> QED
  BY <1>1, <1>2, <1>4, <1>5 DEF Inv, Compiling, Analyzed, ExitsExactly, Compiled

\* The inputs so far are a sequence of words.
LEMMA SettingsTyped ==
  ASSUME NEW argv \in Seq(Words), NEW n
  PROVE  SettingsTo(argv, n).inputs \in Seq(Words)
<1>1. PICK m \in Nat : m = Len(argv) /\ DOMAIN argv = 1 .. m
  OBVIOUS
<1>2. PICK P : P = InputsTo(argv, n)
  OBVIOUS
<1>3. P \in SUBSET (1 .. m)
  BY <1>1, <1>2 DEF InputsTo, InputsIn
<1>4. \A i \in P : argv[i] \in Words
  BY <1>1, <1>3
<1>5. Picked(argv, P) \in Seq(Words)
  BY ONLY m \in Nat, <1>3, <1>4, PickedType
<1>6. SettingsTo(argv, n).inputs = Picked(argv, P)
  BY <1>2 DEF SettingsTo
<1> QED
  BY <1>5, <1>6

\* An argument is read as it was meant, or stops what was not.
LEMMA ArgumentRead ==
  ASSUME Inv, ParseArgument
  PROVE  \/ /\ phase' = phase /\ code' = code
            /\ argument' \in 0 .. Len(arguments)
            /\ ReadsTo(arguments, argument')
            /\ settings' = SettingsTo(arguments, argument')
         \/ /\ phase' = "exit" /\ code' = 1
            /\ UNCHANGED <<argument, settings>>
            /\ ~Accepted(arguments)
<1>1. PICK argv \in Seq(Words) : argv = arguments
  BY DEF Inv, Typed
<1>2. phase = "arguments" /\ argument < Len(arguments)
  BY DEF ParseArgument
<1>3. PICK n \in 0 .. Len(argv) - 1 : n = argument
  <2>1. argument \in 0 .. Len(argv) /\ argument < Len(argv) /\ Len(argv) \in Nat
    BY <1>1, <1>2 DEF Inv, Typed
  <2> QED
    BY <2>1
<1>4. ReadsTo(argv, n) /\ settings = SettingsTo(argv, n)
  BY <1>1, <1>2, <1>3 DEF Inv, SettingsRead
<1> PICK s : s = SettingsTo(argv, n)
  OBVIOUS
<1> DEFINE last == n + 1 = Len(argv)
           Moves(r, k) == settings' = r /\ argument' = n + k /\ UNCHANGED <<phase, code>>
<1>5. \/ argv[n + 1] = <<"-o">> /\ ~last /\ Moves([s EXCEPT !.output = argv[n + 2]], 2)
      \/ argv[n + 1] = <<"-b">> /\ ~last /\ Moves([s EXCEPT !.backend = argv[n + 2]], 2)
      \/ argv[n + 1] = <<"-d">> /\ ~last /\ Moves([s EXCEPT !.write_dot = TRUE], 1)
      \/ argv[n + 1] \in Verbs /\ Moves(s, 1)
      \/ /\ argv[n + 1] \notin Dashed \cup Verbs
         /\ Moves([s EXCEPT !.inputs = Append(@, argv[n + 1])], 1)
      \/ /\ \/ argv[n + 1] \in {<<"-x">>, <<"--config">>}
            \/ argv[n + 1] \in {<<"-o">>, <<"-b">>, <<"-d">>} /\ last
         /\ Exit(1)
         /\ UNCHANGED <<argument, settings>>
  BY <1>1, <1>3, <1>4 DEF ParseArgument
<1>6. Len(argv) \in Nat
  OBVIOUS
<1> DEFINE Goes == /\ phase' = phase /\ code' = code
                   /\ argument' \in 0 .. Len(argv)
                   /\ ReadsTo(argv, argument')
                   /\ settings' = SettingsTo(argv, argument')
<1>7. CASE argv[n + 1] = <<"-o">> /\ ~last /\ Moves([s EXCEPT !.output = argv[n + 2]], 2)
  <2>1. /\ ReadsTo(argv, n + 2)
        /\ SettingsTo(argv, n + 2) = [SettingsTo(argv, n) EXCEPT !.output = argv[n + 2]]
    BY <1>4, <1>7, ReadOutput
  <2>2. argument' = n + 2 /\ n + 2 \in 0 .. Len(argv)
    BY <1>6, <1>7
  <2>3. Goes
    BY <1>7, <2>1, <2>2
  <2> QED
    BY <1>1, <2>3
<1>8. CASE argv[n + 1] = <<"-b">> /\ ~last /\ Moves([s EXCEPT !.backend = argv[n + 2]], 2)
  <2>1. /\ ReadsTo(argv, n + 2)
        /\ SettingsTo(argv, n + 2) = [SettingsTo(argv, n) EXCEPT !.backend = argv[n + 2]]
    BY <1>4, <1>8, ReadBackend
  <2>2. argument' = n + 2 /\ n + 2 \in 0 .. Len(argv)
    BY <1>6, <1>8
  <2>3. Goes
    BY <1>8, <2>1, <2>2
  <2> QED
    BY <1>1, <2>3
<1>9. CASE argv[n + 1] = <<"-d">> /\ ~last /\ Moves([s EXCEPT !.write_dot = TRUE], 1)
  <2>1. /\ ReadsTo(argv, n + 1)
        /\ SettingsTo(argv, n + 1) = [SettingsTo(argv, n) EXCEPT !.write_dot = TRUE]
    BY <1>4, <1>9, ReadDot
  <2>2. argument' = n + 1 /\ n + 1 \in 0 .. Len(argv)
    BY <1>6, <1>9
  <2>3. Goes
    BY <1>9, <2>1, <2>2
  <2> QED
    BY <1>1, <2>3
<1>10. CASE argv[n + 1] \in Verbs /\ Moves(s, 1)
  <2>1. ReadsTo(argv, n + 1) /\ SettingsTo(argv, n + 1) = SettingsTo(argv, n)
    BY <1>4, <1>10, ReadVerb
  <2>2. argument' = n + 1 /\ n + 1 \in 0 .. Len(argv)
    BY <1>6, <1>10
  <2>3. Goes
    BY <1>10, <2>1, <2>2
  <2> QED
    BY <1>1, <2>3
<1>11. CASE /\ argv[n + 1] \notin Dashed \cup Verbs
            /\ Moves([s EXCEPT !.inputs = Append(@, argv[n + 1])], 1)
  <2>1. /\ ReadsTo(argv, n + 1)
        /\ SettingsTo(argv, n + 1) =
             [SettingsTo(argv, n) EXCEPT !.inputs = Append(@, argv[n + 1])]
    BY <1>4, <1>11, ReadInput
  <2>2. argument' = n + 1 /\ n + 1 \in 0 .. Len(argv)
    BY <1>6, <1>11
  <2>3. Goes
    BY <1>11, <2>1, <2>2
  <2> QED
    BY <1>1, <2>3
<1>12. CASE /\ \/ argv[n + 1] \in {<<"-x">>, <<"--config">>}
               \/ argv[n + 1] \in {<<"-o">>, <<"-b">>, <<"-d">>} /\ last
            /\ Exit(1)
            /\ UNCHANGED <<argument, settings>>
  <2>1. ~Accepted(argv)
    BY <1>4, <1>12, NotUnderstood
  <2> QED
    BY <1>1, <1>12, <2>1 DEF Exit
<1> QED
  BY <1>5, <1>7, <1>8, <1>9, <1>10, <1>11, <1>12

\* A round of the loop over argv.
LEMMA ParseArgumentStep == Inv /\ ParseArgument => Inv'
<1> SUFFICES ASSUME Inv, ParseArgument PROVE Inv'
  OBVIOUS
<1>1. /\ phase = "arguments"
      /\ UNCHANGED <<optionVars, files, blocked, arguments>>
      /\ UNCHANGED <<input, programs, written>>
  BY DEF ParseArgument
<1>2. /\ Reading' /\ FilesTyped(files') /\ arguments' \in Seq(Words)
      /\ at' = at /\ files' = files /\ arguments' = arguments
      /\ Asked' = Asked /\ Answerable' = Answerable /\ Kept' = Kept
      /\ ByFile' = ByFile /\ Good' = Good /\ Openable' = Openable
      /\ Certain' = Certain /\ Regarded' = Regarded
  BY <1>1, Stays DEF Inv
<1>3. /\ argument \in 0 .. Len(arguments) /\ arguments \in Seq(Words)
      /\ \E V : settings.inputs \in Seq(V)
      /\ input \in 0 .. Len(settings.inputs)
      /\ code \in {0, 1}
      /\ programs = <<>> /\ written = {} /\ input = 0
      /\ ~ByFile
  BY <1>1 DEF Inv, Typed, SettingsRead
<1>4. CASE /\ phase' = phase /\ code' = code
           /\ argument' \in 0 .. Len(arguments)
           /\ ReadsTo(arguments, argument')
           /\ settings' = SettingsTo(arguments, argument')
  <2>1. settings'.inputs \in Seq(Words)
    BY <1>3, <1>4, SettingsTyped
  <2>2. input' \in 0 .. Len(settings'.inputs)
    BY <1>1, <1>3, <2>1
  <2>3. Typed'
    BY <1>1, <1>2, <1>3, <1>4, <2>1, <2>2 DEF Typed, Phases
  <2>4. SettingsRead'
    BY <1>1, <1>2, <1>3, <1>4 DEF SettingsRead, Compiled
  <2> QED
    BY <1>1, <1>4, <2>3, <2>4 DEF Inv, Compiling, Analyzed, ExitsExactly, Compiled
<1>5. CASE /\ phase' = "exit" /\ code' = 1
           /\ UNCHANGED <<argument, settings>>
           /\ ~Accepted(arguments)
  <2>1. Typed'
    BY <1>1, <1>2, <1>3, <1>5 DEF Typed, Phases
  <2>2. Regarded => ~Good
    BY <1>3, <1>5 DEF Good, Answerable, Regarded, Accepted
  <2>3. \A f \in written' : f.suffix = ".dot"
    BY <1>1, <1>3
  <2>4. Outputs(written', 1, Asked'.output, Asked'.backend, Kept')
    BY <2>3, NothingWritten
  <2>5. ExitsExactly'
    BY <1>2, <1>5, <2>2, <2>4 DEF ExitsExactly
  <2> QED
    BY <1>5, <2>1, <2>5 DEF Inv, SettingsRead, Compiling, Analyzed, Compiled
<1> QED
  BY <1>4, <1>5, ArgumentRead

\* Behind the last argument all are understood.
LEMMA StandaloneStep == Inv /\ standalone_main => Inv'
<1> SUFFICES ASSUME Inv, standalone_main PROVE Inv'
  OBVIOUS
<1>1. /\ phase = "arguments" /\ argument = Len(arguments) /\ phase' = "preload"
      /\ UNCHANGED <<optionVars, files, blocked, arguments>>
      /\ UNCHANGED <<argument, settings, input, programs, written, code>>
  BY DEF standalone_main
<1>2. /\ Reading' /\ FilesTyped(files') /\ arguments' \in Seq(Words)
      /\ at' = at /\ files' = files /\ arguments' = arguments
      /\ Asked' = Asked /\ Answerable' = Answerable /\ Kept' = Kept
      /\ ByFile' = ByFile /\ Good' = Good /\ Openable' = Openable
      /\ Certain' = Certain /\ Regarded' = Regarded
  BY <1>1, Stays DEF Inv
<1>3. Typed'
  BY <1>1, <1>2 DEF Inv, Typed, Phases
<1>4. PICK argv \in Seq(Words) : argv = arguments
  BY DEF Inv, Typed
<1>5. ~ByFile /\ ReadsTo(argv, Len(argv)) /\ settings = SettingsTo(argv, Len(argv))
  BY <1>1, <1>4 DEF Inv, SettingsRead
<1>6. settings = CommandLineSettings(argv) /\ Understood(argv)
  BY <1>5, AllArguments DEF ReadsTo, Accepted
<1>7. Answerable /\ settings = Asked
  BY <1>4, <1>5, <1>6 DEF Answerable, Asked
<1>8. SettingsRead'
  BY <1>1, <1>2, <1>7 DEF SettingsRead
<1> QED
  BY <1>1, <1>3, <1>8 DEF Inv, Compiling, Analyzed, ExitsExactly, Compiled

\* The settings of the option file, once it is read.
LEMMA ConfigStep == Inv /\ config_main => Inv'
<1> SUFFICES ASSUME Inv, config_main PROVE Inv'
  OBVIOUS
<1>1. /\ phase = "config"
      /\ UNCHANGED <<optionVars, files, blocked, arguments>>
      /\ UNCHANGED <<argument, input, programs, written>>
  BY DEF config_main
<1>2. /\ Reading' /\ FilesTyped(files') /\ arguments' \in Seq(Words)
      /\ at' = at /\ files' = files /\ arguments' = arguments
      /\ Asked' = Asked /\ Answerable' = Answerable /\ Kept' = Kept
      /\ ByFile' = ByFile /\ Good' = Good /\ Openable' = Openable
      /\ Certain' = Certain /\ Regarded' = Regarded
  BY <1>1, Stays DEF Inv
<1>3. /\ argument \in 0 .. Len(arguments)
      /\ \E V : settings.inputs \in Seq(V)
      /\ input \in 0 .. Len(settings.inputs)
      /\ code \in {0, 1}
      /\ programs = <<>> /\ written = {} /\ input = 0
      /\ ByFile /\ OptionsAre(options)
  BY <1>1 DEF Inv, Typed, SettingsRead, Reading
<1>4. \/ (at = "failed" \/ ~Has(FILES)) /\ phase' = "exit" /\ code' = 1 /\ settings' = settings
      \/ /\ at = "done" /\ Has(FILES)
         /\ settings' = [inputs |-> Untagged(options_get_list(FILES)),
                         output |-> options_get_default(OUTPUT, GENERATED),
                         backend |-> options_get_default(BACKEND, C),
                         write_dot |-> options_get_default(DOT, Empty) = TRUTH]
         /\ phase' = "preload" /\ code' = code
  BY DEF config_main, Exit
<1>5. CASE (at = "failed" \/ ~Has(FILES)) /\ phase' = "exit" /\ code' = 1 /\ settings' = settings
  <2>1. Typed'
    BY <1>1, <1>2, <1>3, <1>5 DEF Typed, Phases
  <2>2. ~Good
    BY <1>3, <1>5 DEF Good, Answerable, Has
  <2>3. \A f \in written' : f.suffix = ".dot"
    BY <1>1, <1>3
  <2>4. Outputs(written', 1, Asked'.output, Asked'.backend, Kept')
    BY <2>3, NothingWritten
  <2>5. ExitsExactly'
    BY <1>2, <1>5, <2>2, <2>4 DEF ExitsExactly
  <2> QED
    BY <1>5, <2>1, <2>5 DEF Inv, SettingsRead, Compiling, Analyzed, Compiled
<1>6. CASE /\ at = "done" /\ Has(FILES)
           /\ settings' = [inputs |-> Untagged(options_get_list(FILES)),
                           output |-> options_get_default(OUTPUT, GENERATED),
                           backend |-> options_get_default(BACKEND, C),
                           write_dot |-> options_get_default(DOT, Empty) = TRUTH]
           /\ phase' = "preload" /\ code' = code
  <2>1. PICK n \in Nat : DOMAIN options = 1 .. n
    <3>1. PICK K, E : options \in Seq([key : K, entries : Seq(E)])
      BY <1>3 DEF OptionsAre
    <3>2. PICK R : R = [key : K, entries : Seq(E)]
      OBVIOUS
    <3>3. options \in Seq(R)
      BY <3>1, <3>2
    <3> QED
      BY <3>3
  <2>2. settings' = FileSettings(options)
    BY <1>6, <2>1, OptionsRead
  <2>3. Asked = FileSettings(options) /\ Answerable
    BY <1>3, <1>6 DEF Asked, Answerable, Has
  <2>4. PICK V : settings'.inputs \in Seq(V)
    BY <1>3, <1>6, <2>2, FileInputsTyped
  <2>5. input' \in 0 .. Len(settings'.inputs)
    BY <1>1, <1>3, <2>4
  <2>6. Typed'
    BY <1>1, <1>2, <1>3, <1>6, <2>4, <2>5 DEF Typed, Phases
  <2>7. SettingsRead'
    BY <1>2, <1>6, <2>2, <2>3 DEF SettingsRead
  <2> QED
    BY <1>6, <2>6, <2>7 DEF Inv, Compiling, Analyzed, ExitsExactly, Compiled
<1> QED
  BY <1>4, <1>5, <1>6

-----------------------------------------------------------------------------
(* Every step of compiler_main *)

\* One program more: what parses of the next file, and whether it redefines.
LEMMA Registers ==
  ASSUME Typed, NEW V, Asked.inputs \in Seq(V), NEW m \in 0 .. Len(Asked.inputs) + 1,
         programs = [i \in 1 .. m |-> Kept[i]], UniqueIn(programs),
         m > 0 => CanRead(files, Asked.inputs, m - 1),
         NEW ds, m + 1 \in DOMAIN Kept, ds = Kept[m + 1]
  PROVE  /\ Append(programs, ds) = [i \in 1 .. m + 1 |-> Kept[i]]
         /\ UniqueIn(Append(programs, ds)) <=> ~Redefines(ds)
         /\ Redefines(ds) => ~Means(Kept)
<1>1. m \in Nat /\ Len(Asked.inputs) \in Nat
  OBVIOUS
<1> PICK kept : kept = Kept
  OBVIOUS
<1>2. DOMAIN Kept = 1 .. Len(Asked.inputs) + 1
  BY KeptAre
<1>3. 1 .. m + 1 \subseteq DOMAIN kept
  BY <1>1, <1>2
<1> PICK S : S = {kept[i] : i \in 1 .. m + 1}
  OBVIOUS
<1>4. PICK p : p = programs
  OBVIOUS
<1>5. p = [i \in 1 .. m |-> kept[i]] /\ ds = kept[m + 1]
  BY <1>4
<1>6. p \in Seq(S) /\ Len(p) = m /\ DOMAIN p = 1 .. m
  <2>1. p \in [1 .. m -> S]
    BY <1>1, <1>5
  <2> QED
    BY <1>1, <2>1
<1>7. PICK q : q = Append(p, ds)
  OBVIOUS
<1>8. ds \in S
  BY <1>1, <1>5
<1>9. DOMAIN q = 1 .. m + 1 /\ (\A i \in 1 .. m : q[i] = p[i]) /\ q[m + 1] = ds
  <2>1. q \in Seq(S) /\ Len(q) = m + 1
    BY ONLY <1>1, <1>6, <1>7, <1>8
  <2>2. \A i \in 1 .. m : q[i] = p[i]
    BY ONLY <1>1, <1>6, <1>7, <1>8
  <2>3. q[m + 1] = ds
    BY ONLY <1>1, <1>6, <1>7, <1>8
  <2> QED
    BY <2>1, <2>2, <2>3
<1>10. \A i \in 1 .. m + 1 : q[i] = kept[i]
  <2> TAKE i \in 1 .. m + 1
  <2>1. i \in 1 .. m \/ i = m + 1
    BY <1>1
  <2> QED
    BY <1>5, <1>9, <2>1
<1>11. q = [i \in 1 .. m + 1 |-> kept[i]]
  <2>1. q = [i \in 1 .. m + 1 |-> q[i]]
    <3>1. q \in Seq(S)
      BY ONLY <1>6, <1>7, <1>8
    <3> QED
      BY ONLY <1>9, <3>1
  <2> QED
    BY <1>10, <2>1
<1>12. UniqueIn(q) <=> ~Redefines(ds)
  <2>1. /\ m \in Nat /\ DOMAIN programs = 1 .. m /\ UniqueIn(programs)
        /\ DOMAIN q = 1 .. m + 1
        /\ (\A i \in 1 .. m : q[i] = programs[i]) /\ q[m + 1] = ds
    BY <1>1, <1>4, <1>6, <1>9
  <2> QED
    BY <2>1, RedefinesExact
<1>13. Redefines(ds) => ~Means(Kept)
  <2> SUFFICES ASSUME Means(kept) PROVE UniqueIn(q)
    BY <1>12
  <2>1. UniqueIn(kept)
    BY MeansParts
  <2>2. DOMAIN q \subseteq DOMAIN kept /\ \A i \in DOMAIN q : q[i] = kept[i]
    BY <1>3, <1>9, <1>10
  <2> QED
    BY <2>1, <2>2, UniquePart
<1> QED
  BY <1>4, <1>7, <1>11, <1>12, <1>13

\* The preload may redefine a name of its own.
LEMMA PreloadStep == Inv /\ compiler_load_preload => Inv'
<1> SUFFICES ASSUME Inv, compiler_load_preload PROVE Inv'
  OBVIOUS
<1>1. /\ phase = "preload"
      /\ programs' = Append(programs, Parsed(Preload))
      /\ UNCHANGED <<optionVars, files, blocked, arguments>>
      /\ UNCHANGED <<argument, settings, input, written>>
  BY DEF compiler_load_preload, Register
<1>2. /\ Reading' /\ FilesTyped(files') /\ arguments' \in Seq(Words)
      /\ at' = at /\ files' = files /\ arguments' = arguments
      /\ Asked' = Asked /\ Answerable' = Answerable /\ Kept' = Kept
      /\ ByFile' = ByFile /\ Good' = Good /\ Openable' = Openable
      /\ Certain' = Certain /\ Regarded' = Regarded
  BY <1>1, Stays DEF Inv
<1>3. /\ programs = <<>> /\ written = {} /\ input = 0
      /\ Answerable /\ settings = Asked
      /\ Typed
  BY <1>1 DEF Inv, Typed, SettingsRead
<1>4. PICK V : Asked.inputs \in Seq(V)
  BY <1>3, AskedInputs
<1>5. PICK kept : kept = Kept
  OBVIOUS
<1>6. /\ DOMAIN kept = 1 .. Len(Asked.inputs) + 1
      /\ kept[1] = Parsed(Preload)
  BY <1>4, <1>5, KeptAre
<1>7. programs = [i \in 1 .. 0 |-> kept[i]] /\ UniqueIn(programs)
  <2>1. programs = [i \in 1 .. 0 |-> kept[i]]
    BY <1>3
  <2>2. DOMAIN programs = {}
    BY <2>1
  <2> QED
    BY <2>1, <2>2 DEF UniqueIn
<1>8. PICK ds : ds = Parsed(Preload)
  OBVIOUS
<1>9. 0 \in 0 .. Len(Asked.inputs) + 1 /\ 0 + 1 \in DOMAIN kept /\ ds = kept[0 + 1] /\ ~(0 > 0)
  <2>1. Len(Asked.inputs) \in Nat
    BY <1>4
  <2> QED
    BY <1>6, <1>8, <2>1
<1>10. /\ Append(programs, ds) = [i \in 1 .. 0 + 1 |-> Kept[i]]
       /\ UniqueIn(Append(programs, ds)) <=> ~Redefines(ds)
       /\ Redefines(ds) => ~Means(Kept)
  BY <1>3, <1>4, <1>5, <1>7, <1>9, Registers
<1>11. \/ Redefines(ds) /\ phase' = "exit" /\ code' = 1
       \/ ~Redefines(ds) /\ phase' = "inputs" /\ code' = code
  BY <1>8 DEF compiler_load_preload, Exit
<1>12. Typed'
  <2>1. /\ phase' \in Phases /\ code' \in {0, 1}
        /\ phase' \notin {"main", "config", "arguments", "preload"}
    BY <1>3, <1>11 DEF Typed, Phases
  <2> QED
    BY <1>1, <1>2, <1>3, <2>1 DEF Typed
<1>13. SettingsRead'
  BY <1>1, <1>2, <1>3, <1>11 DEF SettingsRead
<1>14. Compiling'
  <2>1. CASE phase' = "inputs"
    <3>1. input' = 0 /\ 0 + 1 = 1 /\ ~Redefines(ds)
      BY <1>1, <1>3, <1>11, <2>1
    <3>2. programs' = [i \in 1 .. input' + 1 |-> Kept'[i]] /\ UniqueIn(programs')
      BY <1>1, <1>2, <1>8, <1>10, <3>1
    <3>3. CanRead(files', settings'.inputs, input')
      BY <3>1 DEF CanRead
    <3>4. (\A w \in written' : w.suffix = ".dot") /\ ~(input' > 0)
      BY <1>1, <1>3
    <3> QED
      BY <3>2, <3>3, <3>4 DEF Compiling
  <2> QED
    BY <1>11, <2>1 DEF Compiling, Compiled
<1>15. ExitsExactly'
  <2>1. CASE phase' = "exit"
    <3>1. ~Good /\ code' = 1
      BY <1>10, <1>11, <2>1 DEF Good
    <3>2. \A f \in written' : f.suffix = ".dot"
      BY <1>1, <1>3
    <3>3. Outputs(written', 1, Asked'.output, Asked'.backend, Kept')
      BY <3>2, NothingWritten
    <3> QED
      BY <1>2, <2>1, <3>1, <3>3 DEF ExitsExactly
  <2> QED
    BY <1>11, <2>1 DEF ExitsExactly
<1> QED
  BY <1>11, <1>12, <1>13, <1>14, <1>15 DEF Inv, Analyzed, Compiled

\* An input that is missing or redefines a name ends the compilation.
LEMMA InputStep == Inv /\ CompileInput => Inv'
<1> SUFFICES ASSUME Inv, CompileInput PROVE Inv'
  OBVIOUS
<1>1. /\ phase = "inputs" /\ input < Len(settings.inputs)
      /\ UNCHANGED <<optionVars, files, blocked, arguments>>
      /\ UNCHANGED <<argument, settings>>
  BY DEF CompileInput
<1>2. /\ Reading' /\ FilesTyped(files') /\ arguments' \in Seq(Words)
      /\ at' = at /\ files' = files /\ arguments' = arguments
      /\ Asked' = Asked /\ Answerable' = Answerable /\ Kept' = Kept
      /\ ByFile' = ByFile /\ Good' = Good /\ Openable' = Openable
      /\ Certain' = Certain /\ Regarded' = Regarded
  BY <1>1, Stays DEF Inv
<1>3. /\ Answerable /\ settings = Asked
      /\ programs = [i \in 1 .. input + 1 |-> Kept[i]]
      /\ UniqueIn(programs)
      /\ CanRead(files, settings.inputs, input)
      /\ \A w \in written : w.suffix = ".dot"
      /\ Typed
  BY <1>1 DEF Inv, SettingsRead, Compiling
<1>4. PICK V : Asked.inputs \in Seq(V)
  BY <1>3, AskedInputs
<1>5. PICK n \in Nat : n = Len(Asked.inputs)
  BY <1>4
<1>6. PICK m \in 1 .. n : m = input + 1
  BY <1>1, <1>3, <1>5 DEF Typed
<1>7. PICK kept : kept = Kept
  OBVIOUS
<1>8. /\ DOMAIN kept = 1 .. n + 1
      /\ kept[m + 1] = Parsed(Content(files, Asked.inputs[m]))
  BY <1>4, <1>5, <1>6, <1>7, KeptAre
<1>9. PICK found : found = Content(files, Asked.inputs[m])
  OBVIOUS
<1>10. read_file(settings.inputs[input + 1]) = found
  BY <1>3, <1>6, <1>9 DEF read_file, Content
<1>11. PICK ds : ds = Parsed(found)
  OBVIOUS
<1>20. Asked.inputs # <<>>
  <2>1. PICK is \in Seq(V) : is = Asked.inputs
    BY <1>4
  <2>2. Len(is) # 0
    BY <1>5, <1>6, <2>1
  <2> QED
    BY <2>1, <2>2
<1> DEFINE undrawn == settings.write_dot /\ <<DotFile, ".dot">> \in blocked
<1>21. CanDraw(settings, blocked) <=> ~undrawn
  BY <1>3, <1>20 DEF CanDraw
<1> HIDE DEF undrawn
<1>12. \/ /\ found = Missing \/ (found \notin Unparsed /\ undrawn)
          /\ phase' = "exit" /\ code' = 1
          /\ UNCHANGED <<input, programs, written>>
       \/ found = Fatal /\ phase' = "crashed" /\ UNCHANGED <<input, programs, written, code>>
       \/ /\ found \notin Unparsed /\ ~undrawn
          /\ programs' = Append(programs, ds)
          /\ \A w \in written' : w.suffix = ".dot"
          /\ \/ Redefines(ds) /\ phase' = "exit" /\ code' = 1 /\ input' = input
             \/ ~Redefines(ds) /\ input' = input + 1 /\ phase' = phase /\ code' = code
  BY <1>10, <1>11 DEF CompileInput, Register, Exit, Crash, undrawn
<1>13. /\ Append(programs, ds) = [i \in 1 .. m + 1 |-> Kept[i]]
       /\ UniqueIn(Append(programs, ds)) <=> ~Redefines(ds)
       /\ Redefines(ds) => ~Means(Kept)
  <2>1. m \in 0 .. Len(Asked.inputs) + 1 /\ m + 1 \in DOMAIN Kept /\ ds = Kept[m + 1]
    BY <1>5, <1>6, <1>7, <1>8, <1>9, <1>11
  <2>2. m - 1 = input
    BY <1>3, <1>6 DEF Typed
  <2>3. m > 0 => CanRead(files, Asked.inputs, m - 1)
    BY <1>3, <2>2
  <2>4. programs = [i \in 1 .. m |-> Kept[i]]
    BY <1>3, <1>6
  <2> QED
    BY <1>3, <1>4, <2>1, <2>3, <2>4, Registers
<1>14. input' \in 0 .. n /\ (input' = input \/ input' = m)
  <2>1. input \in 0 .. n
    BY <1>3, <1>5 DEF Typed
  <2> QED
    BY <1>6, <1>12, <2>1
<1>15. phase' \in {"inputs", "exit", "crashed"} /\ code' \in {0, 1}
  BY <1>1, <1>3, <1>12 DEF Typed
<1>16. Typed'
  <2>1. argument \in 0 .. Len(arguments) /\ \E W : settings.inputs \in Seq(W)
    BY <1>3 DEF Typed
  <2> QED
    BY <1>1, <1>2, <1>3, <1>5, <1>14, <1>15, <2>1 DEF Typed, Phases
<1>17. SettingsRead'
  BY <1>1, <1>2, <1>3, <1>15 DEF SettingsRead
<1>18. Compiling'
  <2>1. CASE phase' = "inputs"
    <3>1. /\ found \notin Unparsed /\ ~undrawn /\ programs' = Append(programs, ds)
          /\ (\A w \in written' : w.suffix = ".dot")
          /\ ~Redefines(ds) /\ input' = m
      BY <1>6, <1>12, <2>1
    <3>2. programs' = [i \in 1 .. input' + 1 |-> Kept'[i]] /\ UniqueIn(programs')
      BY <1>2, <1>13, <3>1
    <3>3. CanRead(files, Asked.inputs, m)
      <4> SUFFICES ASSUME NEW i \in 1 .. m
                   PROVE  Content(files, Asked.inputs[i]) \notin Unparsed
        BY DEF CanRead
      <4>1. i = m \/ i \in 1 .. input
        BY <1>3, <1>6 DEF Typed
      <4> QED
        BY <1>3, <1>9, <3>1, <4>1 DEF CanRead
    <3>4. CanRead(files', settings'.inputs, input')
      BY <1>1, <1>2, <1>3, <3>1, <3>3
    <3>5. CanDraw(settings', blocked')
      BY <1>1, <1>21, <3>1
    <3> QED
      BY <3>1, <3>2, <3>4, <3>5 DEF Compiling
  <2> QED
    BY <1>15, <2>1 DEF Compiling, Compiled
<1>22. found \in Unparsed => ~Good
  <2> SUFFICES ASSUME found \in Unparsed PROVE ~Good
    OBVIOUS
  <2>1. ~CanRead(files, Asked.inputs, Len(Asked.inputs))
    BY <1>5, <1>6, <1>9 DEF CanRead
  <2> QED
    BY <2>1 DEF Good
<1>19. ExitsExactly'
  <2>1. CASE phase' = "exit"
    <3>1. code' = 1 /\ \A f \in written' : f.suffix = ".dot"
      BY <1>1, <1>3, <1>12, <2>1
    <3>2. ~Good
      <4>1. CASE found = Missing
        BY <1>22, <4>1 DEF Unparsed
      <4>2. CASE undrawn
        BY <1>3, <1>21, <4>2 DEF Good
      <4>3. CASE Redefines(ds)
        BY <1>13, <4>3 DEF Good
      <4> QED
        BY <1>1, <1>12, <2>1, <4>1, <4>2, <4>3
    <3>3. Outputs(written', 1, Asked'.output, Asked'.backend, Kept')
      BY <3>1, NothingWritten
    <3> QED
      BY <1>2, <2>1, <3>1, <3>2, <3>3 DEF ExitsExactly
  <2>2. CASE phase' = "crashed"
    <3>1. found \in Unparsed
      BY <1>1, <1>12, <2>2 DEF Unparsed
    <3> QED
      BY <1>2, <1>22, <2>2, <3>1 DEF ExitsExactly, Certain
  <2> QED
    BY <2>1, <2>2 DEF ExitsExactly
<1> QED
  BY <1>15, <1>16, <1>17, <1>18, <1>19 DEF Inv, Analyzed, Compiled

\* Once all inputs are registered the programs are what was asked for.
LEMMA AllRegistered ==
  ASSUME Typed, Answerable, settings = Asked, input = Len(settings.inputs),
         programs = [i \in 1 .. input + 1 |-> Kept[i]], CanRead(files, settings.inputs, input)
  PROVE  /\ programs = Kept
         /\ IsFiniteSet(DeclarationsOf(programs))
         /\ Preload \in Seq(Declarations) /\ programs[1] = Parsed(Preload) /\ 1 \in DOMAIN programs
<1>1. PICK V : Asked.inputs \in Seq(V)
  BY AskedInputs
<1>2. PICK n \in Nat : n = Len(Asked.inputs) /\ n = input
  BY <1>1
<1>3. PICK kept : kept = Kept
  OBVIOUS
<1>4. /\ DOMAIN kept = 1 .. n + 1
      /\ kept = [i \in 1 .. n + 1 |-> kept[i]]
      /\ kept[1] = Parsed(Preload)
  BY <1>1, <1>2, <1>3, KeptAre
<1>5. programs = kept
  BY <1>2, <1>3, <1>4
<1>6. \A i \in 1 .. n + 1 : kept[i] \in Seq(Declarations)
  <2>1. FilesTyped(files) /\ n \in 0 .. Len(Asked.inputs) /\ CanRead(files, Asked.inputs, n)
    BY <1>2 DEF Typed
  <2> QED
    BY <1>1, <1>3, <2>1, KeptTyped
<1>7. IsFiniteSet(DeclarationsOf(kept))
  <2>1. n + 1 \in Nat
    OBVIOUS
  <2> QED
    BY <1>4, <1>6, <2>1, DeclaredFinite
<1>8. 1 \in 1 .. n + 1
  OBVIOUS
<1> QED
  BY <1>3, <1>4, <1>5, <1>7, <1>8, PreloadAssumption DEF Contents

\* The preload uses Main, which a program without a fault declares.
LEMMA MainDeclared ==
  ASSUME NEW ps, 1 \in DOMAIN ps, ps[1] = Parsed(Preload), Meaningful(DeclarationsOf(ps))
  PROVE  Main \in Named(DeclarationsOf(ps))
<1>1. PICK i \in DOMAIN Preload :
        IsRoot(Preload[i]) /\ Preload[i].outcome # "dropped" /\ Main \in Preload[i].uses
  BY PreloadAssumption
<1>2. PICK d : d = Preload[i]
  OBVIOUS
<1>3. d \in ToSet(Parsed(Preload))
  BY <1>1, <1>2, PreloadAssumption, ParsedTyped DEF Contents
<1>4. d \in DeclarationsOf(ps)
  BY <1>3 DEF DeclarationsOf
<1>5. <<"all", d>> \in RootsOf(DeclarationsOf(ps))
  BY <1>1, <1>2, <1>4 DEF RootsOf
<1>6. ~Faulty(<<"all", d>>, Named(DeclarationsOf(ps)))
  BY <1>5 DEF Meaningful, FaultlessIn
<1>7. d.uses \subseteq Named(DeclarationsOf(ps))
  <2>1. <<"all", d>>[1] = "all" /\ <<"all", d>>[2] = d
    OBVIOUS
  <2> QED
    BY <1>6, <2>1 DEF Faulty, LooksInto
<1> QED
  BY <1>1, <1>2, <1>7

\* The analysis decides whether the program has a meaning.
LEMMA AnalyzeStep == Inv /\ sema_analyze => Inv'
<1> SUFFICES ASSUME Inv, sema_analyze PROVE Inv'
  OBVIOUS
<1>1. /\ phase = "inputs" /\ input = Len(settings.inputs)
      /\ UNCHANGED <<optionVars, files, blocked, arguments>>
      /\ UNCHANGED <<argument, settings, input, programs, written>>
  BY DEF sema_analyze
<1>2. /\ Reading' /\ FilesTyped(files') /\ arguments' \in Seq(Words)
      /\ at' = at /\ files' = files /\ arguments' = arguments
      /\ Asked' = Asked /\ Answerable' = Answerable /\ Kept' = Kept
      /\ ByFile' = ByFile /\ Good' = Good /\ Openable' = Openable
      /\ Certain' = Certain /\ Regarded' = Regarded
  BY <1>1, Stays DEF Inv
<1>3. /\ Answerable /\ settings = Asked
      /\ programs = [i \in 1 .. input + 1 |-> Kept[i]]
      /\ UniqueIn(programs)
      /\ CanRead(files, settings.inputs, input)
      /\ input > 0 => CanDraw(settings, blocked)
      /\ \A w \in written : w.suffix = ".dot"
      /\ Typed
  BY <1>1 DEF Inv, SettingsRead, Compiling
<1>4. /\ programs = Kept
      /\ IsFiniteSet(DeclarationsOf(programs))
      /\ Preload \in Seq(Declarations) /\ programs[1] = Parsed(Preload) /\ 1 \in DOMAIN programs
  BY <1>1, <1>3, AllRegistered
<1>5. Faults = {} <=> Meaningful(DeclarationsOf(programs))
  BY <1>4, RegisteredAre, FaultsExact
<1>6. \/ Faults # {} /\ phase' = "exit" /\ code' = 1
      \/ Faults # {} /\ phase' = "crashed" /\ code' = code
      \/ Faults = {} /\ phase' = "analyzed" /\ code' = code
  BY DEF sema_analyze, Exit, Crash
<1>7. Typed'
  BY <1>1, <1>2, <1>3, <1>6 DEF Typed, Phases, Compiled
<1>8. SettingsRead'
  BY <1>1, <1>2, <1>3, <1>6 DEF SettingsRead
<1>9. Compiling'
  <2>1. programs' = [i \in 1 .. input' + 1 |-> Kept'[i]] /\ UniqueIn(programs')
    BY <1>1, <1>2, <1>3
  <2>2. /\ CanRead(files', settings'.inputs, input') /\ \A w \in written' : w.suffix = ".dot"
        /\ input' > 0 => CanDraw(settings', blocked')
    BY <1>1, <1>2, <1>3
  <2> QED
    BY <2>1, <2>2 DEF Compiling
<1>10. Analyzed'
  <2>1. CASE Faults = {}
    <3>1. Meaningful(DeclarationsOf(programs))
      BY <1>5, <2>1
    <3>2. PICK ps : ps = programs
      OBVIOUS
    <3>3. Main \in Named(DeclarationsOf(ps))
      BY <1>4, <3>1, <3>2, MainDeclared
    <3> QED
      BY <1>1, <3>1, <3>2, <3>3 DEF Analyzed
  <2> QED
    BY <1>6, <2>1 DEF Analyzed, Compiled
<1>11. ExitsExactly'
  <2>1. Faults # {} => ~Good
    <3> SUFFICES ASSUME Faults # {} PROVE ~Good
      OBVIOUS
    <3>1. PICK ps : ps = programs
      OBVIOUS
    <3>2. ~Means(ps)
      BY <1>5, <3>1, MeansParts
    <3> QED
      BY <1>4, <3>1, <3>2 DEF Good
  <2>2. Outputs(written', 1, Asked'.output, Asked'.backend, Kept')
    BY <1>1, <1>3, NothingWritten
  <2>3. CASE phase' = "exit"
    BY <1>2, <1>6, <2>1, <2>2, <2>3 DEF ExitsExactly
  <2>4. CASE phase' = "crashed"
    BY <1>2, <1>6, <2>1, <2>4 DEF ExitsExactly, Certain
  <2> QED
    BY <1>6, <2>3, <2>4 DEF ExitsExactly
<1> QED
  BY <1>7, <1>8, <1>9, <1>10, <1>11 DEF Inv

\* Main has been found: its complaint is never reached.
LEMMA FindMainStep == Inv /\ FindMain => Inv'
<1> SUFFICES ASSUME Inv, FindMain PROVE Inv'
  OBVIOUS
<1>1. /\ phase = "analyzed"
      /\ UNCHANGED <<optionVars, files, blocked, arguments>>
      /\ UNCHANGED <<argument, settings, input, programs, written>>
  BY DEF FindMain
<1>2. /\ Reading' /\ FilesTyped(files') /\ arguments' \in Seq(Words)
      /\ at' = at /\ files' = files /\ arguments' = arguments
      /\ Asked' = Asked /\ Answerable' = Answerable /\ Kept' = Kept
      /\ ByFile' = ByFile /\ Good' = Good /\ Openable' = Openable
      /\ Certain' = Certain /\ Regarded' = Regarded
  BY <1>1, Stays DEF Inv
<1>3. phase' = "build" /\ code' = code
  <2>1. Main \in Registered
    BY <1>1, RegisteredAre DEF Inv, Analyzed, Compiled
  <2> QED
    BY <2>1 DEF FindMain
<1>4. Typed'
  BY <1>1, <1>2, <1>3 DEF Inv, Typed, Phases, Compiled
<1>5. SettingsRead'
  BY <1>1, <1>2, <1>3 DEF Inv, SettingsRead, Compiled
<1>6. Compiling'
  <2>1. /\ programs = [i \in 1 .. input + 1 |-> Kept[i]] /\ UniqueIn(programs)
        /\ CanRead(files, settings.inputs, input) /\ \A w \in written : w.suffix = ".dot"
        /\ input > 0 => CanDraw(settings, blocked)
    BY <1>1 DEF Inv, Compiling, Compiled
  <2>2. programs' = [i \in 1 .. input' + 1 |-> Kept'[i]] /\ UniqueIn(programs')
    BY <1>1, <1>2, <2>1
  <2>3. /\ CanRead(files', settings'.inputs, input') /\ \A w \in written' : w.suffix = ".dot"
        /\ input' > 0 => CanDraw(settings', blocked')
    BY <1>1, <1>2, <2>1
  <2> QED
    BY <2>2, <2>3 DEF Compiling
<1>7. Analyzed'
  BY <1>1, <1>3 DEF Inv, Analyzed, Compiled
<1> QED
  BY <1>3, <1>4, <1>5, <1>6, <1>7 DEF Inv, ExitsExactly

\* What cannot be built may end in a crash.
LEMMA BuildStep == Inv /\ build_bytecode => Inv'
<1> SUFFICES ASSUME Inv, build_bytecode PROVE Inv'
  OBVIOUS
<1>1. /\ phase = "build"
      /\ UNCHANGED <<optionVars, files, blocked, arguments>>
      /\ UNCHANGED <<argument, settings, input, programs, written>>
  BY DEF build_bytecode
<1>2. /\ Reading' /\ FilesTyped(files') /\ arguments' \in Seq(Words)
      /\ at' = at /\ files' = files /\ arguments' = arguments
      /\ Asked' = Asked /\ Answerable' = Answerable /\ Kept' = Kept
      /\ ByFile' = ByFile /\ Good' = Good /\ Openable' = Openable
      /\ Certain' = Certain /\ Regarded' = Regarded
  BY <1>1, Stays DEF Inv
<1>3. \/ phase' = "generate" /\ code' = code
      \/ Unbuildable(Declared) /\ phase' = "crashed" /\ code' = code
  BY DEF build_bytecode, Crash
<1>4. Typed'
  BY <1>1, <1>2, <1>3 DEF Inv, Typed, Phases, Compiled
<1>5. SettingsRead'
  BY <1>1, <1>2, <1>3 DEF Inv, SettingsRead, Compiled
<1>6. Compiling'
  <2>1. /\ programs = [i \in 1 .. input + 1 |-> Kept[i]] /\ UniqueIn(programs)
        /\ CanRead(files, settings.inputs, input) /\ \A w \in written : w.suffix = ".dot"
        /\ input > 0 => CanDraw(settings, blocked)
    BY <1>1 DEF Inv, Compiling, Compiled
  <2>2. programs' = [i \in 1 .. input' + 1 |-> Kept'[i]] /\ UniqueIn(programs')
    BY <1>1, <1>2, <2>1
  <2>3. /\ CanRead(files', settings'.inputs, input') /\ \A w \in written' : w.suffix = ".dot"
        /\ input' > 0 => CanDraw(settings', blocked')
    BY <1>1, <1>2, <2>1
  <2> QED
    BY <2>2, <2>3 DEF Compiling
<1>7. Analyzed'
  BY <1>1, <1>3 DEF Inv, Analyzed, Compiled
<1>8. ExitsExactly'
  <2>1. CASE phase' = "crashed"
    <3>1. /\ Answerable /\ settings = Asked
          /\ programs = [i \in 1 .. input + 1 |-> Kept[i]]
          /\ CanRead(files, settings.inputs, input)
          /\ input = Len(settings.inputs)
          /\ Typed
      BY <1>1 DEF Inv, SettingsRead, Compiling, Analyzed, Compiled
    <3>2. programs = Kept
      BY <3>1, AllRegistered
    <3>3. Unbuildable(DeclarationsOf(programs))
      BY <1>3, <2>1, RegisteredAre
    <3>4. Unbuildable(DeclarationsOf(Kept))
      <4>1. PICK ps : ps = programs
        OBVIOUS
      <4> QED
        BY <3>2, <3>3, <4>1
    <3> QED
      BY <1>2, <2>1, <3>4 DEF ExitsExactly, Certain
  <2> QED
    BY <1>3, <2>1 DEF ExitsExactly
<1> QED
  BY <1>4, <1>5, <1>6, <1>7, <1>8 DEF Inv

\* The back end decides the rest.
LEMMA GenerateStep == Inv /\ Generate => Inv'
<1> SUFFICES ASSUME Inv, Generate PROVE Inv'
  OBVIOUS
<1>1. /\ phase = "generate"
      /\ UNCHANGED <<optionVars, files, blocked, arguments>>
      /\ UNCHANGED <<argument, settings, input, programs>>
  BY DEF Generate
<1>2. /\ Reading' /\ FilesTyped(files') /\ arguments' \in Seq(Words)
      /\ at' = at /\ files' = files /\ arguments' = arguments
      /\ Asked' = Asked /\ Answerable' = Answerable /\ Kept' = Kept
      /\ ByFile' = ByFile /\ Good' = Good /\ Openable' = Openable
      /\ Certain' = Certain /\ Regarded' = Regarded
  BY <1>1, Stays DEF Inv
<1>3. /\ Answerable /\ settings = Asked
      /\ programs = [i \in 1 .. input + 1 |-> Kept[i]]
      /\ UniqueIn(programs)
      /\ CanRead(files, settings.inputs, input)
      /\ \A w \in written : w.suffix = ".dot"
      /\ input = Len(settings.inputs)
      /\ Meaningful(DeclarationsOf(programs))
      /\ input > 0 => CanDraw(settings, blocked)
      /\ Typed
  BY <1>1 DEF Inv, SettingsRead, Compiling, Analyzed, Compiled
<1>4. programs = Kept
  BY <1>3, AllRegistered
<1>5. Means(Kept)
  <2>1. PICK ps : ps = programs
    OBVIOUS
  <2>2. Means(ps)
    BY <1>3, <2>1, MeansParts
  <2> QED
    BY <1>4, <2>1, <2>2
<1>12. CanDraw(settings, blocked)
  <2>1. PICK V : settings.inputs \in Seq(V)
    BY <1>3 DEF Typed
  <2>2. PICK is \in Seq(V) : is = settings.inputs
    BY <2>1
  <2>3. Len(is) = 0 => is = <<>>
    OBVIOUS
  <2>4. Len(is) \in Nat
    OBVIOUS
  <2> QED
    BY <1>3, <2>2, <2>3, <2>4 DEF CanDraw
<1>6. Good <=> settings.backend \in Backends
  BY <1>3, <1>5, <1>12 DEF Good
<1>7. PICK o : o = File(settings.output, ".c", programs)
  OBVIOUS
<1>13. PICK e : e = File(settings.output, ".bin", <<>>)
  OBVIOUS
<1>14. Openable <=> /\ settings.backend = C => ~Blocked(o)
                    /\ settings.backend \in {ARM64, AMD64} => ~Blocked(e)
  BY <1>3, <1>7, <1>13 DEF Openable, Blocked, File
<1>8. \/ settings.backend = C /\ Emit(o)
      \/ settings.backend \in {ARM64, AMD64} /\ Emit(e)
      \/ settings.backend = LLVM /\ (Exit(0) \/ Crash)
      \/ settings.backend \notin Backends /\ Exit(1) /\ written' = written
  BY <1>7, <1>13 DEF Generate, EmitLLVM, Backends
<1>15. phase' \in {"exit", "crashed"} /\ code' \in {0, 1}
  BY <1>3, <1>8 DEF Emit, Exit, Crash, Typed
<1>9. Typed'
  BY <1>1, <1>2, <1>3, <1>15 DEF Typed, Phases
<1>10. SettingsRead' /\ Compiling' /\ Analyzed'
  BY <1>15 DEF SettingsRead, Compiling, Analyzed, Compiled
<1>16. {ARM64, AMD64, LLVM} \subseteq Backends /\ C \in Backends /\ C \notin {ARM64, AMD64, LLVM}
  BY WordsAssumption DEF Backends
<1>11. ExitsExactly'
  <2>1. CASE settings.backend = C /\ ~Blocked(o) /\ written' = written \cup {o} /\ Exit(0)
    <3>1. o.name = settings.output /\ o.suffix = ".c" /\ o.of = programs
      BY <1>7 DEF File
    <3>2. {f \in written' : f.suffix # ".dot"} = {o}
      BY <1>3, <2>1, <3>1
    <3>3. {<<f.name, f.of>> : f \in {o}} = {<<settings.output, programs>>}
      BY <3>1
    <3>4. Outputs(written', 0, settings.output, C, programs)
      BY <3>2, <3>3 DEF Outputs
    <3>5. Good /\ Openable
      BY <1>6, <1>14, <1>16, <2>1
    <3> QED
      BY <1>2, <1>3, <1>4, <2>1, <3>4, <3>5 DEF ExitsExactly, Exit
  <2>2. CASE settings.backend = C /\ Blocked(o) /\ Crash
    <3>1. ~Openable
      BY <1>14, <2>2
    <3> QED
      BY <1>2, <2>2, <3>1 DEF ExitsExactly, Certain, Crash
  <2>3. CASE settings.backend \in {ARM64, AMD64} /\ ~Blocked(e) /\ Exit(0)
    <3>1. Outputs(written', 0, settings.output, settings.backend, programs)
      BY <1>16, <2>3 DEF Outputs
    <3>2. Good /\ Openable
      BY <1>6, <1>14, <1>16, <2>3
    <3> QED
      BY <1>2, <1>3, <1>4, <2>3, <3>1, <3>2 DEF ExitsExactly, Exit
  <2>4. CASE settings.backend \in {ARM64, AMD64} /\ Blocked(e) /\ Crash
    <3>1. ~Openable
      BY <1>14, <2>4
    <3> QED
      BY <1>2, <2>4, <3>1 DEF ExitsExactly, Certain, Crash
  <2>5. CASE settings.backend = LLVM /\ settings.backend \notin {ARM64, AMD64} /\ Exit(0)
    <3>1. Outputs(written', 0, settings.output, settings.backend, programs)
      BY <1>16, <2>5 DEF Outputs
    <3>2. Good /\ Openable
      BY <1>6, <1>14, <1>16, <2>5
    <3> QED
      BY <1>2, <1>3, <1>4, <2>5, <3>1, <3>2 DEF ExitsExactly, Exit
  <2>6. CASE settings.backend = LLVM /\ Crash
    BY <1>2, <1>3, <2>6 DEF ExitsExactly, Certain, Crash
  <2>7. CASE settings.backend \notin Backends /\ Exit(1) /\ written' = written
    <3>1. Outputs(written', 1, settings.output, settings.backend, programs)
      BY <1>3, <2>7, NothingWritten
    <3> QED
      BY <1>2, <1>3, <1>4, <1>6, <2>7, <3>1 DEF ExitsExactly, Exit
  <2>8. settings.backend = LLVM => settings.backend \notin {ARM64, AMD64}
    BY WordsAssumption
  <2> QED
    BY <1>8, <2>1, <2>2, <2>3, <2>4, <2>5, <2>6, <2>7, <2>8 DEF Emit
<1> QED
  BY <1>9, <1>10, <1>11 DEF Inv

-----------------------------------------------------------------------------
(* The theorems *)

\* A stuttering step changes nothing that the invariant is about.
LEMMA StutterStep == Inv /\ UNCHANGED vars => Inv'
<1> SUFFICES ASSUME Inv, UNCHANGED vars PROVE Inv'
  OBVIOUS
<1>1. /\ UNCHANGED <<optionVars, files, blocked, arguments>>
      /\ UNCHANGED <<phase, argument, settings, input, programs, written, code>>
  BY DEF vars, driverVars
<1>2. /\ Reading' /\ FilesTyped(files') /\ arguments' \in Seq(Words)
      /\ at' = at /\ files' = files /\ arguments' = arguments
      /\ Asked' = Asked /\ Answerable' = Answerable /\ Kept' = Kept
      /\ ByFile' = ByFile /\ Good' = Good /\ Openable' = Openable
      /\ Certain' = Certain /\ Regarded' = Regarded
  BY <1>1, Stays DEF Inv
<1>3. Typed'
  BY <1>1, <1>2 DEF Inv, Typed
<1>4. SettingsRead'
  BY <1>1, <1>2 DEF Inv, SettingsRead
<1>5. Compiling' /\ Analyzed'
  BY <1>1, <1>2 DEF Inv, Compiling, Analyzed
<1>6. ExitsExactly'
  BY <1>1, <1>2 DEF Inv, ExitsExactly
<1> QED
  BY <1>3, <1>4, <1>5, <1>6 DEF Inv

\* The invariant is inductive: one case per action.
LEMMA StepInv == Inv /\ [Next]_vars => Inv'
<1> SUFFICES ASSUME Inv, [Next]_vars PROVE Inv'
  OBVIOUS
<1>1. CASE Next
  BY <1>1, MainStep, ParseArgumentStep, StandaloneStep, ReadOptionsStep, ConfigStep,
     PreloadStep, InputStep, AnalyzeStep, FindMainStep, BuildStep, GenerateStep DEF Next
<1>2. CASE UNCHANGED vars
  BY <1>2, StutterStep
<1> QED
  BY <1>1, <1>2

\* The invariant holds in every state that the program reaches.
LEMMA InvHolds == Spec => []Inv
<1> QED
  BY InitInv, StepInv, PTL DEF Spec

\* Whatever the command line, the files and the text of the option file: the
\* driver counts its arguments and inputs inside their bounds and writes nothing
\* before it compiles, and the reader of the option file stays inside its text and
\* adds an entry only to an option that there is (main.c, options.c).
THEOREM TypeCorrect == Spec => []TypeOK
<1>1. Inv => TypeOK
  <2> SUFFICES ASSUME Inv PROVE TypeOK
    OBVIOUS
  <2>1. OptionsTypeOK
    BY ReadingTyped DEF Inv, Typed
  <2> QED
    BY <2>1 DEF Inv, Typed, TypeOK, Phases, Compiled
<1> QED
  BY <1>1, InvHolds, PTL

\* What is asked for in settings that can be read (of the command line as the words mean
\* by their places, of the option file by the first option of each key), with inputs
\* that can be read, no declaration twice, no fault in what the variables and functions
\* need, a back end that is known and an output that can be opened, is done, with exit
\* code 0; the code is 0 only for such settings and 1 only for other ones, and what is
\* written for the C back end is what was asked for, under the name that was (main,
\* standalone_main, config_main, compiler_main).  It says nothing of the command lines
\* that end in -d, and of endless inputs no more than that they do not exit.
THEOREM ExitIsExact == Spec => []ExitExact
<1>1. Inv => ExitExact
  BY ExitIs DEF Inv
<1> QED
  BY <1>1, InvHolds, PTL

\* By the time that the driver looks for the main function, and that the lowering calls
\* it, it is registered: the analysis finds fault with a preload that uses a name that
\* is not there, so that the complaint of compiler_main is never made (main.c,
\* preload.aa).
THEOREM MainIsFound == Spec => []MainFound
<1>1. Inv => MainFound
  BY RegisteredAre DEF Inv, Analyzed, MainFound, Compiled
<1> QED
  BY <1>1, InvHolds, PTL

\* Each token that options_parse asks for moves the cursor on or ends the parse:
\* its loops, the one that passes over tokens in silence included, go round at
\* most once per character, and nothing else of the driver touches the cursor.
THEOREM EveryTokenCounts ==
  Spec => [][lexer.index < lexer.index' \/ at' \in {"done", "failed"}]_optionVars
<1>1. Inv /\ [Next]_vars =>
        [lexer.index < lexer.index' \/ at' \in {"done", "failed"}]_optionVars
  <2> SUFFICES ASSUME Inv, [Next]_vars, ~UNCHANGED optionVars
               PROVE  lexer.index < lexer.index' \/ at' \in {"done", "failed"}
    OBVIOUS
  <2>1. options_parse
    BY DEF vars, Next, main, ParseArgument, standalone_main, ReadOptions, config_main,
           compiler_load_preload, CompileInput, sema_analyze, FindMain, build_bytecode, Generate
  <2>2. Reading
    BY DEF Inv, Typed
  <2>3. Step(opt_lexer_next)
    BY <2>1, <2>2, EveryStep
  <2> QED
    BY <2>2, <2>3, TokenInside DEF Reading, Step
<1> QED
  BY <1>1, InvHolds, PTL DEF Spec
=============================================================================
