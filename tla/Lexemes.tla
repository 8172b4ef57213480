------------------------------ MODULE Lexemes -------------------------------
(***************************************************************************)
(* What the tokens of a text are, said of the text and not of how it is    *)
(* read: what a piece of text has to look like to be of a kind, and that   *)
(* the longest piece counts.                                               *)
(***************************************************************************)
EXTENDS Lexer

IsWord(t) == t[1] \in Letters /\ \A i \in DOMAIN t : t[i] \in Letters \cup Digits

IsNumber(t) ==
  /\ t[1] \in Digits
  /\ \A i \in DOMAIN t : t[i] \in Digits \cup {"."}
  /\ Cardinality(Dots(t)) <= 1

IsOperator(t) ==
  \/ Len(t) = 1 /\ t[1] \in MaybeEqual \cup MaybeDouble \cup Single \cup {".", "/"}
  \/ Len(t) = 2 /\ t[2] = "=" /\ t[1] \in MaybeEqual \cup MaybeDouble \cup {"/"}
  \/ Len(t) = 2 /\ t[2] = t[1] /\ t[1] \in MaybeDouble \cup {"."}
  \/ Len(t) = 3 /\ t[2] = t[1] /\ t[1] \in MaybeDouble /\ t[3] = "="

\* A quote like the one at s, behind an even number of backslashes.
Backslashes(s, i) == {j \in s + 1 .. i - 1 : \A k \in j .. i - 1 : Char(k) = "\\"}
Closes(s, i) == Char(i) = Char(s) /\ Cardinality(Backslashes(s, i)) % 2 = 0

IsString(s, e) ==
  /\ e >= s + 2 /\ Char(s) \in Quotes
  /\ Closes(s, e - 1) /\ \A i \in s + 1 .. e - 2 : ~Closes(s, i)

Pair(i) == <<Char(i), Char(i + 1)>>
Opening == <<"/", "*">>
Closing == <<"*", "/">>

\* Where the inside of a comment may end that begins at each place: it is made of
\* characters that begin no mark, and of comments.
Insides ==
  LET ends[s \in 1 .. Len(source) + 1] ==
        {s}
        \cup (IF Pair(s) \in {Opening, Closing} \/ Char(s) = "NUL" THEN {} ELSE ends[s + 1])
        \cup (IF Pair(s) # Opening THEN {}
              ELSE UNION {ends[m + 2] : m \in {n \in s + 2 .. Len(source) - 1 :
                                                n \in ends[s + 2] /\ Pair(n) = Closing}})
  IN  ends

IsComment(s, e) ==
  e >= s + 4 /\ Pair(s) = Opening /\ Pair(e - 2) = Closing /\ e - 2 \in Insides[s + 2]

IsLine(t) ==
  /\ Len(t) >= 2 /\ t[1] = "/" /\ t[2] = "/"
  /\ \A i \in DOMAIN t : t[i] \notin {"LF", "CR", "NUL"}

\* A comment that is not closed goes on to the end.
IsOpenComment(s, e) ==
  /\ Pair(s) = Opening /\ Char(e) = "NUL"
  /\ \A i \in s .. e - 1 : Char(i) # "NUL"
  /\ ~\E m \in s .. e : IsComment(s, m)

\* A dot in front of a dot belongs to it.
KindsOf(s, e) ==
  LET t == Text(s, e)
  IN  (IF IsWord(t) THEN {IF t \in Keywords THEN "keyword" ELSE "identifier"} ELSE {})
      \cup (IF IsNumber(t) /\ ~(Char(e) = "." /\ t[Len(t)] = ".") THEN {"number"} ELSE {})
      \cup (IF IsOperator(t) THEN {"operator"} ELSE {})
      \cup (IF IsString(s, e) THEN {IF t[1] = "quote" THEN "string" ELSE "char"} ELSE {})
      \cup (IF IsLine(t) \/ IsComment(s, e) \/ IsOpenComment(s, e) THEN {"comment"} ELSE {})

LexemesAt(s) == {e \in s + 1 .. Len(source) + 1 : KindsOf(s, e) # {}}
Longest(s) == CHOOSE e \in LexemesAt(s) : \A other \in LexemesAt(s) : other <= e

Lexeme(kind, s) == [kind |-> kind, from |-> s]

\* The lexemes from each place of the text on, comments left out.
LexemesFrom ==
  LET from[i \in 1 .. Len(source) + 1] ==
        LET s == Past(i, Spaces)
            e == Longest(s)
            kind == CHOOSE k \in KindsOf(s, e) : TRUE
        IN  IF Char(s) = "NUL" THEN <<Lexeme("EOF", s)>>
            ELSE IF Char(s) \in Quotes /\ LexemesAt(s) = {} THEN <<Lexeme("open string", s)>>
            ELSE IF LexemesAt(s) = {} THEN <<Lexeme("none", s)>> \o from[s + 1]
            ELSE IF kind = "comment" THEN from[e]
            ELSE <<Lexeme(kind, s)>> \o from[e]
  IN  from

\* What the parser gets to see: the tokens up to the first EOF, if there is one.
EOFs == {k \in DOMAIN tokens : tokens[k].kind = "EOF"}
Read ==
  LET seen == {k \in DOMAIN tokens : \A j \in EOFs : k <= j}
      here == [k \in 1 .. Cardinality(seen) |-> Lexeme(tokens[k].kind, tokens[k].from)]
  IN  IF EOFs = {} THEN Append(here, Lexeme("open string", Start)) ELSE here

\* lexer_tokenize splits a text into its longest lexemes and gets stuck in a
\* string that is not closed, and nowhere else.  Only a number with digits
\* between two dots has these digits read again.
TokensExact ==
  phase # "lexing" =>
    \/ Read = LexemesFrom[1]
    \/ \E k \in DOMAIN tokens : Backward(k) /\ tokens[k].value[Len(tokens[k].value)] # "."
=============================================================================
