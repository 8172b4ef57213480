----------------------------- MODULE OptionFile ------------------------------
(***************************************************************************)
(* What an option file means, said of its text alone: the lexemes it is    *)
(* made of, the sequences of words that are a file, and what each writes.  *)
(* The two oddities of the code are part of the language: a comment right  *)
(* behind a comment is an error, and between = and a value any word, mark  *)
(* or key is passed over.                                                  *)
(***************************************************************************)
EXTENDS Options
LOCAL INSTANCE SequencesExt

-----------------------------------------------------------------------------
(* Words *)

Inner(s) == SubSeq(s, 2, Len(s) - 1)
IsBlank(s) == \A i \in DOMAIN s : s[i] \in Spaces
IsComment(s) == s[1] = "#" /\ \A i \in DOMAIN s : s[i] # "eol"
IsString(s) ==
  /\ Len(s) > 1 /\ s[1] = "quote" /\ Last(s) = "quote"
  /\ \A i \in 2 .. Len(s) - 1 : s[i] # "quote"
IsWord(s) == s[1] \in Letters /\ \A i \in DOMAIN s : s[i] \in Letters \cup Digits
IsMark(s) == Len(s) = 1 /\ s[1] \in Marks

Lengths(t) ==
  {n \in 1 .. Len(t) : LET s == SubSeq(t, 1, n)
                       IN  \/ IsBlank(s) \/ IsComment(s) \/ IsString(s)
                           \/ IsWord(s) \/ IsMark(s)}

\* The text cut where the longest lexeme ends, up to what is none.
RECURSIVE Lexemes(_)
Lexemes(t) ==
  LET lengths == Lengths(t)
      n == Max(lengths)
  IN  IF t = <<>> THEN <<>>
      ELSE IF lengths = {} THEN <<t>>
      ELSE <<SubSeq(t, 1, n)>> \o Lexemes(SubSeq(t, n + 1, Len(t)))

Written(s) == SelectSeq(s, LAMBDA x : ~IsBlank(x))

Kind(s) ==
  IF IsString(s) THEN "string" ELSE IF IsWord(s) THEN "identifier"
  ELSE IF IsMark(s) THEN s[1] ELSE "error"
Word(s) == [kind |-> Kind(s), value |-> IF IsString(s) THEN Inner(s)
                                        ELSE IF IsWord(s) THEN s ELSE Empty]

\* The character k of a text is one of a string.
InString(s, k) ==
  LET ends[i \in 0 .. Len(s)] == IF i = 0 THEN 0 ELSE ends[i - 1] + Len(s[i])
  IN  \E i \in DOMAIN s : IsString(s[i]) /\ ends[i - 1] < k /\ k <= ends[i]

\* A comment is no word, and an error behind another one.
Words(t) ==
  LET s == Written(Lexemes(t))
      word(i) == IF ~IsComment(s[i]) THEN <<Word(s[i])>>
                 ELSE IF i > 1 /\ IsComment(s[i - 1])
                   THEN <<[kind |-> "error", value |-> Empty]>>
                 ELSE <<>>
  IN  FlattenSeq([i \in DOMAIN s |-> word(i)])

-----------------------------------------------------------------------------
(* Files *)

KindsOf(ws) == [i \in DOMAIN ws |-> ws[i].kind]
Behind(ws, i) == SubSeq(ws, i + 1, Len(ws))
FirstOf(ws, S) ==
  CHOOSE i \in DOMAIN ws : ws[i].kind \in S /\ \A j \in 1 .. i - 1 : ws[j].kind \notin S
Lacks(ws, S) == \A i \in DOMAIN ws : ws[i].kind \notin S

NotAFile == <<option(Empty, <<>>)>> \* no key is empty

IsEntry(ws) == KindsOf(ws) \in {<<"string">>, <<"@", "identifier", "string">>}
EntryOf(ws) == entry(Last(ws).value, IF Len(ws) = 3 THEN ws[2].value ELSE Empty)

\* Entries with a comma between them, and one behind the last if one likes.
RECURSIVE Items(_)
Items(ws) ==
  IF ws = <<>> THEN <<>>
  ELSE LET n == IF Lacks(ws, {","}) THEN Len(ws) + 1 ELSE FirstOf(ws, {","})
           first == SubSeq(ws, 1, n - 1)
           rest == Items(Behind(ws, n))
       IN  IF ~IsEntry(first) \/ rest = NotAFile THEN NotAFile
           ELSE <<EntryOf(first)>> \o rest

RECURSIVE Meaning(_)
Meaning(ws) ==
  LET more == Behind(ws, 2)
      value == FirstOf(more, {"string", "["})
      list == Behind(more, value)
      close == FirstOf(list, {"]"})
      Option(es, rest) ==
        LET others == Meaning(rest)
        IN  IF es = NotAFile \/ others = NotAFile THEN NotAFile
            ELSE <<option(ws[1].value, es)>> \o others
  IN  IF ws = <<>> THEN <<>>
      ELSE IF ~IsPrefix(<<"identifier", "=">>, KindsOf(ws)) THEN NotAFile
      ELSE IF Lacks(more, {"string", "["})
        THEN IF Lacks(more, {"error"}) THEN Option(<<>>, <<>>) ELSE NotAFile
      ELSE IF ~Lacks(SubSeq(more, 1, value), {"error"}) THEN NotAFile
      ELSE IF more[value].kind = "string"
        THEN Option(<<entry(more[value].value, Empty)>>, list)
      ELSE IF Lacks(list, {"]"}) THEN NotAFile
      ELSE Option(Items(SubSeq(list, 1, close - 1)), Behind(list, close))

-----------------------------------------------------------------------------
\* The line and the column printed with an error: where the token before it
\* ended, one line for each line end read, and one more for each comment.  A
\* line end in a string is a character like another.
Place ==
  LET s == Lexemes(SubSeq(text, 1, lexer.index))
      comments == {i \in 1 .. Len(s) - 1 : IsComment(s[i])}
      ends == {k \in 1 .. lexer.index : text[k] = "eol" /\ ~InString(s, k)}
  IN  <<1 + Cardinality(ends) + Cardinality(comments),
        1 + lexer.index - (IF ends = {} THEN 0 ELSE Max(ends))>>

\* options_parse reads exactly the files, and reads in them what they write:
\* whatever comments, white space, tags and commas they have, and whichever
\* token is missing, doubled or in the place of another.  On the way it is where
\* it says it is.
ReadsExactly ==
  /\ at = "done" => options = Meaning(Words(text))
  /\ at = "failed" => Meaning(Words(text)) = NotAFile
  /\ at \notin {"done", "failed"} => Place = <<lexer.line, lexer.column>>
=============================================================================
