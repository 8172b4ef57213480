------------------------------- MODULE Lexer --------------------------------
(***************************************************************************)
(* lexer.c: one action per way a round of the loop of lexer_tokenize can   *)
(* go.  A character is its name; the classes of the C library have a few   *)
(* members each, enough for all their escapes and operators: n is also the *)
(* r and t of an escape, x its X, NBSP each byte of a no-break space, and  *)
(* grave any character nothing begins with.  Positions count from 1,       *)
(* offset is the next one to read, and behind the source every character   *)
(* is NUL, as lexer_peek says.                                             *)
(***************************************************************************)
EXTENDS Naturals, Sequences, FiniteSets

CONSTANTS
  Sources,  \* the texts that are read
  Keywords  \* the identifiers that are keywords

Letters == {"a", "d", "n", "o", "x", "A", "B", "_"}
Digits == {"0", "1", "2"}
HexDigits == Digits \cup {"a", "d", "A", "B"}
Spaces == {" ", "LF", "CR", "NBSP"}
Quotes == {"quote", "apostrophe"}
MaybeEqual == {"+", "-", "*", "%", "^", "~", "=", "!", ":"}
MaybeDouble == {"&", "|", "<", ">"}
Single == {",", "?", ";", "(", ")", "[", "]", "{", "}", "#", "$", "@"}
Unknown == {"grave"}
Characters == Letters \cup Digits \cup Spaces \cup Quotes \cup MaybeEqual \cup MaybeDouble
              \cup Single \cup Unknown \cup {".", "/", "\\", "NUL"}

ASSUME SourcesAssumption ==
  /\ Sources \subseteq Seq(Characters)
  /\ Keywords \subseteq Seq(Letters)

VARIABLES
  source,  \* the text
  offset,  \* the next character to read
  line,    \* where the lexer thinks
  column,  \*   that character is
  tokens,  \* what it has read
  phase    \* "lexing", "done", or "stuck" in a string

vars == <<source, offset, line, column, tokens, phase>>

-----------------------------------------------------------------------------
(* Reading *)

Char(i) == IF i <= Len(source) THEN source[i] ELSE "NUL"
Text(s, e) == [i \in 1 .. e - s |-> Char(s + i - 1)]

\* The first position from i on whose character is not in S, or is; at the
\* latest the one behind the source.
Past(i, S) == CHOOSE e \in i .. Len(source) + 1 :
                /\ Char(e) \notin S \/ e = Len(source) + 1
                /\ \A j \in i .. e - 1 : Char(j) \in S
To(i, S) == Past(i, Characters \ S)

\* line and column after reading from the offset up to e.
Line(e) == line + Cardinality({i \in offset .. e - 1 : Char(i) = "LF"})

\* Mutant: a line feed leaves the column alone.
ColumnRunsOn(e) == column + (e - offset)

Column(e) ==
  LET breaks == {i \in offset .. e - 1 : Char(i) = "LF"}
  IN  IF breaks = {} THEN column + (e - offset)
                     ELSE e - (CHOOSE i \in breaks : \A j \in breaks : j <= i)

Start == Past(offset, Spaces)

\* A round that reads up to e; the token says where it stands in the text, too.
Reads(e) ==
  /\ line' = Line(e)
  /\ column' = Column(e)
  /\ UNCHANGED <<source, phase>>

TokenAt(kind, from, to, value) ==
  [kind |-> kind, from |-> from, to |-> to, value |-> value,
   line |-> Line(from), column |-> Column(from)]

Emits(kind, e, value) ==
  /\ tokens' = Append(tokens, TokenAt(kind, Start, e, value))
  /\ offset' = e
  /\ Reads(e)

\* phase is tested, then the character after the white space.
Round(S) == phase = "lexing" /\ Char(offset) # "NUL" /\ Char(Start) \in S

Init ==
  /\ source \in Sources
  /\ offset = 1
  /\ line = 1
  /\ column = 1
  /\ tokens = <<>>
  /\ phase = "lexing"

lexer_build_identifier ==
  /\ Round(Letters)
  /\ LET e == Past(Start, Letters \cup Digits)
         word == Text(Start, e)
     IN  Emits(IF word \in Keywords THEN "keyword" ELSE "identifier", e, word)

\* Mutant: the first of two dots stays with the number.
NumberTakesDot ==
  /\ Round(Digits)
  /\ LET dot == Past(Start, Digits)
         e == IF Char(dot) = "." THEN Past(dot + 1, Digits) ELSE dot
     IN  Emits("number", e, Text(Start, e))

\* Digits with one dot; at a second dot the offset goes one character back and
\* line and column stay.
lexer_build_number ==
  /\ Round(Digits)
  /\ LET dot == Past(Start, Digits)
         e == IF Char(dot) = "." THEN Past(dot + 1, Digits) ELSE dot
     IN  IF e > dot /\ Char(e) = "."
           THEN /\ tokens' = Append(tokens, TokenAt("number", Start, e, Text(Start, e)))
                /\ offset' = e - 1
                /\ Reads(e)
           ELSE Emits("number", e, Text(Start, e))

-----------------------------------------------------------------------------
(* Strings *)

Byte == [c \in Characters |->
  CASE c = "a" -> 97 [] c = "d" -> 100 [] c = "n" -> 110 [] c = "o" -> 111 [] c = "x" -> 120
    [] c = "A" -> 65 [] c = "B" -> 66 [] c = "_" -> 95 [] c = "0" -> 48 [] c = "1" -> 49
    [] c = "2" -> 50 [] c = "LF" -> 10 [] c = "CR" -> 13 [] c = "\\" -> 92 [] c = "quote" -> 34
    [] c = "apostrophe" -> 39 [] c = "NUL" -> 0 [] OTHER -> 32]

\* hex_character - 'A' + 10 is meant for upper case.
HexDigit(c) == IF c \in Digits THEN Byte[c] - Byte["0"] ELSE Byte[c] - Byte["A"] + 10

\* Mutant: hex_digit is as wide as it needs to be.
WideHex(s, e) ==
  LET upto[i \in s .. e] == IF i = s THEN 0 ELSE upto[i - 1] * 16 + HexDigit(Char(i - 1))
  IN  upto[e]

\* hex_digit is a u8.
Hex(s, e) ==
  LET upto[i \in s .. e] == IF i = s THEN 0 ELSE (upto[i - 1] * 16 + HexDigit(Char(i - 1))) % 256
  IN  upto[e]

\* One round of the loop at position i: where the next one starts, and the bytes.
Unit(i) ==
  LET c == Char(i + 1)
      simple(b) == [next |-> i + 2, bytes |-> <<b>>]
  IN  CASE Char(i) # "\\" -> [next |-> i + 1, bytes |-> <<Byte[Char(i)]>>]
        [] Char(i) = "\\" /\ c = "n" -> simple(10)
        [] Char(i) = "\\" /\ c = "0" -> simple(0)
        [] Char(i) = "\\" /\ c \in Quotes \cup {"\\"} -> simple(Byte[c])
        [] Char(i) = "\\" /\ c = "x" ->
             LET e == Past(i + 2, HexDigits) IN [next |-> e, bytes |-> <<Hex(i + 2, e)>>]
        [] OTHER -> [next |-> i + 2, bytes |-> <<Byte["\\"], Byte[c]>>]

\* The rounds from each position on: where the terminator is, and the bytes to it.
Never == [at |-> 0, bytes |-> <<>>]
String(terminator) ==
  LET from[i \in 1 .. Len(source) + 2] ==
        IF i > Len(source) THEN Never
        ELSE IF Char(i) = terminator THEN [at |-> i, bytes |-> <<0>>]
        ELSE IF Unit(i).next > Len(source) + 1 THEN Never
        ELSE LET rest == from[Unit(i).next]
             IN  IF rest.at = 0 THEN Never
                 ELSE [at |-> rest.at, bytes |-> Unit(i).bytes \o rest.bytes]
  IN  from

lexer_build_string_or_char ==
  /\ Round(Quotes)
  /\ LET string == String(Char(Start))[Start + 1]
     IN  /\ string.at # 0
         /\ Emits(IF Char(Start) = "quote" THEN "string" ELSE "char", string.at + 1, string.bytes)

\* Behind the source lexer_read returns NULs, and none of them is the terminator:
\* the loop adds them to the buffer for ever.
lexer_build_string_forever ==
  /\ Round(Quotes)
  /\ String(Char(Start))[Start + 1].at = 0
  /\ phase' = "stuck"
  /\ UNCHANGED <<source, offset, line, column, tokens>>

-----------------------------------------------------------------------------
(* Operators and comments *)

\* The end of the operator at s.
Operator(s) ==
  LET c == Char(s)
      d == Char(s + 1)
  IN  IF c \in MaybeDouble /\ d = c THEN IF Char(s + 2) = "=" THEN s + 3 ELSE s + 2
      ELSE IF c \in MaybeEqual \cup MaybeDouble \cup {"/"} /\ d = "=" THEN s + 2
      ELSE IF c = "." /\ d = "." THEN s + 2
      ELSE s + 1

Comments == Char(Start) = "/" /\ Char(Start + 1) \in {"/", "*"}

lexer_build_operator ==
  /\ Round(MaybeEqual \cup MaybeDouble \cup Single \cup {".", "/"})
  /\ ~Comments
  /\ LET e == Operator(Start) IN Emits("operator", e, Text(Start, e))

\* A character nothing begins with is a token of no kind.
lexer_build_nothing ==
  /\ Round(Unknown \cup {"\\"})
  /\ Emits("none", Start + 1, <<>>)

\* The token of the slash is taken back.
Skips(e) ==
  /\ offset' = e
  /\ Reads(e)
  /\ UNCHANGED tokens

\* Mutant: the characters of the comment are given back with its token.
CommentGivenBack ==
  /\ Round({"/"})
  /\ Char(Start + 1) = "/"
  /\ Skips(offset)

lexer_skip_comment ==
  /\ Round({"/"})
  /\ Char(Start + 1) = "/"
  /\ Skips(To(Start + 2, {"NUL", "CR", "LF"}))

\* The end of the comment that is level comments deep at i.
CommentEnd ==
  LET end[p \in (1 .. Len(source) + 2) \X Nat] ==
        LET i == p[1]
            level == p[2]
        IN  IF level = 0 \/ Char(i) = "NUL" THEN i
            ELSE IF Char(i) = "/" /\ Char(i + 1) = "*" THEN end[<<i + 2, level + 1>>]
            ELSE IF Char(i) = "*" /\ Char(i + 1) = "/" THEN end[<<i + 2, level - 1>>]
            ELSE end[<<i + 1, level>>]
  IN  end

lexer_skip_multiline_comment ==
  /\ Round({"/"})
  /\ Char(Start + 1) = "*"
  /\ Skips(CommentEnd[<<Start + 2, 1>>])

\* Mutant: lexer_read moves on behind the source.
EndReadPast ==
  /\ Round({"NUL"})
  /\ Emits("EOF", Start + 1, <<>>)

\* White space before the end of the source has an EOF of its own.  A NUL that is
\* there is read, and what follows it, too.
lexer_at_end ==
  /\ Round({"NUL"})
  /\ Emits("EOF", IF Start <= Len(source) THEN Start + 1 ELSE Start, <<>>)

lexer_tokenize ==
  /\ phase = "lexing" /\ Char(offset) = "NUL"
  /\ tokens' = Append(tokens, TokenAt("EOF", offset, offset, <<>>))
  /\ phase' = "done"
  /\ UNCHANGED <<source, offset, line, column>>

Next ==
  \/ lexer_build_identifier \/ lexer_build_number
  \/ lexer_build_string_or_char \/ lexer_build_string_forever
  \/ lexer_build_operator \/ lexer_build_nothing
  \/ lexer_skip_comment \/ lexer_skip_multiline_comment
  \/ lexer_at_end \/ lexer_tokenize

Spec == Init /\ [][Next]_vars /\ WF_vars(Next)

-----------------------------------------------------------------------------
(* Properties *)

\* The lexer is inside its text, and a token was read from characters in order.
TypeOK ==
  /\ offset \in 1 .. Len(source) + 1
  /\ phase \in {"lexing", "done", "stuck"}
  /\ \A k \in DOMAIN tokens :
       /\ 1 <= tokens[k].from /\ tokens[k].from <= tokens[k].to
       /\ k > 1 => tokens[k - 1].from <= tokens[k].from

Dots(t) == {i \in DOMAIN t : t[i] = "."}

\* A number in front of a second dot: the offset went back.
Backward(k) == tokens[k].kind = "number" /\ Char(tokens[k].to) = "." /\ Dots(tokens[k].value) # {}

\* lexer_read: a token is where its line and column say, until a number in front
\* of a second dot has moved the offset back and not the column.
LocationsExact ==
  \A k \in DOMAIN tokens :
    (\A j \in 1 .. k - 1 : ~Backward(j)) =>
      LET breaks == {i \in 1 .. tokens[k].from - 1 : Char(i) = "LF"}
      IN  /\ tokens[k].line = 1 + Cardinality(breaks)
          /\ tokens[k].from - tokens[k].column \in {0} \cup breaks
          /\ \A i \in breaks : tokens[k].from - tokens[k].column >= i

HexValue == [c \in Digits \cup {"A", "B"} |->
  CASE c = "0" -> 0 [] c = "1" -> 1 [] c = "2" -> 2 [] c = "A" -> 10 [] c = "B" -> 11]

\* lexer_build_string_or_char: without a backslash a string is its characters,
\* and an escape \x is the byte its last two digits are, in upper case; a NUL
\* is added.
BytesExact ==
  \A k \in DOMAIN tokens : tokens[k].kind \in {"string", "char"} =>
    LET inside == Text(tokens[k].from + 1, tokens[k].to - 1)
        n == Len(inside)
    IN  /\ "\\" \notin {inside[i] : i \in DOMAIN inside} =>
             tokens[k].value = [i \in 1 .. n + 1 |-> IF i > n THEN 0 ELSE Byte[inside[i]]]
        /\ n > 3 /\ inside[1] = "\\" /\ inside[2] = "x" /\ (\A i \in 3 .. n : inside[i] \in DOMAIN HexValue) =>
             tokens[k].value = <<16 * HexValue[inside[n - 1]] + HexValue[inside[n]], 0>>

\* The loop of lexer_tokenize ends, if not in a string without an end.
Termination == <>(phase # "lexing")
=============================================================================
