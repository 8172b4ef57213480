------------------------------- MODULE Options -------------------------------
(***************************************************************************)
(* The option files of atcc, ati/config.c: the cursor that opt_lexer_next  *)
(* moves over the text, one token per call, and the loop of options_parse, *)
(* one action per token it asks for.  What a file means is in OptionFile;  *)
(* Driver reads the options and compiles what they name.                   *)
(*                                                                         *)
(* A character is its name.  Letters and digits stand for the characters   *)
(* isalpha and isdigit accept (with _ and -), "eol" and " " for the white  *)
(* space, and ";" for all that is in no token but a string.                *)
(***************************************************************************)
EXTENDS Naturals, Sequences, FiniteSets

CONSTANTS
  Letters, \* the characters a word may begin with
  Digits   \* the characters a word may go on with, but not begin with

Spaces == {" ", "eol"}
Marks == {"=", "[", "]", "@", ","}
Chars == Letters \cup Digits \cup Spaces \cup Marks \cup {"quote", "#", ";"}

ASSUME CharsAssumption ==
  /\ (Letters \cup Digits) \cap (Spaces \cup Marks \cup {"quote", "#", ";"}) = {}
  /\ Letters \cap Digits = {}

VARIABLES
  text,    \* the characters of the file
  lexer,   \* how many are read, and the line and column counted on the way
  at,      \* which token options_parse asks for next, or how it ended
  options, \* the options read: key and entries, each with its value and tag
  tag,     \* the tag of the entry whose string comes next
  failed   \* the place printed with the error that ended the parse

optionVars == <<text, lexer, at, options, tag, failed>>

Empty == <<>>   \* str("")
NoPlace == [line |-> 0, column |-> 0]

-----------------------------------------------------------------------------
(* opt_lexer_next *)

\* The first place from i on where a character is not in S.
EndOf(i, S) ==
  CHOOSE j \in i .. Len(text) :
    /\ \A k \in i + 1 .. j : text[k] \in S
    /\ j = Len(text) \/ text[j + 1] \notin S

More(l) == l.index < Len(text)
Peek(l) == text[l.index + 1]
Advanced(l, j) == [l EXCEPT !.index = j, !.column = @ + j - l.index]

opt_lexer_skip_whitespace(l) ==
  LET j == EndOf(l.index, Spaces)
      lines == {k \in l.index + 1 .. j : text[k] = "eol"}
      last == CHOOSE k \in lines : \A n \in lines : n <= k
  IN  IF lines = {} THEN Advanced(l, j)
      ELSE [index |-> j, line |-> l.line + Cardinality(lines), column |-> 1 + j - last]

\* The end of the line counts a line and is then skipped as white space.
opt_lexer_skip_comment(l) ==
  LET j == EndOf(l.index, Chars \ {"eol"})
  IN  IF j = Len(text) THEN Advanced(l, j)
      ELSE opt_lexer_skip_whitespace([index |-> j, line |-> l.line + 1, column |-> 1])

\* White space and at most one comment.
Skipped(l) ==
  LET k == opt_lexer_skip_whitespace(l)
  IN  IF More(k) /\ Peek(k) = "#" THEN opt_lexer_skip_comment(k) ELSE k

Token(kind, value, l) == [kind |-> kind, value |-> value, lexer |-> l]

\* Mutant: the end of the file closes a string.
StringToTheEnd(l) ==
  LET close == EndOf(l.index + 1, Chars \ {"quote"})
  IN  Token("string", SubSeq(text, l.index + 2, close), Advanced(l, close + 1))

String(l) ==
  LET close == EndOf(l.index + 1, Chars \ {"quote"})
  IN  IF close = Len(text) THEN Token("error", Empty, Advanced(l, close))
      ELSE Token("string", SubSeq(text, l.index + 2, close), Advanced(l, close + 1))

\* The token's place is where the lexer stood before the white space.
opt_lexer_next ==
  LET l == Skipped(lexer)
      word == EndOf(l.index, Letters \cup Digits)
  IN  IF ~More(l) THEN Token("eof", Empty, l)
      ELSE CASE Peek(l) = "quote" -> String(l)
             [] Peek(l) \in Letters ->
                  Token("identifier", SubSeq(text, l.index + 1, word), Advanced(l, word))
             [] Peek(l) \in Marks -> Token(Peek(l), Empty, Advanced(l, l.index + 1))
             [] OTHER -> Token("error", Empty, l)

-----------------------------------------------------------------------------
(* options_parse *)

option(key, entries) == [key |-> key, entries |-> entries]
entry(value, label) == [value |-> value, tag |-> label]
AddEntry(e) == [options EXCEPT ![Len(options)].entries = Append(@, e)]

options_parse_init(t) ==
  /\ text = t
  /\ lexer = [index |-> 0, line |-> 1, column |-> 1]
  /\ at = "key"
  /\ options = <<>>
  /\ tag = Empty
  /\ failed = NoPlace

\* The next token is read, and what follows it is asked for.
Read(token, following) ==
  /\ lexer' = token.lexer
  /\ at' = following
  /\ UNCHANGED <<text, failed>>

Fail(token) ==
  /\ at' = "failed"
  /\ failed' = [line |-> lexer.line, column |-> lexer.column]
  /\ lexer' = token.lexer
  /\ UNCHANGED <<text, options, tag>>

\* current is null: a key begins an option.
ReadKey ==
  /\ at = "key"
  /\ \E token \in {opt_lexer_next} :
         \/ token.kind = "eof" /\ Read(token, "done") /\ UNCHANGED <<options, tag>>
         \/ /\ token.kind = "identifier"
            /\ Read(token, "=")
            /\ options' = Append(options, option(token.value, <<>>))
            /\ UNCHANGED tag
         \/ token.kind \notin {"eof", "identifier"} /\ Fail(token)

ReadEquals ==
  /\ at = "="
  /\ \E token \in {opt_lexer_next} :
         \/ token.kind = "=" /\ Read(token, "value") /\ UNCHANGED <<options, tag>>
         \/ token.kind # "=" /\ Fail(token)

\* Mutant: an error is passed over like the tokens that are no value.
ReadValuePastErrors ==
  /\ at = "value"
  /\ \E token \in {opt_lexer_next} :
         \/ token.kind = "eof" /\ Read(token, "done") /\ UNCHANGED <<options, tag>>
         \/ /\ token.kind = "string"
            /\ Read(token, "key")
            /\ options' = AddEntry(entry(token.value, Empty))
            /\ UNCHANGED tag
         \/ token.kind = "[" /\ Read(token, "item") /\ UNCHANGED <<options, tag>>
         \/ /\ token.kind \notin {"eof", "string", "["}
            /\ Read(token, "value")
            /\ UNCHANGED <<options, tag>>

\* current is set: a string or a list ends the option, and any other token but
\* an error is passed over in silence.  The tag of a lone string is the zero
\* that the first entries of a vector are allocated with.
ReadValue ==
  /\ at = "value"
  /\ \E token \in {opt_lexer_next} :
         \/ token.kind = "eof" /\ Read(token, "done") /\ UNCHANGED <<options, tag>>
         \/ /\ token.kind = "string"
            /\ Read(token, "key")
            /\ options' = AddEntry(entry(token.value, Empty))
            /\ UNCHANGED tag
         \/ token.kind = "[" /\ Read(token, "item") /\ UNCHANGED <<options, tag>>
         \/ /\ token.kind \notin {"eof", "error", "string", "["}
            /\ Read(token, "value")
            /\ UNCHANGED <<options, tag>>
         \/ token.kind = "error" /\ Fail(token)

\* In a list, behind its bracket or a comma.
ReadItem ==
  /\ at = "item"
  /\ \E token \in {opt_lexer_next} :
         \/ token.kind = "]" /\ Read(token, "key") /\ UNCHANGED <<options, tag>>
         \/ token.kind = "@" /\ Read(token, "tag") /\ UNCHANGED <<options, tag>>
         \/ /\ token.kind = "string"
            /\ Read(token, ",")
            /\ options' = AddEntry(entry(token.value, Empty))
            /\ UNCHANGED tag
         \/ token.kind \notin {"]", "@", "string"} /\ Fail(token)

ReadTag ==
  /\ at = "tag"
  /\ \E token \in {opt_lexer_next} :
         \/ /\ token.kind = "identifier"
            /\ Read(token, "string")
            /\ tag' = token.value
            /\ UNCHANGED options
         \/ token.kind # "identifier" /\ Fail(token)

ReadTagged ==
  /\ at = "string"
  /\ \E token \in {opt_lexer_next} :
         \/ /\ token.kind = "string"
            /\ Read(token, ",")
            /\ options' = AddEntry(entry(token.value, tag))
            /\ tag' = Empty
         \/ token.kind # "string" /\ Fail(token)

\* Mutant: the list ends with the entry before its last comma.
ReadCommaStrictly ==
  /\ at = ","
  /\ \E token \in {opt_lexer_next} :
         \/ token.kind = "," /\ Read(token, "string") /\ UNCHANGED <<options, tag>>
         \/ token.kind = "]" /\ Read(token, "key") /\ UNCHANGED <<options, tag>>
         \/ token.kind \notin {",", "]"} /\ Fail(token)

ReadComma ==
  /\ at = ","
  /\ \E token \in {opt_lexer_next} :
         \/ token.kind = "," /\ Read(token, "item") /\ UNCHANGED <<options, tag>>
         \/ token.kind = "]" /\ Read(token, "key") /\ UNCHANGED <<options, tag>>
         \/ token.kind \notin {",", "]"} /\ Fail(token)

options_parse ==
  \/ ReadKey \/ ReadEquals \/ ReadValue
  \/ ReadItem \/ ReadTag \/ ReadTagged \/ ReadComma

-----------------------------------------------------------------------------
(* Looking options up: the first option of the key counts *)

Has(key) == \E i \in DOMAIN options : options[i].key = key
First(key) ==
  options[CHOOSE i \in DOMAIN options :
            options[i].key = key /\ \A j \in 1 .. i - 1 : options[j].key # key]

options_get_list(key) == First(key).entries

\* The entries of an option are never null: without any, the value read is the
\* zeroed memory of the vector.
options_get_default(key, default) ==
  IF ~Has(key) THEN default
  ELSE IF First(key).entries = <<>> THEN Empty
  ELSE First(key).entries[1].value

-----------------------------------------------------------------------------
OptionsTypeOK ==
  /\ lexer \in [index : 0 .. Len(text), line : Nat \ {0}, column : Nat \ {0}]
  /\ at \in {"key", "=", "value", "item", "tag", "string", ",", "done", "failed"}
  /\ \A i \in DOMAIN options : DOMAIN options[i] = {"key", "entries"}
  /\ at \in {"=", "value", "item", "tag", "string", ","} => options # <<>>
=============================================================================
