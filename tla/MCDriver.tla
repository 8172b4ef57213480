------------------------------ MODULE MCDriver -------------------------------
(***************************************************************************)
(* Option files: every text of a few characters over alphabets that meet   *)
(* in one loop of the code, and written ones with every file system; and   *)
(* every short command line.                                               *)
(***************************************************************************)
EXTENDS Driver, OptionFile

MCLetters == {"f", "o", "b", "d", "t", "c", "a", "m", "l", "x", "y", "g"}
MCDigits == {"1"}

MCVerbs == {<<"-verbose-all">>}
W(c) == <<c>>

Good(kind, name, uses, holds) == Declaration(kind, name, uses, holds, "good")

MCPreload ==
  <<Good("function", "start", {"Main", "puts"}, {}), Good("function", "puts", {}, {})>>

-----------------------------------------------------------------------------
(* File systems of two inputs *)

MainUsing(names, holding) == Good("function", "Main", names, holding)
Dropped(kind, name) == Declaration(kind, name, {}, {}, "dropped")
Wrong(kind, name) == Declaration(kind, name, {}, {}, "wrong")
Struct(name, names, holding) == Good("aggregate", name, names, holding)
Alias(name, n) == Good("alias", name, {n}, {n})

\* Main has a variable of type A, or a pointer to it.
FirstInputs ==
  {<<>>, <<MainUsing({}, {})>>, <<MainUsing({"A"}, {"A"})>>, <<MainUsing({"A"}, {})>>,
   <<Dropped("function", "Main")>>, <<MainUsing({}, {}), Dropped("function", "Main")>>,
   <<MainUsing({"A"}, {}), Dropped("aggregate", "B")>>,
   <<MainUsing({"T"}, {"T"}), Alias("T", "A")>>,
   <<MainUsing({"A", "V"}, {}), Good("variable", "V", {"A"}, {"A"})>>,
   <<Wrong("function", "Main")>>, <<Declaration("function", "Main", {}, {}, "unbuildable")>>,
   Endless, Fatal}
SecondInputs ==
  {<<>>, <<Struct("A", {}, {})>>, <<Struct("A", {"B"}, {"B"})>>, <<Struct("A", {"A"}, {})>>,
   <<Struct("A", {"B"}, {}), Struct("B", {"C"}, {"C"})>>,
   <<Struct("A", {"B"}, {"B"}), Struct("B", {"A"}, {})>>,
   <<Wrong("aggregate", "A")>>, <<Wrong("alias", "A")>>, <<Dropped("aggregate", "A")>>,
   <<Struct("A", {}, {}), Struct("A", {}, {})>>, <<MainUsing({}, {})>>,
   <<Dropped("aggregate", "A"), Struct("A", {"A"}, {})>>, <<Wrong("variable", "V")>>,
   <<Good("function", "puts", {}, {})>>, Endless}
x == W("x")
y == W("y")
FileSystems ==
  {[n \in {x, y} |-> IF n = x THEN f ELSE g] : f \in FirstInputs, g \in SecondInputs}
    \cup {[n \in {y} |-> g] : g \in SecondInputs} \cup {[n \in {x} |-> f] : f \in FirstInputs}

-----------------------------------------------------------------------------
(* Option files *)

\* The sequences of up to n characters, after a beginning.
Upto(n, S) == UNION {[1 .. k -> S] : k \in 0 .. n}

ShortTexts ==
  {Upto(5, {"x", "=", "quote", "#", "eol"}),
   Upto(4, {"x", "=", "quote", ";", " "}),
   Upto(6, {"x", "#", "eol", " "}),
   {<<"f", "=", "[">> \o t : t \in Upto(5, {"quote", "x", "]", ",", "@"})},
   {<<"f", "=", "[", "quote", "quote">> \o t : t \in Upto(4, {"quote", "]", ",", "@", "1", "#", "x"})},
   {<<"f", "=">> \o t : t \in Upto(5, {"quote", "=", "]", "1", "x"})}}

q == "quote"
Both == <<"f", "=", "[", q, "x", q, ",", q, "y", q, ",", "]", "eol">>
Dot == <<"d", "=", q, "t", q>>
LongTexts ==
  {<<"#", "x", "eol">> \o Both \o <<"b", "=", q, "a", q>>,
   Both \o <<"o", "=", q, "x", q, "#", "eol", "b", "=", q, "m", q>> \o Dot,
   Both \o <<"b", "=", q, "l", q, "b", "=", q, "c", q>>,
   Both \o <<"b", "=", q, "y", q>> \o Dot,
   Both \o <<"o", "=", "b", "=", q, "a", q>>,
   Both \o <<"b", "=">>,
   <<"f", "=", q, "x", q>> \o Dot,
   <<"f", "=", "[", "@", "t", q, "x", q, ",", q, "y", q, "]", "d", "=", "[", q, "t", q, "]">>,
   <<"f", "=", "[", q, "x", q, "#", "x", "eol", ",", "@", "t", " ", q, "y", q, "]">>,
   <<"f", "=">>, <<"f", "=", "[", "]">> \o Dot}

Arguments == {x, y, W("c"), W("-o"), W("-b"), W("-d"), W("-x"), W("-verbose-all"), W("--config")}

CommandLines ==
  {a \in Upto(4, Arguments) : Len(a) > 1 => a[1] # W("--config")}

Scenario(texts, systems, lines, paths) ==
  [texts |-> texts, files |-> systems, arguments |-> lines, blocked |-> paths]
ByOptions == {<<W("--config"), x>>}
NoFiles == {[n \in {} |-> <<>>]}
TwoFiles == {[n \in {x, y} |-> IF n = x THEN <<MainUsing({}, {})>> ELSE g] :
               g \in {<<>>, <<MainUsing({}, {})>>}}

\* Any of the files the compiler writes by itself is one that it may not write.
Open == {{}}
Some == {{}, {<<DotFile, ".dot">>}, {<<W("g"), ".c">>}, {<<W("g"), ".bin">>, <<W("x"), ".bin">>}}

MCScenarios ==
  {Scenario(texts, NoFiles, ByOptions, Open) : texts \in ShortTexts}
    \cup {Scenario({Both}, FileSystems, ByOptions, Open),
          Scenario(LongTexts, TwoFiles \cup NoFiles, ByOptions, Some),
          Scenario({<<>>}, TwoFiles, CommandLines, Open),
          Scenario({<<>>}, TwoFiles, {<<x>>, <<x, W("-d"), W("-b"), W("a")>>}, Some),
          Scenario({<<>>}, NoFiles, {<<W("--config"), Missing>>}, Open)}

MCC == W("c")
MCARM64 == W("a")
MCAMD64 == W("m")
MCLLVM == W("l")
MCFILES == W("f")
MCOUTPUT == W("o")
MCBACKEND == W("b")
MCDOT == W("d")
MCTRUTH == W("t")
MCGENERATED == W("g")
=============================================================================
