------------------------------- MODULE Driver --------------------------------
(***************************************************************************)
(* main.c: the command line or an option file says what to compile, and    *)
(* the passes run one after the other until one of them stops the program. *)
(* The passes are taken for what they decide.  An input is the sequence of *)
(* its declarations, each with the names it looks up and with what becomes *)
(* of its text: parse_program leaves one out whose node is an error, and   *)
(* one with an error inside it is registered like any other and does harm  *)
(* when the analysis gets to it.  Which it gets to is modelled, what it    *)
(* says of it is a mark.  The option file is read by Options.              *)
(***************************************************************************)
EXTENDS Options, SequencesExt

CONSTANTS
  Missing,      \* a file that cannot be read, as what is read or as its path
  Endless,      \* a file that is lexed or parsed for ever: a string not closed, { ) }
  Fatal,        \* a file that is parsed until the stack is used up: a type like (T)
  Preload,      \* the declarations of preload.aa
  Scenarios,    \* command lines, file systems and option files to combine
  Verbs,        \* -verbose-lexer and its like
  \* the words the driver looks for
  FILES, OUTPUT, BACKEND, DOT, TRUTH, GENERATED, C, ARM64, AMD64, LLVM,
  Main          \* the function the preload calls

\* What the program looks at in a declaration: the names it looks up among all
\* declarations, and those of them whose layout it needs, not only a pointer to.
\* Its text is dropped when it gives no declaration, wrong when the analysis finds
\* fault with it, unbuildable when the lowering has an assert() against it.
Kinds == {"variable", "function", "alias", "aggregate"}
Outcomes == {"good", "dropped", "wrong", "unbuildable"}
Declarations ==
  {d \in [kind : Kinds, name : STRING, uses : SUBSET STRING, holds : SUBSET STRING,
          outcome : Outcomes] : d.holds \subseteq d.uses}
Contents == Seq(Declarations)
Unparsed == {Missing, Endless, Fatal}

ASSUME ScenariosAssumption ==
  \A s \in Scenarios :
    /\ s.texts \subseteq Seq(Chars)
    /\ s.arguments \subseteq Seq(Seq(STRING) \cup {Missing})
    /\ \A f \in s.files : \A n \in DOMAIN f : f[n] \in Unparsed \cup Contents

IsRoot(d) == d.kind \in {"variable", "function"}

\* A variable or function of the preload uses Main.
ASSUME PreloadAssumption ==
  /\ Preload \in Contents
  /\ \E i \in DOMAIN Preload :
       IsRoot(Preload[i]) /\ Preload[i].outcome # "dropped" /\ Main \in Preload[i].uses

\* The options that are looked for, and one that is not known.
Dashed == {<<"-o">>, <<"-b">>, <<"-d">>, <<"-x">>, <<"--config">>}

ASSUME WordsAssumption ==
  /\ Verbs \cap Dashed = {}
  /\ C \notin {ARM64, AMD64, LLVM}
  /\ LLVM \notin {ARM64, AMD64}

VARIABLES
  files,      \* the declarations of each file there is
  arguments,  \* argv behind the program's name
  blocked,    \* the paths that cannot be opened for writing: name and suffix
  phase,      \* what runs, or "exit" or "crashed"
  argument,   \* how many of the arguments are read
  settings,   \* inputs, output, backend and write_dot
  input,      \* how many of the inputs are registered
  programs,   \* the declarations registered, by program
  written,    \* the files opened for writing: name and what was put there
  code        \* the exit code

driverVars ==
  <<files, arguments, blocked, phase, argument, settings, input, programs, written, code>>
vars == <<optionVars, driverVars>>

Declaration(kind, name, uses, holds, outcome) ==
  [kind |-> kind, name |-> name, uses |-> uses, holds |-> holds, outcome |-> outcome]

\* The members of s at the places P, in their order: what a loop pushes that
\* passes the other ones over.
Picked(s, P) ==
  [n \in 1 .. Cardinality(P) |->
     s[CHOOSE i \in P : Cardinality({j \in P : j < i}) = n - 1]]

Parsed(declarations) ==
  Picked(declarations, {i \in DOMAIN declarations : declarations[i].outcome # "dropped"})

-----------------------------------------------------------------------------
(* main, parse_options, config_main *)

NoSettings == [inputs |-> <<>>, output |-> GENERATED, backend |-> C, write_dot |-> FALSE]

Init ==
  /\ \E s \in Scenarios :
       /\ \E t \in s.texts : options_parse_init(t)
       /\ files \in s.files
       /\ arguments \in s.arguments
       /\ blocked \in s.blocked
  /\ phase = "main"
  /\ argument = 0
  /\ settings = NoSettings
  /\ input = 0
  /\ programs = <<>>
  /\ written = {}
  /\ code = 0

Exit(c) ==
  /\ phase' = "exit"
  /\ code' = c
Crash == phase' = "crashed" /\ UNCHANGED code

ByFile == Len(arguments) > 1 /\ arguments[1] = <<"--config">>

\* --config needs a path, of a file that can be read; alone it is an unknown
\* option of parse_options.
main ==
  /\ phase = "main"
  /\ IF ByFile /\ arguments[2] = Missing
       THEN Exit(1)
       ELSE phase' = (IF ByFile THEN "config" ELSE "arguments") /\ UNCHANGED code
  /\ UNCHANGED <<optionVars, files, blocked, arguments, argument, settings, input, programs,
                 written>>

\* One round of the loop over argv.  Of -o, -b and -d only the letter is looked
\* at, and -d asks for an argument it does not take.
ParseArgument ==
  /\ phase = "arguments"
  /\ argument < Len(arguments)
  /\ LET a == arguments[argument + 1]
         last == argument + 1 = Len(arguments)
         Set(s, n) == /\ settings' = s
                      /\ argument' = argument + n
                      /\ UNCHANGED <<phase, code>>
     IN  \/ a = <<"-o">> /\ ~last
            /\ Set([settings EXCEPT !.output = arguments[argument + 2]], 2)
         \/ a = <<"-b">> /\ ~last
            /\ Set([settings EXCEPT !.backend = arguments[argument + 2]], 2)
         \/ a = <<"-d">> /\ ~last /\ Set([settings EXCEPT !.write_dot = TRUE], 1)
         \/ a \in Verbs /\ Set(settings, 1)
         \/ a \notin Dashed \cup Verbs
            /\ Set([settings EXCEPT !.inputs = Append(@, a)], 1)
         \/ /\ a \in {<<"-x">>, <<"--config">>} \/ (a \in {<<"-o">>, <<"-b">>, <<"-d">>} /\ last)
            /\ Exit(1)
            /\ UNCHANGED <<argument, settings>>
  /\ UNCHANGED <<optionVars, files, blocked, arguments, input, programs, written>>

\* settings.inputs was created, so it is never null: no inputs are no error.
standalone_main ==
  /\ phase = "arguments"
  /\ argument = Len(arguments)
  /\ phase' = "preload"
  /\ UNCHANGED <<optionVars, files, blocked, arguments, argument, settings, input, programs,
                 written, code>>

ReadOptions ==
  /\ phase = "config"
  /\ options_parse
  /\ UNCHANGED driverVars

Untagged(es) ==
  LET values == [i \in DOMAIN es |-> es[i].value]
  IN  Picked(values, {i \in DOMAIN es : es[i].tag = Empty})

config_main ==
  /\ phase = "config"
  /\ \/ at = "failed" /\ Exit(1) /\ UNCHANGED settings
     \/ at = "done" /\ ~Has(FILES) /\ Exit(1) /\ UNCHANGED settings
     \/ /\ at = "done" /\ Has(FILES)
        /\ settings' = [inputs |-> Untagged(options_get_list(FILES)),
                        output |-> options_get_default(OUTPUT, GENERATED),
                        backend |-> options_get_default(BACKEND, C),
                        write_dot |-> options_get_default(DOT, Empty) = TRUTH]
        /\ phase' = "preload"
        /\ UNCHANGED code
  /\ UNCHANGED <<optionVars, files, blocked, arguments, argument, input, programs, written>>

-----------------------------------------------------------------------------
(* compiler_main *)

read_file(name) == IF name \in DOMAIN files THEN files[name] ELSE Missing

NamesOf(ds) == {ds[i].name : i \in DOMAIN ds}
Registered == UNION {NamesOf(programs[i]) : i \in DOMAIN programs}

\* sema_register_program: every declaration is registered, redefined or not.
Redefines(ds) ==
  \/ NamesOf(ds) \cap Registered # {}
  \/ \E i, j \in DOMAIN ds : i # j /\ ds[i].name = ds[j].name
Register(ds) == programs' = Append(programs, ds)

compiler_load_preload ==
  /\ phase = "preload"
  /\ Register(Parsed(Preload))
  /\ IF Redefines(Parsed(Preload)) THEN Exit(1) ELSE phase' = "inputs" /\ UNCHANGED code
  /\ UNCHANGED <<optionVars, files, blocked, arguments, argument, settings, input, written>>

\* Mutant: a redefinition is reported, and the next input read.
CompileInputAnyway ==
  /\ phase = "inputs"
  /\ input < Len(settings.inputs)
  /\ LET found == read_file(settings.inputs[input + 1])
     IN  \/ found = Missing /\ Exit(1) /\ UNCHANGED <<input, programs, written>>
         \/ found = Fatal /\ Crash /\ UNCHANGED <<input, programs, written>>
         \/ /\ found \notin Unparsed
            /\ Register(Parsed(found))
            /\ input' = input + 1
            /\ written' = written
            /\ UNCHANGED <<phase, code>>
  /\ UNCHANGED <<optionVars, files, blocked, arguments, argument, settings>>

\* One round of the loop over the inputs; each dot file replaces the one before,
\* and one that cannot be opened ends the program.  Of an endless input there is
\* no round.
DotFile == <<"hello">>
CompileInput ==
  /\ phase = "inputs"
  /\ input < Len(settings.inputs)
  /\ LET found == read_file(settings.inputs[input + 1])
         dot == [name |-> DotFile, suffix |-> ".dot", of |-> <<Parsed(found)>>]
         undrawn == settings.write_dot /\ <<DotFile, ".dot">> \in blocked
     IN  \/ /\ found = Missing \/ (found \notin Unparsed /\ undrawn)
            /\ Exit(1)
            /\ UNCHANGED <<input, programs, written>>
         \/ found = Fatal /\ Crash /\ UNCHANGED <<input, programs, written>>
         \/ /\ found \notin Unparsed /\ ~undrawn
            /\ Register(Parsed(found))
            /\ written' = IF settings.write_dot THEN {dot} ELSE {}
            /\ IF Redefines(Parsed(found))
                 THEN Exit(1) /\ UNCHANGED input
                 ELSE input' = input + 1 /\ UNCHANGED <<phase, code>>
  /\ UNCHANGED <<optionVars, files, blocked, arguments, argument, settings>>

Declared == UNION {ToSet(programs[i]) : i \in DOMAIN programs}

\* A declaration is visited for what its name stands for or for all that it is.
\* The name of an aggregate stands for it, complete or not: behind a pointer its
\* fields are never looked at.
PartsOf(ds) == {"name", "all"} \X ds
LooksInto(part) == part[1] = "all" \/ part[2].kind # "aggregate"
LooksUp(part) ==
  IF ~LooksInto(part) THEN {}
  ELSE ({"name"} \X part[2].uses)
         \cup (IF part[1] = "all" THEN {"all"} \X part[2].holds ELSE {})
Finds(x, y) == <<y[1], y[2].name>> \in LooksUp(x)

\* What the analysis visits: all variables and functions, and what they look up.
\* Mutant: the preload is taken to be right.
AnalysedOfInputs == {"all"} \X {d \in Declared \ ToSet(Preload) : IsRoot(d)}
Analysed == {"all"} \X {d \in Declared : IsRoot(d)}
Visiting(parts) ==
  LET visit[k \in 0 .. Cardinality(PartsOf(Declared))] ==
        IF k = 0 THEN parts
        ELSE UNION {{x} \cup {y \in PartsOf(Declared) : Finds(x, y)} : x \in visit[k - 1]}
  IN  visit
Visited(parts) == Visiting(parts)[Cardinality(PartsOf(Declared))]

\* It has a fault, or a name in it is not found.
Faulty(part, names) ==
  LooksInto(part) /\ (part[2].outcome = "wrong" \/ ~(part[2].uses \subseteq names))
Faults == {x \in Visited(Analysed) : Faulty(x, Registered)}

\* A fault is reported, or it is one that the analysis exits at, or falls over.
sema_analyze ==
  /\ phase = "inputs"
  /\ input = Len(settings.inputs)
  /\ \/ Faults = {} /\ phase' = "analyzed" /\ UNCHANGED code
     \/ Faults # {} /\ (Exit(1) \/ Crash)
  /\ UNCHANGED <<optionVars, files, blocked, arguments, argument, settings, input, programs,
                 written>>

FindMain ==
  /\ phase = "analyzed"
  /\ IF Main \notin Registered THEN Exit(1) ELSE phase' = "build" /\ UNCHANGED code
  /\ UNCHANGED <<optionVars, files, blocked, arguments, argument, settings, input, programs,
                 written>>

\* It returns true whatever happens: what it cannot build it falls over, or goes
\* on with in a build without assert().
Unbuildable(ds) == \E d \in ds : IsRoot(d) /\ d.outcome = "unbuildable"
build_bytecode ==
  /\ phase = "build"
  /\ \/ phase' = "generate" /\ UNCHANGED code
     \/ Unbuildable(Declared) /\ Crash
  /\ UNCHANGED <<optionVars, files, blocked, arguments, argument, settings, input, programs,
                 written>>

\* A back end that fails is printed, and the exit code is 0 all the same.  That
\* for arm64 writes a demonstration, that for amd64 nothing, and all of them use
\* the file without asking whether it could be opened.
File(name, suffix, content) == [name |-> name, suffix |-> suffix, of |-> content]
Blocked(f) == <<f.name, f.suffix>> \in blocked
Emit(f) ==
  \/ ~Blocked(f) /\ written' = written \cup {f} /\ Exit(0)
  \/ Blocked(f) /\ Crash /\ UNCHANGED written

\* The LLVM library opens its files itself, and may stop the program; in a build
\* without it nothing is written.
EmitLLVM ==
  LET fs == {File(<<"result">>, ".ll", programs), File(settings.output, ".o", programs)}
  IN  \/ UNCHANGED written /\ Exit(0)
      \/ written' = written \cup {f \in fs : ~Blocked(f)} /\ Exit(0)
      \/ Crash /\ UNCHANGED written

Generate ==
  /\ phase = "generate"
  /\ \/ settings.backend = C /\ Emit(File(settings.output, ".c", programs))
     \/ settings.backend \in {ARM64, AMD64} /\ Emit(File(settings.output, ".bin", <<>>))
     \/ settings.backend = LLVM /\ EmitLLVM
     \/ settings.backend \notin {C, ARM64, AMD64, LLVM} /\ Exit(1) /\ UNCHANGED written
  /\ UNCHANGED <<optionVars, files, blocked, arguments, argument, settings, input, programs>>

Next ==
  \/ main \/ ParseArgument \/ standalone_main \/ ReadOptions \/ config_main
  \/ compiler_load_preload \/ CompileInput \/ sema_analyze \/ FindMain
  \/ build_bytecode \/ Generate

Spec == Init /\ [][Next]_vars /\ WF_vars(Next)

-----------------------------------------------------------------------------
(* What a compilation comes to, said of the file or the command line *)

\* The arguments that are the value of the one before: behind an odd number of -o
\* and -b in a row, for the first of them takes the second as its value.
Taking == {<<"-o">>, <<"-b">>}
IsValue(as, i) ==
  \E n \in 1 .. i - 1 :
    /\ n % 2 = 1
    /\ \A k \in i - n .. i - 1 : as[k] \in Taking
    /\ i - n > 1 => as[i - n - 1] \notin Taking
Flags(as, S) == {i \in DOMAIN as : as[i] \in S /\ ~IsValue(as, i)}
InputsIn(as) == {i \in DOMAIN as : ~IsValue(as, i)} \ Flags(as, Dashed \cup Verbs)
ValueOf(as, flag, default) ==
  LET given == Flags(as, {flag}) IN IF given = {} THEN default ELSE as[Max(given) + 1]
\* By the help only -o and -b take a value.
Understood(as) ==
  /\ Flags(as, {<<"-x">>, <<"--config">>}) = {}
  /\ Len(as) \notin Flags(as, Taking)
DotLast(as) == Len(as) \in Flags(as, {<<"-d">>})

CommandLineSettings(as) ==
  [inputs |-> Picked(as, InputsIn(as)),
   output |-> ValueOf(as, <<"-o">>, GENERATED), backend |-> ValueOf(as, <<"-b">>, C),
   write_dot |-> Flags(as, {<<"-d">>}) # {}]

\* Of an option file: the first option of a key counts, and a key without a
\* value has the empty one.
FileSettings(os) ==
  LET of(key) == {i \in DOMAIN os : os[i].key = key}
      entries(key) == os[Min(of(key))].entries
      value(key, default) ==
        IF of(key) = {} THEN default
        ELSE IF entries(key) = <<>> THEN Empty ELSE entries(key)[1].value
  IN  [inputs |-> Untagged(entries(FILES)),
       output |-> value(OUTPUT, GENERATED), backend |-> value(BACKEND, C),
       write_dot |-> value(DOT, Empty) = TRUTH]

Asked == IF ByFile THEN FileSettings(options) ELSE CommandLineSettings(arguments)
Answerable ==
  IF ByFile THEN at = "done" /\ \E i \in DOMAIN options : options[i].key = FILES
  ELSE Understood(arguments)

\* The preload and the inputs, and what of them is registered.
Texts == <<Preload>> \o [i \in DOMAIN Asked.inputs |-> read_file(Asked.inputs[i])]
Kept == [i \in DOMAIN Texts |-> Parsed(Texts[i])]
DeclarationsOf(ps) == UNION {ToSet(ps[i]) : i \in DOMAIN ps}
Named(ds) == {d.name : d \in ds}

\* The parts look up nothing but each other, and have no fault.
Sound(parts, names, S) ==
  \A x \in S : ~Faulty(x, names) /\ \A y \in parts \ S : ~Finds(x, y)

\* Nothing is declared twice, and all of every variable and function is sound,
\* together with more parts that they may need.
Means(ps) ==
  LET ds == DeclarationsOf(ps)
      roots == {"all"} \X {d \in ds : IsRoot(d)}
      parts == PartsOf(ds)
      names == Named(ds)
  IN  /\ \A i, k \in DOMAIN ps : \A j \in DOMAIN ps[i], l \in DOMAIN ps[k] :
           ps[i][j].name = ps[k][l].name => i = k /\ j = l
      /\ \E more \in SUBSET (parts \ roots) : Sound(parts, names, roots \cup more)

\* What was asked for can be done: inputs that can be read and that the parser comes
\* to an end with, a program with a meaning, a back end that there is, ...
Compilable ==
  /\ Answerable
  /\ \A i \in DOMAIN Asked.inputs : read_file(Asked.inputs[i]) \notin Unparsed
  /\ Asked.write_dot /\ Asked.inputs # <<>> => <<DotFile, ".dot">> \notin blocked
  /\ Means(Kept)
  /\ Asked.backend \in {C, ARM64, AMD64, LLVM}
\* ... and an output that can be opened.
Openable ==
  /\ Asked.backend = C => <<Asked.output, ".c">> \notin blocked
  /\ Asked.backend \in {ARM64, AMD64} => <<Asked.output, ".bin">> \notin blocked

\* What can be done is done; the compiler exits with 0 only if it was, and with 1
\* only if it could not be, no output opened.  In every other case it crashes.
\* What it wrote is what was asked for.  The command lines that end in -d are left
\* out: parse_options turns them away for want of a value, which -d does not take
\* by the help (main.c:106).
ExitExact ==
  phase \in {"exit", "crashed"} /\ (ByFile \/ ~DotLast(arguments)) =>
    LET compilable == Compilable
        exited(c) == phase = "exit" /\ code = c
        outputs == {w \in written : w.suffix # ".dot"}
    IN  /\ compilable /\ Openable /\ Asked.backend # LLVM
             /\ ~Unbuildable(DeclarationsOf(Kept)) => exited(0)
        /\ exited(0) => compilable /\ Openable
        /\ exited(1) => ~compilable /\ outputs = {}
        /\ exited(0) /\ Asked.backend = C =>
             {<<w.name, w.of>> : w \in outputs} = {<<Asked.output, Kept>>}

\* Main is there when it is looked for: the preload uses it, so that the driver never
\* gets to its own complaint that it is not, and build_bytecode has it to call.
MainFound == phase \in {"analyzed", "build", "generate"} => Main \in Registered

\* The compiler comes to its end, unless it comes to an input that is lexed or
\* parsed for ever: the loops over the option file, the arguments and the inputs
\* end, those over the option file at its end or at the first error.
InEndless ==
  phase = "inputs" /\ input < Len(settings.inputs)
    /\ read_file(settings.inputs[input + 1]) = Endless
Termination == <>(phase \in {"exit", "crashed"} \/ InEndless)

TypeOK ==
  /\ OptionsTypeOK
  /\ phase \in {"main", "config", "arguments", "preload", "inputs", "analyzed", "build",
               "generate", "exit", "crashed"}
  /\ argument \in 0 .. Len(arguments)
  /\ input \in 0 .. Len(settings.inputs)
  /\ code \in {0, 1}
  /\ phase \in {"main", "config", "arguments"} => programs = <<>> /\ written = {}
=============================================================================
