# A verification development for atcc

atcc (`src/source`) compiles a C-like language to C.  It is one process with one
thread, reads its inputs, and runs one pass after the other; nothing in it is
concurrent and nothing is kept between two runs.  What is hard in it is of another
kind: recursive descents over declarations that refer to each other in any order,
marks and caches that must be right on every way out of a call, tables keyed by
addresses, scopes that two passes keep in two ways, constants computed twice, in the
compiler and in the program, lowering of nested control flow through variables that
every statement saves and restores, and C output whose meaning depends on the order
it is printed in.  The modules here model these parts as state machines or as
operators, TLC checks them on small instances, and TLAPS proves the theorems about the
tables, the caches, the analysis of declarations, the scopes of names, the lexer, the parser
and the driver, with its reader of options files, for every instance.

## Inventory

| part | source | state | operations |
|---|---|---|---|
| hash tables | `ati/table.c` | slots, capacity, length | get, set (which may resize), destroy; remove, which has no caller |
| types, type caches | `type.c`, `sema.c` | `Type` objects, `pointer_types`, `array_types` | `make_type`, resolving `T*`, `T[n]`, `T[]`, `T[*]`, the operator `&`, comparing types |
| declaration analysis | `sema.c` | global scope of entries, `is_complete` and `is_resolving` of aggregates, errors | register, resolve a name, lay out an aggregate, infer a variable, type a function |
| statement analysis | `sema.c` | the chain of scopes, with `in_loop`, `in_switch` and whether it returns | one function per statement |
| expression analysis | `sema.c` | operand types, conversions | one function per expression |
| constant evaluation | `eval.c` | the bytes of a `Variant` | one function per expression |
| lowering | `lower.c` | the current block, the targets of `break` and `continue`, locals, globals and types | one function per statement, expression and declaration |
| bytecode builder | `emit/bytecode.c` | blocks, instructions, temporaries, types, byte buffer | make a block, an instruction, a phi, a type; emit bytes |
| C back end | `emit/source.c` | the output | types, prototypes, functions block by block |
| parser | `parser.c` | a cursor over tokens, the nodes built so far | one function per construct |
| lexer | `lexer.c` | a cursor over bytes with line and column, the tokens built | one token, or one comment, per round of its loop |
| options file | `ati/config.c` | a cursor with line and column, the options read | a token, the parse, the lookups |
| driver | `main.c` | the settings, the passes' results | the command line, the options file, the pipeline |
| preload | `preload.c` | none | a text compiled in front of every input |
| LLVM, arm64, amd64 back ends, dumps, unit test harness | `emit/`, `debug.c`, `ati/utest.c` | | see "Not modelled" |

The driver takes its settings from the command line or from an options file and calls
`lexer_tokenize`, `parse_program` and `sema_register_program` for the preload and for
each input.  A redefinition stops it there; a parse error does not.  `sema_analyze` then
visits the variables and functions, which call each other through names: resolving a
name analyses what it names.  Any reported error stops the driver before
`build_bytecode`, which converts types, folds constants, and walks the analysed trees
calling the bytecode builder; the back end prints what was built.  The string table
holds the scopes, the pointer table the type caches and the back ends' value maps.

What makes each part correct: a table is a map and every search of it ends; a type
declaration is given a type that means what it says, and equal declarations one
object; the descent ends, reports exactly the programs without a meaning, and never
reads a size before it is known; accepted functions return; a name means in the code
what it meant in the analysis; a constant is what its expression means, and a global
has its value when main starts; the emitted function does what the statements say, and
the emitted types come before what needs them; the parser accepts a grammar, reports the
first token that cannot go on, and stays inside its tokens; the lexer splits a text into
its longest lexemes and knows where each stands; an options file means what its notation
says; the exit status tells whether the output is there.  `PROJECT.json` lists the
hazards behind these, with their lines.

## Modules

| module | models | by |
|---|---|---|
| `SymbolMap` | what a table promises | a map changed in one step per call |
| `StringTable` | `ati/table.c`, both halves | one action per call; a growth is `BeginResize`, one `Rehash` per slot, `EndResize` |
| `TypeCache` | the types of `sema.c`, both caches, `&`, the conversion of arrays | one action per way to make a type |
| `Declarations` | nothing of the code's control | the declared meaning of a program: denotations, dependencies, sizes |
| `Resolve` | `sema.c` from `sema_register` to `sema_analyze` | a stack of frames, one action per stretch of code between two calls |
| `Names` | the scopes of `sema.c` and the locals of `lower.c` | two walks over a body, one action per statement or name |
| `Folding` | integer expressions, with every operator of `eval.c`, in `sema.c`, `eval.c` and the printed C | operators, recursive like the code |
| `Initializers` | constants and variables from `sema.c` through `lower.c` to the start of main | one action per declaration and pass |
| `Layout` | the completion of aggregates, `build_convert_type`, the types of `bytecode.c`, their order in `source.c`, the offsets of globals | one action per declaration, operators for the recursion |
| `Statements` | the syntax and the reference meaning of statements | a small machine that evaluates atoms and reports them |
| `Flow` | the control-flow analysis of statements in `sema.c` | one operator, recursive like the code |
| `Lower` | `lower.c` on statements, `&&`, `\|\|`, `?:`, and the blocks of `bytecode.c` | operators from a build state to a build state |
| `Execution` | the C text of `emit/source.c`, run | the product of the reference machine and the emitted function |
| `Lexer` | `lexer.c` | one action per way a round of `lexer_tokenize` goes |
| `Lexemes` | nothing of the code's control | what a lexeme looks like, and that the longest counts |
| `Parser` | `parser.c` | every function a sequence of steps, run on a stack of calls |
| `Grammar` | nothing of the code's control | the grammar, its sentences and their beginnings, the binding of operators |
| `Options` | `ati/config.c` | one action per token that `options_parse` asks for |
| `OptionFile` | nothing of the code's control | the lexemes and the sentences of an options file, and the options they write |
| `Driver` | `main.c` | one action per argument, input and pass; it reads its options file with `Options` |
| `StringTable_proof`, `TypeCache_proof`, `Lexer_proof`, `Parser_proof` | | the proofs |
| `Driver_proof` | | the proof about `Driver` and the `Options` in it |
| `Names_proof` | | the proof about `Names`: the walk of `sema.c`, then that of `lower.c` |
| `Resolve_proof`, `ResolveExact_proof` | | the proofs about `Resolve`: its marks and answers, then that it finds what `Declarations` says |

Modules that interact are composed: `Driver` runs the actions of `Options`, `Initializers`
uses the operators of `Folding` for each of its passes, `Execution` runs what `Lower`
builds from what `Flow` accepts.  `MCStringTable`, `MCTypeCache`, `MCResolve`, `MCNames`,
`MCInitializers`, `MCLayout`, `MCExecution`, `MCLexer`, `MCParser` and `MCDriver` give the
constants their values.  An operator named `Mutant: ...` in its comment is the definition
above or below it with one plausible bug; nothing uses it.

### The tables

A slot is the C entry: key, value and the flag `empty`, which a set clears and
nothing sets again.  `find_entry` is the probe loop, `Terminates` that it ends.  A
set that crosses the load limit starts a resize, during which every rehashed slot
is a state of its own, so an error in the order of the loop shows.  `SymbolMap` is the
abstract specification, and the map is what the slots bind (`Binding`).  The pointer
table differs in its hash, which is the key, and in being called with null, its mark for
a free slot: a set of null counts a tombstone and stores nothing that can be found.

`string_table_remove` has no caller.  It marks the slot of the removed key empty,
under the comment "Tombstone", and the keys probed past that slot are lost; a caller
of it would need a table that keeps tombstones.

### Types

An address is its low half and the set of bits of its upper half, because all that
the hash of an array type does is to OR bits into the upper half.  `denotes` is a
history of how a type was made, the meaning it has whatever the caches do.  An element count
of 0 sets no bit of the hash, so `T[0]` and `T[]` are given the type of that one of the two
which was made first; `Shape` takes them for one, and `TypeAsDeclared` says that nothing else
is confused.  `Replaced` says that `&`, which makes a type without looking and overwrites the
cache, has displaced a cached pointer type.

### Declarations

`Resolve` makes the C stack a variable.  A frame has the local variables of its call,
and an action runs from one call or return to the next, so every interleaving of the
marks with the recursion is a state.  Programs are sequences of aliases, aggregates
(structs and unions, by how often a line of fields counts for the size), variables (declared,
or inferred from a name, a builtin's too) and functions with named parameters, over types made
with `*`, `[n]` and `[]`.  `scope` is `context->scope` inside the global one: `sema.c:1140`
opens it for a function, every parameter is put in it, and whatever is resolved from there on,
aliases and aggregates elsewhere in the program included, is looked up in it first.
`Declarations` does not know it, so the properties that compare with it are about programs
in which no parameter has a name that is used elsewhere (`Shadows`).  `asserts` is the build:
README.md of the repository builds Release, which drops `assert`.  `Declarations` says
independently, as least fixed points, what names denote, what needs what, and how large types
are.  One oddity of the code is part of it: a variable inferred from the name of an aggregate
has it laid out there and then, one inferred from an alias of it does not, so where `V := A` is
reported as cyclic, `V := B` with `alias B = A` is accepted.

### Names

`sema.c` opens a scope for every block and looks a name up from the innermost scope
outwards; `lower.c` has one flat table for a function, which nothing is ever taken out of.
`Names` walks a body both ways and keeps what every use was resolved to and bound to.
That they agree rests on the one rule the analysis has, that no declaration may have a
name that is visible; the run shows that this is enough, loops and parameters named like
globals included.

The constant `Statements` has the parts a body is made of, and `SyntaxAssumption` what the
parser lets them be: the condition of a do-while and the increment of a for declare nothing
(`parser.c:447`, `parser.c:477`), while a body may be any statement, in braces or not
(`parser.c:609`).  A node is known by its path in the program, so two equal statements in
two places are two nodes.

### Constants and globals

A value is a type and the natural number its bytes spell, so that reading eight bytes of
what was written as one, or as another sign, is what it is in C.  `Folding` computes an
expression three times: the type and the meaning `sema.c` gives it, the value `eval.c`
computes, the value the printed C computes.  `Initializers` takes the global declarations
of a program through these, in the order each pass visits them, with the functions between
them, whose parameters stay in the table of locals until the next function.  The
preconditions of its properties (`Folds`, `Computes`) are the code's limits, read off its
conversions; "Also seen" lists what lies outside.

A shift by a negative number or by too many bits and a division by zero have no meaning in C,
and no property is about them (`Undefined`).

`Layout` first completes aggregates as the analysis does, for globals, parameters and the local
variables of bodies; of one that is only pointed to, which stays incomplete, no struct is made.
It then converts the types of globals and of signatures in the order of
`build_preload_function` and `build_declaration`, and has a type's size when it is asked for,
which for an aggregate in progress is zero.  Its reference is C: what a struct needs before it,
and C's sizes with padding.

### Control flow

`Statements` has the reference meaning: a machine that unfolds a statement, evaluates
atoms, and records what it evaluated and to what, that is, the observable events.
`Lower` builds the blocks that `lower.c` builds, in the order it makes them;
`Execution` runs them with the fall-through of the printed C text, beside the reference,
each atom yielding the same value in both.

### Lexer and parser

In `Lexer` a character is its name, and the alphabet has a few members of each class the
code tells apart.  Behind the source every character is `NUL`, as `lexer_peek` has it.
`Lexemes` says of the text alone what its tokens are, so `TokensExact` relates the loops
of the code to a definition without a cursor: a word, a number, an operator, a string with an
even number of backslashes before its closing quote, a comment whose inside is characters and
comments, and of these the longest that begins at a place.

In `Parser` each `parse_*` function is a definition of the same name, a sequence of the
things a parse function does: consume a token or report, call, build a node, branch on the
current token, loop while it is of a kind.  `Next` carries these out on a stack.  The text
is chosen token by token as the parser comes to look at it, so texts with a common
beginning share their states.  A job is a function, a vocabulary, a length, and how much
text may follow an error.  `Grammar` is a context-free grammar of what the parser accepts.
It is read off the parser where the language has no other definition, so it also writes
down the parser's oddities:

* the typed compound `(:T)` needs two opening braces and one closing one (`parser.c:231`);
* a type in parentheses calls `parse_typedecl` at the same token for ever (`parser.c:681`);
* an aggregate's nested item and a function type's parameter are pushed on a vector that was
  never created (`parser.c:742`, `parser.c:652`), a crash the model keeps, and a function type
  with a return type is always an error;
* `return;` is never accepted;
* a statement that begins with a token no expression begins with, as in `{ ) }`, is
  reported for ever, since no loop skips a token.  `NoSilentRound` therefore says that a round
  of a loop consumes a token *or* reports;
* a last `alias` of a program may step over the EOF; `CursorInside` bounds what is read then.

### Options and driver

`Options` moves the cursor of `opt_lexer_next` over a text, with its line and column, and
has one action for each place `options_parse` asks for a token.  `OptionFile` says of the
text alone what its lexemes are, which sequences of them are a file, and which options they
write.  Two oddities of the code are part of the notation: a comment right behind a comment
is an error (`config.c:71`), and between `=` and a value anything is passed over.

`Driver` takes the passes for what they decide.  An input is the sequence of its
declarations, each with the names it uses, those of them it holds by value, and what becomes
of its text: `dropped` if its node is an error (`parser.c:968`), `wrong` if it is registered
and the analysis finds fault with it, by an error or a panic, `unbuildable` if the lowering has
an `assert` against it.  Registering stops at a name that is there already.  The analysis
visits variables and functions and what they look up; the name of an aggregate stands for it
without its fields until a value of it is needed, so a struct used only by pointer is never
looked into, whatever is in it (`LooksInto`).  An input may be `Endless`, lexed or parsed for
ever as `Lexer` and `Parser` have it, or `Fatal`, parsed until the stack is used up; and any
file to be written may be one that cannot be opened, which `main.c` does not ask.
`ExitExact` compares the exit status and the written files with a description of the
command line, the option file and the inputs that follows no pass.  An argument is the value
of the one before if it stands behind an odd number of `-o` and `-b` in a row (`IsValue`), an
option counts at its last place, a key of an option file at its first; the declarations have a
meaning if no name is there twice and there is a set of their parts that has the variables and
functions, is closed under what these look up, and has no fault (`Means`).  A command line that
ends in `-d` is left out: the driver turns it away, against its own help.  The
assumptions say what the constants stand for: the verbs are none of the other options, the
name of the C back end is not that of another, and a variable or function of the preload uses
`Main`, as `preload.aa` does.

## Runs

| run | shows | bounds |
|---|---|---|
| `string_table` | `TypeOK`, searches end, stored keys are found, the load is bounded, the table implements the map | 5 keys and null, 2 values, arrays of 4 and 8 slots: three keys collide in the last slot and wrap, the fourth key grows the table and parts them |
| `type_cache` | a declaration means what it writes, `T[0]` and `T[]` taken for one; one object per type until `&` replaces one | 1 builtin, 4 made types, 3 counts with 0 among them, 2 wraps: enough for two types over one base and for a pointer remade under an array |
| `type_cache_high_heap` | violated: two array types share a hash | the same on a heap above 4 GB |
| `resolve` | marks match the stack, errors exact, sizes and types exact, no crash but after an error or at a variable that stands for a builtin type, what is resolved is final, the descent ends | 8236 programs of three or four declarations, both builds: every pair of type shapes of two types, structs and unions, the ways to use them, cycles through names and through layouts, undefined names, redefinitions, parameters named like what else the program uses; 723158 states |
| `names` | a use is bound to the declaration it was resolved to | functions over two locals and a global: two statements around each kind of statement, nested two deep, three kinds of parameters, bodies with and without braces, and pairs of functions; 220068 states |
| `initializers` | constants fold to their meaning, variables have theirs when main starts, initializers read globals | two globals over each other in both orders with every operator and cast, six integer types of 3, 5 and 7 bits, or simple ones around one or two functions; 1720472 states |
| `layout` | structs are printed before what needs them; globals do not overlap | two aggregates of one or two members and up to two declarations, or three of one and three, with arrays, slices and pointers of each other, globals, and functions that take, return or declare them; 1737728 states |
| `execution` | both machines show the same events; accepted functions with a result run off their end only behind a switch; no block is left without an end | 948 functions: each statement nested in each, with every atom taking every value that matters, and switches that are left in every way |
| `execution_do_while` | violated: see "Findings" | do-while loops whose body branches, which `execution` leaves out |
| `lexer` | tokens are the longest lexemes, at their line and column; strings have the bytes they spell; reading ends | all 88801 texts of up to 5 to 8 characters over seven alphabets, each the characters that meet in one loop: words, numbers, operators, comments in comments, strings, hexadecimal escapes beyond a byte, white space with a NUL |
| `parser` | accepts the grammar's sentences and stops at the first token no sentence goes on with; operators bind as the grammar says; the cursor stays inside the tokens; no loop goes round in silence | 20 jobs, one per construct: its words and its neighbours', up to 5 to 10 tokens, 2.9 million states |
| `driver` | options are read as written; the exit status and the output are what the settings and inputs call for; Main is there when it is asked for; the compiler returns, but on an endless input | option files of up to 4 to 6 characters over six alphabets, eleven written ones, 223 file systems of up to two inputs, command lines of up to four arguments, outputs that cannot be opened; 214892 states |

The bounds are small in every direction a defect would need more of the same, and
large enough for the case at hand: a collision chain that wraps and is rehashed in the
middle, a cycle of length one and two through each kind of declaration, loops inside
switches inside loops, a name that leaves one block and enters the next, a value one
larger than its type holds, an input that redefines what the first one declared.  Scaled
widths keep the code's order of the integer types, and a condition's lowest byte is
narrower than what is tested in it.  `CHECK_DEADLOCK FALSE` is in all configurations: a
compilation ends, a function returns, and the tables have a bound on their growth.

Fairness is assumed in `Resolve`, `Lexer` and `Driver`: `WF_vars(Next)`.  The compiler is one
thread that runs until it returns; weak fairness of its whole next-state relation says just that,
and `Termination` is that the recursion bottoms out, that the loop of `lexer_tokenize` ends, and
that the driver, with the loops over the option file in it, exits, crashes, or has come to an
input that is lexed or parsed for ever.

## Proofs

`StringTable_proof` proves, for every set of keys, hash function and capacity, that
`TypeOK`, `FindTerminates`, `LoadBounded` and `EveryKeyFound` are invariants and
that `Spec => Map!Spec`.  The load bound is what keeps a search finite: an invariant
`IInv` has that fewer slots are used than there are (`Good` and `HasRoom`, for the
table and, while it grows, for the new array), that every key lies on its own probe
path with no empty slot before it, and that the new array holds exactly the keys of
the slots the cursor has passed.  `EveryKeyFound` alone is not inductive: a
`Rehash` needs to know that the rest of the old array has none of the keys of the
new one.  The refinement maps a growth and the set that caused it to one step of
the map, taken by `EndResize`.

`TypeCache_proof` proves `TypeOK` wherever objects lie: where two array types share a hash, a
declaration is given the wrong one of them, but never anything else than an array type.  It proves
`TypeAsDeclared` and `OneTypePerDeclaration` for every set of element counts, 0 among them, under
`AddressesApart`: no address has a one-bit where an element count or the dynamic flag may have
one.  `type_cache_high_heap` shows that the assumption is needed.  The invariant has two
parts: `Sound`, what a cache holds is what its key says, and `Full`, what was made is in its
cache, which holds until `Replaced`; `TypeOK` needs only that what a cache holds was made
(`Typed`).

`Resolve_proof` proves, for every set of names and every program over them, cyclic and wrong ones
and those with parameters that hide a name included, that `TypeOK`, `MarksOnStack` and
`CrashesAfterErrors` are invariants and that every step keeps what `ResolvedIsFinal` says.  What
it assumes of programs is that their declarations are what the parser builds (`Decls`).  None of
the four is inductive.  `Inv` adds, for each frame, what its place in its function implies
(`FrameOK`); for two neighbours, which call the lower one waits for (`Waits`); for the innermost
frame, what the answer it was given means (`Answered`): without an error a resolved name has a
type, and so has what `sema_resolve_type` returns.  `Marks` says without counting that the marked
names are the names of the calls at work and that no two calls work on one name, from which
`MarksOnStack` follows by the cardinality of an empty or one-element set, and `ResolvedIsFinal`
because a call at work on a name finds it marked, hence not resolved.  The proof has a lemma per
action; those that change no entry and no aggregate go through four lemmas (`QuietContinue`,
`QuietCall`, `QuietReturn`, `QuietEnd`).

`ResolveExact_proof` proves `TypesExact`, `SizesExact` and `ErrorsExact` for every program in
which no parameter has a name that is used elsewhere (`Clear`), from which follows that a name of
the program is never in the scope of a function.  These compare the analysis, which stores what it
finds and goes down as it needs to, with iterations over the whole program, so each is proved with
an invariant that says where between the two the analysis is.

* Types and sizes (`TypesInv`, `SizesInv`).  The reference follows names *k* times, and the
  invariant says it of every *k* from the number of resolved entries on: a resolved entry has
  the type that following names *k* times gives it.  What is resolved next needs one more.  A
  frame in a loop over fields or parameters says how far it has come (`Placed`), two neighbours
  which question the lower one asks (`Asks`), and the innermost frame what the answer means
  (`Told`).  Sizes go the same way, by the number of complete aggregates.
* No error is made up (`MistakesInv`).  From a root of the analysis a chain of needs leads
  through the calls at work to the innermost one (`Leading`, `Linked`, `Climb`), so an error
  for a missing name is one of something the program needs, and a mark that is met again
  (`Refused`) closes a cycle of needs.
* No error is overlooked (`SeenInv`).  What has been seen to, without an error so far, is
  closed under needs, and comes in an order in which it needs only what came before (`Past`,
  `Orders`, `Served`), so it never needs itself; in the end the roots are in it (`RootsSeen`).
  `NeededLeast` says that the reference is the least set of that kind.

`Parser_proof` proves `CursorInside` and `NoSilentRound` for every text, every function the
parser may start with and every depth of the C stack.  Most of it is about the functions as they
are written.  Each is made of instructions of a few shapes, nested at most six levels
(`Static`): a token is consumed behind a condition that does not hold at the EOF (`Stopping`),
and what consumes one without asking (`Daring`) stands only at the beginning of a branch, a
loop's body or a function that is entered in front of a token (`Bold`, `Ready`).  `parse_program`
skips a token after it looked for a declaration, so its way round its loop is followed
instruction by instruction (`Programming`, `Declaring`, `Aliasing`), up to the one case in which
it does step over the EOF, a text that ends in `alias` (`Excused`, `AliasLast`).
`NoSilentRound` is not inductive, since it says nothing between the beginning of a round and its
end.  The invariant adds that while a round has neither consumed a token nor reported (`Quiet`),
the innermost call is about to (`MovesOn`): the function it is in, or the next one it calls,
consumes or reports first (`Moving`, `Movers`).  Only two codes do not, and have a part of the
invariant each: the loop over the statements of a case, whose condition makes the first branch
of its body match (`Choosing`), and a program's declaration, which may return null and is
reported for it (`Announcing`).

`Lexer_proof` proves `TypeOK`, `LocationsExact`, `BytesExact` and `TokensExact` for every text;
all it assumes is that the sources are sequences of characters and the keywords of letters
(`SourcesAssumption`).  Its invariant `Inv` says of the cursor and of each token that their line
and column are those of their offset (`Exact`), until a number in front of a second dot has
moved the cursor back without them, and of each string that its bytes are what it spells
(`Spelt`).  Lines are counted as the line breaks before an offset, so one lemma
(`ReadingExact`) serves every action that reads on.  The loops of the code are recursive
functions in `Lexer` (`String`, `CommentEnd`, `Hex`).  That such a function obeys its
definition (`StringUnfolds`, `CommentUnfolds`, `HexUnfolds`), and what it computes, is shown
with a least counterexample, there being no induction here.

For `TokensExact` the invariant is `Split`: the tokens so far, followed by the lexemes of what is
ahead, are the lexemes of the text, for as long as no number has gone back over digits between
two dots.  So each action has to show that what it reads is the longest lexeme where it begins
(`WordLexeme`, `NumberLexeme`, ..., `NothingLexeme`): no other kind begins with the same
character (`FirstCharacter`), but for a slash, and a longer piece would hold a character the loop
stopped at.  Two of the definitions are not those of the code and have an argument of their own.
A string closes where the loop, which jumps over the character behind a backslash, first stands
on the quote: it stands on a place exactly if an even number of backslashes comes before
it (`StringExact`).  And the depth the code counts in a comment comes back to where it was
exactly where the inside of a comment, as nested pieces of text, ends (`CommentExact`).

`Driver_proof` proves `TypeOK`, `ExitExact` and `MainFound` for every command line, file system,
preload, text of an option file and set of files that cannot be opened, and that each token
`options_parse` asks for moves its cursor on or ends the parse (`EveryTokenCounts`), from which
its loops end, the one that passes over anything in front of a value included.  `ExitExact` speaks
of the last state only, so `Inv` says for each phase how much of it is decided:

* what is read of an option file (`Reading`): the cursor is inside the text, and there is an
  option for the entry that is read next;
* what the first arguments say (`SettingsRead`).  The settings after *n* arguments are those of
  the whole command line with the flags and inputs among the first *n* (`SettingsTo`), and
  argument *n* + 1 is no value (`ReadsTo`).  A lemma for each way a round of the loop goes
  (`ReadOutput`, `ReadVerb`, `ReadInput` and so on) takes *n* to the next, with the parity in
  `IsValue` turned into a statement about neighbours (`NextValue`);
* what is registered (`Compiling`): what parses of the preload and of the inputs so far, none of
  them missing and no name twice, which `Redefines` decides one input at a time
  (`RedefinesExact`);
* what is analysed (`Analyzed`): no part that the variables and functions lead to has a fault, and
  `Main` is declared, since the preload uses it (`MainDeclared`).  `Visiting` goes as many rounds
  as there are parts, the reference asks for some closed set without a fault.  That the rounds
  reach the least closed set (`VisitedClosed`, `VisitedLeast`, from which `FaultsExact`) is a
  matter of cardinalities: if no round were idle, there would be more parts than there are;
* how it ended (`ExitsExactly`), said of the variables: which of the conditions above failed, or
  whether what was left to fail was a file that could not be opened.

`Names_proof` proves `SameBinding` for every program under `SyntaxAssumption`: any names, any
nesting, any number of functions.  The property says nothing of the two tables, so the
invariant has one part for each walk.  `Analysis` is about `sema.c`:
what is left to do goes from inner statements to outer ones (`Steps`), a scope holds only
declarations that what is left of its block can see (`Chained`), and a declaration in sight is
in its scope or still to come (`InSight`).  From it every statement that was passed is `Done`:
its uses are resolved to declarations in sight, and if it declares a name no other declaration
of that name is in sight (`New`).  `Building` is about `lower.c`, which starts when all of that
holds: for each declaration that a statement left to do can see, the flat table has it, or it is
built before that statement (`Tabled`).  What could break it is another declaration of the
name that overwrites it, in an inner block or in a loop's body that is built before its
condition.  `Clash` shows that the one in sight would then be further on in the source, for by
`New` the other cannot see it: this is where the one rule of `sema.c` is used.  And what is
further on is still to be built (`Pending`), but for a body, which declares nothing in sight of
the condition or increment that follows it.  Paths replace induction over trees: a node is the
end of a trail from the body (`Trail`), and there is one trail to a path (`OneTrail`).

By TLC only: `AcceptsExactly` and `BindingStrength`, which compare with the recursive
`Grammar`; `ReadsExactly`, which compares with the recursive `OptionFile`; all of
`Initializers`, `Layout` and `Execution`; and liveness (`Termination`), which is out of the
prover's reach.  `Statements`, `Flow`, `Lower`, `Folding`, `Initializers`, `Layout`, `Grammar`
and `OptionFile` use recursive operators, which the prover does not take.

## Findings

* `type_cache_high_heap`: on a position-independent build, whose heap lies above 4 GB,
  arrays of different lengths can be given one type (`sema.c:209`).
* `execution_do_while`: the back edge of a do-while goes to the block its body *ended*
  in (`lower.c:744`).

Also seen while modelling, without a run of their own:

* Control flow.  A void function whose last statement is a loop or an if has a last block
  without a return, which is not the last one printed (`lower.c:941`).  A function with a result
  is accepted when it ends in a switch that has no default, or one with a case that may break
  before it returns (`sema.c:1046`); it then runs off its end, for which `sema.c:1166` has the
  error "not all control paths return a value".  A default that is
  not the last case hides the later ones, and one that shares its case with patterns is lost
  (`lower.c:839`).  An if that declares its condition crashes the compiler (`lower.c:674`).
* Declarations.  `assert(base_type->is_complete)` (`sema.c:200`) stops a Debug build on a
  sized array of a struct nothing laid out before, as `tests/hello.aa:159` has one
  (`phase = "aborted"` in `Resolve`), where a Release build takes the size 0.  The declared
  type of a variable with an initializer is dropped for the initializer's (`sema.c:890`;
  `tests/hello.aa:234` has `troll: u8 = 170;`).
  A type or field that is resolved for a function is looked up among that function's parameters
  first (`sema.c:1159`, `sema.c:179`): with `fun f(T: i64, s: S)`, a struct `S { x: T; }` is laid
  out with an `i64` whatever `T` is declared as, and has no error if it is not declared at all.
  A variable initialized with the name of a builtin type, `var V := i32;`, crashes the analysis
  without an error (`sema.c:717`).
* Types.  `&` makes a second pointer type for one base.  Where two array types meet, one made of
  the old pointer and one of the new, the compiler gives up on the conversion that `sema.c:420`
  announces ("Allow assigning a sized array to an unsized one").
  `T[0]` and `T[]` are one type, whichever was made first, with that one's size
  (`sema.c:209`, `sema.c:222`).
* Constants.  A value whose node was converted is computed in the converted type, whatever a cast
  in it says; a negative value loses its sign when it is read as a wider type, so `const B := -A`
  with `A` cast to `i64` is 2^32 - 1; a constant that reads a variable gets 0; a condition is its
  lowest byte (`eval.c:93`).  `&&` and `||` are an `assert` of the evaluation, and fold to nothing
  where it is compiled out.  A division by zero in a constant traps the compiler.
* Globals.  `~x` is emitted as `-x` (`lower.c:171`, `source.c:204`).  An initializer that
  reads a global declared later reads zero.  One that follows a function whose parameter has
  the global's name is emitted as a use of that parameter, which the C compiler rejects
  (`lower.c:918`).
* Layout.  Structs are printed in the order they were met, an aggregate before the aggregates in
  it, and arrays of aggregates before both (`source.c:378`).  An array of an aggregate that was
  never completed crashes the compiler where `assert` is compiled out (`bytecode.c:121`).  The
  offsets of globals do not count C's padding and take an aggregate in progress for empty, so
  globals may overlap.
* Lexer.  `..` after a number with a fraction has the fraction read again, `1.5..2` being `1.5`,
  `5.`, `..`, `2` (`lexer.c:97`, whose comment is "Make sure .. lexes properly."); the
  lower-case digits of a hexadecimal escape come out 32 too high (`lexer.c:127`).
* Driver.  The help prints `-d` as a flag that takes no value (`main.c:106`), and as the last
  argument it is turned away for want of one (`main.c:45`).  The complaint that there is no `Main`
  cannot be reached: the preload uses `Main`, so the analysis reports its absence before; nor can
  the one about the bytecode, `build_bytecode` always returning true (`main.c:179`).  A file to
  write to is used without asking whether it could be opened (`main.c:187`).  A declaration with
  an error inside it is registered, and the program is compiled with exit code 0 if the analysis
  does not come to look at it (`parser.c:968`, `parser.c:788`).

## Not modelled

Calls, fields, indices, compounds and strings in expressions, and lvalues other than names: their
types are analysed node by node without state that outlives the node.  Floating point.  The scopes
that statements open in a function's body are in `Names`, not in `Resolve`, where a function ends
with its parameters.  Functions whose switches have a default that is not last or shares its
case.  What the LLVM library makes of a file it cannot write.  Function types in the caches, enums
(they are aliases and constants to `sema.c`), types inside statements.  Where a node's location
and a literal's text come from in the parser; the escapes `\r`, `\t` and `\X`, which the lexer
treats like `\n` and `\x`.  The byte buffer of `bytecode.c`, which only the demonstration back
ends write to.  The LLVM back end is a translation to calls of a library; the arm64 and amd64 back
ends do not read the bytecode; the dumps print.  The unit test harness is not part of the
compiler.

## Plan

* Operands: the analysis and lowering of fields, indices, compounds and calls, composed with
  `Lower`, when it can share a run with what is there.
