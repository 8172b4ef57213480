---------------------------- MODULE Initializers -----------------------------
(***************************************************************************)
(* The global constants and variables of a program, from their             *)
(* declarations to the values they have when main starts: sema.c types     *)
(* them in the order they need each other, lower.c folds the constants     *)
(* with eval.c and builds the variables' initializers, in the order of the *)
(* declarations, into the function the program runs first.  Between them    *)
(* it lowers functions, whose parameters may have names of globals.        *)
(***************************************************************************)
EXTENDS Folding, Sequences

CONSTANT Programs  \* triples of sets: a program is a member of each put together, and
                   \* no declaration in it needs itself

VARIABLES
  program,  \* the declarations, and the parameters of functions
  phase,    \* "analyze", "preload", "build", "compile", "run", "done", "rejected"
  next,     \* the declaration the pass is at
  scope,    \* the entries sema.c resolved: const, type, the analysed tree
  globals,  \* the constants lower.c knows: type and printed value
  locals,   \* context->locals: the names of the function lowered last
  inits,    \* __atcc_init_globals: a store each, and the locals it reads
  memory    \* the variables of the running program

vars == <<program, phase, next, scope, globals, locals, inits, memory>>

None == [kind |-> "none"]
Declaration(name, kind, type, initializer) ==
  [name |-> name, kind |-> kind, type |-> type, initializer |-> initializer, parameters |-> {}]
Function(name, parameters) ==
  [Declaration(name, "function", NoType, None) EXCEPT !.parameters = parameters]

Declared(name) == CHOOSE d \in {program[i] : i \in DOMAIN program} : d.name = name
NamesOf(kind) == {program[i].name : i \in {j \in DOMAIN program : program[j].kind = kind}}
Names == NamesOf("const") \cup NamesOf("var")
Extend(f, x, v) == (x :> v) @@ f

RECURSIVE Uses(_)
Uses(e) ==
  CASE e.kind \in {"none", "number"} -> {}
    [] e.kind = "identifier" -> {e.name}
    [] e.kind = "paren" -> Uses(e.parent)
    [] e.kind \in {"unary", "cast"} -> Uses(e.target)
    [] e.kind = "binary" -> Uses(e.left) \cup Uses(e.right)
    [] e.kind = "ternary" -> Uses(e.condition) \cup Uses(e.yes) \cup Uses(e.no)

Init ==
  /\ \E p \in Programs : \E a \in p[1], b \in p[2], c \in p[3] : program = a \o b \o c
  /\ phase = "analyze"
  /\ next = 1
  /\ scope = <<>>
  /\ globals = <<>>
  /\ locals = {}
  /\ inits = <<>>
  /\ memory = <<>>

Pass(name, following) ==
  /\ phase = name
  /\ phase' = IF next = Len(program) THEN following ELSE name
  /\ next' = IF next = Len(program) THEN 1 ELSE next + 1
  /\ UNCHANGED program

-----------------------------------------------------------------------------
(* sema.c *)

\* sema_analyze_initializer.  An initializer's own type becomes the type of what
\* it initializes; a declared type has only to be one it converts to, as every
\* integer type is.
sema_analyze_initializer(d, entries) ==
  LET tree == IF d.initializer = None THEN None ELSE sema_analyze_expression(d.initializer, entries)
  IN  [const |-> d.kind = "const", tree |-> tree, type |-> IF tree = None THEN d.type ELSE tree.base]

\* sema_resolve_name: an entry is resolved when a use of its name is met, with
\* all it needs; analysing the same initializer again would change nothing.
RECURSIVE sema_resolve_name(_, _)
sema_resolve_name(name, entries) ==
  LET d == Declared(name)
      RECURSIVE ResolveAll(_, _)
      ResolveAll(S, known) ==
        IF S = {} THEN known
        ELSE LET n == CHOOSE n \in S : TRUE IN ResolveAll(S \ {n}, sema_resolve_name(n, known))
      known == ResolveAll(Uses(d.initializer), entries)
  IN  IF name \in DOMAIN entries THEN entries
      ELSE Extend(known, name, sema_analyze_initializer(d, known))

sema_analyze_variable ==
  /\ Pass("analyze", "preload")
  /\ scope' = IF program[next].kind = "function" THEN scope
              ELSE sema_resolve_name(program[next].name, scope)
  /\ UNCHANGED <<globals, locals, inits, memory>>

-----------------------------------------------------------------------------
(* lower.c, and the C program *)

\* The eight bytes of the folded value are printed and cast to the type.
build_preload_variable ==
  /\ Pass("preload", "build")
  /\ LET d == program[next]
         entry == scope[d.name]
     IN  /\ globals' = IF d.kind = "const"
               THEN Extend(globals, d.name, Value(entry.type, eval_expression(entry.tree)))
               ELSE globals
         /\ memory' = IF d.kind = "var" THEN Extend(memory, d.name, 0) ELSE memory
  /\ UNCHANGED <<scope, locals, inits>>

\* build_variable looks a name up among the locals before the globals, outside
\* of functions too.
build_variable(d) ==
  IF d.kind = "var" /\ d.initializer # None
    THEN <<[name |-> d.name, reads |-> Uses(d.initializer) \cap locals]>>
    ELSE <<>>

\* Mutants: the initializers are built last to first; the names of the functions
\* before stay.
BuildReversed ==
  /\ Pass("build", "compile")
  /\ locals' = IF program[next].kind = "function" THEN program[next].parameters ELSE locals
  /\ inits' = build_variable(program[next]) \o inits
  /\ UNCHANGED <<scope, globals, memory>>

BuildKeepingLocals ==
  /\ Pass("build", "compile")
  /\ locals' = locals \cup program[next].parameters
  /\ inits' = inits \o build_variable(program[next])
  /\ UNCHANGED <<scope, globals, memory>>

\* build_function starts with no locals, and leaves its own behind.
build_declaration ==
  /\ Pass("build", "compile")
  /\ locals' = IF program[next].kind = "function" THEN program[next].parameters ELSE locals
  /\ inits' = inits \o build_variable(program[next])
  /\ UNCHANGED <<scope, globals, memory>>

\* No C compiler takes a function that reads another one's variables.
CompileC ==
  /\ phase = "compile"
  /\ phase' = IF \A i \in DOMAIN inits : inits[i].reads = {} THEN "run" ELSE "rejected"
  /\ UNCHANGED <<program, next, scope, globals, locals, inits, memory>>

Loads ==
  [n \in Names |-> IF n \in DOMAIN globals THEN globals[n] ELSE Value(scope[n].type, memory[n])]

\* The program stores one variable after the other.
RunInitializer ==
  /\ phase = "run" /\ inits # <<>>
  /\ LET name == Head(inits).name
     IN  memory' = [memory EXCEPT ![name] =
                      Convert(build_expression(scope[name].tree, Loads).value, scope[name].type)]
  /\ inits' = Tail(inits)
  /\ UNCHANGED <<program, phase, next, scope, globals, locals>>

StartMain ==
  /\ phase = "run" /\ inits = <<>>
  /\ phase' = "done"
  /\ UNCHANGED <<program, next, scope, globals, locals, inits, memory>>

Next ==
  \/ sema_analyze_variable
  \/ build_preload_variable
  \/ build_declaration
  \/ CompileC
  \/ RunInitializer
  \/ StartMain

Spec == Init /\ [][Next]_vars

-----------------------------------------------------------------------------
(* What the initializers say: every operator does what it means on numbers  *)
(* and its result wraps around in the type of its node.                     *)

RECURSIVE Meaning(_)
Result(n) ==
  CASE n.kind = "number" -> n.number
    [] n.kind = "identifier" ->
         IF scope[n.name].tree = None THEN 0 ELSE Meaning(scope[n.name].tree)
    [] n.kind = "paren" -> Meaning(n.parent)
    [] n.kind = "unary" ->
         IF n.op = "+" THEN Meaning(n.target) ELSE UnaryResult(n.op, Meaning(n.target))
    [] n.kind = "binary" ->
         IF Logical(n.op) THEN LogicalResult(n.op, Meaning(n.left), Meaning(n.right))
         ELSE Operate(n.op, Meaning(n.left), Meaning(n.right))
    [] n.kind = "ternary" -> Meaning(IF Meaning(n.condition) # 0 THEN n.yes ELSE n.no)
    [] n.kind = "cast" -> Meaning(n.target)
Meaning(n) == Convert(Result(n), n.base)

\* The type eval.c writes the value of a node in.
RECURSIVE WrittenAs(_)
WrittenAs(n) ==
  CASE n.kind \in {"number", "binary", "cast"} -> node_type(n)
    [] n.kind = "identifier" -> WrittenAs(scope[n.name].tree)
    [] n.kind = "paren" -> WrittenAs(n.parent)
    [] n.kind = "unary" -> IF n.op = "+" THEN WrittenAs(n.target) ELSE "i32"
    [] n.kind = "ternary" -> WrittenAs(IF Meaning(n.condition) # 0 THEN n.yes ELSE n.no)

\* A value comes back as it was written: the reader's type has room for it, and
\* is no wider when the value is negative, as its sign is not carried on.
ReadBack(n, k) ==
  /\ Meaning(n) \in Range(k)
  /\ Meaning(n) < 0 => Width[k] <= Width[WrittenAs(n)]

\* What eval.c gets right: no variable is read, there is no "&&" or "||", nothing
\* is divided by zero or shifted too far, a condition that holds has a bit set in
\* its lowest byte, no value is read as a type it does not come back from, and none
\* has to wrap around in the type of a node that is computed in another.
RECURSIVE Folds(_)
Folds(n) ==
  LET Written == /\ Meaning(n) \in Range(WrittenAs(n))
                 /\ WrittenAs(n) = n.base \/ Result(n) \in Range(n.base)
  IN  CASE n.kind = "number" -> Written
        [] n.kind = "identifier" -> scope[n.name].const /\ Folds(scope[n.name].tree)
        [] n.kind = "paren" -> Folds(n.parent)
        [] n.kind = "unary" ->
             Folds(n.target) /\ (n.op # "+" => ReadBack(n.target, "i32") /\ Written)
        [] n.kind = "binary" ->
             /\ ~Logical(n.op) /\ Folds(n.left) /\ Folds(n.right) /\ Written
             /\ ~Undefined(n.op, Meaning(n.left), Meaning(n.right), Promoted(node_type(n)))
             /\ ReadBack(n.left, node_type(n)) /\ ReadBack(n.right, node_type(n))
        [] n.kind = "ternary" ->
             /\ Folds(n.condition) /\ Folds(n.yes) /\ Folds(n.no)
             /\ Meaning(n.condition) # 0 => Meaning(n.condition) % 2^Width["u8"] # 0
        [] n.kind = "cast" ->
             Folds(n.target) /\ ReadBack(n.target, IF Signed(node_type(n)) THEN "i64" ELSE "u64")
               /\ node_type(n) = n.base

FoldsConstant(name) == Folds(scope[name].tree) /\ ReadBack(scope[name].tree, scope[name].type)

\* What the C program gets right: constants that fold, variables stored before
\* they are read, no "~", and operands C does not change the sign of where that
\* matters; no operation C leaves undefined.
RECURSIVE Computes(_, _)
Computes(n, stored) ==
  CASE n.kind = "number" -> n.number \in Range(node_type(n))
    [] n.kind = "identifier" ->
         IF scope[n.name].const THEN FoldsConstant(n.name)
         ELSE scope[n.name].tree = None \/ (n.name \in DOMAIN stored /\ stored[n.name])
    [] n.kind = "paren" -> Computes(n.parent, stored)
    [] n.kind = "unary" -> Computes(n.target, stored) /\ n.op # "~"
    [] n.kind = "binary" ->
         /\ Computes(n.left, stored) /\ Computes(n.right, stored)
         /\ n.op \notin {"+", "-", "*", "&", "|", "^", "<<"} /\ ~Logical(n.op) =>
              {Meaning(n.left), Meaning(n.right)}
                \subseteq Range(Working(n.op, n.left.base, n.right.base))
         /\ ~Undefined(n.op, Meaning(n.left), Meaning(n.right),
                       Working(n.op, n.left.base, n.right.base))
    [] n.kind = "ternary" ->
         Computes(n.condition, stored) /\ Computes(n.yes, stored) /\ Computes(n.no, stored)
    [] n.kind = "cast" -> Computes(n.target, stored)

\* The variables that are right, in the order they are stored.
RightlyStored ==
  LET RECURSIVE Upto(_)
      Upto(i) ==
        IF i = 0 THEN <<>>
        ELSE LET d == program[i]
                 earlier == Upto(i - 1)
             IN  IF d.kind # "var" \/ d.initializer = None THEN earlier
                 ELSE Extend(earlier, d.name, Computes(scope[d.name].tree, earlier))
  IN  Upto(Len(program))

\* A constant has the value its initializer means, whatever is declared first,
\* as far as eval.c reads every value as what it was written as.
ConstantsFold ==
  phase = "done" =>
    \A n \in NamesOf("const") :
      FoldsConstant(n) => globals[n].value = Meaning(scope[n].tree)

\* A variable has the value its initializer means when main starts, as far as C
\* computes it in a type with room for its operands and the variables in it are
\* declared before it.
VariablesInitialised ==
  phase = "done" =>
    \A n \in DOMAIN RightlyStored :
      RightlyStored[n] => memory[n] = Meaning(scope[n].tree)

\* The function lowered last before the i-th declaration.
LastFunction(i) ==
  LET F == {j \in 1 .. i - 1 : program[j].kind = "function"}
  IN  IF F = {} THEN {} ELSE program[CHOOSE j \in F : \A k \in F : k <= j].parameters

\* The names in an initializer are globals, so the C compiles, unless the function
\* lowered last before it has a parameter of one of the names: functions before
\* that, and functions after it, do not matter.
InitializersBind ==
  phase = "rejected" =>
    \E i \in DOMAIN program :
      program[i].kind = "var" /\ Uses(program[i].initializer) \cap LastFunction(i) # {}

=============================================================================
