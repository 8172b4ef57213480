-------------------------------- MODULE Names ---------------------------------
(***************************************************************************)
(* What a name in a function stands for, twice: sema.c keeps a chain of    *)
(* scopes and looks a name up from the innermost outwards; lower.c has one *)
(* flat table of locals, which nothing is ever taken out of before the     *)
(* next function.  Both walk the statements of a body, in orders of their  *)
(* own.  A program with an error goes no further here than to its first.   *)
(***************************************************************************)
EXTENDS Naturals, Sequences

CONSTANTS
  Programs,   \* sequences of functions
  Statements, \* the statements in their bodies
  Globals     \* the names of the globals

VARIABLES
  program,   \* the functions: parameters and body
  phase,     \* "analyze", "build", "done", "failed" or "crashed"
  function,  \* the function it is at
  todo,      \* what is left of its body, the next statement first
  chain,     \* context->scope and its parents, the global scope first
  locals,    \* lower.c's table
  resolved,  \* the declaration sema.c found for each use of a name
  bound      \* the declaration whose variable lower.c reads there

vars == <<program, phase, function, todo, chain, locals, resolved, bound>>

Function(parameters, body) == [parameters |-> parameters, body |-> body]
Nothing == [kind |-> "nothing"]
Expression(uses) == [kind |-> "expression", uses |-> uses]
Declare(name, uses) == [kind |-> "init", name |-> name, uses |-> uses]
Compound(kind, parts) == [kind |-> kind, parts |-> parts]
Block(statements) == Compound("block", statements)
If(declared, condition, yes, no) == Compound("if", <<declared, condition, yes, no>>)
While(condition, body) == Compound("while", <<condition, body>>)
DoWhile(body, condition) == Compound("do while", <<condition, body>>)
For(init, condition, increment, body) == Compound("for", <<init, condition, increment, body>>)
Switch(value, bodies) == Compound("switch", <<value>> \o bodies)

\* What the parser builds: a condition of a "do" and an increment of a "for" do not
\* declare anything.
Leaf(s) == s.kind \in {"nothing", "expression", "init"}
Reads(s) == s.kind \in {"nothing", "expression"}

Parsed(s) ==
  /\ s.kind # "leave"
  /\ IF Leaf(s) THEN "parts" \notin DOMAIN s
     ELSE "parts" \in DOMAIN s /\ s.parts \in Seq(Statements)
  /\ s.kind = "do while" => Len(s.parts) = 2 /\ Reads(s.parts[1])
  /\ s.kind = "for" => Len(s.parts) = 4 /\ Reads(s.parts[3])

ASSUME SyntaxAssumption ==
  /\ \A s \in Statements : Parsed(s)
  /\ \A p \in Programs :
       /\ Len(p) \in Nat \ {0}
       /\ \A f \in 1 .. Len(p) : Parsed(p[f].body)

\* Of two functions, the first where it has a value.
Over(f, g) == [x \in DOMAIN f \cup DOMAIN g |-> IF x \in DOMAIN f THEN f[x] ELSE g[x]]

\* A node is where it is in the program: the function, the part of its body, the
\* part of that.  A parameter is at its function, a global nowhere.
Node(at, s) == [at |-> at, s |-> s]
Global == <<>>
Leave(node) == Node(node.at, [kind |-> "leave"])
Part(node, i) == Node(Append(node.at, i), node.s.parts[i])

Parameters(f) == [name \in program[f].parameters |-> <<f>>]
Body(f) == <<Node(<<f>>, program[f].body)>>
Next1 == Head(todo)
Is(kind) == Next1.s.kind = kind

Init ==
  /\ program \in Programs
  /\ phase = "analyze"
  /\ function = 1
  /\ todo = Body(1)
  /\ chain = <<[name \in Globals |-> Global], Parameters(1)>>
  /\ locals = <<>>
  /\ resolved = <<>>
  /\ bound = <<>>

-----------------------------------------------------------------------------
(* sema.c *)

\* Mutant: only the scope a name is declared in is asked whether it has it.
VisibleInnermost(name, scopes) == name \in DOMAIN scopes[Len(scopes)]

\* sema_get finds it somewhere.
Visible(name, scopes) == \E i \in DOMAIN scopes : name \in DOMAIN scopes[i]

sema_get(name) ==
  LET i == CHOOSE i \in DOMAIN chain :
             name \in DOMAIN chain[i] /\ \A j \in i + 1 .. Len(chain) : name \notin DOMAIN chain[j]
  IN  chain[i][name]

Known(uses) == \A name \in uses : \E i \in DOMAIN chain : name \in DOMAIN chain[i]
Resolve(node) ==
  resolved' = Over([u \in {<<node.at, name>> : name \in node.s.uses} |-> sema_get(u[2])], resolved)

Fail == phase' = "failed" /\ UNCHANGED <<program, function, todo, chain, locals, resolved, bound>>

\* An initializer is analysed before its name is declared.
sema_analyze_statement_init ==
  /\ phase = "analyze" /\ todo # <<>> /\ Is("init")
  /\ IF ~Known(Next1.s.uses) \/ Visible(Next1.s.name, chain)
       THEN Fail
       ELSE /\ Resolve(Next1)
            /\ chain' = [chain EXCEPT ![Len(chain)] = Over([n \in {Next1.s.name} |-> Next1.at], @)]
            /\ todo' = Tail(todo)
            /\ UNCHANGED <<program, phase, function, locals, bound>>

sema_analyze_expression ==
  /\ phase = "analyze" /\ todo # <<>> /\ Is("expression")
  /\ IF ~Known(Next1.s.uses)
       THEN Fail
       ELSE /\ Resolve(Next1)
            /\ todo' = Tail(todo)
            /\ UNCHANGED <<program, phase, function, chain, locals, bound>>

\* A block, an if, a loop and a switch each have a scope, for what they declare
\* and for a body without a block too.  A "do" has its condition analysed first,
\* a "for" its increment before its body.
sema_analyze_statement ==
  /\ phase = "analyze" /\ todo # <<>> /\ "parts" \in DOMAIN Next1.s
  /\ chain' = Append(chain, <<>>)
  /\ todo' = [i \in DOMAIN Next1.s.parts |-> Part(Next1, i)] \o <<Leave(Next1)>> \o Tail(todo)
  /\ UNCHANGED <<program, phase, function, locals, resolved, bound>>

RestoreScope ==
  /\ phase = "analyze" /\ todo # <<>> /\ Is("leave")
  /\ chain' = SubSeq(chain, 1, Len(chain) - 1)
  /\ todo' = Tail(todo)
  /\ UNCHANGED <<program, phase, function, locals, resolved, bound>>

Skip ==
  /\ phase \in {"analyze", "build"} /\ todo # <<>> /\ Is("nothing")
  /\ todo' = Tail(todo)
  /\ UNCHANGED <<program, phase, function, chain, locals, resolved, bound>>

\* The next function has a scope for its parameters, which may hide globals.
sema_analyze_function ==
  /\ phase = "analyze" /\ todo = <<>>
  /\ LET last == function = Len(program)
         f == IF last THEN 1 ELSE function + 1
     IN  /\ phase' = IF last THEN "build" ELSE phase
         /\ function' = f
         /\ todo' = Body(f)
         /\ chain' = IF last THEN SubSeq(chain, 1, 1) ELSE <<chain[1], Parameters(f)>>
         /\ locals' = IF last THEN Parameters(1) ELSE <<>>
  /\ UNCHANGED <<program, resolved, bound>>

-----------------------------------------------------------------------------
(* lower.c *)

\* build_resolve_name: among the locals, then the globals.
Bind(node) ==
  bound' = Over([u \in {<<node.at, name>> : name \in node.s.uses} |->
                   IF u[2] \in DOMAIN locals THEN locals[u[2]] ELSE Global], bound)

build_expression ==
  /\ phase = "build" /\ todo # <<>> /\ Is("expression")
  /\ Bind(Next1)
  /\ todo' = Tail(todo)
  /\ UNCHANGED <<program, phase, function, chain, locals, resolved>>

build_statement_init ==
  /\ phase = "build" /\ todo # <<>> /\ Is("init")
  /\ Bind(Next1)
  /\ locals' = Over([n \in {Next1.s.name} |-> Next1.at], locals)
  /\ todo' = Tail(todo)
  /\ UNCHANGED <<program, phase, function, chain, resolved>>

\* The order of the code: a "do" has its condition after its body, a "for" its
\* increment.
Order(s) ==
  CASE s.kind = "do while" -> <<2, 1>>
    [] s.kind = "for" -> <<1, 2, 4, 3>>
    [] OTHER -> [i \in DOMAIN s.parts |-> i]

\* An if that declares what it tests has the name looked up in the wrong node.
MisreadIf(s) == s.kind = "if" /\ s.parts[1] # Nothing /\ s.parts[2] = Nothing

build_statement ==
  /\ phase = "build" /\ todo # <<>> /\ "parts" \in DOMAIN Next1.s
  /\ IF MisreadIf(Next1.s)
       THEN phase' = "crashed" /\ UNCHANGED todo
       ELSE /\ todo' = [i \in DOMAIN Next1.s.parts |-> Part(Next1, Order(Next1.s)[i])] \o Tail(todo)
            /\ UNCHANGED phase
  /\ UNCHANGED <<program, function, chain, locals, resolved, bound>>

build_function ==
  /\ phase = "build" /\ todo = <<>>
  /\ IF function = Len(program)
       THEN phase' = "done" /\ UNCHANGED <<function, todo, locals>>
       ELSE /\ function' = function + 1
            /\ todo' = Body(function + 1)
            /\ locals' = Parameters(function + 1)
            /\ UNCHANGED phase
  /\ UNCHANGED <<program, chain, resolved, bound>>

Next ==
  \/ sema_analyze_statement_init
  \/ sema_analyze_expression
  \/ sema_analyze_statement
  \/ RestoreScope
  \/ Skip
  \/ sema_analyze_function
  \/ build_expression
  \/ build_statement_init
  \/ build_statement
  \/ build_function

Spec == Init /\ [][Next]_vars

-----------------------------------------------------------------------------

\* A name that sema.c accepted is the same variable in the code: the flat table,
\* out of which no block takes its names, never has the variable of a block that
\* has ended, nor one declared further on in a loop, in the place of the one in
\* scope.  It rests on no local being named like anything that is visible.
SameBinding == \A u \in DOMAIN bound : bound[u] = resolved[u]
=============================================================================
