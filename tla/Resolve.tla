------------------------------- MODULE Resolve -------------------------------
(***************************************************************************)
(* How sema.c gives the declarations of a program their types: it          *)
(* registers the names, then resolves and lays out on demand, in a         *)
(* recursive descent from each variable and function.  What stops the      *)
(* descent are two marks, the RESOLVING state of an entry and the          *)
(* is_resolving flag of an aggregate.  The C stack is a variable here: a   *)
(* frame is a call of the function it names, and an action runs the code   *)
(* between two calls or returns.                                           *)
(***************************************************************************)
EXTENDS Declarations

CONSTANTS
  Programs, \* the programs given to the compiler, sequences of declarations
  Builds    \* whether a build keeps assert(): all but Release builds do

ASSUME ProgramsAssumption == Programs \subseteq Seq(Decls) /\ Builds \subseteq BOOLEAN

VARIABLES
  program,    \* the parsed program
  asserts,    \* whether this build keeps assert()
  phase,      \* "register", "analyze", or how the compiler ended
  next,       \* the index of the declaration it is at
  entries,    \* the global scope: the entry of each registered name
  aggregates, \* the Type object of each registered aggregate
  arrays,     \* array_types: the size each array type was made with
  functions,  \* the functions whose node has its type already
  scope,      \* context->scope inside the global one: parameters and their types
  old_scope,  \* the scope that sema_analyze_function puts back
  stack,      \* the calls in progress, the innermost one last
  ret,        \* what the last call returned
  errors      \* the errors reported: of which kind, in which declaration

global == <<entries, aggregates, arrays, functions>>
local == <<scope, old_scope>>
scopes == <<global, local>>
input == <<program, asserts>>
vars == <<input, phase, next, scopes, stack, ret, errors>>

-----------------------------------------------------------------------------
(* Frames *)

Calls == {"sema_resolve_type", "sema_resolve_entry", "sema_complete_aggregate",
          "sema_analyze_initializer", "sema_resolve_function_type",
          "sema_analyze_variable", "sema_analyze_function"}

\* Where a call is: at its start, in a loop or about to return, or behind a call
\* it made: of a name, a type, a nested or used aggregate.
Places == {"start", "wrap", "items", "parameters", "return",
           "named", "type", "typed", "nested", "completed"}

\* One record for all: where the call is, its argument (a name or a type
\* expression), the type it works on, its loop counter and its running total.
Frames == [call : Calls, at : Places, name : Names \cup {Builtin, None}, expr : Types,
           type : Types, item : Nat \ {0}, size : Nat]

Frame(call, name, expr) ==
  [call |-> call, at |-> "start", name |-> name, expr |-> expr,
   type |-> NoType, item |-> 1, size |-> 0]

Top == stack[Len(stack)]
Callers == SubSeq(stack, 1, Len(stack) - 1)
At(call, place) ==
  phase = "analyze" /\ stack # <<>> /\ Top.call = call /\ Top.at = place

Continue(frame) == stack' = Append(Callers, frame)
CallFrom(frame, callee) == stack' = Append(Append(Callers, frame), callee)
Return(ok, type) == stack' = Callers /\ ret' = [ok |-> ok, type |-> type]
Here(place) == [Top EXCEPT !.at = place]

Report(kind) == errors' = errors \cup {<<kind, Top.name>>}
End(how) == phase' = how /\ stack' = <<>>

-----------------------------------------------------------------------------
(* Types *)

Decl(n) == program[entries[n].node]
IsAggregate(t) == t.wraps = <<>> /\ t.base \in DOMAIN aggregates
ArrayWrap(w) == w \in {"sized", "slice"}
LastWrap(t) == t.wraps[Len(t.wraps)]
Element(t) == [t EXCEPT !.wraps = SubSeq(@, 1, Len(@) - 1)]

\* type->size, which an array and an aggregate remember.
SizeOf(t) ==
  IF t.wraps = <<>>
    THEN IF t.base \in DOMAIN aggregates THEN aggregates[t.base].size ELSE 4
    ELSE IF ArrayWrap(LastWrap(t)) THEN arrays[t] ELSE POINTER_SIZE

\* needs_array_size: a sized array of an aggregate, of one dimension.
SizedOfAggregate(t) ==
  t.wraps # <<>> /\ LastWrap(t) = "sized" /\ IsAggregate(Element(t))

With(f, k, v) == [x \in DOMAIN f \cup {k} |-> IF x = k THEN v ELSE f[x]]

-----------------------------------------------------------------------------
(* Registering *)

Init ==
  /\ program \in Programs
  /\ asserts \in Builds
  /\ phase = "register"
  /\ next = 1
  /\ entries = [n \in {} |-> NoType]
  /\ aggregates = [n \in {} |-> NoType]
  /\ arrays = [t \in {} |-> 0]
  /\ functions = {}
  /\ scope = [n \in {} |-> NoType]
  /\ old_scope = scope
  /\ stack = <<>>
  /\ ret = [ok |-> TRUE, type |-> NoType]
  /\ errors = {}

\* One round of the loop of sema_register_program.  A name that is defined
\* twice is reported and registered all the same; from then on aggregates are
\* left without a type.
sema_register ==
  /\ phase = "register"
  /\ next <= Len(program)
  /\ LET d == program[next]
         succeeded == d.name \notin DOMAIN entries /\ errors = {}
         resolved == d.kind = "aggregate" /\ succeeded
     IN  /\ errors' = errors \cup
               (IF d.name \in DOMAIN entries THEN {<<"redefinition", d.name>>} ELSE {})
         /\ entries' = With(entries, d.name,
               [node |-> next,
                state |-> IF resolved THEN "RESOLVED" ELSE "UNRESOLVED",
                type |-> IF resolved THEN Plain(d.name) ELSE NoType])
         /\ aggregates' = IF resolved
               THEN With(aggregates, d.name,
                         [is_complete |-> FALSE, is_resolving |-> FALSE, size |-> 0])
               ELSE aggregates
  /\ next' = next + 1
  /\ UNCHANGED <<input, phase, arrays, functions, local, stack, ret>>

\* Mutant: the driver goes on after a redefinition.
RegisteredAnyway ==
  /\ phase = "register"
  /\ next > Len(program)
  /\ phase' = "analyze"
  /\ next' = 1
  /\ UNCHANGED <<input, scopes, stack, ret, errors>>

\* The driver goes on to sema_analyze when all names were registered.
Registered ==
  /\ phase = "register"
  /\ next > Len(program)
  /\ phase' = IF errors = {} THEN "analyze" ELSE "done"
  /\ next' = 1
  /\ UNCHANGED <<input, scopes, stack, ret, errors>>

-----------------------------------------------------------------------------
(* sema_resolve_type: the innermost name first, then the wraps around it.  *)
(* A name is looked up in the scope of the function being analysed first,  *)
(* wherever it is written: a parameter stands for its type.                *)

\* Mutant: a name that is not there goes unreported.
ResolveTypeNameSilently ==
  /\ At("sema_resolve_type", "start")
  /\ LET n == Top.expr.base
     IN  \/ /\ n \in DOMAIN entries \ DOMAIN scope
            /\ CallFrom(Here("named"), Frame("sema_resolve_entry", n, NoType))
         \/ /\ n \notin DOMAIN entries \ DOMAIN scope
            /\ Continue([Here("wrap") EXCEPT
                 !.type = IF n \in DOMAIN scope THEN scope[n]
                          ELSE IF n = Builtin THEN Plain(Builtin) ELSE NoType])
  /\ UNCHANGED <<input, phase, next, scopes, ret, errors>>

ResolveTypeName ==
  /\ At("sema_resolve_type", "start")
  /\ LET n == Top.expr.base
     IN  \/ /\ n \in DOMAIN scope
            /\ Continue([Here("wrap") EXCEPT !.type = scope[n]])
            /\ UNCHANGED errors
         \/ /\ n = Builtin /\ n \notin DOMAIN scope
            /\ Continue([Here("wrap") EXCEPT !.type = Plain(Builtin)])
            /\ UNCHANGED errors
         \/ /\ n # Builtin /\ n \notin DOMAIN entries \cup DOMAIN scope
            /\ Report("not defined")
            /\ Continue(Here("wrap"))
         \/ /\ n \in DOMAIN entries \ DOMAIN scope
            /\ CallFrom(Here("named"), Frame("sema_resolve_entry", n, NoType))
            /\ UNCHANGED errors
  /\ UNCHANGED <<input, phase, next, scopes, ret>>

\* Mutant: an alias stands for itself.
ResolveTypeNamedUnfollowed ==
  /\ At("sema_resolve_type", "named")
  /\ IF ret.ok
       THEN Continue([Here("wrap") EXCEPT !.type = Plain(Top.expr.base)]) /\ UNCHANGED errors
       ELSE Continue(Here("wrap")) /\ Report("not defined")
  /\ UNCHANGED <<input, phase, next, scopes, ret>>

ResolveTypeNamed ==
  /\ At("sema_resolve_type", "named")
  /\ \/ /\ ret.ok
        /\ Continue([Here("wrap") EXCEPT !.type = entries[Top.expr.base].type])
        /\ UNCHANGED errors
     \/ /\ ~ret.ok
        /\ Report("not defined")
        /\ Continue(Here("wrap"))
  /\ UNCHANGED <<input, phase, next, scopes, ret>>

\* A pointer may point to the null type; an array looks at its element type.
\* The size of an array is what its element's size is when it is made.
ResolveTypeWrap ==
  /\ At("sema_resolve_type", "wrap")
  /\ Top.item <= Len(Top.expr.wraps)
  /\ LET w == Top.expr.wraps[Top.item]
         made == Wrap(Top.type, w)
         size == IF w = "sized" THEN Count * SizeOf(Top.type) + POINTER_SIZE
                                ELSE 2 * POINTER_SIZE
         Wrapped == Continue([Top EXCEPT !.type = made, !.item = @ + 1])
     IN  \/ /\ ArrayWrap(w) /\ Top.type = NoType
            /\ End("crashed")
            /\ UNCHANGED arrays
         \/ /\ w = "sized" /\ IsAggregate(Top.type) /\ asserts
            /\ ~aggregates[Top.type.base].is_complete
            /\ End("aborted")
            /\ UNCHANGED arrays
         \/ /\ ArrayWrap(w) /\ Top.type # NoType
            /\ w = "sized" /\ IsAggregate(Top.type) /\ asserts =>
                 aggregates[Top.type.base].is_complete
            /\ arrays' = IF made \in DOMAIN arrays THEN arrays ELSE With(arrays, made, size)
            /\ Wrapped
            /\ UNCHANGED phase
         \/ /\ ~ArrayWrap(w)
            /\ Wrapped
            /\ UNCHANGED <<arrays, phase>>
  /\ UNCHANGED <<input, next, entries, aggregates, functions, local, ret, errors>>

ResolveTypeReturn ==
  /\ At("sema_resolve_type", "wrap")
  /\ Top.item > Len(Top.expr.wraps)
  /\ Return(Top.type # NoType, Top.type)
  /\ UNCHANGED <<input, phase, next, scopes, errors>>

-----------------------------------------------------------------------------
(* sema_resolve_entry *)

\* Mutant: an entry that is being resolved is waited for.
ResolveEntryWaits ==
  /\ At("sema_resolve_entry", "start")
  /\ entries[Top.name].state = "RESOLVED"
  /\ Return(TRUE, NoType)
  /\ UNCHANGED <<input, phase, next, scopes, errors>>

ResolveEntryMarked ==
  /\ At("sema_resolve_entry", "start")
  /\ \/ /\ entries[Top.name].state = "RESOLVED"
        /\ Return(TRUE, NoType)
        /\ UNCHANGED errors
     \/ /\ entries[Top.name].state = "RESOLVING"
        /\ Report("cyclic type definition")
        /\ Return(FALSE, NoType)
  /\ UNCHANGED <<input, phase, next, scopes>>

ResolveEntryCall ==
  /\ At("sema_resolve_entry", "start")
  /\ entries[Top.name].state = "UNRESOLVED"
  /\ entries' = [entries EXCEPT ![Top.name].state = "RESOLVING"]
  /\ LET d == Decl(Top.name)
         Typed(callee) == CallFrom(Here("typed"), callee)
     IN  \/ d.kind = "alias" /\ Typed(Frame("sema_resolve_type", d.name, d.types[1]))
         \/ d.kind = "variable" /\ Typed(Frame("sema_analyze_initializer", d.name, NoType))
         \/ d.kind = "function" /\ Typed(Frame("sema_resolve_function_type", d.name, NoType))
  /\ UNCHANGED <<input, phase, next, aggregates, arrays, functions, local, ret, errors>>

\* Mutant: the mark stays when the type is null.
ResolveEntryKeepsMarkOfNull ==
  /\ At("sema_resolve_entry", "typed")
  /\ entries' = [entries EXCEPT ![Top.name].type = ret.type,
       ![Top.name].state = IF ret.type = NoType THEN "RESOLVING" ELSE "RESOLVED"]
  /\ Return(TRUE, NoType)
  /\ UNCHANGED <<input, phase, next, aggregates, arrays, functions, local, errors>>

\* The entry is resolved whatever came back, even the null type.
ResolveEntryReturn ==
  /\ At("sema_resolve_entry", "typed")
  /\ entries' = [entries EXCEPT ![Top.name].state = "RESOLVED",
                                ![Top.name].type = ret.type]
  /\ Return(TRUE, NoType)
  /\ UNCHANGED <<input, phase, next, aggregates, arrays, functions, local, errors>>

-----------------------------------------------------------------------------
(* sema_complete_aggregate, with the loop body of                          *)
(* sema_resolve_aggregate_item in it                                       *)

CompleteMarked ==
  /\ At("sema_complete_aggregate", "start")
  /\ \/ aggregates[Top.name].is_complete /\ Return(TRUE, NoType)
     \/ /\ ~aggregates[Top.name].is_complete /\ aggregates[Top.name].is_resolving
        /\ Return(FALSE, NoType)
  /\ UNCHANGED <<input, phase, next, scopes, errors>>

\* Mutant: a layout starts although it is done.
CompleteStartAgain ==
  /\ At("sema_complete_aggregate", "start")
  /\ ~aggregates[Top.name].is_resolving
  /\ aggregates' = [aggregates EXCEPT ![Top.name].is_resolving = TRUE]
  /\ Continue(Here("items"))
  /\ UNCHANGED <<input, phase, next, entries, arrays, functions, local, ret, errors>>

CompleteStart ==
  /\ At("sema_complete_aggregate", "start")
  /\ ~aggregates[Top.name].is_complete /\ ~aggregates[Top.name].is_resolving
  /\ aggregates' = [aggregates EXCEPT ![Top.name].is_resolving = TRUE]
  /\ Continue(Here("items"))
  /\ UNCHANGED <<input, phase, next, entries, arrays, functions, local, ret, errors>>

CompleteItem ==
  /\ At("sema_complete_aggregate", "items")
  /\ Top.item <= Len(Decl(Top.name).counts)
  /\ CallFrom(Here("typed"),
              Frame("sema_resolve_type", Top.name, Decl(Top.name).types[Top.item]))
  /\ UNCHANGED <<input, phase, next, scopes, ret, errors>>

\* What the item adds, and on to the next one.
Add(size) ==
  Continue([Here("items") EXCEPT
    !.item = @ + 1, !.size = @ + Counted(Decl(Top.name).counts[Top.item], size)])

\* Mutant: the size of a nested aggregate is read without laying it out.
CompleteItemTypedEarly ==
  /\ At("sema_complete_aggregate", "typed")
  /\ IF ret.type = NoType THEN Add(0) ELSE Add(SizeOf(ret.type))
  /\ UNCHANGED <<input, phase, next, scopes, ret, errors>>

CompleteItemTyped ==
  /\ At("sema_complete_aggregate", "typed")
  /\ LET t == ret.type
         Nested(n) == CallFrom([Here("nested") EXCEPT !.type = t],
                               Frame("sema_complete_aggregate", n, NoType))
     IN  \/ t = NoType /\ Add(0)
         \/ (IsAggregate(t) \/ SizedOfAggregate(t)) /\ Nested(t.base)
         \/ t # NoType /\ ~IsAggregate(t) /\ ~SizedOfAggregate(t) /\ Add(SizeOf(t))
  /\ UNCHANGED <<input, phase, next, scopes, ret, errors>>

\* Mutant: an aggregate in itself goes unreported.
CompleteItemNestedSilently ==
  /\ At("sema_complete_aggregate", "nested")
  /\ Add(SizeOf(Top.type))
  /\ UNCHANGED <<input, phase, next, scopes, ret, errors>>

CompleteItemNested ==
  /\ At("sema_complete_aggregate", "nested")
  /\ \/ ret.ok /\ Add(SizeOf(Top.type)) /\ UNCHANGED errors
     \/ ~ret.ok /\ Report("incomplete aggregate") /\ Add(0)
  /\ UNCHANGED <<input, phase, next, scopes, ret>>

CompleteReturn ==
  /\ At("sema_complete_aggregate", "items")
  /\ Top.item > Len(Decl(Top.name).counts)
  /\ aggregates' = [aggregates EXCEPT ![Top.name] =
       [is_complete |-> TRUE, is_resolving |-> FALSE, size |-> Top.size]]
  /\ Return(TRUE, NoType)
  /\ UNCHANGED <<input, phase, next, entries, arrays, functions, local, errors>>

-----------------------------------------------------------------------------
(* sema_analyze_initializer, for a declared type or for the type of the    *)
(* name in the initializer                                                 *)

\* The entry of a builtin type has no node, and entry->node->kind is read.
InitializerStart ==
  /\ At("sema_analyze_initializer", "start")
  /\ LET d == Decl(Top.name)
     IN  \/ /\ d.init = None
            /\ CallFrom(Here("typed"), Frame("sema_resolve_type", d.name, d.types[1]))
            /\ UNCHANGED <<phase, errors>>
         \/ /\ d.init \in DOMAIN scope
            /\ Continue([Here("return") EXCEPT !.type = scope[d.init]])
            /\ UNCHANGED <<phase, errors>>
         \/ /\ d.init = Builtin /\ d.init \notin DOMAIN scope
            /\ End("crashed")
            /\ UNCHANGED errors
         \/ /\ d.init \in DOMAIN entries \ DOMAIN scope
            /\ CallFrom(Here("named"), Frame("sema_resolve_entry", d.init, NoType))
            /\ UNCHANGED <<phase, errors>>
         \/ /\ d.init \notin DOMAIN entries \cup DOMAIN scope \cup {Builtin, None}
            /\ Report("undefined symbol")
            /\ Continue(Here("return"))
            /\ UNCHANGED phase
  /\ UNCHANGED <<input, next, scopes, ret>>

\* resolved->kind is read before anything else.
InitializerTyped ==
  /\ At("sema_analyze_initializer", "typed")
  /\ LET t == ret.type
         typed == [Here("return") EXCEPT !.type = t]
     IN  \/ t = NoType /\ End("crashed")
         \/ /\ IsAggregate(t)
            /\ CallFrom([typed EXCEPT !.at = "completed"],
                        Frame("sema_complete_aggregate", t.base, NoType))
            /\ UNCHANGED phase
         \/ t # NoType /\ ~IsAggregate(t) /\ Continue(typed) /\ UNCHANGED phase
  /\ UNCHANGED <<input, next, scopes, ret, errors>>

\* An identifier has the type of its entry; one that names an aggregate has it
\* laid out.
InitializerNamed ==
  /\ At("sema_analyze_initializer", "named")
  /\ LET m == Decl(Top.name).init
         typed == [Here("return") EXCEPT !.type = entries[m].type]
     IN  \/ /\ ~ret.ok
            /\ Report("undefined symbol")
            /\ Continue(Here("return"))
         \/ /\ ret.ok /\ Decl(m).kind = "aggregate"
            /\ CallFrom([typed EXCEPT !.at = "completed"],
                        Frame("sema_complete_aggregate", m, NoType))
            /\ UNCHANGED errors
         \/ /\ ret.ok /\ Decl(m).kind # "aggregate"
            /\ Continue(typed)
            /\ UNCHANGED errors
  /\ UNCHANGED <<input, phase, next, scopes, ret>>

InitializerCompleted ==
  /\ At("sema_analyze_initializer", "completed")
  /\ \/ ret.ok /\ Continue(Here("return")) /\ UNCHANGED errors
     \/ /\ ~ret.ok
        /\ Report("incomplete type")
        /\ Continue([Here("return") EXCEPT !.type = NoType])
  /\ UNCHANGED <<input, phase, next, scopes, ret>>

InitializerReturn ==
  /\ At("sema_analyze_initializer", "return")
  /\ Return(Top.type # NoType, Top.type)
  /\ UNCHANGED <<input, phase, next, scopes, errors>>

-----------------------------------------------------------------------------
(* sema_resolve_function_type: the parameters, then the return type *)

FunctionTypeItem ==
  /\ At("sema_resolve_function_type", "start")
  /\ Top.name \notin functions
  /\ Top.item <= Len(Decl(Top.name).types)
  /\ CallFrom(Here("typed"),
              Frame("sema_resolve_type", Top.name, Decl(Top.name).types[Top.item]))
  /\ UNCHANGED <<input, phase, next, scopes, ret, errors>>

FunctionTypeTyped ==
  /\ At("sema_resolve_function_type", "typed")
  /\ \/ ret.type = NoType /\ Return(FALSE, NoType)
     \/ ret.type # NoType /\ Continue([Here("start") EXCEPT !.item = @ + 1]) /\ UNCHANGED ret
  /\ UNCHANGED <<input, phase, next, scopes, errors>>

FunctionTypeReturn ==
  /\ At("sema_resolve_function_type", "start")
  /\ Top.name \in functions \/ Top.item > Len(Decl(Top.name).types)
  /\ functions' = functions \cup {Top.name}
  /\ Return(TRUE, Wrap(Plain(Top.name), "function"))
  /\ UNCHANGED <<input, phase, next, entries, aggregates, arrays, local, errors>>

-----------------------------------------------------------------------------
(* sema_analyze: one declaration after the other *)

AnalyzeDeclaration ==
  /\ phase = "analyze" /\ stack = <<>>
  /\ next <= Len(program)
  /\ LET d == program[next]
     IN  \/ /\ d.kind = "variable"
            /\ stack' = <<Frame("sema_analyze_variable", d.name, NoType)>>
         \/ /\ d.kind = "function"
            /\ stack' = <<Frame("sema_analyze_function", d.name, NoType)>>
         \/ d.kind \notin {"variable", "function"} /\ UNCHANGED stack
  /\ next' = next + 1
  /\ UNCHANGED <<input, phase, scopes, ret, errors>>

Analyzed ==
  /\ phase = "analyze" /\ stack = <<>>
  /\ next > Len(program)
  /\ phase' = "done"
  /\ UNCHANGED <<input, next, scopes, stack, ret, errors>>

\* The variable is looked up by its name, and may find a parameter of a function
\* whose analysis failed.
AnalyzeVariableStart ==
  /\ At("sema_analyze_variable", "start")
  /\ LET n == Top.name
     IN  \/ /\ n \notin DOMAIN scope
            /\ CallFrom(Here("named"), Frame("sema_resolve_entry", n, NoType))
         \/ /\ n \in DOMAIN scope /\ IsAggregate(scope[n])
            /\ CallFrom(Here("completed"),
                        Frame("sema_complete_aggregate", scope[n].base, NoType))
         \/ /\ n \in DOMAIN scope /\ ~IsAggregate(scope[n])
            /\ stack' = Callers
  /\ UNCHANGED <<input, phase, next, scopes, ret, errors>>

AnalyzeVariableNamed ==
  /\ At("sema_analyze_variable", "named")
  /\ LET t == entries[Top.name].type
     IN  \/ (~ret.ok \/ t = NoType) /\ End("crashed")
         \/ /\ ret.ok /\ IsAggregate(t)
            /\ CallFrom(Here("completed"), Frame("sema_complete_aggregate", t.base, NoType))
            /\ UNCHANGED phase
         \/ /\ ret.ok /\ t # NoType /\ ~IsAggregate(t)
            /\ stack' = Callers
            /\ UNCHANGED phase
  /\ UNCHANGED <<input, next, scopes, ret, errors>>

AnalyzeVariableCompleted ==
  /\ At("sema_analyze_variable", "completed")
  /\ IF ret.ok THEN UNCHANGED errors ELSE Report("failed to complete")
  /\ stack' = Callers
  /\ UNCHANGED <<input, phase, next, scopes, ret>>

AnalyzeFunctionStart ==
  /\ At("sema_analyze_function", "start")
  /\ CallFrom(Here("type"), Frame("sema_resolve_function_type", Top.name, NoType))
  /\ UNCHANGED <<input, phase, next, scopes, ret, errors>>

\* A scope of its own, in the one there is.
AnalyzeFunctionTyped ==
  /\ At("sema_analyze_function", "type")
  /\ \/ ~ret.ok /\ stack' = Callers /\ UNCHANGED old_scope
     \/ ret.ok /\ Continue(Here("parameters")) /\ old_scope' = scope
  /\ UNCHANGED <<input, phase, next, global, scope, ret, errors>>

\* The parameters once more, now to be laid out; the return type is not.
AnalyzeFunctionParameter ==
  /\ At("sema_analyze_function", "parameters")
  /\ Top.item <= Len(Decl(Top.name).params)
  /\ CallFrom(Here("typed"),
              Frame("sema_resolve_type", Top.name, Decl(Top.name).types[Top.item]))
  /\ UNCHANGED <<input, phase, next, scopes, ret, errors>>

\* The parameter is in scope from here on, for the types of the next ones too.
Put(t) ==
  /\ scope' = With(scope, Decl(Top.name).params[Top.item], t)
  /\ Continue([Here("parameters") EXCEPT !.item = @ + 1])

AnalyzeFunctionParameterTyped ==
  /\ At("sema_analyze_function", "typed")
  /\ LET t == ret.type
     IN  \/ t = NoType /\ End("crashed") /\ UNCHANGED scope
         \/ /\ IsAggregate(t)
            /\ CallFrom([Here("completed") EXCEPT !.type = t],
                        Frame("sema_complete_aggregate", t.base, NoType))
            /\ UNCHANGED <<phase, scope>>
         \/ t # NoType /\ ~IsAggregate(t) /\ Put(t) /\ UNCHANGED phase
  /\ UNCHANGED <<input, next, global, old_scope, ret, errors>>

\* The way out after an error leaves the scope of the function behind.
AnalyzeFunctionCompleted ==
  /\ At("sema_analyze_function", "completed")
  /\ \/ ret.ok /\ Put(Top.type) /\ UNCHANGED errors
     \/ /\ ~ret.ok
        /\ Report("incomplete aggregate")
        /\ stack' = Callers
        /\ UNCHANGED scope
  /\ UNCHANGED <<input, phase, next, global, old_scope, ret>>

AnalyzeFunctionReturn ==
  /\ At("sema_analyze_function", "parameters")
  /\ Top.item > Len(Decl(Top.name).params)
  /\ stack' = Callers
  /\ scope' = old_scope
  /\ UNCHANGED <<input, phase, next, global, old_scope, ret, errors>>

-----------------------------------------------------------------------------

sema_resolve_type ==
  ResolveTypeName \/ ResolveTypeNamed \/ ResolveTypeWrap \/ ResolveTypeReturn
sema_resolve_entry == ResolveEntryMarked \/ ResolveEntryCall \/ ResolveEntryReturn
sema_complete_aggregate ==
  \/ CompleteMarked \/ CompleteStart \/ CompleteItem \/ CompleteItemTyped
  \/ CompleteItemNested \/ CompleteReturn
sema_analyze_initializer ==
  \/ InitializerStart \/ InitializerTyped \/ InitializerNamed
  \/ InitializerCompleted \/ InitializerReturn
sema_resolve_function_type == FunctionTypeItem \/ FunctionTypeTyped \/ FunctionTypeReturn
sema_analyze_variable ==
  AnalyzeVariableStart \/ AnalyzeVariableNamed \/ AnalyzeVariableCompleted
sema_analyze_function ==
  \/ AnalyzeFunctionStart \/ AnalyzeFunctionTyped \/ AnalyzeFunctionParameter
  \/ AnalyzeFunctionParameterTyped \/ AnalyzeFunctionCompleted \/ AnalyzeFunctionReturn

Next ==
  \/ sema_register \/ Registered
  \/ AnalyzeDeclaration \/ Analyzed
  \/ sema_resolve_type \/ sema_resolve_entry \/ sema_complete_aggregate
  \/ sema_analyze_initializer \/ sema_resolve_function_type
  \/ sema_analyze_variable \/ sema_analyze_function

\* The compiler is one thread that does not stop on its own.
Spec == Init /\ [][Next]_vars /\ WF_vars(Next)

-----------------------------------------------------------------------------
(* Properties *)

Ends == {"done", "crashed", "aborted"}

\* "Every aggregate should be resolved as we never make an unresolved one":
\* registering stops short of that after a redefinition, and the analysis does
\* not start then.
TypeOK ==
  /\ program \in Seq(Decls)
  /\ phase \in {"register", "analyze"} \cup Ends
  /\ next \in 1 .. Len(program) + 1
  /\ DOMAIN entries \subseteq Names
  /\ \A n \in DOMAIN entries :
       entries[n] \in [node : DOMAIN program, type : Types,
                       state : {"UNRESOLVED", "RESOLVING", "RESOLVED"}]
  /\ DOMAIN aggregates \subseteq DOMAIN entries
  /\ \A n \in DOMAIN aggregates :
       aggregates[n] \in [is_complete : BOOLEAN, is_resolving : BOOLEAN, size : Nat]
  /\ DOMAIN arrays \subseteq Types
  /\ \A t \in DOMAIN arrays : arrays[t] \in Nat
  /\ functions \subseteq DOMAIN entries
  /\ DOMAIN scope \cup DOMAIN old_scope \subseteq Names \cup {Builtin}
  /\ \A n \in DOMAIN scope : scope[n] \in Types
  /\ \A n \in DOMAIN old_scope : old_scope[n] \in Types
  /\ stack \in Seq(Frames)
  /\ ret \in [ok : BOOLEAN, type : Types]
  /\ phase = "analyze" =>
       \A i \in DOMAIN program : program[i].kind = "aggregate" =>
         /\ program[i].name \in DOMAIN aggregates
         /\ entries[program[i].name].state = "RESOLVED"
         /\ entries[program[i].name].type = Plain(program[i].name)

\* The calls of a function with a mark that are past looking at it.
Inside(call, n) ==
  {i \in DOMAIN stack : stack[i].call = call /\ stack[i].name = n /\ stack[i].at # "start"}

\* The marks tell what is on the C stack: an entry is RESOLVING, an aggregate
\* is_resolving, exactly while a call is at work on it, and then one call only,
\* however the declarations refer to each other: this is what bounds the
\* recursion.  A mark left behind would make the next use of a good type a
\* cyclic one.
MarksOnStack ==
  phase \notin {"crashed", "aborted"} =>
    /\ \A n \in DOMAIN entries :
         Cardinality(Inside("sema_resolve_entry", n)) =
           IF entries[n].state = "RESOLVING" THEN 1 ELSE 0
    /\ \A n \in DOMAIN aggregates :
         Cardinality(Inside("sema_complete_aggregate", n)) =
           IF aggregates[n].is_resolving THEN 1 ELSE 0

\* No build reports an error in a program that has a meaning, and where
\* assert() guards the layouts they are right both ways: a program the analysis
\* gets through has none exactly if all that its variables and functions need
\* is declared, once, and nothing needs itself.  A program in which a parameter
\* has a name that is used elsewhere is not spoken of: what is resolved on behalf
\* of its function finds the parameter.
ErrorsExact ==
  phase \in Ends /\ ~Shadows(program) =>
    LET wrong == Redefines(program) \/ Meaningless(program)
    IN  /\ errors # {} => wrong
        /\ phase = "done" /\ asserts /\ wrong => errors # {}

\* When nothing is wrong and assert() is on, an aggregate is laid out with the sizes its
\* fields turn out to have, and an array type is as large as its elements: no
\* size is read before it is known.  Parameters that hide a name are left out.
SizesExact ==
  phase \in Ends /\ errors = {} /\ asserts /\ ~Shadows(program) =>
    LET sizes == Sizes(program)
    IN  /\ \A n \in DOMAIN aggregates :
             aggregates[n].is_complete => aggregates[n].size = sizes[n]
        /\ \A t \in DOMAIN arrays : arrays[t] = SizeBy(sizes, t)

\* An entry denotes what its declaration says, through every alias, inferred
\* variable and function on the way, when no parameter hides a name.
TypesExact ==
  phase \in Ends /\ errors = {} /\ ~Shadows(program) =>
    LET D == Denotations(program)
    IN  \A n \in DOMAIN entries :
          entries[n].state = "RESOLVED" => entries[n].type = D[n]

\* A null type is followed only when an error has been reported.  What else
\* crashes the analysis is a variable whose initializer is the name of a builtin
\* type, and nothing more: every other program is analysed, shadowed names or not.
CrashesAfterErrors ==
  phase = "crashed" => errors # {} \/ \E i \in DOMAIN program : program[i].init = Builtin

\* What is resolved or laid out stays as it is.
ResolvedIsFinal ==
  [][/\ \A n \in DOMAIN entries :
          entries[n].state = "RESOLVED" /\ phase = "analyze" => entries'[n] = entries[n]
     /\ \A n \in DOMAIN aggregates :
          aggregates[n].is_complete => aggregates'[n] = aggregates[n]
     /\ \A t \in DOMAIN arrays : arrays'[t] = arrays[t]]_vars

\* The descent ends, on every program, cyclic ones included.
Termination == <>(phase \in Ends)
=============================================================================
