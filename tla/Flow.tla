--------------------------------- MODULE Flow ---------------------------------
(***************************************************************************)
(* What sema.c checks of the control flow of a function body: that break   *)
(* and continue stand where they may, that a switch has one default, and   *)
(* that a function with a result returns one on all its control paths.     *)
(***************************************************************************)
EXTENDS Statements

\* The flags of a scope.  make_scope copies them from the parent.
Scope(b, c) == [can_break |-> b, can_continue |-> c]
FunctionScope == Scope(FALSE, FALSE)
InLoop == Scope(TRUE, TRUE)

Analyzed(returns, errors) == [returns |-> returns, errors |-> errors]
ErrorIf(b, e) == IF b THEN {e} ELSE {}
Defaults(cs) == {i \in DOMAIN cs : cs[i].is_default}

ErrorsIn(parts) == UNION {parts[i].errors : i \in DOMAIN parts}

\* Mutant: one case that returns is enough.
SomeCaseReturns(parts) == \E i \in DOMAIN parts : parts[i].returns

\* One statement that returns makes its block return.
BlockReturns(parts) == \E i \in DOMAIN parts : parts[i].returns

\* The flag starts as true: a switch returns when none of its cases does not,
\* with or without a default.
SwitchReturns(parts) == \A i \in DOMAIN parts : parts[i].returns

SwitchScope(scope) == Scope(TRUE, scope.can_continue)

RECURSIVE sema_analyze_statement(_, _)
sema_analyze_statement(s, scope) ==
  LET Parts(ss, sc) == [i \in DOMAIN ss |-> sema_analyze_statement(ss[i], sc)]
      Bodies(cs) == [i \in DOMAIN cs |-> cs[i].body]
  IN  CASE s.kind = "block" ->
             LET parts == Parts(s.statements, scope)
             IN  Analyzed(BlockReturns(parts), ErrorsIn(parts))
        [] s.kind = "if" ->
             LET parts == Parts(<<s.true, s.false>>, scope)
             IN  Analyzed(parts[1].returns /\ parts[2].returns, ErrorsIn(parts))
        [] s.kind \in {"while", "do while"} ->
             Analyzed(FALSE, sema_analyze_statement(s.body, InLoop).errors)
        [] s.kind = "for" ->
             Analyzed(FALSE, ErrorsIn(<<sema_analyze_statement(s.init, scope),
                                        sema_analyze_statement(s.step, scope),
                                        sema_analyze_statement(s.body, InLoop)>>))
        [] s.kind = "switch" ->
             LET parts == Parts(Bodies(s.cases), SwitchScope(scope))
                 two == \E i, j \in Defaults(s.cases) : i # j
             IN  Analyzed(SwitchReturns(parts),
                          ErrorsIn(parts) \cup ErrorIf(two, "multiple defaults"))
        [] s.kind = "break" -> Analyzed(FALSE, ErrorIf(~scope.can_break, "break"))
        [] s.kind = "continue" -> Analyzed(FALSE, ErrorIf(~scope.can_continue, "continue"))
        [] s.kind = "return" -> Analyzed(TRUE, {})
        [] s.kind = "effect" -> Analyzed(FALSE, {})

\* A function: its body, and whether it returns nothing.
Function(b, v) == [body |-> b, is_void |-> v]

sema_analyze_function(f) ==
  LET a == sema_analyze_statement(f.body, FunctionScope)
      conforms == a.returns \/ f.is_void
  IN  a.errors \cup ErrorIf(~conforms, "not all control paths return a value")

Accepted(f) == sema_analyze_function(f) = {}
=============================================================================
