------------------------------ MODULE Execution ------------------------------
(***************************************************************************)
(* A function body, run twice side by side: as the statements it is        *)
(* written with, and as the C function that emit/source.c prints for the   *)
(* blocks of lower.c.  Both evaluate the same atoms to the same values for *)
(* as long as they agree on what to evaluate.                              *)
(***************************************************************************)
EXTENDS Flow, Lower, FiniteSets

CONSTANTS
  Functions,  \* the functions given to the compiler
  Values      \* the values each atom may be evaluated to, by its name

ASSUME ValuesAssumption == \A n \in DOMAIN Values : Values[n] \subseteq Nat

VARIABLES
  function, \* the function, accepted by sema.c
  build,    \* what lower.c made of it
  source,   \* the reference machine, running the statements
  target    \* the C function: the block, the next instruction, the variables

vars == <<function, build, source, target>>

blocks == build.blocks

-----------------------------------------------------------------------------
(* The C function.  The blocks are printed in the order they were made, so *)
(* a block that does not end in a jump runs on into the next one.          *)

ValueOf(t, v) == IF v.kind = "constant" THEN v.number ELSE t.variables[v.number]
Assign(t, result, v) == [t EXCEPT !.variables[result.number] = v]
Enter(t, block) == [t EXCEPT !.block = block, !.insn = 1]

\* A jump sets the phi of the block it goes to.
Jump(code, t, insn) ==
  Enter(IF insn.regC = NoValue THEN t
        ELSE Assign(t, code[insn.to].input, ValueOf(t, insn.regC)), insn.to)

Executed(code, t, insn) ==
  CASE insn.op = "jump" -> Jump(code, t, insn)
    [] insn.op = "jump if" -> Enter(t, IF ValueOf(t, insn.regC) # 0 THEN insn.to ELSE insn.else)
    [] insn.op = "ne" ->
         [Assign(t, insn.result, BoolValue(ValueOf(t, insn.value) # 0)) EXCEPT !.insn = @ + 1]
    [] insn.op = "matches" ->
         [Assign(t, insn.result, BoolValue(ValueOf(t, insn.value) \in insn.patterns))
            EXCEPT !.insn = @ + 1]

AtEnd(code, t) == t.insn > Len(code[t.block].code)
Insn(code, t) == code[t.block].code[t.insn]

RECURSIVE Run(_, _)
Run(code, t) ==
  IF AtEnd(code, t)
    THEN IF t.block = Len(code) THEN t ELSE Run(code, Enter(t, t.block + 1))
  ELSE IF Insn(code, t).op \in {"evaluate", "effect", "return"} THEN t
  ELSE Run(code, Executed(code, t, Insn(code, t)))

Observed(code, t) ==
  IF AtEnd(code, t) THEN Event("end", "", 0)
  ELSE LET insn == Insn(code, t)
       IN  CASE insn.op = "evaluate" -> Event("evaluate", insn.name, 0)
             [] insn.op = "effect" -> Event("effect", insn.name, ValueOf(t, insn.value))
             [] insn.op = "return" -> Event("return", "", ValueOf(t, insn.value))

Unset == -1  \* a variable that was not assigned: no atom has this value
Called(b) == Run(b.blocks, [block |-> 1, insn |-> 1,
                            variables |-> [i \in 1 .. b.temporaries |-> Unset]])
Forward(code, t) == Run(code, [t EXCEPT !.insn = @ + 1])

-----------------------------------------------------------------------------

Init ==
  /\ function \in {f \in Functions : Accepted(f)}
  /\ build = build_function(function.body)
  /\ target = Called(build)
  /\ source = Started(function.body)

Agree == EventOf(source) = Observed(blocks, target)

\* An atom is evaluated: a call, a load, a comparison.
Evaluate ==
  /\ Agree /\ EventOf(source).kind = "evaluate"
  /\ \E v \in Values[EventOf(source).name] :
       /\ source' = After(source, v)
       /\ target' = Forward(blocks, Assign(target, Insn(blocks, target).result, v))
  /\ UNCHANGED <<function, build>>

\* A value is stored, or an expression statement done.
HaveEffect ==
  /\ Agree /\ EventOf(source).kind = "effect"
  /\ source' = After(source, source.value)
  /\ target' = Forward(blocks, target)
  /\ UNCHANGED <<function, build>>

Next == Evaluate \/ HaveEffect
Spec == Init /\ [][Next]_vars

-----------------------------------------------------------------------------
(* Properties *)

\* The C function does what the statements say: it evaluates the same atoms, has
\* the same effects with the same values, and ends in the same way.
SameEvents == EventOf(source) = Observed(blocks, target)

\* A statement has a break that is not one of a loop or a switch inside it.
RECURSIVE Breaks(_)
Breaks(s) ==
  \/ s.kind = "break"
  \/ s.kind = "block" /\ \E i \in DOMAIN s.statements : Breaks(s.statements[i])
  \/ s.kind = "if" /\ (Breaks(s.true) \/ Breaks(s.false))

\* A switch is left otherwise than by returning: it has no default, or a case
\* that breaks.  A loop is not taken to return, whatever is in it.
RECURSIVE LeavesSwitch(_)
LeavesSwitch(s) ==
  \/ s.kind = "block" /\ \E i \in DOMAIN s.statements : LeavesSwitch(s.statements[i])
  \/ s.kind = "if" /\ (LeavesSwitch(s.true) \/ LeavesSwitch(s.false))
  \/ /\ s.kind = "switch"
     /\ \/ \A i \in DOMAIN s.cases : ~s.cases[i].is_default
        \/ \E i \in DOMAIN s.cases : Breaks(s.cases[i].body) \/ LeavesSwitch(s.cases[i].body)

\* Where "not all control paths return a value" (sema.c:1166) is not reported, a
\* function with a result runs off its end only if it leaves a switch in one of
\* the two ways sema_analyze_statement_switch does not count; functions that do
\* are accepted.  No other statement is wrongly taken to return.
OnlySwitchesRunOff ==
  ~function.is_void /\ EventOf(source).kind = "end" => LeavesSwitch(function.body)

\* The first jump or return of a block ends it; what follows is never run.
Terminators(code) == {k \in DOMAIN code : code[k].op \in {"return", "jump", "jump if"}}
Successors(i) ==
  LET code == blocks[i].code
      insn == code[First(Terminators(code))]
  IN  IF Terminators(code) = {} \/ insn.op = "return" THEN {}
      ELSE IF insn.op = "jump" THEN {insn.to} ELSE {insn.to, insn.else}

Reached ==
  LET reach[k \in 0 .. Len(blocks)] ==
        LET before == reach[k - 1]
        IN  IF k = 0 THEN {1} ELSE before \cup UNION {Successors(i) : i \in before}
  IN  reach[Len(blocks)]

\* Every jump has a block to go to, and no block that is jumped to runs on into
\* the block printed after it; only the one a function ends in is left open.
BlocksEnd ==
  /\ \A i \in DOMAIN blocks : \A k \in Terminators(blocks[i].code) :
       LET insn == blocks[i].code[k]
       IN  /\ insn.op # "return" => insn.to \in DOMAIN blocks
           /\ insn.op = "jump if" => insn.else \in DOMAIN blocks
  /\ \A i \in Reached : Terminators(blocks[i].code) # {} \/ i = build.current
=============================================================================
