-------------------------------- MODULE Lower --------------------------------
(***************************************************************************)
(* How lower.c turns the statements of a function body into basic blocks.  *)
(* A build is the function under construction: its blocks in the order     *)
(* they were made, the current block, the targets of break and continue,   *)
(* and the number of temporaries so far.                                   *)
(***************************************************************************)
EXTENDS Statements, TLC

NoBlock == 0

Const(n) == [kind |-> "constant", number |-> n]
Temp(n) == [kind |-> "temporary", number |-> n]
NoValue == [kind |-> "none", number |-> 0]

\* A block, and the temporary its phi sets, if it starts with one.
EmptyBlock == [code |-> <<>>, input |-> NoValue]

\* bc_function_create: the first block is there, and current.
Created == [blocks |-> <<EmptyBlock>>, current |-> 1, break_target |-> NoBlock,
            continue_target |-> NoBlock, temporaries |-> 0]

\* bc_block_make, n times: the blocks after Made(b).
bc_block_make(b, n) == [b EXCEPT !.blocks = @ \o [i \in 1 .. n |-> EmptyBlock]]
Made(b) == Len(b.blocks)

bc_function_set_block(b, block) == [b EXCEPT !.current = block]

CurrentCode(b) == b.blocks[b.current].code
bc_insn_of(b, insn) == [b EXCEPT !.blocks[b.current].code = Append(@, insn)]

bc_block_is_terminated(b) ==
  LET code == CurrentCode(b)
  IN  code # <<>> /\ code[Len(code)].op \in {"return", "jump", "jump if"}

bc_insn_jump(b, t) == bc_insn_of(b, [op |-> "jump", to |-> t, regC |-> NoValue])
bc_insn_jump_if(b, v, t, f) ==
  bc_insn_of(b, [op |-> "jump if", to |-> t, else |-> f, regC |-> v])
bc_insn_return(b, v) == bc_insn_of(b, [op |-> "return", value |-> v])
Use(b, n, v) == bc_insn_of(b, [op |-> "effect", name |-> n, value |-> v])

\* A build, and the value of the expression it was just extended with.
Built(b, v) == [build |-> b, value |-> v]

\* bc_value_make: an instruction that sets a new temporary.
Defining(b, insn) ==
  LET t == Temp(b.temporaries + 1)
  IN  Built([bc_insn_of(b, insn @@ [result |-> t]) EXCEPT !.temporaries = t.number], t)

\* The comparison with the patterns of a case stands for the eq, ge, le, and, or
\* instructions that make it up.
Atomic(b, n) == Defining(b, [op |-> "evaluate", name |-> n])
bc_insn_ne(b, v) == Defining(b, [op |-> "ne", value |-> v])
Matching(b, v, ps) == Defining(b, [op |-> "matches", value |-> v, patterns |-> ps])

\* A phi at the start of the current block, for the values that two blocks bring.
\* They are noted in the last instructions of these blocks.
Bringing(b, block, v) == [b EXCEPT !.blocks[block].code[Len(b.blocks[block].code)].regC = v]

bc_insn_phi(b, block1, v1, block2, v2) ==
  LET t == Temp(b.temporaries + 1)
      incoming == Bringing(Bringing(b, block1, v1), block2, v2)
  IN  Built([incoming EXCEPT !.blocks[b.current].input = t, !.temporaries = t.number], t)

RECURSIVE build_expression(_, _), build_statement(_, _)

\* A condition is compared with zero, and decides between two blocks.
Branch(b, e, t, f) ==
  LET condition == build_expression(b, e)
      comparison == bc_insn_ne(condition.build, condition.value)
  IN  bc_insn_jump_if(comparison.build, comparison.value, t, f)

-----------------------------------------------------------------------------
(* Expressions *)

\* What && and || have in common: the right operand decides between set1 and
\* set0, which join in a phi.
JoinTruth(b, e, eval_right) ==
  LET set0 == eval_right + 1
      set1 == eval_right + 2
      last == eval_right + 3
      right == Branch(bc_function_set_block(b, eval_right), e, set1, set0)
      zero == bc_insn_jump(bc_function_set_block(right, set0), last)
      one == bc_insn_jump(bc_function_set_block(zero, set1), last)
  IN  bc_insn_phi(bc_function_set_block(one, last), set0, Const(0), set1, Const(1))

build_expression_logical_and(b, e) ==
  LET eval_right == Made(b) + 1
      left == Branch(bc_block_make(b, 4), e.left, eval_right, eval_right + 1)
  IN  JoinTruth(left, e.right, eval_right)

build_expression_logical_or(b, e) ==
  LET eval_right == Made(b) + 1
      left == Branch(bc_block_make(b, 4), e.left, eval_right + 2, eval_right)
  IN  JoinTruth(left, e.right, eval_right)

\* Mutant: the phi comes from the blocks the operands start in.
TernaryFromFirstBlocks(b, e) ==
  LET cond_t == Made(b) + 1
      cond_f == Made(b) + 2
      last == Made(b) + 3
      test == Branch(bc_block_make(b, 3), e.cond, cond_t, cond_f)
      true == build_expression(bc_function_set_block(test, cond_t), e.true)
      jumped == bc_insn_jump(true.build, last)
      false == build_expression(bc_function_set_block(jumped, cond_f), e.false)
      both == bc_insn_jump(false.build, last)
  IN  bc_insn_phi(bc_function_set_block(both, last), cond_t, true.value, cond_f, false.value)

\* The operands may end in blocks of their own: the phi comes from these.
build_expression_ternary(b, e) ==
  LET cond_t == Made(b) + 1
      cond_f == Made(b) + 2
      last == Made(b) + 3
      test == Branch(bc_block_make(b, 3), e.cond, cond_t, cond_f)
      true == build_expression(bc_function_set_block(test, cond_t), e.true)
      jumped == bc_insn_jump(true.build, last)
      false == build_expression(bc_function_set_block(jumped, cond_f), e.false)
      both == bc_insn_jump(false.build, last)
  IN  bc_insn_phi(bc_function_set_block(both, last),
                  jumped.current, true.value, both.current, false.value)

build_expression(b, e) ==
  CASE e.kind = "and" -> build_expression_logical_and(b, e)
    [] e.kind = "or" -> build_expression_logical_or(b, e)
    [] e.kind = "ternary" -> build_expression_ternary(b, e)
    [] e.kind = "atom" -> Atomic(b, e.name)

-----------------------------------------------------------------------------
(* Statements *)

\* Statements in sequence are built one after the other, whatever block the
\* last one ended in.
RECURSIVE build_statement_block(_, _)
build_statement_block(b, ss) ==
  IF ss = <<>> THEN b
  ELSE build_statement_block(build_statement(b, ss[1]), Rest(ss))

\* A branch that is not terminated goes on in a block `last`, made when it is
\* first needed.
Join(b, last) ==
  IF bc_block_is_terminated(b) THEN [build |-> b, last |-> last]
  ELSE LET l == IF last = NoBlock THEN Made(b) + 1 ELSE last
           made == IF last = NoBlock THEN bc_block_make(b, 1) ELSE b
       IN  [build |-> bc_insn_jump(made, l), last |-> l]

build_statement_if(b, s) ==
  LET cond_t == Made(b) + 1
      cond_f == Made(b) + 2
      test == Branch(bc_block_make(b, 2), s.cond, cond_t, cond_f)
      true == Join(build_statement(bc_function_set_block(test, cond_t), s.true), NoBlock)
      false == Join(build_statement(bc_function_set_block(true.build, cond_f), s.false),
                    true.last)
  IN  IF false.last = NoBlock THEN false.build
      ELSE bc_function_set_block(false.build, false.last)

WithTargets(b, break, continue) ==
  [b EXCEPT !.break_target = break, !.continue_target = continue]
RestoreTargets(b, old) == WithTargets(b, old.break_target, old.continue_target)

build_statement_while(b, s) ==
  LET cond == Made(b) + 1
      body == Made(b) + 2
      last == Made(b) + 3
      entered == bc_insn_jump(WithTargets(bc_block_make(b, 3), last, cond), cond)
      test == Branch(bc_function_set_block(entered, cond), s.cond, body, last)
      again == bc_insn_jump(build_statement(bc_function_set_block(test, body), s.body), cond)
  IN  RestoreTargets(bc_function_set_block(again, last), b)

\* `body` is assigned the block the body ended in, and the jump back after the
\* condition goes there.
build_statement_do_while(b, s) ==
  LET cond == Made(b) + 1
      body == Made(b) + 2
      last == Made(b) + 3
      entered == bc_insn_jump(bc_block_make(b, 3), body)
      built == build_statement(
                 WithTargets(bc_function_set_block(entered, body), last, cond), s.body)
      ended == IF bc_block_is_terminated(built) THEN built ELSE bc_insn_jump(built, cond)
      test == Branch(bc_function_set_block(ended, cond), s.cond, built.current, last)
  IN  RestoreTargets(bc_function_set_block(test, last), b)

build_statement_for(b, s) ==
  LET cond == Made(b) + 1
      body == Made(b) + 2
      loop == Made(b) + 3
      last == Made(b) + 4
      start == build_statement(WithTargets(bc_block_make(b, 4), last, loop), s.init)
      entered == bc_function_set_block(bc_insn_jump(start, cond), cond)
      test == IF s.cond = Always THEN bc_insn_jump(entered, body)
                                 ELSE Branch(entered, s.cond, body, last)
      again == bc_insn_jump(build_statement(bc_function_set_block(test, body), s.body), loop)
      stepped == bc_insn_jump(build_statement(bc_function_set_block(again, loop), s.step), cond)
  IN  RestoreTargets(bc_function_set_block(stepped, last), b)

\* Mutant: a case runs on into the next one.
FallThrough(b, t) == b

EndIn(b, t) == IF bc_block_is_terminated(b) THEN b ELSE bc_insn_jump(b, t)

\* One case after the other: its body, or on to the next one.  A case without
\* patterns is entered unconditionally.
RECURSIVE build_cases(_, _, _)
build_cases(b, v, cs) ==
  IF cs = <<>> THEN b
  ELSE LET case_block == Made(b) + 1
           next_block == Made(b) + 2
           made == bc_block_make(b, 2)
           comparison == Matching(made, v, cs[1].patterns)
           decided == IF cs[1].patterns = {} THEN bc_insn_jump(made, case_block)
                      ELSE bc_insn_jump_if(comparison.build, comparison.value,
                                           case_block, next_block)
           built == build_statement(bc_function_set_block(decided, case_block), cs[1].body)
           ended == EndIn(built, b.break_target)
       IN  build_cases(bc_function_set_block(ended, next_block), v, Rest(cs))

build_statement_switch(b, s) ==
  LET break_target == Made(b) + 1
      condition == build_expression([bc_block_make(b, 1) EXCEPT !.break_target = break_target],
                                    s.value)
      cases == EndIn(build_cases(condition.build, condition.value, s.cases), break_target)
      ended == [bc_function_set_block(cases, break_target) EXCEPT !.break_target = b.break_target]
      last == Made(ended) + 1
  IN  bc_function_set_block(bc_insn_jump(bc_block_make(ended, 1), last), last)

build_statement(b, s) ==
  CASE s.kind = "block" -> build_statement_block(b, s.statements)
    [] s.kind = "if" -> build_statement_if(b, s)
    [] s.kind = "while" -> build_statement_while(b, s)
    [] s.kind = "do while" -> build_statement_do_while(b, s)
    [] s.kind = "for" -> build_statement_for(b, s)
    [] s.kind = "switch" -> build_statement_switch(b, s)
    [] s.kind = "break" -> bc_insn_jump(b, b.break_target)
    [] s.kind = "continue" -> bc_insn_jump(b, b.continue_target)
    [] s.kind = "return" ->
         LET v == build_expression(b, s.value) IN bc_insn_return(v.build, v.value)
    [] s.kind = "effect" ->
         LET v == build_expression(b, s.value) IN Use(v.build, s.name, v.value)

build_function(body) == build_statement(Created, body)
=============================================================================
