------------------------------- MODULE Folding -------------------------------
(***************************************************************************)
(* An integer expression three times: as sema.c types it, as eval.c        *)
(* computes it in the compiler, and as the C function printed for it does  *)
(* when the program runs.  eval.c keeps a value as the bytes of a union,   *)
(* all others zero, and reads those bytes again as whatever type the       *)
(* reader has in mind.  Here a value of that kind is the natural number    *)
(* its bytes spell.  Floating point and strings are left out.              *)
(***************************************************************************)
EXTENDS Integers, TLC
LOCAL INSTANCE Bitwise

CONSTANT Width  \* the bits of each integer type; scaled down, in the code's order

Kinds == {"i8", "u8", "i32", "u32", "i64", "u64"}

ASSUME WidthAssumption ==
  /\ Width \in [Kinds -> Nat \ {0}]
  /\ \A w \in {<<"i8", "u8">>, <<"i32", "u32">>, <<"i64", "u64">>} : Width[w[1]] = Width[w[2]]
  /\ Width["i8"] < Width["i32"] /\ Width["i32"] < Width["i64"]

NoType == "none"
Signed(k) == k \in {"i8", "i32", "i64"}
Largest(k) == IF Signed(k) THEN 2^(Width[k] - 1) - 1 ELSE 2^Width[k] - 1
Range(k) == (IF Signed(k) THEN -(2^(Width[k] - 1)) ELSE 0) .. Largest(k)

\* A member of the union written, and read.
variant(k, v) == v % 2^Width[k]
Read(bytes, k) ==
  LET low == bytes % 2^Width[k]
  IN  IF low > Largest(k) THEN low - 2^Width[k] ELSE low

\* A C conversion to an integer type.
Convert(v, k) == Read(v, k)

Truth(b) == IF b THEN 1 ELSE 0

-----------------------------------------------------------------------------
(* The nodes.  The analysis gives each its base_type and may give it a      *)
(* conv_type, which then stands for the type of the node.                   *)

Number(n) == [kind |-> "number", number |-> n]
Identifier(name) == [kind |-> "identifier", name |-> name]
Paren(e) == [kind |-> "paren", parent |-> e]
Unary(op, e) == [kind |-> "unary", op |-> op, target |-> e]
Binary(op, l, r) == [kind |-> "binary", op |-> op, left |-> l, right |-> r]
Ternary(c, t, f) == [kind |-> "ternary", condition |-> c, yes |-> t, no |-> f]
Cast(k, e) == [kind |-> "cast", type |-> k, target |-> e]

Typed(e, k) == [base |-> k, conv |-> NoType] @@ e
node_type(n) == IF n.conv = NoType THEN n.base ELSE n.conv

-----------------------------------------------------------------------------
(* sema.c.  A scope maps a name to what is known of its entry: the type,    *)
(* whether it is const, and the analysed initializer.                       *)

RECURSIVE eval_expression(_)
RECURSIVE sema_analyze_expression(_, _)

LiteralType(n) ==
  IF n <= Largest("i32") THEN "i32"
  ELSE IF n <= Largest("u32") THEN "u32"
  ELSE IF n <= Largest("i64") THEN "i64" ELSE "u64"

\* The operands' types are looked for in this order; the first there is wins.
Priority == <<"i64", "i32", "i8", "u64", "u32", "u8">>
Unified(l, r) ==
  Priority[CHOOSE i \in DOMAIN Priority :
             /\ Priority[i] \in {l, r}
             /\ \A j \in 1 .. i - 1 : Priority[j] \notin {l, r}]

\* sema_unify_binary_operands: the other operand is given that type as its
\* conv_type, whatever kind of node it is.
Unify(l, r) ==
  LET k == Unified(l.base, r.base)
  IN  IF l.base = r.base THEN <<l, r>>
      ELSE IF l.base = k THEN <<l, [r EXCEPT !.conv = k]>> ELSE <<[l EXCEPT !.conv = k], r>>

\* Most comparisons are i8s and leave their operands alone; all else, "<", ">" and
\* "&&" too, has the type of its left operand.
BinaryTyped(e, l, r) ==
  IF e.op \in {"==", "!=", "<=", ">="}
    THEN Typed([e EXCEPT !.left = l, !.right = r], "i8")
    ELSE Typed([e EXCEPT !.left = Unify(l, r)[1], !.right = Unify(l, r)[2]], l.base)

sema_analyze_expression(e, scope) ==
  CASE e.kind = "number" -> Typed(e, LiteralType(e.number))
    [] e.kind = "identifier" ->
         LET entry == scope[e.name]
         IN  Typed([constant |-> IF entry.const THEN eval_expression(entry.tree) ELSE 0] @@ e,
                   entry.type)
    [] e.kind = "paren" ->
         LET p == sema_analyze_expression(e.parent, scope) IN Typed([e EXCEPT !.parent = p], p.base)
    [] e.kind = "unary" ->
         LET t == sema_analyze_expression(e.target, scope) IN Typed([e EXCEPT !.target = t], t.base)
    [] e.kind = "binary" ->
         BinaryTyped(e, sema_analyze_expression(e.left, scope), sema_analyze_expression(e.right, scope))
    [] e.kind = "ternary" ->
         LET yes == sema_analyze_expression(e.yes, scope)
         IN  Typed([e EXCEPT !.condition = sema_analyze_expression(e.condition, scope),
                             !.yes = yes, !.no = sema_analyze_expression(e.no, scope)], yes.base)
    [] e.kind = "cast" ->
         Typed([e EXCEPT !.target = sema_analyze_expression(e.target, scope)], e.type)

-----------------------------------------------------------------------------
(* eval.c *)

\* C's division goes towards zero.
Abs(v) == IF v < 0 THEN -v ELSE v
Quotient(l, r) == (IF (l < 0) = (r < 0) THEN 1 ELSE -1) * (Abs(l) \div Abs(r))

\* The two's complements of the operands, with a bit for the sign of each.
OnBits(Op(_, _), l, r) ==
  LET m == 2^(Width["u64"] + 1)
      bits == Op(l % m, r % m)
  IN  IF bits >= m \div 2 THEN bits - m ELSE bits

\* What C says nothing of, when it computes in type k.
Undefined(op, l, r, k) ==
  \/ op \in {"/", "%"} /\ (r = 0 \/ Quotient(l, r) \notin Range(k))
  \/ op \in {"<<", ">>"} /\ r \notin 0 .. Width[k] - 1

\* The operators, on numbers; eval.c and C differ in the type they work in.  A
\* division by zero and a shift by as many bits as there are, or a negative number
\* of them, are 0 here and no property is about them: they trap, or give what the
\* processor makes of them.
Operate(op, l, r) ==
  CASE op = "+" -> l + r
    [] op = "-" -> l - r
    [] op = "*" -> l * r
    [] op = "/" -> IF r = 0 THEN 0 ELSE Quotient(l, r)
    [] op = "%" -> IF r = 0 THEN 0 ELSE l - r * Quotient(l, r)
    [] op = "&" -> OnBits(LAMBDA x, y : x & y, l, r)
    [] op = "|" -> OnBits(LAMBDA x, y : x | y, l, r)
    [] op = "^" -> OnBits(LAMBDA x, y : x ^^ y, l, r)
    [] op = "<<" -> IF r \in 0 .. Width["u64"] - 1 THEN l * 2^r ELSE 0
    [] op = ">>" -> IF r \in 0 .. Width["u64"] - 1 THEN l \div 2^r ELSE 0
    [] op = "==" -> Truth(l = r)
    [] op = "!=" -> Truth(l # r)
    [] op = "<" -> Truth(l < r)
    [] op = "<=" -> Truth(l <= r)
    [] op = ">" -> Truth(l > r)
    [] op = ">=" -> Truth(l >= r)

Logical(op) == op \in {"&&", "||"}
LogicalResult(op, l, r) == Truth(IF op = "&&" THEN l # 0 /\ r # 0 ELSE l # 0 \/ r # 0)

UnaryResult(op, v) ==
  CASE op = "-" -> -v
    [] op = "!" -> Truth(v = 0)
    [] op = "~" -> -v - 1

\* Whatever its operand is, it is read as an i32 and gives one.
EvalUnary(n, target) ==
  IF n.op = "+" THEN target
  ELSE variant("i32", UnaryResult(n.op, Read(target, "i32")))

\* Both operands are read as the type of the node; "&&" and "||" are not in the
\* switch and give the empty value where assert() is compiled out.
EvalBinary(n, left, right) ==
  IF Logical(n.op) THEN 0
  ELSE LET k == node_type(n) IN variant(k, Operate(n.op, Read(left, k), Read(right, k)))

\* Mutant: the branches of a ternary change places.
ChooseSwapped(condition, n) == IF Read(condition, "u8") # 0 THEN n.no ELSE n.yes

\* The condition is its lowest byte.
Choose(condition, n) == IF Read(condition, "u8") # 0 THEN n.yes ELSE n.no

\* A cast reads its operand as eight bytes, the type of the node says what for.
EvalCast(n, target) == variant(node_type(n), Read(target, IF Signed(node_type(n)) THEN "i64" ELSE "u64"))

eval_expression(n) ==
  CASE n.kind = "number" -> variant(node_type(n), n.number)
    [] n.kind = "identifier" -> n.constant
    [] n.kind = "paren" -> eval_expression(n.parent)
    [] n.kind = "unary" -> EvalUnary(n, eval_expression(n.target))
    [] n.kind = "binary" -> EvalBinary(n, eval_expression(n.left), eval_expression(n.right))
    [] n.kind = "ternary" -> eval_expression(Choose(eval_expression(n.condition), n))
    [] n.kind = "cast" -> EvalCast(n, eval_expression(n.target))

-----------------------------------------------------------------------------
(* The C printed for lower.c's instructions: a typed value.  memory maps a  *)
(* name to the value a use of it loads, constants to the printed number.    *)

Value(k, v) == [type |-> k, value |-> Convert(v, k)]

\* C's own conversions, not the program's: narrow operands become int, then
\* the wider type wins, or the unsigned of two as wide.
Promoted(k) == IF Width[k] < Width["i32"] THEN "i32" ELSE k
Common(a, b) ==
  LET l == Promoted(a)
      r == Promoted(b)
  IN  IF Width[l] > Width[r] \/ (Width[l] = Width[r] /\ ~Signed(l)) THEN l ELSE r

\* "-x" is a subtraction with one operand, printed as such; "~x" is BC_OP_NEG,
\* which source.c prints as a minus sign too.
LowerUnary(op, t) ==
  CASE op = "+" -> t
    [] op \in {"-", "~"} -> Value(t.type, -t.value)
    [] op = "!" -> Value(t.type, Truth(t.value = 0))

\* A shift is done in the type of what is shifted.
Working(op, l, r) == IF op \in {"<<", ">>"} THEN Promoted(l) ELSE Common(l, r)

\* The variable an instruction sets has the type of its first operand.
LowerBinary(op, l, r) ==
  IF Logical(op) THEN Value("i32", LogicalResult(op, l.value, r.value))
  ELSE LET k == Working(op, l.type, r.type)
       IN  Value(l.type, Convert(Operate(op, Convert(l.value, k), Convert(r.value, k)), k))

RECURSIVE build_expression(_, _)
build_expression(n, loads) ==
  CASE n.kind = "number" -> Value(node_type(n), n.number)
    [] n.kind = "identifier" -> loads[n.name]
    [] n.kind = "paren" -> build_expression(n.parent, loads)
    [] n.kind = "unary" -> LowerUnary(n.op, build_expression(n.target, loads))
    [] n.kind = "binary" ->
         LowerBinary(n.op, build_expression(n.left, loads), build_expression(n.right, loads))
    [] n.kind = "ternary" ->
         LET c == build_expression(n.condition, loads).value
         IN  Value(node_type(n), build_expression(IF c # 0 THEN n.yes ELSE n.no, loads).value)
    [] n.kind = "cast" -> Value(n.type, build_expression(n.target, loads).value)
=============================================================================
