---------------------------- MODULE Resolve_proof ----------------------------
(***************************************************************************)
(* For every program, cyclic and wrong ones included, and for every build: *)
(* the marks of sema.c are what is on its C stack, what it has resolved    *)
(* stays, and unless a variable is initialized with the name of a builtin  *)
(* type it follows a null pointer in no program it has found no error in.  *)
(* None of these is inductive alone: which type a frame holds depends      *)
(* on what the call it waits for returned, and what that call may return   *)
(* on the marks it found.  The invariant Inv therefore says of each frame  *)
(* what its place in its function implies, of each two neighbours which    *)
(* call the lower one waits for, and of the innermost one what the answer  *)
(* it has just been given means.                                           *)
(***************************************************************************)
EXTENDS Resolve, FiniteSetTheorems, SequenceTheorems, TLAPS

-----------------------------------------------------------------------------
(* The inductive invariant *)

\* The functions that mark what they work on, and those that return a type.
Marking == {"sema_resolve_entry", "sema_complete_aggregate"}
Typing == {"sema_resolve_type", "sema_analyze_initializer", "sema_resolve_function_type"}

\* A type whose size can be asked for: an array type has been made.
Known(t) ==
  /\ t \in Types
  /\ t.wraps # <<>> /\ ArrayWrap(LastWrap(t)) => t \in DOMAIN arrays

\* A type expression of the program.
Mentioned(t) == \E i \in DOMAIN program : t \in ElementsOf(program[i].types)

\* What a frame holds where it is; a null type only after an error.
FrameOK(f) ==
  /\ f.name \in DOMAIN entries
  /\ Known(f.type)
  /\ f.call = "sema_complete_aggregate" => f.name \in DOMAIN aggregates
  /\ f.call = "sema_analyze_initializer" => Decl(f.name).kind = "variable"
  /\ f.call = "sema_resolve_type" => Mentioned(f.expr)
  /\ f.call = "sema_resolve_type" /\ f.at = "named" => f.expr.base \in DOMAIN entries
  /\ f.call = "sema_analyze_initializer" /\ f.at = "named" => Decl(f.name).init \in DOMAIN entries
  /\ f.call = "sema_complete_aggregate" /\ f.at \in {"typed", "nested"} =>
       f.item \in DOMAIN Decl(f.name).counts
  /\ f.call = "sema_analyze_function" /\ f.at \in {"typed", "completed"} =>
       f.item \in DOMAIN Decl(f.name).params
  /\ f.call = "sema_analyze_function" /\ f.at = "completed" => f.type # NoType
  /\ errors = {} =>
       /\ f.call = "sema_resolve_type" /\ f.at = "wrap" => f.type # NoType
       /\ f.call = "sema_analyze_initializer" /\ f.at \in {"return", "completed"} => f.type # NoType

\* The call g that f waits for where it is.
Waits(f, g) ==
  /\ f.at = "named" => g.call = "sema_resolve_entry"
  /\ f.at = "named" /\ f.call = "sema_resolve_type" => g.name = f.expr.base
  /\ f.at = "named" /\ f.call = "sema_analyze_initializer" => g.name = Decl(f.name).init
  /\ f.at = "named" /\ f.call = "sema_analyze_variable" => g.name = f.name
  /\ f.at = "typed" => g.call \in Typing

\* What the last call has left to f, the frame it returns to.
Answered(f) ==
  errors = {} =>
    /\ f.at = "named" => ret.ok
    /\ f.at = "named" /\ f.call = "sema_resolve_type" => entries[f.expr.base].state = "RESOLVED"
    /\ f.at = "named" /\ f.call = "sema_analyze_initializer" => entries[Decl(f.name).init].state = "RESOLVED"
    /\ f.at = "named" /\ f.call = "sema_analyze_variable" => entries[f.name].state = "RESOLVED"
    /\ f.at = "typed" => ret.type # NoType

\* An entry is under the name its declaration has, and without errors a resolved
\* entry has a type.
Scoped ==
  /\ \A n \in DOMAIN entries : program[entries[n].node].name = n /\ Known(entries[n].type)
  /\ \A n \in DOMAIN entries : entries[n].state = "RESOLVED" /\ errors = {} => entries[n].type # NoType
  /\ Known(ret.type)

\* A scope has parameters of the program, each with a type.
ScopeOK(s) ==
  \A n \in DOMAIN s : n \in ParametersIn(program) /\ Known(s[n]) /\ s[n] # NoType
Local == ScopeOK(scope) /\ ScopeOK(old_scope)

Calling ==
  /\ \A i \in DOMAIN stack : FrameOK(stack[i])
  /\ \A i \in 1 .. Len(stack) - 1 : Waits(stack[i], stack[i + 1])
  /\ stack # <<>> => Answered(Top)

\* A variable is initialized with the name of a builtin type.
OfBuiltin == \E i \in DOMAIN program : program[i].init = Builtin

\* What holds while the names are registered, and once the analysis has ended.
Started ==
  /\ phase = "register" =>
       /\ \A n \in DOMAIN entries : entries[n].state # "RESOLVING"
       /\ \A n \in DOMAIN aggregates : ~aggregates[n].is_resolving
       /\ \A i \in 1 .. next - 1 :
            /\ program[i].name \in DOMAIN entries
            /\ errors = {} /\ program[i].kind = "aggregate" =>
                 /\ program[i].name \in DOMAIN aggregates
                 /\ entries[program[i].name].state = "RESOLVED"
                 /\ entries[program[i].name].type = Plain(program[i].name)
  /\ phase = "analyze" => \A i \in DOMAIN program : program[i].name \in DOMAIN entries
  /\ phase # "analyze" => stack = <<>>
  /\ phase = "crashed" => errors # {} \/ OfBuiltin

\* A call that is past setting its mark.
Marked(f) == f.call \in Marking /\ f.at # "start"

Works(f, call, n) == Marked(f) /\ f.call = call /\ f.name = n

\* Some call of the stack s is at work on n, and no two on the same.
WorkingIn(s, call, n) == \E i \in 1 .. Len(s) : Works(s[i], call, n)
AloneIn(s) ==
  \A i, j \in 1 .. Len(s) : Marked(s[i]) /\ Works(s[j], s[i].call, s[i].name) => i = j

Working(call, n) == WorkingIn(stack, call, n)
Alone == AloneIn(stack)

\* MarksOnStack without the counting, and no aggregate is laid out twice.
Marks ==
  phase \notin {"crashed", "aborted"} =>
    /\ Alone
    /\ \A n \in DOMAIN entries :
         entries[n].state = "RESOLVING" <=> Working("sema_resolve_entry", n)
    /\ \A n \in DOMAIN aggregates :
         /\ aggregates[n].is_resolving <=> Working("sema_complete_aggregate", n)
         /\ ~(aggregates[n].is_resolving /\ aggregates[n].is_complete)

Inv == TypeOK /\ Scoped /\ Local /\ Calling /\ Started /\ Marks

-----------------------------------------------------------------------------
(* The stack *)

\* The stack without its innermost frame.
LEMMA CallersFacts ==
  ASSUME stack \in Seq(Frames), stack # <<>>
  PROVE  /\ Len(stack) \in Nat /\ Len(stack) >= 1
         /\ DOMAIN stack = 1 .. Len(stack)
         /\ Top \in Frames
         /\ Callers \in Seq(Frames)
         /\ Len(Callers) = Len(stack) - 1
         /\ DOMAIN Callers = 1 .. Len(stack) - 1
         /\ \A i \in 1 .. Len(stack) - 1 : Callers[i] = stack[i]
<1>1. /\ Len(stack) \in Nat /\ Len(stack) >= 1
      /\ DOMAIN stack = 1 .. Len(stack)
      /\ \A i \in 1 .. Len(stack) : stack[i] \in Frames
  BY EmptySeq, LenProperties, ElementOfSeq
<1>2. Top \in Frames
  BY <1>1 DEF Top
<1>3. /\ Callers \in Seq(Frames)
      /\ Len(Callers) = Len(stack) - 1
  BY <1>1, SubSeqProperties DEF Callers
<1>4. \A i \in 1 .. Len(stack) - 1 : Callers[i] = stack[i]
  BY <1>1 DEF Callers
<1> QED  BY <1>1, <1>2, <1>3, <1>4, LenProperties

\* The stack when the innermost call goes on, and when it makes another call.
LEMMA Continued ==
  ASSUME stack \in Seq(Frames), stack # <<>>, NEW f \in Frames, Continue(f)
  PROVE  /\ stack' \in Seq(Frames) /\ stack' # <<>>
         /\ Len(stack') = Len(stack) /\ DOMAIN stack' = 1 .. Len(stack)
         /\ \A i \in 1 .. Len(stack) - 1 : stack'[i] = stack[i]
         /\ stack'[Len(stack)] = f /\ Top' = f
<1>0. /\ Len(stack) \in Nat /\ Callers \in Seq(Frames) /\ Len(Callers) = Len(stack) - 1
      /\ \A i \in 1 .. Len(stack) - 1 : Callers[i] = stack[i]
  BY CallersFacts
<1>1. stack' = Append(Callers, f)
  BY DEF Continue
<1>2. /\ stack' \in Seq(Frames) /\ stack' # <<>>
      /\ Len(stack') = Len(stack)
  BY <1>0, <1>1, AppendProperties
<1>3. /\ \A i \in 1 .. Len(stack) - 1 : stack'[i] = stack[i]
      /\ stack'[Len(stack)] = f
  BY <1>0, <1>1
<1> QED  BY <1>2, <1>3, LenProperties DEF Top

LEMMA Called ==
  ASSUME stack \in Seq(Frames), stack # <<>>, NEW f \in Frames, NEW g \in Frames, CallFrom(f, g)
  PROVE  /\ stack' \in Seq(Frames) /\ stack' # <<>>
         /\ Len(stack') = Len(stack) + 1 /\ DOMAIN stack' = 1 .. Len(stack) + 1
         /\ \A i \in 1 .. Len(stack) - 1 : stack'[i] = stack[i]
         /\ stack'[Len(stack)] = f /\ stack'[Len(stack) + 1] = g /\ Top' = g
<1> DEFINE s == Append(Callers, f)
<1>1. stack' = Append(s, g)
  BY DEF CallFrom
<1>0. /\ Len(stack) \in Nat /\ Callers \in Seq(Frames) /\ Len(Callers) = Len(stack) - 1
      /\ \A i \in 1 .. Len(stack) - 1 : Callers[i] = stack[i]
  BY CallersFacts
<1>2. s \in Seq(Frames) /\ Len(s) = Len(stack)
  BY <1>0, AppendProperties
<1>3. /\ \A i \in 1 .. Len(stack) - 1 : s[i] = stack[i]
      /\ s[Len(stack)] = f
  BY <1>0
<1> HIDE DEF s
<1>4. /\ stack' \in Seq(Frames) /\ stack' # <<>>
      /\ Len(stack') = Len(stack) + 1
  BY <1>1, <1>2, AppendProperties
<1>5. /\ \A i \in 1 .. Len(stack) : stack'[i] = s[i]
      /\ stack'[Len(stack) + 1] = g
  BY <1>0, <1>1, <1>2
<1>6. /\ \A i \in 1 .. Len(stack) - 1 : stack'[i] = stack[i]
      /\ stack'[Len(stack)] = f
  BY <1>0, <1>3, <1>5
<1> QED  BY <1>4, <1>5, <1>6, LenProperties DEF Top

-----------------------------------------------------------------------------
(* What a step of the analysis leaves alone *)

\* No scope loses a name, and no error is taken back.
Grows ==
  /\ UNCHANGED <<input, next>>
  /\ DOMAIN entries' = DOMAIN entries
  /\ \A n \in DOMAIN entries : entries'[n].node = entries[n].node
  /\ DOMAIN aggregates' = DOMAIN aggregates
  /\ DOMAIN arrays \subseteq DOMAIN arrays'
  /\ errors \subseteq errors'

LEMMA KnownStays ==
  ASSUME Grows, NEW t, Known(t)
  PROVE  Known(t)'
BY DEF Grows, Known, ArrayWrap, LastWrap

LEMMA DeclStays ==
  ASSUME Grows, NEW n \in DOMAIN entries
  PROVE  Decl(n)' = Decl(n)
BY DEF Grows, Decl, input, local

LEMMA FrameStays ==
  ASSUME Grows, NEW f, FrameOK(f)
  PROVE  FrameOK(f)'
<1>1. Known(f.type)'
  BY KnownStays DEF FrameOK
<1>2. Decl(f.name)' = Decl(f.name)
  BY DeclStays DEF FrameOK
<1>3. Mentioned(f.expr) => Mentioned(f.expr)'
  BY DEF Mentioned, ElementsOf, Grows, input
<1> QED  BY <1>1, <1>2, <1>3 DEF FrameOK, Grows

LEMMA WaitsStays ==
  ASSUME Grows, NEW f, NEW g, FrameOK(f), Waits(f, g)
  PROVE  Waits(f, g)'
<1>1. Decl(f.name)' = Decl(f.name)
  BY DeclStays DEF FrameOK
<1> QED  BY <1>1 DEF Waits

\* A name of a parameter, and what the parameters of a scope have, go on to hold.
LEMMA ParameterNames ==
  ASSUME TypeOK, NEW n \in ParametersIn(program)
  PROVE  n \in Names \cup {Builtin}
<1>1. PICK i \in DOMAIN program : n \in ElementsOf(program[i].params)
  BY DEF ParametersIn
<1>2. PICK d : d = program[i]
  OBVIOUS
<1>3. d \in Decls
  BY <1>1, <1>2 DEF TypeOK
<1>4. d.params \in Seq(Names \cup {Builtin})
  BY <1>3 DEF Decls
<1>5. PICK j \in DOMAIN d.params : n = d.params[j]
  BY <1>1, <1>2 DEF ElementsOf
<1> QED  BY <1>4, <1>5

LEMMA ScopeStays ==
  ASSUME program' = program, DOMAIN arrays \subseteq DOMAIN arrays', NEW s, ScopeOK(s)
  PROVE  ScopeOK(s)'
<1>2. \A n \in DOMAIN s : Known(s[n])'
  <2> TAKE n \in DOMAIN s
  <2>1. PICK t : t = s[n]
    OBVIOUS
  <2>2. Known(t)'
    BY <2>1 DEF ScopeOK, Known, ArrayWrap, LastWrap
  <2> QED  BY <2>1, <2>2
<1> QED  BY <1>2 DEF ScopeOK

LEMMA LocalStays ==
  ASSUME program' = program, DOMAIN arrays \subseteq DOMAIN arrays', Local, UNCHANGED local
  PROVE  Local'
<1>1. PICK s, o : s = scope /\ o = old_scope
  OBVIOUS
<1>2. ScopeOK(s)' /\ ScopeOK(o)'
  BY <1>1, ScopeStays DEF Local
<1>3. scope' = s /\ old_scope' = o
  BY <1>1 DEF local
<1> QED  BY <1>2, <1>3 DEF Local

\* What holds of the callers' frames goes on to hold.
LEMMA CallersStay ==
  ASSUME stack \in Seq(Frames), stack # <<>>, Calling, Grows,
         \A i \in 1 .. Len(stack) - 1 : stack'[i] = stack[i]
  PROVE  /\ \A i \in 1 .. Len(stack) - 1 : FrameOK(stack[i])'
         /\ \A i \in 1 .. Len(stack) - 2 : Waits(stack[i], stack[i + 1])'
<1>1. ASSUME NEW i \in 1 .. Len(stack) - 1
      PROVE  FrameOK(stack[i])'
  <2>1. PICK c : c = stack[i]
    OBVIOUS
  <2>2. FrameOK(c)
    BY <2>1, CallersFacts DEF Calling
  <2>3. FrameOK(c)'
    BY <2>2, FrameStays
  <2>4. stack'[i] = c
    BY <2>1
  <2> QED  BY <2>3, <2>4
<1>2. ASSUME NEW i \in 1 .. Len(stack) - 2
      PROVE  Waits(stack[i], stack[i + 1])'
  <2>1. PICK c, d : c = stack[i] /\ d = stack[i + 1]
    OBVIOUS
  <2>2. FrameOK(c) /\ Waits(c, d)
    BY <2>1, CallersFacts DEF Calling
  <2>3. Waits(c, d)'
    BY <2>2, WaitsStays
  <2>4. stack'[i] = c /\ stack'[i + 1] = d
    BY <2>1, CallersFacts
  <2> QED  BY <2>3, <2>4
<1> QED  BY <1>1, <1>2

\* The caller waits for whatever works in place of the call it made.
LEMMA CallerWaits ==
  ASSUME stack \in Seq(Frames), stack # <<>>, Calling, Grows,
         NEW f, f.call = Top.call, f.name = Top.name,
         NEW c, Len(stack) > 1, c = stack[Len(stack) - 1]
  PROVE  Waits(c, f)'
<1>1. PICK d : d = Top
  OBVIOUS
<1>2. FrameOK(c) /\ Waits(c, d)
  BY <1>1, CallersFacts DEF Calling, Top
<1>3. Waits(c, d)'
  BY <1>2, WaitsStays
<1> QED  BY <1>1, <1>3 DEF Waits

\* The frames stay as Calling has them when a call goes on, calls or returns.
LEMMA ContinueCalling ==
  ASSUME stack \in Seq(Frames), stack # <<>>, Calling, Grows,
         NEW f \in Frames, Continue(f), f.call = Top.call, f.name = Top.name,
         FrameOK(f)', Answered(f)'
  PROVE  stack' \in Seq(Frames) /\ Calling'
<1>1. /\ stack' \in Seq(Frames) /\ stack' # <<>>
      /\ Len(stack') = Len(stack) /\ DOMAIN stack' = 1 .. Len(stack)
      /\ \A i \in 1 .. Len(stack) - 1 : stack'[i] = stack[i]
      /\ stack'[Len(stack)] = f /\ Top' = f
      /\ Len(stack) \in Nat /\ Len(stack) >= 1
  BY Continued, CallersFacts
<1>2. /\ \A i \in 1 .. Len(stack) - 1 : FrameOK(stack[i])'
      /\ \A i \in 1 .. Len(stack) - 2 : Waits(stack[i], stack[i + 1])'
  BY <1>1, CallersStay
<1>3. ASSUME NEW i \in DOMAIN stack'
      PROVE  FrameOK(stack[i])'
  <2>1. CASE i = Len(stack)
    <3>1. stack'[i] = f
      BY <1>1, <2>1
    <3> QED  BY <3>1
  <2> QED  BY <1>1, <1>2, <2>1
<1>4. ASSUME NEW i \in 1 .. Len(stack') - 1
      PROVE  Waits(stack[i], stack[i + 1])'
  <2>1. CASE i = Len(stack) - 1
    <3>1. PICK c : c = stack[i]
      OBVIOUS
    <3>2. Waits(c, f)'
      BY <3>1, <2>1, <1>1, CallerWaits
    <3>3. stack'[i] = c /\ stack'[i + 1] = f
      BY <3>1, <2>1, <1>1
    <3> QED  BY <3>2, <3>3
  <2> QED  BY <1>1, <1>2, <2>1
<1>5. Answered(Top)'
  BY <1>1
<1> QED  BY <1>1, <1>3, <1>4, <1>5 DEF Calling

LEMMA CallCalling ==
  ASSUME stack \in Seq(Frames), stack # <<>>, Calling, Grows,
         NEW f \in Frames, NEW g \in Frames, CallFrom(f, g),
         f.call = Top.call, f.name = Top.name, g.at = "start",
         FrameOK(f)', FrameOK(g)', Waits(f, g)'
  PROVE  stack' \in Seq(Frames) /\ Calling'
<1>1. /\ stack' \in Seq(Frames) /\ stack' # <<>>
      /\ Len(stack') = Len(stack) + 1 /\ DOMAIN stack' = 1 .. Len(stack) + 1
      /\ \A i \in 1 .. Len(stack) - 1 : stack'[i] = stack[i]
      /\ stack'[Len(stack)] = f /\ stack'[Len(stack) + 1] = g /\ Top' = g
      /\ Len(stack) \in Nat /\ Len(stack) >= 1
  BY Called, CallersFacts
<1>2. /\ \A i \in 1 .. Len(stack) - 1 : FrameOK(stack[i])'
      /\ \A i \in 1 .. Len(stack) - 2 : Waits(stack[i], stack[i + 1])'
  BY <1>1, CallersStay
<1>3. ASSUME NEW i \in DOMAIN stack'
      PROVE  FrameOK(stack[i])'
  <2>1. CASE i = Len(stack)
    <3>1. stack'[i] = f
      BY <1>1, <2>1
    <3> QED  BY <3>1
  <2>2. CASE i = Len(stack) + 1
    <3>1. stack'[i] = g
      BY <1>1, <2>2
    <3> QED  BY <3>1
  <2> QED  BY <1>1, <1>2, <2>1, <2>2
<1>4. ASSUME NEW i \in 1 .. Len(stack') - 1
      PROVE  Waits(stack[i], stack[i + 1])'
  <2>1. CASE i = Len(stack) - 1
    <3>1. PICK c : c = stack[i]
      OBVIOUS
    <3>2. Waits(c, f)'
      BY <3>1, <2>1, <1>1, CallerWaits
    <3>3. stack'[i] = c /\ stack'[i + 1] = f
      BY <3>1, <2>1, <1>1
    <3> QED  BY <3>2, <3>3
  <2>2. CASE i = Len(stack)
    <3>1. stack'[i] = f /\ stack'[i + 1] = g
      BY <2>2, <1>1
    <3> QED  BY <3>1
  <2> QED  BY <1>1, <1>2, <2>1, <2>2
<1>5. Answered(Top)'
  <2>1. Answered(g)'
    BY DEF Answered
  <2> QED  BY <1>1, <2>1
<1> QED  BY <1>1, <1>3, <1>4, <1>5 DEF Calling

\* What a call that ends leaves to its caller.
LEMMA ReturnCalling ==
  ASSUME stack \in Seq(Frames), stack # <<>>, Calling, Grows, stack' = Callers,
         errors' = {} /\ Top.call = "sema_resolve_entry" =>
           ret'.ok /\ entries'[Top.name].state = "RESOLVED",
         errors' = {} /\ Top.call \in Typing => ret'.type # NoType
  PROVE  stack' \in Seq(Frames) /\ Calling'
<1>1. /\ stack' \in Seq(Frames)
      /\ Len(stack') = Len(stack) - 1 /\ DOMAIN stack' = 1 .. Len(stack) - 1
      /\ \A i \in 1 .. Len(stack) - 1 : stack'[i] = stack[i]
      /\ Len(stack) \in Nat /\ Len(stack) >= 1
  BY CallersFacts
<1>2. /\ \A i \in 1 .. Len(stack) - 1 : FrameOK(stack[i])'
      /\ \A i \in 1 .. Len(stack) - 2 : Waits(stack[i], stack[i + 1])'
  BY <1>1, CallersStay
<1>3. ASSUME stack' # <<>>
      PROVE  Answered(Top)'
  <2>1. Len(stack) > 1
    BY <1>1, <1>3, EmptySeq
  <2>2. PICK c, d : c = stack[Len(stack) - 1] /\ d = Top
    OBVIOUS
  <2>3. FrameOK(c) /\ Waits(c, d)
    BY <1>1, <2>1, <2>2, CallersFacts DEF Calling, Top
  <2>4. Decl(c.name)' = Decl(c.name)
    BY <2>3, DeclStays DEF FrameOK
  <2>5. Answered(c)'
    BY <2>2, <2>3, <2>4 DEF Answered, Waits, Typing
  <2>6. Top' = c
    BY <1>1, <2>1, <2>2 DEF Top
  <2> QED  BY <2>5, <2>6
<1> QED  BY <1>1, <1>2, <1>3 DEF Calling

-----------------------------------------------------------------------------
(* The marks *)

\* Of two stacks with the same callers, k - 1 of them, and then the calls f and g
\* of one function on one name, or nothing.
LEMMA WorkStep ==
  ASSUME NEW s, NEW t, NEW k \in Nat, k >= 1, NEW call, NEW n,
         Len(s) = k,
         NEW m \in Nat, Len(t) = m, m >= k - 1, m <= k + 1,
         \A i \in 1 .. k - 1 : t[i] = s[i],
         m > k => ~Works(t[k + 1], call, n),
         \A i, j \in 1 .. k : Works(s[i], call, n) /\ Works(s[j], call, n) => i = j,
         m >= k /\ Works(t[k], call, n) /\ ~Works(s[k], call, n) => ~WorkingIn(s, call, n)
  PROVE  /\ \A i, j \in 1 .. m : Works(t[i], call, n) /\ Works(t[j], call, n) => i = j
         /\ WorkingIn(t, call, n) <=>
              \/ m >= k /\ Works(t[k], call, n)
              \/ WorkingIn(s, call, n) /\ ~Works(s[k], call, n)
<1>1. \A i \in 1 .. m : i < k \/ i = k \/ i = k + 1
  OBVIOUS
<1>2. \A i \in 1 .. m : Works(t[i], call, n) /\ i >= k => i = k
  BY <1>1
<1>3. m >= k /\ Works(t[k], call, n) => \A i \in 1 .. k - 1 : ~Works(s[i], call, n)
  BY DEF WorkingIn
<1>4. \A i, j \in 1 .. m : Works(t[i], call, n) /\ Works(t[j], call, n) => i = j
  BY <1>1, <1>2, <1>3
<1>5. ASSUME WorkingIn(t, call, n)
      PROVE  \/ m >= k /\ Works(t[k], call, n)
             \/ WorkingIn(s, call, n) /\ ~Works(s[k], call, n)
  <2>1. PICK i \in 1 .. m : Works(t[i], call, n)
    BY <1>5 DEF WorkingIn
  <2>2. CASE i < k
    BY <2>1, <2>2 DEF WorkingIn
  <2> QED  BY <2>1, <2>2, <1>2
<1>6. ASSUME m >= k, Works(t[k], call, n)
      PROVE  WorkingIn(t, call, n)
  BY <1>6 DEF WorkingIn
<1>7. ASSUME WorkingIn(s, call, n), ~Works(s[k], call, n)
      PROVE  WorkingIn(t, call, n)
  BY <1>7 DEF WorkingIn
<1> QED  BY <1>4, <1>5, <1>6, <1>7

\* Who is at work after a call goes on, calls or returns.
LEMMA WorkContinue ==
  ASSUME stack \in Seq(Frames), stack # <<>>, Alone,
         NEW f \in Frames, Continue(f), f.call = Top.call, f.name = Top.name,
         Marked(f) /\ ~Marked(Top) => ~Working(Top.call, Top.name)
  PROVE  /\ Alone'
         /\ \A call, n :
              Working(call, n)' <=> Works(f, call, n) \/ (Working(call, n) /\ ~Works(Top, call, n))
<1>1. /\ Len(stack') = Len(stack) /\ Len(stack) \in Nat /\ Len(stack) >= 1
      /\ \A i \in 1 .. Len(stack) - 1 : stack'[i] = stack[i]
      /\ stack'[Len(stack)] = f /\ Top = stack[Len(stack)]
  BY Continued, CallersFacts DEF Top
<1>2. ASSUME NEW call, NEW n
      PROVE  /\ \A i, j \in 1 .. Len(stack') :
                  Works(stack'[i], call, n) /\ Works(stack'[j], call, n) => i = j
             /\ Working(call, n)' <=>
                  Works(f, call, n) \/ (Working(call, n) /\ ~Works(Top, call, n))
  <2>1. \A i, j \in 1 .. Len(stack) : Works(stack[i], call, n) /\ Works(stack[j], call, n) => i = j
    BY DEF Alone, AloneIn, Works
  <2>2. Works(f, call, n) /\ ~Works(Top, call, n) => ~WorkingIn(stack, call, n)
    BY DEF Works, Working
  <2>3. PICK s, t, k : s = stack /\ t = stack' /\ k = Len(stack)
    OBVIOUS
  <2>4. /\ \A i, j \in 1 .. k : Works(t[i], call, n) /\ Works(t[j], call, n) => i = j
        /\ WorkingIn(t, call, n) <=>
             Works(t[k], call, n) \/ (WorkingIn(s, call, n) /\ ~Works(s[k], call, n))
    BY <1>1, <2>1, <2>2, <2>3, WorkStep
  <2> QED  BY <1>1, <2>3, <2>4 DEF Working
<1>3. Alone'
  <2>1. ASSUME NEW i \in 1 .. Len(stack'), NEW j \in 1 .. Len(stack'),
               Marked(stack'[i]), Works(stack'[j], stack'[i].call, stack'[i].name)
        PROVE  i = j
    <3>1. PICK c, n : c = stack'[i].call /\ n = stack'[i].name
      OBVIOUS
    <3>2. Works(stack'[i], c, n) /\ Works(stack'[j], c, n)
      BY <2>1, <3>1 DEF Works
    <3> QED  BY <3>2, <1>2
  <2> QED  BY <2>1 DEF Alone, AloneIn
<1> QED  BY <1>2, <1>3

LEMMA WorkCall ==
  ASSUME stack \in Seq(Frames), stack # <<>>, Alone,
         NEW f \in Frames, NEW g \in Frames, CallFrom(f, g),
         f.call = Top.call, f.name = Top.name, g.at = "start",
         Marked(f) /\ ~Marked(Top) => ~Working(Top.call, Top.name)
  PROVE  /\ Alone'
         /\ \A call, n :
              Working(call, n)' <=> Works(f, call, n) \/ (Working(call, n) /\ ~Works(Top, call, n))
<1>1. /\ Len(stack') = Len(stack) + 1 /\ Len(stack) \in Nat /\ Len(stack) >= 1
      /\ \A i \in 1 .. Len(stack) - 1 : stack'[i] = stack[i]
      /\ stack'[Len(stack)] = f /\ Top = stack[Len(stack)] /\ stack'[Len(stack) + 1] = g
  BY Called, CallersFacts DEF Top
<1>2. ASSUME NEW call, NEW n
      PROVE  /\ \A i, j \in 1 .. Len(stack') :
                  Works(stack'[i], call, n) /\ Works(stack'[j], call, n) => i = j
             /\ Working(call, n)' <=>
                  Works(f, call, n) \/ (Working(call, n) /\ ~Works(Top, call, n))
  <2>1. \A i, j \in 1 .. Len(stack) : Works(stack[i], call, n) /\ Works(stack[j], call, n) => i = j
    BY DEF Alone, AloneIn, Works
  <2>2. Works(f, call, n) /\ ~Works(Top, call, n) => ~WorkingIn(stack, call, n)
    BY DEF Works, Working
  <2>3. PICK s, t, k, m : s = stack /\ t = stack' /\ k = Len(stack) /\ m = Len(stack')
    OBVIOUS
  <2>4. ~Works(g, call, n)
    BY DEF Works, Marked
  <2>5. /\ \A i, j \in 1 .. m : Works(t[i], call, n) /\ Works(t[j], call, n) => i = j
        /\ WorkingIn(t, call, n) <=>
             Works(t[k], call, n) \/ (WorkingIn(s, call, n) /\ ~Works(s[k], call, n))
    BY <1>1, <2>1, <2>2, <2>3, <2>4, WorkStep
  <2> QED  BY <1>1, <2>3, <2>5 DEF Working
<1>3. Alone'
  <2>1. ASSUME NEW i \in 1 .. Len(stack'), NEW j \in 1 .. Len(stack'),
               Marked(stack'[i]), Works(stack'[j], stack'[i].call, stack'[i].name)
        PROVE  i = j
    <3>1. PICK c, n : c = stack'[i].call /\ n = stack'[i].name
      OBVIOUS
    <3>2. Works(stack'[i], c, n) /\ Works(stack'[j], c, n)
      BY <2>1, <3>1 DEF Works
    <3> QED  BY <3>2, <1>2
  <2> QED  BY <2>1 DEF Alone, AloneIn
<1> QED  BY <1>2, <1>3

LEMMA WorkReturn ==
  ASSUME stack \in Seq(Frames), stack # <<>>, Alone, stack' = Callers
  PROVE  /\ Alone'
         /\ \A call, n : Working(call, n)' <=> Working(call, n) /\ ~Works(Top, call, n)
<1>1. /\ Len(stack') = Len(stack) - 1 /\ Len(stack) \in Nat /\ Len(stack) >= 1
      /\ \A i \in 1 .. Len(stack) - 1 : stack'[i] = stack[i]
      /\ Top = stack[Len(stack)]
  BY CallersFacts DEF Top
<1>2. ASSUME NEW call, NEW n
      PROVE  /\ \A i, j \in 1 .. Len(stack') :
                  Works(stack'[i], call, n) /\ Works(stack'[j], call, n) => i = j
             /\ Working(call, n)' <=> Working(call, n) /\ ~Works(Top, call, n)
  <2>1. \A i, j \in 1 .. Len(stack) : Works(stack[i], call, n) /\ Works(stack[j], call, n) => i = j
    BY DEF Alone, AloneIn, Works
  <2>2. \A i \in 1 .. Len(stack') : i \in 1 .. Len(stack) /\ i # Len(stack) /\ stack'[i] = stack[i]
    BY <1>1
  <2>3. \A i, j \in 1 .. Len(stack') :
          Works(stack'[i], call, n) /\ Works(stack'[j], call, n) => i = j
    BY <2>1, <2>2
  <2>4. ASSUME Working(call, n)'
        PROVE  Working(call, n) /\ ~Works(Top, call, n)
    <3>1. PICK i \in 1 .. Len(stack') : Works(stack'[i], call, n)
      BY <2>4 DEF Working, WorkingIn
    <3>2. i \in 1 .. Len(stack) /\ i # Len(stack) /\ Works(stack[i], call, n)
      BY <3>1, <2>2
    <3>3. Len(stack) \in 1 .. Len(stack)
      BY <1>1
    <3> QED  BY <3>2, <3>3, <2>1, <1>1 DEF Working, WorkingIn
  <2>5. ASSUME Working(call, n), ~Works(Top, call, n)
        PROVE  Working(call, n)'
    <3>1. PICK i \in 1 .. Len(stack) : Works(stack[i], call, n)
      BY <2>5 DEF Working, WorkingIn
    <3>2. i # Len(stack)
      BY <3>1, <2>5, <1>1
    <3>3. i \in 1 .. Len(stack') /\ Works(stack'[i], call, n)
      BY <3>1, <3>2, <1>1
    <3> QED  BY <3>3 DEF Working, WorkingIn
  <2> QED  BY <2>3, <2>4, <2>5
<1>3. Alone'
  <2>1. ASSUME NEW i \in 1 .. Len(stack'), NEW j \in 1 .. Len(stack'),
               Marked(stack'[i]), Works(stack'[j], stack'[i].call, stack'[i].name)
        PROVE  i = j
    <3>1. PICK c, n : c = stack'[i].call /\ n = stack'[i].name
      OBVIOUS
    <3>2. Works(stack'[i], c, n) /\ Works(stack'[j], c, n)
      BY <2>1, <3>1 DEF Works
    <3> QED  BY <3>2, <1>2
  <2> QED  BY <2>1 DEF Alone, AloneIn
<1> QED  BY <1>2, <1>3

\* A call that is at work is on the stack.
LEMMA TopWorks ==
  ASSUME stack \in Seq(Frames), stack # <<>>
  PROVE  \A call, n : Works(Top, call, n) => Working(call, n)
<1>1. Len(stack) \in 1 .. Len(stack)
  BY CallersFacts
<1> QED  BY <1>1 DEF Working, WorkingIn, Top

\* A step that puts no call to work and ends none, and leaves the marks.
SameMarks ==
  /\ DOMAIN entries' = DOMAIN entries
  /\ \A n \in DOMAIN entries : entries'[n].state = entries[n].state
  /\ UNCHANGED aggregates

\* So the marks are still right when no call starts or ends its work.
LEMMA MarksContinue ==
  ASSUME stack \in Seq(Frames), stack # <<>>, phase = "analyze", Marks, SameMarks,
         NEW f \in Frames, Continue(f), f.call = Top.call, f.name = Top.name,
         Marked(f) <=> Marked(Top)
  PROVE  Marks'
<1>1. Alone
  BY DEF Marks
<1>2. /\ Alone'
      /\ \A call, n :
           Working(call, n)' <=> Works(f, call, n) \/ (Working(call, n) /\ ~Works(Top, call, n))
  BY <1>1, WorkContinue
<1>3. \A call, n : Works(Top, call, n) => Working(call, n)
  BY TopWorks
<1>4. \A call, n : Working(call, n)' <=> Working(call, n)
  BY <1>2, <1>3 DEF Works
<1> QED  BY <1>2, <1>4 DEF Marks, SameMarks

LEMMA MarksCall ==
  ASSUME stack \in Seq(Frames), stack # <<>>, phase = "analyze", Marks, SameMarks,
         NEW f \in Frames, NEW g \in Frames, CallFrom(f, g),
         f.call = Top.call, f.name = Top.name, g.at = "start",
         Marked(f) <=> Marked(Top)
  PROVE  Marks'
<1>1. Alone
  BY DEF Marks
<1>2. /\ Alone'
      /\ \A call, n :
           Working(call, n)' <=> Works(f, call, n) \/ (Working(call, n) /\ ~Works(Top, call, n))
  BY <1>1, WorkCall
<1>3. \A call, n : Works(Top, call, n) => Working(call, n)
  BY TopWorks
<1>4. \A call, n : Working(call, n)' <=> Working(call, n)
  BY <1>2, <1>3 DEF Works
<1> QED  BY <1>2, <1>4 DEF Marks, SameMarks

LEMMA MarksReturn ==
  ASSUME stack \in Seq(Frames), stack # <<>>, phase = "analyze", Marks, SameMarks,
         stack' = Callers, ~Marked(Top)
  PROVE  Marks'
<1>1. Alone
  BY DEF Marks
<1>2. /\ Alone'
      /\ \A call, n : Working(call, n)' <=> Working(call, n) /\ ~Works(Top, call, n)
  BY <1>1, WorkReturn
<1>3. \A call, n : Working(call, n)' <=> Working(call, n)
  BY <1>2 DEF Works
<1> QED  BY <1>2, <1>3 DEF Marks, SameMarks

-----------------------------------------------------------------------------
(* Steps that change no more than the stack, the answer and the errors *)

\* No entry and no aggregate changes; array types may be added.
Quiet ==
  /\ UNCHANGED <<input, next, entries, aggregates>>
  /\ functions' \subseteq DOMAIN entries
  /\ DOMAIN arrays \subseteq DOMAIN arrays' /\ DOMAIN arrays' \subseteq Types
  /\ \A t \in DOMAIN arrays' : arrays'[t] \in Nat
  /\ errors \subseteq errors' /\ phase = "analyze"
  /\ Local'

LEMMA QuietParts ==
  ASSUME Inv, UNCHANGED <<input, next, global>>, errors \subseteq errors', phase = "analyze", Local'
  PROVE  Quiet
BY DEF Inv, TypeOK, Quiet, global

LEMMA QuietScopes ==
  Inv /\ UNCHANGED <<input, next, scopes>> /\ errors \subseteq errors' /\ phase = "analyze"
    => Quiet
<1> SUFFICES ASSUME Inv, UNCHANGED <<input, next, scopes>>, errors \subseteq errors',
                    phase = "analyze"
             PROVE  Quiet
  OBVIOUS
<1>2. Local'
  BY LocalStays DEF Inv, scopes, global, input
<1> QED  BY <1>2, QuietParts DEF scopes

LEMMA QuietGrows == Quiet => Grows /\ SameMarks
BY DEF Quiet, Grows, SameMarks

LEMMA QuietTypes ==
  ASSUME TypeOK, Quiet, stack' \in Seq(Frames), phase' \in {"analyze"} \cup Ends,
         ret' \in [ok : BOOLEAN, type : Types]
  PROVE  TypeOK'
<1>1. program' = program
  BY DEF Quiet, input
<1>2. \A n \in ParametersIn(program) : n \in Names \cup {Builtin}
  BY ParameterNames
<1>3. /\ DOMAIN scope' \cup DOMAIN old_scope' \subseteq Names \cup {Builtin}
      /\ \A n \in DOMAIN scope' : scope'[n] \in Types
      /\ \A n \in DOMAIN old_scope' : old_scope'[n] \in Types
  BY <1>1, <1>2 DEF Quiet, Local, ScopeOK, Known
<1> QED  BY <1>3 DEF TypeOK, Quiet, input

LEMMA QuietScoped ==
  ASSUME Scoped, Quiet, Known(ret.type)'
  PROVE  Scoped'
<1>1. ASSUME NEW n \in DOMAIN entries'
      PROVE  Known(entries[n].type)'
  <2>1. PICK t : t = entries[n].type
    OBVIOUS
  <2>2. Known(t)'
    BY <2>1, KnownStays, QuietGrows DEF Scoped, Quiet
  <2> QED  BY <2>1, <2>2 DEF Quiet
<1> QED  BY <1>1 DEF Scoped, Quiet, input, local

LEMMA QuietStarted ==
  ASSUME Started, Quiet, phase' = "analyze"
  PROVE  Started'
BY DEF Started, OfBuiltin, Quiet, input

LEMMA RetStays ==
  ASSUME Inv, Quiet, ret' = ret
  PROVE  Known(ret.type)'
<1>1. PICK t : t = ret.type
  OBVIOUS
<1>2. Known(t)'
  BY <1>1, KnownStays, QuietGrows DEF Inv, Scoped
<1> QED  BY <1>1, <1>2

\* The invariant after a quiet step that goes on, calls, returns or ends it all.
LEMMA QuietContinue ==
  ASSUME Inv, stack # <<>>, Quiet, phase' = phase, ret' = ret,
         NEW f \in Frames, Continue(f), f.call = Top.call, f.name = Top.name,
         Marked(f) <=> Marked(Top), FrameOK(f)', Answered(f)'
  PROVE  Inv'
<1>1. stack' \in Seq(Frames) /\ Calling'
  BY ContinueCalling, QuietGrows DEF Inv, TypeOK
<1>2. TypeOK'
  BY <1>1, QuietTypes DEF Inv, TypeOK, Quiet
<1>3. Scoped'
  BY QuietScoped, RetStays DEF Inv
<1>4. Started'
  BY QuietStarted DEF Inv, Quiet
<1>5. Marks'
  BY MarksContinue, QuietGrows DEF Inv, TypeOK, Quiet
<1> QED  BY <1>1, <1>2, <1>3, <1>4, <1>5 DEF Inv, Quiet

LEMMA QuietCall ==
  ASSUME Inv, stack # <<>>, Quiet, phase' = phase, ret' = ret,
         NEW f \in Frames, NEW g \in Frames, CallFrom(f, g),
         f.call = Top.call, f.name = Top.name, g.at = "start",
         Marked(f) <=> Marked(Top), FrameOK(f)', FrameOK(g)', Waits(f, g)'
  PROVE  Inv'
<1>1. stack' \in Seq(Frames) /\ Calling'
  BY CallCalling, QuietGrows DEF Inv, TypeOK
<1>2. TypeOK'
  BY <1>1, QuietTypes DEF Inv, TypeOK, Quiet
<1>3. Scoped'
  BY QuietScoped, RetStays DEF Inv
<1>4. Started'
  BY QuietStarted DEF Inv, Quiet
<1>5. Marks'
  BY MarksCall, QuietGrows DEF Inv, TypeOK, Quiet
<1> QED  BY <1>1, <1>2, <1>3, <1>4, <1>5 DEF Inv, Quiet

LEMMA QuietReturn ==
  ASSUME Inv, stack # <<>>, Quiet, phase' = phase, stack' = Callers, ~Marked(Top),
         ret' \in [ok : BOOLEAN, type : Types], Known(ret.type)',
         errors' = {} /\ Top.call = "sema_resolve_entry" =>
           ret'.ok /\ entries'[Top.name].state = "RESOLVED",
         errors' = {} /\ Top.call \in Typing => ret'.type # NoType
  PROVE  Inv'
<1>1. stack' \in Seq(Frames) /\ Calling'
  BY ReturnCalling, QuietGrows DEF Inv, TypeOK
<1>2. TypeOK'
  BY <1>1, QuietTypes DEF Inv, TypeOK, Quiet
<1>3. Scoped'
  BY QuietScoped DEF Inv
<1>4. Started'
  BY QuietStarted DEF Inv, Quiet
<1>5. Marks'
  BY MarksReturn, QuietGrows DEF Inv, TypeOK, Quiet
<1> QED  BY <1>1, <1>2, <1>3, <1>4, <1>5 DEF Inv, Quiet

LEMMA QuietEnd ==
  ASSUME Inv, Quiet, ret' = ret, phase' \in {"crashed", "aborted"}, stack' = <<>>,
         phase' = "crashed" => errors' # {} \/ OfBuiltin
  PROVE  Inv'
<1>1. stack' \in Seq(Frames) /\ Len(stack') = 0
  BY EmptySeq
<1>2. Calling'
  BY <1>1, LenProperties DEF Calling
<1>3. TypeOK'
  BY <1>1, QuietTypes DEF Inv, TypeOK, Quiet, Ends
<1>4. Scoped'
  BY QuietScoped, RetStays DEF Inv
<1>5. Started' /\ Marks'
  BY DEF Started, Marks, OfBuiltin, Quiet, input
<1> QED  BY <1>2, <1>3, <1>4, <1>5 DEF Inv, Quiet

LEMMA TopFacts ==
  ASSUME Inv, stack # <<>>
  PROVE  Top \in Frames /\ FrameOK(Top) /\ Answered(Top)
<1>1. stack \in Seq(Frames) /\ Calling
  BY DEF Inv, TypeOK
<1> QED  BY <1>1, CallersFacts DEF Calling, Top

\* The frame after a step of its call, and the one of a new call.
LEMMA FrameAt ==
  ASSUME NEW d \in Frames, NEW at \in Places, NEW f, f = [d EXCEPT !.at = at]
  PROVE  /\ f \in Frames /\ f.call = d.call /\ f.name = d.name /\ f.expr = d.expr
         /\ f.at = at /\ f.type = d.type /\ f.item = d.item /\ f.size = d.size
BY DEF Frames

LEMMA NewFrame ==
  ASSUME NEW call \in Calls, NEW n \in Names, NEW t \in Types, NEW g, g = Frame(call, n, t)
  PROVE  /\ g \in Frames /\ g.call = call /\ g.name = n /\ g.expr = t
         /\ g.at = "start" /\ g.type = NoType /\ g.item = 1 /\ g.size = 0
<1>1. NoType \in Types
  BY EmptySeq DEF NoType, Plain, Types
<1> QED  BY <1>1 DEF Frames, Frame, Places

\* Types that can always be asked for their size: a name, and the null type.
LEMMA PlainKnown ==
  ASSUME NEW n \in Names \cup {Builtin, None}
  PROVE  Known(Plain(n)) /\ Known(Plain(n))' /\ (n # None => Plain(n) # NoType)
         /\ Plain(n).base = n
<1>1. Plain(n) \in Types
  BY EmptySeq DEF Plain, Types
<1>2. Plain(n).base = n /\ Plain(n).wraps = <<>> /\ NoType.base = None
  BY DEF Plain, NoType
<1>3. Known(Plain(n))
  BY <1>1, <1>2 DEF Known
<1>4. Known(Plain(n))'
  BY <1>1, <1>2 DEF Known
<1> QED  BY <1>2, <1>3, <1>4

LEMMA NullKnown == NoType \in Types /\ Known(NoType) /\ Known(NoType)'
<1>1. NoType \in Types /\ NoType.wraps = <<>>
  BY EmptySeq DEF NoType, Plain, Types
<1> QED  BY <1>1 DEF Known

-----------------------------------------------------------------------------
(* sema_resolve_type *)

LEMMA ResolveTypeNameInv == Inv /\ ResolveTypeName => Inv'
<1> SUFFICES ASSUME Inv, ResolveTypeName PROVE Inv'
  OBVIOUS
<1>1. /\ Quiet /\ phase' = phase /\ ret' = ret /\ stack # <<>>
      /\ Top.call = "sema_resolve_type" /\ Top.at = "start"
  BY QuietScopes DEF ResolveTypeName, At, Report
<1>2. PICK d : d = Top
  OBVIOUS
<1>3. d \in Frames /\ FrameOK(d) /\ d.expr \in Types /\ d.name \in DOMAIN entries
  BY <1>1, <1>2, TopFacts DEF FrameOK, Frames
<1>4. FrameOK(d)'
  BY <1>1, <1>3, FrameStays, QuietGrows
<1>5. ASSUME NEW u, Known(u)', u # NoType, Continue([Here("wrap") EXCEPT !.type = u])
      PROVE  Inv'
  <2>1. PICK f, t : t = u /\ f = [[d EXCEPT !.at = "wrap"] EXCEPT !.type = t]
    OBVIOUS
  <2>2. t \in Types /\ Known(t)' /\ t # NoType
    BY <1>5, <2>1 DEF Known
  <2>3. f \in Frames /\ f.call = d.call /\ f.name = d.name /\ f.at = "wrap" /\ f.type = t
        /\ f.expr = d.expr
    BY <1>3, <2>1, <2>2 DEF Frames, Places
  <2>4. Continue(f)
    BY <1>2, <1>5, <2>1 DEF Here
  <2>5. ~Marked(f) /\ ~Marked(Top)
    BY <1>1, <1>2, <2>3 DEF Marked, Marking
  <2>6. Answered(f)'
    BY <2>3 DEF Answered
  <2>7. FrameOK(f)'
    BY <1>1, <1>2, <1>4, <2>2, <2>3 DEF FrameOK
  <2> QED  BY <1>1, <1>2, <2>3, <2>4, <2>5, <2>6, <2>7, QuietContinue
<1>8. CASE d.expr.base \in DOMAIN scope /\ Continue([Here("wrap") EXCEPT !.type = scope[d.expr.base]])
  <2>1. PICK u : u = scope[d.expr.base]
    OBVIOUS
  <2>2. Known(u) /\ u # NoType
    BY <1>8, <2>1 DEF Inv, Local, ScopeOK
  <2>3. Known(u)'
    BY <1>1, <2>2, KnownStays, QuietGrows
  <2> QED  BY <1>5, <1>8, <2>1, <2>2, <2>3
<1>9. CASE Continue([Here("wrap") EXCEPT !.type = Plain(Builtin)])
  <2>1. Known(Plain(Builtin))' /\ Plain(Builtin) # NoType
    BY PlainKnown, NamesAssumption
  <2>2. PICK u : u = Plain(Builtin)
    OBVIOUS
  <2>3. Known(u)'
    BY <2>1, <2>2 DEF Known, ArrayWrap, LastWrap
  <2> QED  BY <1>5, <1>9, <2>1, <2>2, <2>3
<1>6. CASE Report("not defined") /\ Continue(Here("wrap"))
  <2>1. PICK f : f = [d EXCEPT !.at = "wrap"]
    OBVIOUS
  <2>2. f \in Frames /\ f.call = d.call /\ f.name = d.name /\ f.at = "wrap" /\ f.type = d.type
        /\ f.expr = d.expr
    BY <1>3, <2>1, FrameAt DEF Places
  <2>3. Continue(f) /\ errors' # {}
    BY <1>2, <1>6, <2>1 DEF Here, Report
  <2>4. FrameOK(f)' /\ Answered(f)' /\ ~Marked(f) /\ ~Marked(Top)
    BY <1>1, <1>2, <1>4, <2>2, <2>3 DEF FrameOK, Answered, Marked, Marking
  <2> QED  BY <1>1, <1>2, <2>2, <2>3, <2>4, QuietContinue
<1>7. CASE /\ d.expr.base \in DOMAIN entries
           /\ CallFrom(Here("named"), Frame("sema_resolve_entry", d.expr.base, NoType))
  <2>1. PICK f, g : /\ f = [d EXCEPT !.at = "named"]
                    /\ g = Frame("sema_resolve_entry", d.expr.base, NoType)
    OBVIOUS
  <2>2. f \in Frames /\ f.call = d.call /\ f.name = d.name /\ f.at = "named" /\ f.type = d.type
        /\ f.expr = d.expr
    BY <1>3, <2>1, FrameAt DEF Places
  <2>3. d.expr.base \in Names /\ NoType \in Types /\ Known(NoType)'
    BY <1>7, NullKnown DEF Inv, TypeOK
  <2>4. g \in Frames /\ g.call = "sema_resolve_entry" /\ g.name = d.expr.base /\ g.at = "start"
        /\ g.type = NoType
    BY <2>1, <2>3, NewFrame DEF Calls
  <2>5. CallFrom(f, g)
    BY <1>2, <1>7, <2>1 DEF Here
  <2>6. FrameOK(f)' /\ FrameOK(g)' /\ Waits(f, g)' /\ ~Marked(f) /\ ~Marked(Top)
    BY <1>1, <1>2, <1>4, <1>7, <2>2, <2>3, <2>4
    DEF FrameOK, Waits, Marked, Marking, Quiet
  <2> QED  BY <1>1, <1>2, <2>2, <2>4, <2>5, <2>6, QuietCall
<1> QED  BY <1>1, <1>2, <1>6, <1>7, <1>8, <1>9 DEF ResolveTypeName

LEMMA ResolveTypeNamedInv == Inv /\ ResolveTypeNamed => Inv'
<1> SUFFICES ASSUME Inv, ResolveTypeNamed PROVE Inv'
  OBVIOUS
<1>1. /\ Quiet /\ phase' = phase /\ ret' = ret /\ stack # <<>>
      /\ Top.call = "sema_resolve_type" /\ Top.at = "named"
  BY QuietScopes DEF ResolveTypeNamed, At, Report
<1>2. PICK d : d = Top
  OBVIOUS
<1>3. d \in Frames /\ FrameOK(d) /\ Answered(d) /\ d.expr.base \in DOMAIN entries
  BY <1>1, <1>2, TopFacts DEF FrameOK
<1>4. FrameOK(d)'
  BY <1>1, <1>3, FrameStays, QuietGrows
<1>5. CASE ret.ok /\ Continue([Here("wrap") EXCEPT !.type = entries[Top.expr.base].type])
                  /\ UNCHANGED errors
  <2>1. PICK f, t : /\ t = entries[d.expr.base].type
                    /\ f = [[d EXCEPT !.at = "wrap"] EXCEPT !.type = t]
    OBVIOUS
  <2>2. Known(t) /\ t \in Types
    BY <1>3, <2>1 DEF Inv, Scoped, Known
  <2>3. f \in Frames /\ f.call = d.call /\ f.name = d.name /\ f.at = "wrap" /\ f.type = t
        /\ f.expr = d.expr
    BY <1>3, <2>1, <2>2 DEF Frames, Places
  <2>4. Continue(f)
    BY <1>2, <1>5, <2>1 DEF Here
  <2>5. ~Marked(f) /\ ~Marked(Top)
    BY <1>1, <1>2, <2>3 DEF Marked, Marking
  <2>6. Answered(f)'
    BY <2>3 DEF Answered
  <2>7. Known(t)'
    BY <1>1, <2>2, KnownStays, QuietGrows
  <2>8. errors' = {} => t # NoType
    BY <1>1, <1>2, <1>3, <1>5, <2>1 DEF Inv, Scoped, Answered
  <2>9. FrameOK(f)'
    BY <1>1, <1>2, <1>4, <2>3, <2>7, <2>8 DEF FrameOK
  <2> QED  BY <1>1, <1>2, <2>3, <2>4, <2>5, <2>6, <2>9, QuietContinue
<1>6. CASE Report("not defined") /\ Continue(Here("wrap"))
  <2>1. PICK f : f = [d EXCEPT !.at = "wrap"]
    OBVIOUS
  <2>2. f \in Frames /\ f.call = d.call /\ f.name = d.name /\ f.at = "wrap" /\ f.type = d.type
        /\ f.expr = d.expr
    BY <1>3, <2>1, FrameAt DEF Places
  <2>3. Continue(f) /\ errors' # {}
    BY <1>2, <1>6, <2>1 DEF Here, Report
  <2>4. FrameOK(f)' /\ Answered(f)' /\ ~Marked(f) /\ ~Marked(Top)
    BY <1>1, <1>2, <1>4, <2>2, <2>3 DEF FrameOK, Answered, Marked, Marking
  <2> QED  BY <1>1, <1>2, <2>2, <2>3, <2>4, QuietContinue
<1> QED  BY <1>1, <1>5, <1>6 DEF ResolveTypeNamed

LEMMA ResolveTypeReturnInv == Inv /\ ResolveTypeReturn => Inv'
<1> SUFFICES ASSUME Inv, ResolveTypeReturn PROVE Inv'
  OBVIOUS
<1>1. /\ Quiet /\ phase' = phase /\ stack # <<>> /\ errors' = errors
      /\ Top.call = "sema_resolve_type" /\ Top.at = "wrap"
      /\ stack' = Callers /\ ret' = [ok |-> Top.type # NoType, type |-> Top.type]
  BY QuietScopes DEF ResolveTypeReturn, At, Return
<1>2. PICK d, t : d = Top /\ t = Top.type
  OBVIOUS
<1>3. d \in Frames /\ FrameOK(d) /\ Known(t) /\ t \in Types
  BY <1>1, <1>2, TopFacts DEF FrameOK, Known
<1>4. ret'.type = t /\ ret' \in [ok : BOOLEAN, type : Types]
  BY <1>1, <1>2, <1>3
<1>5. Known(t)'
  BY <1>1, <1>3, KnownStays, QuietGrows
<1>6. errors' = {} => t # NoType
  BY <1>1, <1>2, <1>3 DEF FrameOK
<1>7. ~Marked(Top)
  BY <1>1 DEF Marked, Marking
<1> QED  BY <1>1, <1>4, <1>5, <1>6, <1>7, QuietReturn

\* A wrapped type ends in its wrap and is not null.
LEMMA WrapType ==
  ASSUME NEW t \in Types, NEW w \in Wraps
  PROVE  /\ Wrap(t, w) \in Types /\ Wrap(t, w) # NoType
         /\ Wrap(t, w).wraps # <<>> /\ LastWrap(Wrap(t, w)) = w
<1> DEFINE ws == Append(t.wraps, w)
<1>1. t.wraps \in Seq(Wraps)
  BY DEF Types
<1>2. ws \in Seq(Wraps) /\ ws # <<>> /\ Len(ws) = Len(t.wraps) + 1 /\ ws[Len(t.wraps) + 1] = w
  BY <1>1, AppendProperties
<1> HIDE DEF ws
<1>3. Wrap(t, w) = [t EXCEPT !.wraps = ws]
  BY DEF Wrap, ws
<1>4. Wrap(t, w) \in Types /\ Wrap(t, w).wraps = ws
  BY <1>2, <1>3 DEF Types
<1>5. NoType.wraps = <<>>
  BY DEF NoType, Plain
<1> QED  BY <1>2, <1>4, <1>5 DEF LastWrap

LEMMA SizeTyped ==
  ASSUME Inv, NEW t, Known(t)
  PROVE  SizeOf(t) \in Nat
BY DEF SizeOf, Known, Inv, TypeOK, POINTER_SIZE

LEMMA ResolveTypeWrapInv == Inv /\ ResolveTypeWrap => Inv'
<1> SUFFICES ASSUME Inv, ResolveTypeWrap PROVE Inv'
  OBVIOUS
<1>1. /\ UNCHANGED <<input, next, entries, aggregates, functions, local, ret, errors>>
      /\ phase = "analyze" /\ stack # <<>>
      /\ Top.call = "sema_resolve_type" /\ Top.at = "wrap" /\ Top.item <= Len(Top.expr.wraps)
  BY DEF ResolveTypeWrap, At
<1>2. PICK d, w, t : d = Top /\ w = Top.expr.wraps[Top.item] /\ t = Top.type
  OBVIOUS
<1>3. d \in Frames /\ FrameOK(d) /\ Known(t) /\ t \in Types /\ d.item \in Nat /\ d.expr \in Types
  BY <1>1, <1>2, TopFacts DEF FrameOK, Known, Frames
<1>4. w \in Wraps
  <2>1. d.expr.wraps \in Seq(Wraps) /\ d.item \in 1 .. Len(d.expr.wraps)
    BY <1>1, <1>2, <1>3 DEF Types, Frames
  <2> QED  BY <1>2, <2>1, ElementOfSeq
<1>5. CASE arrays' = arrays /\ End("crashed") /\ t = NoType
  <2>1. Quiet /\ stack' = <<>> /\ phase' = "crashed"
    BY <1>1, <1>5, QuietScopes DEF End, scopes, global, local
  <2>2. errors' # {}
    BY <1>1, <1>2, <1>3, <1>5 DEF FrameOK
  <2> QED  BY <1>1, <2>1, <2>2, QuietEnd
<1>6. CASE arrays' = arrays /\ End("aborted")
  <2>1. Quiet /\ stack' = <<>> /\ phase' = "aborted"
    BY <1>1, <1>6, QuietScopes DEF End, scopes, global, local
  <2> QED  BY <1>1, <2>1, QuietEnd
<1>7. ASSUME phase' = phase, Quiet, ArrayWrap(w) => Wrap(t, w) \in DOMAIN arrays',
             Continue([Top EXCEPT !.type = Wrap(t, w), !.item = @ + 1])
      PROVE  Inv'
  <2>1. PICK f, m : m = Wrap(t, w) /\ f = [d EXCEPT !.type = m, !.item = @ + 1]
    OBVIOUS
  <2>2. m \in Types /\ m # NoType /\ LastWrap(m) = w
    BY <1>3, <1>4, <2>1, WrapType
  <2>3. f \in Frames /\ f.call = d.call /\ f.name = d.name /\ f.at = d.at /\ f.type = m /\ f.expr = d.expr
    <3>1. PICK k : k = d.item + 1
      OBVIOUS
    <3>2. k \in Nat \ {0}
      BY <1>3, <3>1
    <3>3. f = [d EXCEPT !.type = m, !.item = k]
      BY <2>1, <3>1
    <3> HIDE <2>1
    <3> QED  BY <1>3, <2>2, <3>2, <3>3 DEF Frames
  <2>4. Continue(f)
    BY <1>2, <1>7, <2>1
  <2>5. ~Marked(f) /\ ~Marked(Top)
    BY <1>1, <1>2, <2>3 DEF Marked, Marking
  <2>6. Answered(f)'
    BY <1>1, <1>2, <2>3 DEF Answered
  <2>7. Known(m)'
    BY <1>7, <2>1, <2>2 DEF Known
  <2>8. FrameOK(d)'
    BY <1>7, <1>3, FrameStays, QuietGrows
  <2>9. FrameOK(f)'
    BY <1>1, <1>2, <2>2, <2>3, <2>7, <2>8 DEF FrameOK
  <2> QED  BY <1>1, <1>2, <1>7, <2>3, <2>4, <2>5, <2>6, <2>9, QuietContinue
<1>8. CASE /\ ArrayWrap(w) /\ phase' = phase
           /\ Continue([Top EXCEPT !.type = Wrap(t, w), !.item = @ + 1])
           /\ \E size \in Nat :
                arrays' = IF Wrap(t, w) \in DOMAIN arrays THEN arrays
                          ELSE With(arrays, Wrap(t, w), size)
  <2>1. PICK size \in Nat :
                arrays' = IF Wrap(t, w) \in DOMAIN arrays THEN arrays
                          ELSE With(arrays, Wrap(t, w), size)
    BY <1>8
  <2>2. Wrap(t, w) \in Types
    BY <1>3, <1>4, WrapType
  <2>3. /\ DOMAIN arrays' = DOMAIN arrays \cup {Wrap(t, w)}
        /\ \A u \in DOMAIN arrays' : arrays'[u] \in Nat
    <3>1. \A u \in DOMAIN arrays : arrays[u] \in Nat
      BY DEF Inv, TypeOK
    <3>2. PICK m : m = Wrap(t, w)
      OBVIOUS
    <3>3. CASE m \in DOMAIN arrays
      BY <2>1, <3>1, <3>2, <3>3
    <3>4. CASE m \notin DOMAIN arrays
      <4>1. arrays' = With(arrays, m, size)
        BY <2>1, <3>2, <3>4
      <4> QED  BY <4>1, <3>1, <3>2 DEF With
    <3> QED  BY <3>3, <3>4
  <2>5. Local'
    BY <1>1, <2>3, LocalStays DEF Inv, input
  <2>4. Quiet
    BY <1>1, <2>2, <2>3, <2>5 DEF Quiet, Inv, TypeOK
  <2> QED  BY <1>7, <1>8, <2>3, <2>4
<1>9. CASE /\ ~ArrayWrap(w) /\ phase' = phase /\ arrays' = arrays
           /\ Continue([Top EXCEPT !.type = Wrap(t, w), !.item = @ + 1])
  <2>1. Quiet
    BY <1>1, <1>9, QuietScopes DEF scopes, global, local
  <2> QED  BY <1>7, <1>9, <2>1
<1>10. SizeOf(t) \in Nat
  BY <1>3, SizeTyped
<1>11. (IF w = "sized" THEN Count * SizeOf(t) + POINTER_SIZE ELSE 2 * POINTER_SIZE) \in Nat
  BY <1>10 DEF Count, POINTER_SIZE
<1> QED  BY <1>1, <1>2, <1>5, <1>6, <1>8, <1>9, <1>11 DEF ResolveTypeWrap

-----------------------------------------------------------------------------
(* sema_resolve_entry *)

\* The declaration of an entry is one of the program, under its name.
LEMMA DeclTyped ==
  ASSUME Inv, NEW n \in DOMAIN entries
  PROVE  /\ n \in Names /\ Decl(n).name = n /\ Decl(n) \in Decls
         /\ Decl(n).types \in Seq(Types) /\ Decl(n).init \in Names \cup {Builtin, None}
         /\ \A i \in 1 .. Len(Decl(n).types) : Decl(n).types[i] \in Types
         /\ Decl(n).kind = "alias" \/ (Decl(n).kind = "variable" /\ Decl(n).init = None) =>
              Len(Decl(n).types) = 1 /\ Decl(n).types[1] \in Types
<1>1. n \in Names /\ Decl(n).name = n /\ Decl(n) \in Decls
  <2>1. entries[n].node \in DOMAIN program /\ program \in Seq(Decls) /\ n \in Names
    BY DEF Inv, TypeOK
  <2>2. Decl(n) \in Decls
    BY <2>1 DEF Decl
  <2> QED  BY <2>1, <2>2 DEF Decl, Inv, Scoped
<1>2. PICK d : d = Decl(n)
  OBVIOUS
<1>3. /\ d.types \in Seq(Types) /\ d.init \in Names \cup {Builtin, None}
      /\ d.kind = "alias" => Len(d.types) = 1
      /\ d.kind = "variable" /\ d.init = None => Len(d.types) = 1
  BY <1>1, <1>2 DEF Decls
<1>4. \A i \in 1 .. Len(d.types) : d.types[i] \in Types
  BY <1>3, ElementOfSeq
<1>5. Len(d.types) = 1 => d.types[1] \in Types
  <2>1. Len(d.types) = 1 => 1 \in 1 .. Len(d.types)
    OBVIOUS
  <2> QED  BY <2>1, <1>4
<1> QED  BY <1>1, <1>2, <1>3, <1>4, <1>5

\* Its lines and its parameters: each has a type, a line counts, a parameter has
\* a name.
LEMMA DeclParts ==
  ASSUME Inv, NEW n \in DOMAIN entries
  PROVE  /\ Len(Decl(n).counts) \in Nat /\ DOMAIN Decl(n).counts = 1 .. Len(Decl(n).counts)
         /\ Len(Decl(n).params) \in Nat /\ DOMAIN Decl(n).params = 1 .. Len(Decl(n).params)
         /\ \A i \in DOMAIN Decl(n).counts :
              i \in 1 .. Len(Decl(n).types) /\ Decl(n).types[i] \in Types /\ Decl(n).counts[i] \in Nat
         /\ \A i \in DOMAIN Decl(n).params :
              i \in 1 .. Len(Decl(n).types) /\ Decl(n).types[i] \in Types /\ Decl(n).params[i] \in ParametersIn(program)
<1>1. PICK d : d = Decl(n)
  OBVIOUS
<1>2. d \in Decls /\ \A i \in 1 .. Len(d.types) : d.types[i] \in Types
  BY <1>1, DeclTyped
<1>3. d.params \in Seq(Names \cup {Builtin}) /\ d.counts \in Seq(Nat \ {0})
  BY <1>2 DEF Decls
<1>4. /\ Len(d.types) = Len(d.params) + 1 \/ d.params = <<>>
      /\ Len(d.counts) = Len(d.types) \/ Len(d.counts) = 0
  BY <1>2 DEF Decls
<1>5. /\ Len(d.counts) \in Nat /\ DOMAIN d.counts = 1 .. Len(d.counts)
      /\ Len(d.params) \in Nat /\ DOMAIN d.params = 1 .. Len(d.params)
  BY <1>3, LenProperties
<1>6. ASSUME NEW i \in DOMAIN d.counts
      PROVE  i \in 1 .. Len(d.types) /\ d.types[i] \in Types /\ d.counts[i] \in Nat
  <2>1. d.counts[i] \in Nat \ {0}
    BY <1>3, <1>5, ElementOfSeq
  <2>2. i \in 1 .. Len(d.types)
    BY <1>4, <1>5
  <2> QED  BY <1>2, <2>1, <2>2
<1>7. ASSUME NEW i \in DOMAIN d.params
      PROVE  /\ i \in 1 .. Len(d.types) /\ d.types[i] \in Types
             /\ d.params[i] \in ParametersIn(program)
  <2>1. i \in 1 .. Len(d.types)
    <3>1. d.params # <<>>
      BY <1>5
    <3> QED  BY <1>4, <1>5, <3>1
  <2>2. d = program[entries[n].node] /\ entries[n].node \in DOMAIN program
    BY <1>1 DEF Decl, Inv, TypeOK
  <2>3. d.params[i] \in ElementsOf(d.params)
    BY DEF ElementsOf
  <2> QED  BY <1>2, <2>1, <2>2, <2>3 DEF ParametersIn
<1> QED  BY <1>1, <1>5, <1>6, <1>7

\* The types of a declaration are mentioned in the program, for good.
LEMMA Mentions ==
  ASSUME Inv, Grows, NEW n \in DOMAIN entries, NEW i \in 1 .. Len(Decl(n).types),
         NEW t, t = Decl(n).types[i]
  PROVE  Mentioned(t)'
<1>1. entries[n].node \in DOMAIN program /\ i \in DOMAIN Decl(n).types
  BY DeclTyped DEF Inv, TypeOK
<1>2. Mentioned(t)
  BY <1>1 DEF Mentioned, ElementsOf, Decl
<1> QED  BY <1>2 DEF Mentioned, ElementsOf, Grows, input

LEMMA ResolveEntryMarkedInv == Inv /\ ResolveEntryMarked => Inv'
<1> SUFFICES ASSUME Inv, ResolveEntryMarked PROVE Inv'
  OBVIOUS
<1>1. /\ Quiet /\ phase' = phase /\ stack # <<>> /\ entries' = entries
      /\ Top.call = "sema_resolve_entry" /\ Top.at = "start" /\ stack' = Callers
  BY QuietScopes DEF ResolveEntryMarked, At, Return, Report, scopes, global, local
<1>2. \/ entries[Top.name].state = "RESOLVED" /\ ret' = [ok |-> TRUE, type |-> NoType]
      \/ errors' # {} /\ ret' = [ok |-> FALSE, type |-> NoType]
  BY DEF ResolveEntryMarked, Return, Report
<1>3. Known(NoType)' /\ NoType \in Types
  BY NullKnown
<1>4. ret'.type = NoType /\ ret' \in [ok : BOOLEAN, type : Types]
  <2>1. PICK b \in BOOLEAN : ret' = [ok |-> b, type |-> NoType]
    BY <1>2
  <2> QED  BY <2>1, <1>3
<1>5. errors' = {} => ret'.ok /\ entries'[Top.name].state = "RESOLVED"
  BY <1>1, <1>2
<1>6. ~Marked(Top) /\ Top.call \notin Typing
  BY <1>1 DEF Marked, Typing
<1> QED  BY <1>1, <1>3, <1>4, <1>5, <1>6, QuietReturn

LEMMA ResolveEntryCallInv == Inv /\ ResolveEntryCall => Inv'
<1> SUFFICES ASSUME Inv, ResolveEntryCall PROVE Inv'
  OBVIOUS
<1>1. /\ UNCHANGED <<input, phase, next, aggregates, arrays, functions, local, ret, errors>>
      /\ phase = "analyze" /\ stack # <<>>
      /\ Top.call = "sema_resolve_entry" /\ Top.at = "start"
      /\ entries[Top.name].state = "UNRESOLVED"
      /\ entries' = [entries EXCEPT ![Top.name].state = "RESOLVING"]
  BY DEF ResolveEntryCall, At
<1>2. PICK d, n : d = Top /\ n = Top.name
  OBVIOUS
<1>3. d \in Frames /\ FrameOK(d) /\ n \in DOMAIN entries /\ stack \in Seq(Frames)
  BY <1>1, <1>2, TopFacts DEF FrameOK, Inv, TypeOK
<1>4. /\ DOMAIN entries' = DOMAIN entries
      /\ \A m \in DOMAIN entries : /\ entries'[m].node = entries[m].node
                                   /\ entries'[m].type = entries[m].type
                                   /\ m # n => entries'[m] = entries[m]
      /\ entries'[n].state = "RESOLVING"
      /\ \A m \in DOMAIN entries' : entries'[m] \in
           [node : DOMAIN program, type : Types, state : {"UNRESOLVED", "RESOLVING", "RESOLVED"}]
  BY <1>1, <1>2, <1>3 DEF Inv, TypeOK
<1>5. Grows
  BY <1>1, <1>4 DEF Grows
<1>6. PICK f : f = [d EXCEPT !.at = "typed"]
  OBVIOUS
<1>7. /\ f \in Frames /\ f.call = d.call /\ f.name = d.name /\ f.at = "typed"
      /\ f.type = d.type
  BY <1>3, <1>6, FrameAt DEF Places
<1>8. PICK g \in Frames :
        /\ g.name = n /\ g.type = NoType /\ g.at = "start" /\ g.call \in Typing
        /\ g.call = "sema_analyze_initializer" => Decl(n).kind = "variable"
        /\ g.call = "sema_resolve_type" => g.expr = Decl(n).types[1] /\ Decl(n).kind = "alias"
        /\ CallFrom(f, g)
  <2>1. NoType \in Types
    BY NullKnown
  <2>2. n \in Names /\ Decl(n).name = n /\ (Decl(n).kind = "alias" => Decl(n).types[1] \in Types)
    BY <1>3, DeclTyped
  <2>3. CASE /\ Decl(n).kind = "alias"
             /\ CallFrom(f, Frame("sema_resolve_type", n, Decl(n).types[1]))
    <3>1. PICK g, t : g = Frame("sema_resolve_type", n, t) /\ t = Decl(n).types[1]
      OBVIOUS
    <3> QED  BY <2>2, <2>3, <3>1, NewFrame DEF Calls, Typing
  <2>4. CASE /\ Decl(n).kind = "variable"
             /\ CallFrom(f, Frame("sema_analyze_initializer", n, NoType))
    <3>1. PICK g : g = Frame("sema_analyze_initializer", n, NoType)
      OBVIOUS
    <3> QED  BY <2>1, <2>2, <2>4, <3>1, NewFrame DEF Calls, Typing
  <2>5. CASE /\ Decl(n).kind = "function"
             /\ CallFrom(f, Frame("sema_resolve_function_type", n, NoType))
    <3>1. PICK g : g = Frame("sema_resolve_function_type", n, NoType)
      OBVIOUS
    <3> QED  BY <2>1, <2>2, <2>5, <3>1, NewFrame DEF Calls, Typing
  <2> QED  BY <1>2, <1>6, <2>2, <2>3, <2>4, <2>5 DEF ResolveEntryCall, Here
<1>9. FrameOK(f)' /\ FrameOK(g)' /\ Waits(f, g)'
  <2>1. FrameOK(d)'
    BY <1>3, <1>5, FrameStays
  <2>2. Known(NoType)' /\ Decl(n)' = Decl(n)
    BY <1>3, <1>5, NullKnown, DeclStays
  <2>3. FrameOK(f)'
    BY <1>1, <1>2, <1>7, <2>1 DEF FrameOK
  <2>4. FrameOK(g)'
    <3>1. g.call = "sema_resolve_type" => Mentioned(g.expr)'
      BY <1>3, <1>5, <1>8, DeclTyped, Mentions
    <3> QED  BY <1>3, <1>4, <1>8, <2>2, <3>1 DEF FrameOK, Typing
  <2>5. Waits(f, g)'
    BY <1>7, <1>8 DEF Waits
  <2> QED  BY <2>3, <2>4, <2>5
<1>10. stack' \in Seq(Frames) /\ Calling'
  BY <1>1, <1>2, <1>3, <1>5, <1>7, <1>8, <1>9, CallCalling DEF Inv
<1>11. TypeOK'
  <2>1. \A i \in DOMAIN program : program[i].kind = "aggregate" =>
          /\ program[i].name \in DOMAIN entries
          /\ program[i].name # n
    BY <1>1, <1>2 DEF Inv, TypeOK
  <2>9. scope' = scope /\ old_scope' = old_scope
    BY <1>1 DEF local
  <2> QED  BY <1>1, <1>4, <1>10, <2>9, <2>1 DEF Inv, TypeOK, input
<1>12. Scoped'
  <2>1. Known(ret.type)'
    <3>1. PICK t : t = ret.type
      OBVIOUS
    <3> QED  BY <1>1, <1>5, <3>1, KnownStays DEF Inv, Scoped
  <2>2. ASSUME NEW m \in DOMAIN entries
        PROVE  Known(entries[m].type)'
    <3>1. PICK t : t = entries[m].type
      OBVIOUS
    <3>2. Known(t)'
      BY <1>5, <3>1, KnownStays DEF Inv, Scoped
    <3> QED  BY <3>1, <3>2, <1>4
  <2> QED  BY <1>1, <1>4, <2>1, <2>2 DEF Inv, Scoped, input, local
<1>13. Started'
  BY <1>1, <1>4 DEF Inv, Started, input, local
<1>14. Marks'
  <2>1. ~Marked(Top) /\ Alone /\ ~Working("sema_resolve_entry", n)
    BY <1>1, <1>2, <1>3 DEF Marked, Inv, Marks
  <2>2. /\ Alone'
        /\ \A call, m :
             Working(call, m)' <=> Works(f, call, m) \/ (Working(call, m) /\ ~Works(Top, call, m))
    BY <1>1, <1>2, <1>3, <1>7, <1>8, <2>1, WorkCall
  <2>3. /\ \A m : Works(f, "sema_resolve_entry", m) <=> m = n
        /\ \A m : ~Works(f, "sema_complete_aggregate", m)
        /\ \A call, m : ~Works(Top, call, m)
    BY <1>1, <1>2, <1>7, <2>1 DEF Works, Marked, Marking
  <2>4. \A m : Working("sema_resolve_entry", m)' <=> m = n \/ Working("sema_resolve_entry", m)
    BY <2>2, <2>3
  <2>5. \A m : Working("sema_complete_aggregate", m)' <=> Working("sema_complete_aggregate", m)
    BY <2>2, <2>3
  <2>6. \A m \in DOMAIN entries' :
          entries'[m].state = "RESOLVING" <=> Working("sema_resolve_entry", m)'
    BY <1>1, <1>4, <2>4 DEF Inv, Marks
  <2> QED  BY <1>1, <2>2, <2>5, <2>6 DEF Inv, Marks
<1> QED  BY <1>1, LocalStays, <1>10, <1>11, <1>12, <1>13, <1>14 DEF Inv, input

LEMMA ResolveEntryReturnInv == Inv /\ ResolveEntryReturn => Inv'
<1> SUFFICES ASSUME Inv, ResolveEntryReturn PROVE Inv'
  OBVIOUS
<1>1. /\ UNCHANGED <<input, phase, next, aggregates, arrays, functions, local, errors>>
      /\ phase = "analyze" /\ stack # <<>>
      /\ Top.call = "sema_resolve_entry" /\ Top.at = "typed"
      /\ entries' = [entries EXCEPT ![Top.name].state = "RESOLVED", ![Top.name].type = ret.type]
      /\ stack' = Callers /\ ret' = [ok |-> TRUE, type |-> NoType]
  BY DEF ResolveEntryReturn, At, Return
<1>2. PICK n, t : n = Top.name /\ t = ret.type
  OBVIOUS
<1>3. /\ n \in DOMAIN entries /\ stack \in Seq(Frames) /\ Known(t) /\ t \in Types
      /\ errors = {} => t # NoType
  BY <1>1, <1>2, TopFacts DEF FrameOK, Answered, Inv, TypeOK, Scoped, Known
<1>4. /\ DOMAIN entries' = DOMAIN entries
      /\ \A m \in DOMAIN entries : /\ entries'[m].node = entries[m].node
                                   /\ m # n => entries'[m] = entries[m]
      /\ entries'[n].state = "RESOLVED" /\ entries'[n].type = t
      /\ \A m \in DOMAIN entries' : entries'[m] \in
           [node : DOMAIN program, type : Types, state : {"UNRESOLVED", "RESOLVING", "RESOLVED"}]
  <2>1. PICK E : E = [entries EXCEPT ![n].state = "RESOLVED"]
    OBVIOUS
  <2>2. /\ DOMAIN E = DOMAIN entries
        /\ \A m \in DOMAIN entries : E[m].node = entries[m].node /\ (m # n => E[m] = entries[m])
        /\ E[n].state = "RESOLVED"
        /\ \A m \in DOMAIN E : E[m] \in
             [node : DOMAIN program, type : Types, state : {"UNRESOLVED", "RESOLVING", "RESOLVED"}]
    BY <1>3, <2>1 DEF Inv, TypeOK
  <2>3. entries' = [E EXCEPT ![n].type = t]
    BY <1>1, <1>2, <2>1
  <2> QED  BY <1>3, <2>2, <2>3
<1>5. Grows
  BY <1>1, <1>4 DEF Grows
<1>6. NoType \in Types /\ Known(NoType)'
  BY NullKnown
<1>7. Alone /\ entries[n].state = "RESOLVING"
  <2>1. Works(Top, "sema_resolve_entry", n)
    BY <1>1, <1>2 DEF Works, Marked, Marking
  <2>2. Working("sema_resolve_entry", n)
    BY <1>1, <1>3, <2>1, TopWorks
  <2> QED  BY <1>1, <1>3, <2>2 DEF Inv, Marks
<1>8. stack' \in Seq(Frames) /\ Calling'
  <2>1. Top.call \notin Typing
    BY <1>1 DEF Typing
  <2>2. ret'.ok /\ entries'[Top.name].state = "RESOLVED"
    BY <1>1, <1>2, <1>4
  <2> QED  BY <1>1, <1>3, <1>5, <2>1, <2>2, ReturnCalling DEF Inv
<1>9. TypeOK'
  <2>1. \A i \in DOMAIN program : program[i].kind = "aggregate" => program[i].name # n
    BY <1>1, <1>7 DEF Inv, TypeOK
  <2>2. ret' \in [ok : BOOLEAN, type : Types]
    BY <1>1, <1>6
  <2>9. scope' = scope /\ old_scope' = old_scope
    BY <1>1 DEF local
  <2> QED  BY <1>1, <1>4, <1>8, <2>9, <2>1, <2>2 DEF Inv, TypeOK, input
<1>10. Scoped'
  <2>1. Known(ret.type)'
    BY <1>1, <1>6
  <2>2. ASSUME NEW m \in DOMAIN entries
        PROVE  Known(entries[m].type)'
    <3>1. PICK u : u = entries'[m].type
      OBVIOUS
    <3>2. Known(u)
      BY <1>3, <1>4, <3>1 DEF Inv, Scoped
    <3>3. Known(u)'
      BY <1>5, <3>2, KnownStays
    <3> QED  BY <3>1, <3>3
  <2>3. \A m \in DOMAIN entries : program[entries'[m].node].name = m
    BY <1>4 DEF Inv, Scoped
  <2>4. \A m \in DOMAIN entries :
          entries'[m].state = "RESOLVED" /\ errors = {} => entries'[m].type # NoType
    BY <1>3, <1>4 DEF Inv, Scoped
  <2> QED  BY <1>1, <1>4, <2>1, <2>2, <2>3, <2>4 DEF Scoped, input, local
<1>11. Started'
  BY <1>1, <1>4 DEF Inv, Started, input, local
<1>12. Marks'
  <2>1. /\ Alone'
        /\ \A call, m : Working(call, m)' <=> Working(call, m) /\ ~Works(Top, call, m)
    BY <1>1, <1>3, <1>7, WorkReturn
  <2>2. /\ \A m : Works(Top, "sema_resolve_entry", m) <=> m = n
        /\ \A m : ~Works(Top, "sema_complete_aggregate", m)
    BY <1>1, <1>2 DEF Works, Marked, Marking
  <2>3. \A m : Working("sema_resolve_entry", m)' <=> Working("sema_resolve_entry", m) /\ m # n
    BY <2>1, <2>2
  <2>4. \A m : Working("sema_complete_aggregate", m)' <=> Working("sema_complete_aggregate", m)
    BY <2>1, <2>2
  <2>5. \A m \in DOMAIN entries' :
          entries'[m].state = "RESOLVING" <=> Working("sema_resolve_entry", m)'
    BY <1>1, <1>4, <2>3 DEF Inv, Marks
  <2> QED  BY <1>1, <2>1, <2>4, <2>5 DEF Inv, Marks
<1> QED  BY <1>1, LocalStays, <1>8, <1>9, <1>10, <1>11, <1>12 DEF Inv, input

-----------------------------------------------------------------------------
(* sema_complete_aggregate *)

LEMMA CompleteMarkedInv == Inv /\ CompleteMarked => Inv'
<1> SUFFICES ASSUME Inv, CompleteMarked PROVE Inv'
  OBVIOUS
<1>1. /\ Quiet /\ phase' = phase /\ stack # <<>>
      /\ Top.call = "sema_complete_aggregate" /\ Top.at = "start" /\ stack' = Callers
  BY QuietScopes DEF CompleteMarked, At, Return
<1>2. ret' = [ok |-> TRUE, type |-> NoType] \/ ret' = [ok |-> FALSE, type |-> NoType]
  BY DEF CompleteMarked, Return
<1>3. NoType \in Types /\ Known(NoType)'
  BY NullKnown
<1>4. ret'.type = NoType /\ ret' \in [ok : BOOLEAN, type : Types]
  <2>1. PICK b \in BOOLEAN : ret' = [ok |-> b, type |-> NoType]
    BY <1>2
  <2> QED  BY <2>1, <1>3
<1>5. ~Marked(Top) /\ Top.call \notin Typing /\ Top.call # "sema_resolve_entry"
  BY <1>1 DEF Marked, Typing
<1> QED  BY <1>1, <1>3, <1>4, <1>5, QuietReturn

\* The types of the entries, when nothing happens to them.
LEMMA ScopedStays ==
  ASSUME Inv, Grows, entries' = entries, Known(ret.type)'
  PROVE  Scoped'
<1>1. ASSUME NEW m \in DOMAIN entries
      PROVE  Known(entries[m].type)'
  <2>1. PICK t : t = entries[m].type
    OBVIOUS
  <2>2. Known(t)'
    BY <2>1, KnownStays DEF Inv, Scoped
  <2> QED  BY <2>1, <2>2
<1> QED  BY <1>1 DEF Inv, Scoped, Grows, input, local

LEMMA CompleteStartInv == Inv /\ CompleteStart => Inv'
<1> SUFFICES ASSUME Inv, CompleteStart PROVE Inv'
  OBVIOUS
<1>1. /\ UNCHANGED <<input, phase, next, entries, arrays, functions, local, ret, errors>>
      /\ phase = "analyze" /\ stack # <<>>
      /\ Top.call = "sema_complete_aggregate" /\ Top.at = "start"
      /\ ~aggregates[Top.name].is_complete /\ ~aggregates[Top.name].is_resolving
      /\ aggregates' = [aggregates EXCEPT ![Top.name].is_resolving = TRUE]
      /\ Continue(Here("items"))
  BY DEF CompleteStart, At
<1>2. PICK d, n : d = Top /\ n = Top.name
  OBVIOUS
<1>3. d \in Frames /\ FrameOK(d) /\ n \in DOMAIN aggregates /\ stack \in Seq(Frames)
  BY <1>1, <1>2, TopFacts DEF FrameOK, Inv, TypeOK
<1>4. /\ DOMAIN aggregates' = DOMAIN aggregates
      /\ \A m \in DOMAIN aggregates : /\ m # n => aggregates'[m] = aggregates[m]
                                      /\ aggregates'[m].is_complete = aggregates[m].is_complete
      /\ aggregates'[n].is_resolving
      /\ \A m \in DOMAIN aggregates' :
           aggregates'[m] \in [is_complete : BOOLEAN, is_resolving : BOOLEAN, size : Nat]
  BY <1>1, <1>2, <1>3 DEF Inv, TypeOK
<1>5. Grows
  BY <1>1, <1>4 DEF Grows
<1>6. PICK f : f = [d EXCEPT !.at = "items"]
  OBVIOUS
<1>7. /\ f \in Frames /\ f.call = d.call /\ f.name = d.name /\ f.at = "items"
      /\ f.type = d.type /\ Continue(f)
  BY <1>1, <1>2, <1>3, <1>6, FrameAt DEF Places, Here
<1>8. FrameOK(f)' /\ Answered(f)'
  <2>1. FrameOK(d)'
    BY <1>3, <1>5, FrameStays
  <2> QED  BY <1>1, <1>2, <1>7, <2>1 DEF FrameOK, Answered
<1>9. stack' \in Seq(Frames) /\ Calling'
  BY <1>1, <1>2, <1>3, <1>5, <1>7, <1>8, ContinueCalling DEF Inv
<1>10. TypeOK'
  BY <1>1, <1>4, <1>9 DEF Inv, TypeOK, input, local
<1>11. Scoped'
  <2>1. PICK t : t = ret.type
    OBVIOUS
  <2>2. Known(t)'
    BY <1>5, <2>1, KnownStays DEF Inv, Scoped
  <2>3. Known(ret.type)'
    BY <1>1, <2>1, <2>2
  <2> QED  BY <1>1, <1>5, <2>3, ScopedStays
<1>12. Started'
  BY <1>1, <1>4 DEF Inv, Started, input, local
<1>13. Marks'
  <2>1. ~Marked(Top) /\ Alone /\ ~Working("sema_complete_aggregate", n)
    BY <1>1, <1>2, <1>3 DEF Marked, Inv, Marks
  <2>2. /\ Alone'
        /\ \A call, m :
             Working(call, m)' <=> Works(f, call, m) \/ (Working(call, m) /\ ~Works(Top, call, m))
    BY <1>1, <1>2, <1>3, <1>7, <2>1, WorkContinue
  <2>3. /\ \A m : Works(f, "sema_complete_aggregate", m) <=> m = n
        /\ \A m : ~Works(f, "sema_resolve_entry", m)
        /\ \A call, m : ~Works(Top, call, m)
    BY <1>1, <1>2, <1>7, <2>1 DEF Works, Marked, Marking
  <2>4. \A m : Working("sema_complete_aggregate", m)' <=>
                 m = n \/ Working("sema_complete_aggregate", m)
    BY <2>2, <2>3
  <2>5. \A m : Working("sema_resolve_entry", m)' <=> Working("sema_resolve_entry", m)
    BY <2>2, <2>3
  <2>6. \A m \in DOMAIN aggregates' :
          /\ aggregates'[m].is_resolving <=> Working("sema_complete_aggregate", m)'
          /\ ~(aggregates'[m].is_resolving /\ aggregates'[m].is_complete)
    BY <1>1, <1>2, <1>4, <2>4 DEF Inv, Marks
  <2> QED  BY <1>1, <2>2, <2>5, <2>6 DEF Inv, Marks
<1> QED  BY <1>1, LocalStays, <1>9, <1>10, <1>11, <1>12, <1>13 DEF Inv, input

LEMMA CompleteItemInv == Inv /\ CompleteItem => Inv'
<1> SUFFICES ASSUME Inv, CompleteItem PROVE Inv'
  OBVIOUS
<1>1. /\ Quiet /\ phase' = phase /\ ret' = ret /\ stack # <<>>
      /\ Top.call = "sema_complete_aggregate" /\ Top.at = "items"
  BY QuietScopes DEF CompleteItem, At
<1>2. PICK d, t : d = Top /\ t = Decl(Top.name).types[Top.item]
  OBVIOUS
<1>3. d \in Frames /\ FrameOK(d) /\ d.name \in DOMAIN entries /\ d.item \in Nat \ {0}
  BY <1>1, <1>2, TopFacts DEF FrameOK, Frames
<1>4. t \in Types /\ d.name \in Names /\ d.item \in DOMAIN Decl(d.name).counts
  <2>1. d.item <= Len(Decl(d.name).counts)
    BY <1>2 DEF CompleteItem
  <2>2. d.item \in DOMAIN Decl(d.name).counts
    BY <1>3, <2>1, DeclParts
  <2> QED  BY <1>2, <1>3, <2>2, DeclParts, DeclTyped
<1>5. PICK f, g : f = [d EXCEPT !.at = "typed"] /\ g = Frame("sema_resolve_type", d.name, t)
  OBVIOUS
<1>6. f \in Frames /\ f.call = d.call /\ f.name = d.name /\ f.at = "typed" /\ f.type = d.type
      /\ f.item = d.item
  BY <1>3, <1>5, FrameAt DEF Places
<1>7. /\ g \in Frames /\ g.call = "sema_resolve_type" /\ g.name = d.name /\ g.at = "start"
      /\ g.type = NoType /\ g.expr = t
  BY <1>4, <1>5, NewFrame DEF Calls
<1>8. CallFrom(f, g)
  BY <1>2, <1>5 DEF CompleteItem, Here
<1>11. Mentioned(t)'
  BY <1>1, <1>2, <1>3, <1>4, DeclParts, Mentions, QuietGrows
<1>9. FrameOK(d)' /\ Known(NoType)'
  BY <1>1, <1>3, FrameStays, QuietGrows, NullKnown
<1>10. FrameOK(f)' /\ FrameOK(g)' /\ Waits(f, g)' /\ Marked(f) /\ Marked(Top)
  <2>1. Decl(d.name)' = Decl(d.name)
    BY <1>1, <1>3, DeclStays, QuietGrows
  <2> QED  BY <1>1, <1>2, <1>4, <1>6, <1>7, <1>9, <1>11, <2>1
           DEF FrameOK, Waits, Typing, Marked, Marking
<1> QED  BY <1>1, <1>2, <1>6, <1>7, <1>8, <1>10, QuietCall

\* The next field, behind one of the size given.
LEMMA AddInv ==
  ASSUME Inv, Quiet, phase' = phase, ret' = ret, stack # <<>>,
         Top.call = "sema_complete_aggregate", Top.at \in {"typed", "nested"},
         NEW size \in Nat, Add(size)
  PROVE  Inv'
<1>1. PICK d : d = Top
  OBVIOUS
<1>2. d \in Frames /\ FrameOK(d) /\ d.item \in Nat /\ d.size \in Nat
  BY <1>1, TopFacts DEF Frames
<1>0. Counted(Decl(d.name).counts[d.item], size) \in Nat
  <2>1. Decl(d.name).counts[d.item] \in Nat
    BY <1>1, <1>2, DeclParts DEF FrameOK
  <2> QED  BY <2>1 DEF Counted
<1>3. PICK k, l, f : /\ k = d.item + 1
                     /\ l = d.size + Counted(Decl(d.name).counts[d.item], size)
                     /\ f = [[d EXCEPT !.at = "items"] EXCEPT !.item = k, !.size = l]
  OBVIOUS
<1>4. Continue(f)
  BY <1>1, <1>2, <1>3 DEF Add, Here, Frames
<1>5. k \in Nat \ {0} /\ l \in Nat
  BY <1>0, <1>2, <1>3
<1>6. f \in Frames /\ f.call = d.call /\ f.name = d.name /\ f.at = "items" /\ f.type = d.type
  <2>1. PICK e : e = [d EXCEPT !.at = "items"]
    OBVIOUS
  <2>2. e \in Frames /\ e.call = d.call /\ e.name = d.name /\ e.at = "items" /\ e.type = d.type
    BY <1>2, <2>1, FrameAt DEF Places
  <2>3. f = [e EXCEPT !.item = k, !.size = l]
    BY <1>3, <2>1
  <2> QED  BY <1>5, <2>2, <2>3 DEF Frames
<1>7. FrameOK(d)'
  BY <1>2, FrameStays, QuietGrows
<1>8. FrameOK(f)' /\ Answered(f)' /\ Marked(f) /\ Marked(Top)
  BY <1>1, <1>6, <1>7 DEF FrameOK, Answered, Marked, Marking
<1> QED  BY <1>1, <1>4, <1>6, <1>8, QuietContinue

\* What is laid out on behalf of a field is registered.
LEMMA BaseOfElement ==
  ASSUME NEW t \in Types, IsAggregate(t) \/ SizedOfAggregate(t)
  PROVE  t.base \in DOMAIN aggregates
BY DEF IsAggregate, SizedOfAggregate, Element, Types

LEMMA CompleteItemTypedInv == Inv /\ CompleteItemTyped => Inv'
<1> SUFFICES ASSUME Inv, CompleteItemTyped PROVE Inv'
  OBVIOUS
<1>1. /\ Quiet /\ phase' = phase /\ ret' = ret /\ stack # <<>>
      /\ Top.call = "sema_complete_aggregate" /\ Top.at = "typed"
  BY QuietScopes DEF CompleteItemTyped, At
<1>2. PICK d, t : d = Top /\ t = ret.type
  OBVIOUS
<1>3. d \in Frames /\ FrameOK(d) /\ Known(t) /\ t \in Types
  BY <1>1, <1>2, TopFacts DEF Inv, Scoped, Known
<1>4. CASE Add(0)
  BY <1>1, <1>4, AddInv
<1>5. CASE Add(SizeOf(t))
  <2>1. PICK size \in Nat : size = SizeOf(t)
    BY <1>3, SizeTyped
  <2>2. Add(size)
    BY <1>5, <2>1
  <2> QED  BY <1>1, <2>2, AddInv
<1>6. CASE /\ IsAggregate(t) \/ SizedOfAggregate(t)
           /\ CallFrom([Here("nested") EXCEPT !.type = t],
                       Frame("sema_complete_aggregate", t.base, NoType))
  <2>1. PICK f, g : /\ f = [[d EXCEPT !.at = "nested"] EXCEPT !.type = t]
                    /\ g = Frame("sema_complete_aggregate", t.base, NoType)
    OBVIOUS
  <2>2. f \in Frames /\ f.call = d.call /\ f.name = d.name /\ f.at = "nested" /\ f.type = t
    BY <1>3, <2>1 DEF Frames, Places
  <2>3. t.base \in DOMAIN aggregates /\ t.base \in DOMAIN entries /\ t.base \in Names
    BY <1>3, <1>6, BaseOfElement DEF Inv, TypeOK
  <2>4. NoType \in Types /\ Known(NoType)'
    BY NullKnown
  <2>5. /\ g \in Frames /\ g.call = "sema_complete_aggregate" /\ g.name = t.base
        /\ g.at = "start" /\ g.type = NoType
    BY <2>1, <2>3, <2>4, NewFrame DEF Calls
  <2>6. CallFrom(f, g)
    BY <1>2, <1>6, <2>1 DEF Here
  <2>7. FrameOK(d)' /\ Known(t)'
    BY <1>1, <1>3, FrameStays, KnownStays, QuietGrows
  <2>9. f.item = d.item /\ d.item \in DOMAIN Decl(d.name).counts
    BY <1>1, <1>2, <1>3, <2>1 DEF Frames, FrameOK
  <2>10. Decl(d.name)' = Decl(d.name)
    BY <1>1, <1>3, DeclStays, QuietGrows DEF FrameOK
  <2>8. FrameOK(f)' /\ FrameOK(g)' /\ Waits(f, g)' /\ Marked(f) /\ Marked(Top)
    BY <1>1, <1>2, <2>2, <2>3, <2>4, <2>5, <2>7, <2>9, <2>10
    DEF FrameOK, Waits, Marked, Marking, Quiet
  <2> QED  BY <1>1, <1>2, <2>2, <2>5, <2>6, <2>8, QuietCall
<1> QED  BY <1>2, <1>4, <1>5, <1>6 DEF CompleteItemTyped

LEMMA CompleteItemNestedInv == Inv /\ CompleteItemNested => Inv'
<1> SUFFICES ASSUME Inv, CompleteItemNested PROVE Inv'
  OBVIOUS
<1>1. /\ Quiet /\ phase' = phase /\ ret' = ret /\ stack # <<>>
      /\ Top.call = "sema_complete_aggregate" /\ Top.at = "nested"
  BY QuietScopes DEF CompleteItemNested, At, Report
<1>2. PICK d, t : d = Top /\ t = Top.type
  OBVIOUS
<1>3. Known(t)
  BY <1>1, <1>2, TopFacts DEF FrameOK
<1>4. PICK size \in Nat : size = SizeOf(t)
  BY <1>3, SizeTyped
<1>5. Add(size) \/ Add(0)
  BY <1>2, <1>4 DEF CompleteItemNested
<1> QED  BY <1>1, <1>5, AddInv

LEMMA CompleteReturnInv == Inv /\ CompleteReturn => Inv'
<1> SUFFICES ASSUME Inv, CompleteReturn PROVE Inv'
  OBVIOUS
<1>1. /\ UNCHANGED <<input, phase, next, entries, arrays, functions, local, errors>>
      /\ phase = "analyze" /\ stack # <<>>
      /\ Top.call = "sema_complete_aggregate" /\ Top.at = "items"
      /\ aggregates' = [aggregates EXCEPT ![Top.name] =
           [is_complete |-> TRUE, is_resolving |-> FALSE, size |-> Top.size]]
      /\ stack' = Callers /\ ret' = [ok |-> TRUE, type |-> NoType]
  BY DEF CompleteReturn, At, Return
<1>2. PICK n, size : n = Top.name /\ size = Top.size
  OBVIOUS
<1>3. n \in DOMAIN aggregates /\ size \in Nat /\ stack \in Seq(Frames)
  BY <1>1, <1>2, TopFacts DEF FrameOK, Frames, Inv, TypeOK
<1>4. /\ DOMAIN aggregates' = DOMAIN aggregates
      /\ \A m \in DOMAIN aggregates : m # n => aggregates'[m] = aggregates[m]
      /\ aggregates'[n] = [is_complete |-> TRUE, is_resolving |-> FALSE, size |-> size]
      /\ \A m \in DOMAIN aggregates' :
           aggregates'[m] \in [is_complete : BOOLEAN, is_resolving : BOOLEAN, size : Nat]
  BY <1>1, <1>2, <1>3 DEF Inv, TypeOK
<1>5. Grows
  BY <1>1, <1>4 DEF Grows
<1>6. NoType \in Types /\ Known(NoType)'
  BY NullKnown
<1>7. stack' \in Seq(Frames) /\ Calling'
  <2>1. Top.call \notin Typing /\ Top.call # "sema_resolve_entry"
    BY <1>1 DEF Typing
  <2> QED  BY <1>1, <1>3, <1>5, <2>1, ReturnCalling DEF Inv
<1>8. TypeOK'
  <2>1. ret' \in [ok : BOOLEAN, type : Types]
    BY <1>1, <1>6
  <2> QED  BY <1>1, <1>4, <1>7, <2>1 DEF Inv, TypeOK, input, local
<1>9. Scoped'
  <2>1. Known(ret.type)'
    BY <1>1, <1>6
  <2> QED  BY <1>1, <1>5, <2>1, ScopedStays
<1>10. Started'
  BY <1>1, <1>4 DEF Inv, Started, input, local
<1>11. Marks'
  <2>1. Alone
    BY <1>1 DEF Inv, Marks
  <2>2. /\ Alone'
        /\ \A call, m : Working(call, m)' <=> Working(call, m) /\ ~Works(Top, call, m)
    BY <1>1, <1>3, <2>1, WorkReturn
  <2>3. /\ \A m : Works(Top, "sema_complete_aggregate", m) <=> m = n
        /\ \A m : ~Works(Top, "sema_resolve_entry", m)
    BY <1>1, <1>2 DEF Works, Marked, Marking
  <2>4. \A m : Working("sema_complete_aggregate", m)' <=>
                 Working("sema_complete_aggregate", m) /\ m # n
    BY <2>2, <2>3
  <2>5. \A m : Working("sema_resolve_entry", m)' <=> Working("sema_resolve_entry", m)
    BY <2>2, <2>3
  <2>6. \A m \in DOMAIN aggregates' :
          /\ aggregates'[m].is_resolving <=> Working("sema_complete_aggregate", m)'
          /\ ~(aggregates'[m].is_resolving /\ aggregates'[m].is_complete)
    BY <1>1, <1>4, <2>4 DEF Inv, Marks
  <2> QED  BY <1>1, <2>2, <2>5, <2>6 DEF Inv, Marks
<1> QED  BY <1>1, LocalStays, <1>7, <1>8, <1>9, <1>10, <1>11 DEF Inv, input

-----------------------------------------------------------------------------
(* sema_analyze_initializer *)

LEMMA InitializerStartInv == Inv /\ InitializerStart => Inv'
<1> SUFFICES ASSUME Inv, InitializerStart PROVE Inv'
  OBVIOUS
<1>1. /\ Quiet /\ ret' = ret /\ stack # <<>>
      /\ Top.call = "sema_analyze_initializer" /\ Top.at = "start"
  BY QuietScopes DEF InitializerStart, At, Report
<1>2. PICK d, n, v : d = Top /\ n = Top.name /\ v = Decl(Top.name)
  OBVIOUS
<1>3. d \in Frames /\ FrameOK(d) /\ d.name = n /\ n \in DOMAIN entries /\ v.kind = "variable"
  BY <1>1, <1>2, TopFacts DEF FrameOK
<1>4. /\ n \in Names /\ v.name = n /\ v.init \in Names \cup {Builtin, None}
      /\ v.init = None => v.types[1] \in Types
  BY <1>2, <1>3, DeclTyped
<1>5. FrameOK(d)' /\ Decl(n)' = v /\ Known(NoType)' /\ NoType \in Types
  BY <1>1, <1>2, <1>3, FrameStays, DeclStays, QuietGrows, NullKnown
<1>6. CASE /\ v.init = None /\ phase' = phase
           /\ CallFrom(Here("typed"), Frame("sema_resolve_type", v.name, v.types[1]))
  <2>1. PICK f, g, t : /\ f = [d EXCEPT !.at = "typed"] /\ t = v.types[1]
                       /\ g = Frame("sema_resolve_type", n, t)
    OBVIOUS
  <2>2. f \in Frames /\ f.call = d.call /\ f.name = d.name /\ f.at = "typed" /\ f.type = d.type
    BY <1>3, <2>1, FrameAt DEF Places
  <2>3. /\ g \in Frames /\ g.call = "sema_resolve_type" /\ g.name = n
        /\ g.at = "start" /\ g.type = NoType /\ g.expr = t
    BY <1>4, <1>6, <2>1, NewFrame DEF Calls
  <2>4. CallFrom(f, g)
    BY <1>2, <1>4, <1>6, <2>1 DEF Here
  <2>5. FrameOK(f)' /\ FrameOK(g)' /\ Waits(f, g)' /\ ~Marked(f) /\ ~Marked(Top)
    <3>1. Mentioned(t)'
      <4>1. Len(v.types) = 1
        BY <1>2, <1>3, <1>6, DeclTyped
      <4> QED  BY <1>1, <1>2, <1>3, <2>1, <4>1, Mentions, QuietGrows
    <3> QED  BY <1>1, <1>2, <1>3, <1>5, <2>2, <2>3, <3>1 DEF FrameOK, Waits, Typing, Marked, Marking
  <2> QED  BY <1>1, <1>2, <2>2, <2>3, <2>4, <2>5, <1>6, QuietCall
<1>7. CASE /\ v.init \in DOMAIN entries /\ phase' = phase
           /\ CallFrom(Here("named"), Frame("sema_resolve_entry", v.init, NoType))
  <2>1. PICK f, g : /\ f = [d EXCEPT !.at = "named"]
                    /\ g = Frame("sema_resolve_entry", v.init, NoType)
    OBVIOUS
  <2>2. f \in Frames /\ f.call = d.call /\ f.name = d.name /\ f.at = "named" /\ f.type = d.type
    BY <1>3, <2>1, FrameAt DEF Places
  <2>3. v.init \in Names
    BY <1>7 DEF Inv, TypeOK
  <2>4. /\ g \in Frames /\ g.call = "sema_resolve_entry" /\ g.name = v.init
        /\ g.at = "start" /\ g.type = NoType
    BY <1>5, <2>1, <2>3, NewFrame DEF Calls
  <2>5. CallFrom(f, g)
    BY <1>2, <1>7, <2>1 DEF Here
  <2>6. FrameOK(f)' /\ FrameOK(g)' /\ Waits(f, g)' /\ ~Marked(f) /\ ~Marked(Top)
    BY <1>1, <1>2, <1>3, <1>5, <1>7, <2>2, <2>4
    DEF FrameOK, Waits, Typing, Marked, Marking, Quiet
  <2> QED  BY <1>1, <1>2, <2>2, <2>4, <2>5, <2>6, <1>7, QuietCall
<1>8. CASE Report("undefined symbol") /\ Continue(Here("return")) /\ phase' = phase
  <2>1. PICK f : f = [d EXCEPT !.at = "return"]
    OBVIOUS
  <2>2. f \in Frames /\ f.call = d.call /\ f.name = d.name /\ f.at = "return" /\ f.type = d.type
    BY <1>3, <2>1, FrameAt DEF Places
  <2>3. Continue(f) /\ errors' # {}
    BY <1>2, <1>8, <2>1 DEF Here, Report
  <2>4. FrameOK(f)' /\ Answered(f)' /\ ~Marked(f) /\ ~Marked(Top)
    BY <1>1, <1>2, <1>5, <2>2, <2>3 DEF FrameOK, Answered, Marked, Marking
  <2> QED  BY <1>1, <1>2, <2>2, <2>3, <2>4, <1>8, QuietContinue
<1>9. CASE /\ v.init \in DOMAIN scope /\ phase' = phase
           /\ Continue([Here("return") EXCEPT !.type = scope[v.init]])
  <2>1. PICK t, f : /\ t = scope[v.init]
                    /\ f = [[d EXCEPT !.at = "return"] EXCEPT !.type = t]
    OBVIOUS
  <2>2. Known(t) /\ t # NoType /\ t \in Types
    BY <1>9, <2>1 DEF Inv, Local, ScopeOK, Known
  <2>3. Known(t)'
    BY <1>1, <2>2, KnownStays, QuietGrows
  <2>4. f \in Frames /\ f.call = d.call /\ f.name = d.name /\ f.at = "return" /\ f.type = t
    BY <1>3, <2>1, <2>2 DEF Frames, Places
  <2>5. Continue(f)
    BY <1>2, <1>9, <2>1 DEF Here
  <2>6. FrameOK(f)' /\ Answered(f)' /\ ~Marked(f) /\ ~Marked(Top)
    BY <1>1, <1>2, <1>5, <2>2, <2>3, <2>4 DEF FrameOK, Answered, Marked, Marking
  <2> QED  BY <1>1, <1>2, <1>9, <2>4, <2>5, <2>6, QuietContinue
<1>10. CASE v.init = Builtin /\ End("crashed")
  <2>1. stack' = <<>> /\ phase' = "crashed"
    BY <1>10 DEF End
  <2>2. OfBuiltin
    BY <1>2, <1>3, <1>10 DEF OfBuiltin, Decl, Inv, TypeOK
  <2> QED  BY <1>1, <2>1, <2>2, QuietEnd
<1> QED  BY <1>2, <1>6, <1>7, <1>8, <1>9, <1>10 DEF InitializerStart

LEMMA InitializerTypedInv == Inv /\ InitializerTyped => Inv'
<1> SUFFICES ASSUME Inv, InitializerTyped PROVE Inv'
  OBVIOUS
<1>1. /\ UNCHANGED <<input, next, scopes, ret, errors>> /\ phase = "analyze" /\ Quiet
      /\ stack # <<>> /\ Top.call = "sema_analyze_initializer" /\ Top.at = "typed"
  BY QuietScopes DEF InitializerTyped, At
<1>2. PICK d, t : d = Top /\ t = ret.type
  OBVIOUS
<1>3. /\ d \in Frames /\ FrameOK(d) /\ Known(t) /\ t \in Types
      /\ errors = {} => t # NoType
  BY <1>1, <1>2, TopFacts DEF Inv, Scoped, Known, Answered
<1>4. FrameOK(d)' /\ Known(t)' /\ Known(NoType)' /\ NoType \in Types
  BY <1>1, <1>3, FrameStays, KnownStays, QuietGrows, NullKnown
<1>5. CASE t = NoType /\ End("crashed")
  <2>1. stack' = <<>> /\ phase' = "crashed"
    BY <1>5 DEF End
  <2> QED  BY <1>1, <1>3, <1>5, <2>1, QuietEnd
<1>6. CASE /\ IsAggregate(t)
           /\ CallFrom([[Here("return") EXCEPT !.type = t] EXCEPT !.at = "completed"],
                       Frame("sema_complete_aggregate", t.base, NoType))
           /\ UNCHANGED phase
  <2>1. PICK f, g : /\ f = [[[d EXCEPT !.at = "return"] EXCEPT !.type = t] EXCEPT !.at = "completed"]
                    /\ g = Frame("sema_complete_aggregate", t.base, NoType)
    OBVIOUS
  <2>2. f \in Frames /\ f.call = d.call /\ f.name = d.name /\ f.at = "completed" /\ f.type = t
    BY <1>3, <2>1 DEF Frames, Places
  <2>3. t.base \in DOMAIN aggregates /\ t.base \in DOMAIN entries /\ t.base \in Names /\ t # NoType
    BY <1>6, NamesAssumption DEF IsAggregate, Inv, TypeOK, NoType, Plain
  <2>4. /\ g \in Frames /\ g.call = "sema_complete_aggregate" /\ g.name = t.base
        /\ g.at = "start" /\ g.type = NoType
    BY <1>4, <2>1, <2>3, NewFrame DEF Calls
  <2>5. CallFrom(f, g)
    BY <1>2, <1>6, <2>1 DEF Here
  <2>6. FrameOK(f)' /\ FrameOK(g)' /\ Waits(f, g)' /\ ~Marked(f) /\ ~Marked(Top)
    BY <1>1, <1>2, <1>3, <1>4, <2>2, <2>3, <2>4
    DEF FrameOK, Waits, Marked, Marking, Quiet
  <2> QED  BY <1>1, <1>2, <1>6, <2>2, <2>4, <2>5, <2>6, QuietCall
<1>7. CASE t # NoType /\ Continue([Here("return") EXCEPT !.type = t]) /\ UNCHANGED phase
  <2>1. PICK f : f = [[d EXCEPT !.at = "return"] EXCEPT !.type = t]
    OBVIOUS
  <2>2. f \in Frames /\ f.call = d.call /\ f.name = d.name /\ f.at = "return" /\ f.type = t
    BY <1>3, <2>1 DEF Frames, Places
  <2>3. Continue(f)
    BY <1>2, <1>7, <2>1 DEF Here
  <2>4. FrameOK(f)' /\ Answered(f)' /\ ~Marked(f) /\ ~Marked(Top)
    BY <1>1, <1>2, <1>4, <1>7, <2>2, <2>3 DEF FrameOK, Answered, Marked, Marking
  <2> QED  BY <1>1, <1>2, <1>7, <2>2, <2>3, <2>4, QuietContinue
<1> QED  BY <1>2, <1>5, <1>6, <1>7 DEF InitializerTyped

LEMMA InitializerNamedInv == Inv /\ InitializerNamed => Inv'
<1> SUFFICES ASSUME Inv, InitializerNamed PROVE Inv'
  OBVIOUS
<1>1. /\ Quiet /\ phase' = phase /\ ret' = ret /\ stack # <<>> /\ phase = "analyze"
      /\ Top.call = "sema_analyze_initializer" /\ Top.at = "named"
  BY QuietScopes DEF InitializerNamed, At, Report
<1>2. PICK d, m, t : d = Top /\ m = Decl(Top.name).init /\ t = entries[m].type
  OBVIOUS
<1>3. d \in Frames /\ FrameOK(d) /\ Answered(d) /\ m \in DOMAIN entries
  BY <1>1, <1>2, TopFacts DEF FrameOK
<1>4. Known(t) /\ t \in Types /\ m \in Names
  BY <1>2, <1>3 DEF Inv, Scoped, TypeOK, Known
<1>5. FrameOK(d)' /\ Known(t)' /\ Known(NoType)' /\ NoType \in Types
  BY <1>1, <1>3, <1>4, FrameStays, KnownStays, QuietGrows, NullKnown
<1>6. errors = {} => t # NoType
  BY <1>1, <1>2, <1>3 DEF Answered, Inv, Scoped
<1>7. CASE Report("undefined symbol") /\ Continue(Here("return"))
  <2>1. PICK f : f = [d EXCEPT !.at = "return"]
    OBVIOUS
  <2>2. f \in Frames /\ f.call = d.call /\ f.name = d.name /\ f.at = "return" /\ f.type = d.type
    BY <1>3, <2>1, FrameAt DEF Places
  <2>3. Continue(f) /\ errors' # {}
    BY <1>2, <1>7, <2>1 DEF Here, Report
  <2>4. FrameOK(f)' /\ Answered(f)' /\ ~Marked(f) /\ ~Marked(Top)
    BY <1>1, <1>2, <1>5, <2>2, <2>3 DEF FrameOK, Answered, Marked, Marking
  <2> QED  BY <1>1, <1>2, <2>2, <2>3, <2>4, QuietContinue
<1>8. CASE /\ Decl(m).kind = "aggregate" /\ UNCHANGED errors
           /\ CallFrom([[Here("return") EXCEPT !.type = t] EXCEPT !.at = "completed"],
                       Frame("sema_complete_aggregate", m, NoType))
  <2>1. PICK f, g : /\ f = [[[d EXCEPT !.at = "return"] EXCEPT !.type = t] EXCEPT !.at = "completed"]
                    /\ g = Frame("sema_complete_aggregate", m, NoType)
    OBVIOUS
  <2>2. f \in Frames /\ f.call = d.call /\ f.name = d.name /\ f.at = "completed" /\ f.type = t
    BY <1>3, <1>4, <2>1 DEF Frames, Places
  <2>3. m \in DOMAIN aggregates
    <3>1. entries[m].node \in DOMAIN program /\ Decl(m).name = m
      BY <1>3, DeclTyped DEF Inv, TypeOK
    <3> QED  BY <1>1, <1>8, <3>1 DEF Inv, TypeOK, Decl
  <2>4. /\ g \in Frames /\ g.call = "sema_complete_aggregate" /\ g.name = m
        /\ g.at = "start" /\ g.type = NoType
    BY <1>4, <1>5, <2>1, NewFrame DEF Calls
  <2>5. CallFrom(f, g)
    BY <1>2, <1>8, <2>1 DEF Here
  <2>6. FrameOK(f)' /\ FrameOK(g)' /\ Waits(f, g)' /\ ~Marked(f) /\ ~Marked(Top)
    BY <1>1, <1>2, <1>3, <1>5, <1>6, <1>8, <2>2, <2>3, <2>4
    DEF FrameOK, Waits, Marked, Marking, Quiet
  <2> QED  BY <1>1, <1>2, <2>2, <2>4, <2>5, <2>6, QuietCall
<1>9. CASE Continue([Here("return") EXCEPT !.type = t]) /\ UNCHANGED errors
  <2>1. PICK f : f = [[d EXCEPT !.at = "return"] EXCEPT !.type = t]
    OBVIOUS
  <2>2. f \in Frames /\ f.call = d.call /\ f.name = d.name /\ f.at = "return" /\ f.type = t
    BY <1>3, <1>4, <2>1 DEF Frames, Places
  <2>3. Continue(f)
    BY <1>2, <1>9, <2>1 DEF Here
  <2>4. FrameOK(f)' /\ Answered(f)' /\ ~Marked(f) /\ ~Marked(Top)
    BY <1>1, <1>2, <1>5, <1>6, <1>9, <2>2, <2>3 DEF FrameOK, Answered, Marked, Marking
  <2> QED  BY <1>1, <1>2, <2>2, <2>3, <2>4, QuietContinue
<1> QED  BY <1>2, <1>7, <1>8, <1>9 DEF InitializerNamed

LEMMA InitializerCompletedInv == Inv /\ InitializerCompleted => Inv'
<1> SUFFICES ASSUME Inv, InitializerCompleted PROVE Inv'
  OBVIOUS
<1>1. /\ Quiet /\ phase' = phase /\ ret' = ret /\ stack # <<>>
      /\ Top.call = "sema_analyze_initializer" /\ Top.at = "completed"
  BY QuietScopes DEF InitializerCompleted, At, Report
<1>2. PICK d : d = Top
  OBVIOUS
<1>3. d \in Frames /\ FrameOK(d) /\ FrameOK(d)' /\ Known(NoType)' /\ NoType \in Types
  BY <1>1, <1>2, TopFacts, FrameStays, QuietGrows, NullKnown
<1>4. CASE Continue(Here("return")) /\ UNCHANGED errors
  <2>1. PICK f : f = [d EXCEPT !.at = "return"]
    OBVIOUS
  <2>2. f \in Frames /\ f.call = d.call /\ f.name = d.name /\ f.at = "return" /\ f.type = d.type
    BY <1>3, <2>1, FrameAt DEF Places
  <2>3. Continue(f)
    BY <1>2, <1>4, <2>1 DEF Here
  <2>4. FrameOK(f)' /\ Answered(f)' /\ ~Marked(f) /\ ~Marked(Top)
    BY <1>1, <1>2, <1>3, <1>4, <2>2 DEF FrameOK, Answered, Marked, Marking
  <2> QED  BY <1>1, <1>2, <2>2, <2>3, <2>4, QuietContinue
<1>5. CASE Report("incomplete type") /\ Continue([Here("return") EXCEPT !.type = NoType])
  <2>1. PICK f : f = [[d EXCEPT !.at = "return"] EXCEPT !.type = NoType]
    OBVIOUS
  <2>2. f \in Frames /\ f.call = d.call /\ f.name = d.name /\ f.at = "return" /\ f.type = NoType
    BY <1>3, <2>1 DEF Frames, Places
  <2>3. Continue(f) /\ errors' # {}
    BY <1>2, <1>5, <2>1 DEF Here, Report
  <2>4. FrameOK(f)' /\ Answered(f)' /\ ~Marked(f) /\ ~Marked(Top)
    BY <1>1, <1>2, <1>3, <2>2, <2>3 DEF FrameOK, Answered, Marked, Marking
  <2> QED  BY <1>1, <1>2, <2>2, <2>3, <2>4, QuietContinue
<1> QED  BY <1>4, <1>5 DEF InitializerCompleted

LEMMA InitializerReturnInv == Inv /\ InitializerReturn => Inv'
<1> SUFFICES ASSUME Inv, InitializerReturn PROVE Inv'
  OBVIOUS
<1>1. /\ Quiet /\ phase' = phase /\ stack # <<>> /\ errors' = errors
      /\ Top.call = "sema_analyze_initializer" /\ Top.at = "return"
      /\ stack' = Callers /\ ret' = [ok |-> Top.type # NoType, type |-> Top.type]
  BY QuietScopes DEF InitializerReturn, At, Return
<1>2. PICK d, t : d = Top /\ t = Top.type
  OBVIOUS
<1>3. d \in Frames /\ FrameOK(d) /\ Known(t) /\ t \in Types
  BY <1>1, <1>2, TopFacts DEF FrameOK, Known
<1>4. ret'.type = t /\ ret' \in [ok : BOOLEAN, type : Types]
  BY <1>1, <1>2, <1>3
<1>5. Known(t)'
  BY <1>1, <1>3, KnownStays, QuietGrows
<1>6. errors' = {} => t # NoType
  BY <1>1, <1>2, <1>3 DEF FrameOK
<1>7. ~Marked(Top)
  BY <1>1 DEF Marked, Marking
<1> QED  BY <1>1, <1>4, <1>5, <1>6, <1>7, QuietReturn

-----------------------------------------------------------------------------
(* sema_resolve_function_type *)

LEMMA FunctionTypeItemInv == Inv /\ FunctionTypeItem => Inv'
<1> SUFFICES ASSUME Inv, FunctionTypeItem PROVE Inv'
  OBVIOUS
<1>1. /\ Quiet /\ phase' = phase /\ ret' = ret /\ stack # <<>>
      /\ Top.call = "sema_resolve_function_type" /\ Top.at = "start"
  BY QuietScopes DEF FunctionTypeItem, At
<1>2. PICK d, t : d = Top /\ t = Decl(Top.name).types[Top.item]
  OBVIOUS
<1>3. d \in Frames /\ FrameOK(d) /\ d.name \in DOMAIN entries /\ d.item \in Nat \ {0}
  BY <1>1, <1>2, TopFacts DEF FrameOK, Frames
<1>4. t \in Types /\ d.name \in Names /\ d.item \in 1 .. Len(Decl(d.name).types)
  <2>1. /\ d.name \in Names /\ Decl(d.name).types \in Seq(Types)
        /\ \A i \in 1 .. Len(Decl(d.name).types) : Decl(d.name).types[i] \in Types
    BY <1>3, DeclTyped
  <2>2. d.item <= Len(Decl(d.name).types)
    BY <1>2 DEF FunctionTypeItem
  <2> QED  BY <1>2, <1>3, <2>1, <2>2
<1>5. PICK f, g : f = [d EXCEPT !.at = "typed"] /\ g = Frame("sema_resolve_type", d.name, t)
  OBVIOUS
<1>6. f \in Frames /\ f.call = d.call /\ f.name = d.name /\ f.at = "typed" /\ f.type = d.type
  BY <1>3, <1>5, FrameAt DEF Places
<1>7. /\ g \in Frames /\ g.call = "sema_resolve_type" /\ g.name = d.name /\ g.at = "start"
      /\ g.type = NoType /\ g.expr = t
  BY <1>4, <1>5, NewFrame DEF Calls
<1>8. CallFrom(f, g)
  BY <1>2, <1>5 DEF FunctionTypeItem, Here
<1>11. Mentioned(t)'
  BY <1>1, <1>2, <1>3, <1>4, Mentions, QuietGrows
<1>9. FrameOK(d)' /\ Known(NoType)'
  BY <1>1, <1>3, FrameStays, QuietGrows, NullKnown
<1>10. FrameOK(f)' /\ FrameOK(g)' /\ Waits(f, g)' /\ ~Marked(f) /\ ~Marked(Top)
  BY <1>1, <1>2, <1>6, <1>7, <1>9, <1>11 DEF FrameOK, Waits, Typing, Marked, Marking
<1> QED  BY <1>1, <1>2, <1>6, <1>7, <1>8, <1>10, QuietCall

\* The next item of a loop that lays nothing out.
LEMMA NextItemInv ==
  ASSUME Inv, Quiet, phase' = phase, ret' = ret, stack # <<>>, Top.call \notin Marking,
         Top.call \notin {"sema_resolve_type", "sema_analyze_initializer"},
         NEW at \in {"start", "parameters"}, Continue([Here(at) EXCEPT !.item = @ + 1])
  PROVE  Inv'
<1>1. PICK d : d = Top
  OBVIOUS
<1>2. d \in Frames /\ FrameOK(d) /\ d.item \in Nat
  BY <1>1, TopFacts DEF Frames
<1>3. PICK k, f : k = d.item + 1 /\ f = [[d EXCEPT !.at = at] EXCEPT !.item = k]
  OBVIOUS
<1>4. Continue(f)
  BY <1>1, <1>2, <1>3 DEF Here, Frames
<1>5. k \in Nat \ {0}
  BY <1>2, <1>3
<1>6. f \in Frames /\ f.call = d.call /\ f.name = d.name /\ f.at = at /\ f.type = d.type
  <2>1. PICK e : e = [d EXCEPT !.at = at]
    OBVIOUS
  <2>2. e \in Frames /\ e.call = d.call /\ e.name = d.name /\ e.at = at /\ e.type = d.type
    BY <1>2, <2>1, FrameAt DEF Places
  <2>3. f = [e EXCEPT !.item = k]
    BY <1>3, <2>1
  <2> QED  BY <1>5, <2>2, <2>3 DEF Frames
<1>7. FrameOK(d)'
  BY <1>2, FrameStays, QuietGrows
<1>8. FrameOK(f)' /\ Answered(f)' /\ ~Marked(f) /\ ~Marked(Top)
  BY <1>1, <1>6, <1>7 DEF FrameOK, Answered, Marked, Marking
<1> QED  BY <1>1, <1>4, <1>6, <1>8, QuietContinue

LEMMA FunctionTypeTypedInv == Inv /\ FunctionTypeTyped => Inv'
<1> SUFFICES ASSUME Inv, FunctionTypeTyped PROVE Inv'
  OBVIOUS
<1>1. /\ Quiet /\ phase' = phase /\ stack # <<>> /\ errors' = errors
      /\ Top.call = "sema_resolve_function_type" /\ Top.at = "typed"
  BY QuietScopes DEF FunctionTypeTyped, At
<1>2. CASE ret.type = NoType /\ Return(FALSE, NoType)
  <2>1. stack' = Callers /\ ret' = [ok |-> FALSE, type |-> NoType]
    BY <1>2 DEF Return
  <2>2. NoType \in Types /\ Known(NoType)'
    BY NullKnown
  <2>3. Answered(Top)
    BY <1>1, TopFacts
  <2>4. errors' # {} /\ ~Marked(Top)
    BY <1>1, <1>2, <2>3 DEF Answered, Marked, Marking
  <2>5. ret'.type = NoType /\ ret' \in [ok : BOOLEAN, type : Types]
    BY <2>1, <2>2
  <2> QED  BY <1>1, <2>1, <2>2, <2>4, <2>5, QuietReturn
<1>3. CASE Continue([Here("start") EXCEPT !.item = @ + 1]) /\ UNCHANGED ret
  <2>1. Top.call \notin Marking
    BY <1>1 DEF Marking
  <2> QED  BY <1>1, <1>3, <2>1, NextItemInv
<1> QED  BY <1>2, <1>3 DEF FunctionTypeTyped

LEMMA FunctionTypeReturnInv == Inv /\ FunctionTypeReturn => Inv'
<1> SUFFICES ASSUME Inv, FunctionTypeReturn PROVE Inv'
  OBVIOUS
<1>1. /\ UNCHANGED <<input, phase, next, entries, aggregates, arrays, local, errors>>
      /\ phase = "analyze" /\ stack # <<>>
      /\ Top.call = "sema_resolve_function_type" /\ Top.at = "start"
      /\ functions' = functions \cup {Top.name} /\ stack' = Callers
      /\ ret' = [ok |-> TRUE, type |-> Wrap(Plain(Top.name), "function")]
  BY DEF FunctionTypeReturn, At, Return
<1>2. PICK n, t, u : n = Top.name /\ t = Plain(n) /\ u = Wrap(t, "function")
  OBVIOUS
<1>3. n \in DOMAIN entries /\ n \in Names
  BY <1>1, <1>2, TopFacts DEF FrameOK, Inv, TypeOK
<1>a. Local'
  BY <1>1, LocalStays DEF Inv, input
<1>4. Quiet
  BY <1>1, <1>2, <1>3, <1>a DEF Inv, TypeOK, Quiet
<1>5. t \in Types
  BY <1>2, <1>3, PlainKnown DEF Known
<1>6. u \in Types /\ u # NoType /\ LastWrap(u) = "function"
  BY <1>2, <1>5, WrapType DEF Wraps
<1>7. Known(u)'
  BY <1>6 DEF Known, ArrayWrap
<1>8. ret'.type = u /\ ret' \in [ok : BOOLEAN, type : Types]
  BY <1>1, <1>2, <1>6
<1>9. ~Marked(Top)
  BY <1>1 DEF Marked, Marking
<1> QED  BY <1>1, <1>4, <1>6, <1>7, <1>8, <1>9, QuietReturn

-----------------------------------------------------------------------------
(* sema_analyze *)

LEMMA AnalyzeDeclarationInv == Inv /\ AnalyzeDeclaration => Inv'
<1> SUFFICES ASSUME Inv, AnalyzeDeclaration PROVE Inv'
  OBVIOUS
<1>1. /\ UNCHANGED <<input, phase, scopes, ret, errors>> /\ phase = "analyze"
      /\ stack = <<>> /\ next <= Len(program) /\ next' = next + 1
  BY DEF AnalyzeDeclaration
<1>2. PICK d : d = program[next]
  OBVIOUS
<1>3. next \in DOMAIN program /\ next' \in 1 .. Len(program) + 1
  BY <1>1, LenProperties DEF Inv, TypeOK
<1>4. d \in Decls /\ d.name \in DOMAIN entries /\ d.name \in Names
  BY <1>1, <1>2, <1>3 DEF Inv, TypeOK, Started
<1>5. NoType \in Types /\ Known(NoType)'
  BY NullKnown
<1>6. \/ stack' = <<>>
      \/ \E g \in Frames :
           /\ stack' = <<g>> /\ g.name = d.name /\ g.type = NoType /\ g.at = "start"
           /\ g.call \in {"sema_analyze_variable", "sema_analyze_function"}
  <2>1. CASE stack' = <<Frame("sema_analyze_variable", d.name, NoType)>>
    <3>1. PICK g : g = Frame("sema_analyze_variable", d.name, NoType)
      OBVIOUS
    <3> QED  BY <1>4, <1>5, <2>1, <3>1, NewFrame DEF Calls
  <2>2. CASE stack' = <<Frame("sema_analyze_function", d.name, NoType)>>
    <3>1. PICK g : g = Frame("sema_analyze_function", d.name, NoType)
      OBVIOUS
    <3> QED  BY <1>4, <1>5, <2>2, <3>1, NewFrame DEF Calls
  <2> QED  BY <1>1, <1>2, <2>1, <2>2 DEF AnalyzeDeclaration
<1>7. /\ stack' \in Seq(Frames) /\ Calling'
      /\ \A i \in 1 .. Len(stack') : ~Marked(stack'[i])
  <2>1. CASE stack' = <<>>
    <3>1. stack' \in Seq(Frames) /\ Len(stack') = 0 /\ DOMAIN stack' = {}
      BY <2>1, EmptySeq
    <3> QED  BY <2>1, <3>1 DEF Calling
  <2>2. ASSUME NEW g \in Frames,
               stack' = <<g>>, g.name = d.name, g.type = NoType, g.at = "start",
               g.call \in {"sema_analyze_variable", "sema_analyze_function"}
        PROVE  /\ stack' \in Seq(Frames) /\ Calling'
               /\ \A i \in 1 .. Len(stack') : ~Marked(stack'[i])
    <3>1. stack' \in Seq(Frames) /\ Len(stack') = 1 /\ stack'[1] = g /\ DOMAIN stack' = {1}
      BY <2>2
    <3>2. FrameOK(g)'
      BY <1>1, <1>4, <1>5, <2>2 DEF FrameOK, scopes, global, local
    <3>3. Answered(g)'
      BY <2>2 DEF Answered
    <3>4. Top' = g
      BY <3>1 DEF Top
    <3>5. /\ \A i \in DOMAIN stack' : FrameOK(stack[i])'
          /\ \A i \in 1 .. Len(stack') - 1 : Waits(stack[i], stack[i + 1])'
          /\ Answered(Top)'
      BY <3>1, <3>2, <3>3, <3>4
    <3>6. ~Marked(g)
      BY <2>2 DEF Marked
    <3> QED  BY <3>1, <3>5, <3>6 DEF Calling
  <2> QED  BY <1>6, <2>1, <2>2
<1>8. TypeOK'
  BY <1>1, <1>3, <1>7 DEF Inv, TypeOK, input, scopes, global, local
<1>9. Scoped'
  <2>1. ASSUME NEW t, Known(t)
        PROVE  Known(t)'
    BY <1>1, <2>1 DEF Known, scopes, global, local, ArrayWrap, LastWrap
  <2>2. PICK t : t = ret.type
    OBVIOUS
  <2>3. Known(ret.type)'
    BY <1>1, <2>1, <2>2 DEF Inv, Scoped
  <2>4. ASSUME NEW m \in DOMAIN entries
        PROVE  Known(entries[m].type)'
    <3>1. PICK u : u = entries[m].type
      OBVIOUS
    <3>2. Known(u)'
      BY <2>1, <3>1 DEF Inv, Scoped
    <3> QED  BY <1>1, <3>1, <3>2 DEF scopes, global, local
  <2> QED  BY <1>1, <2>3, <2>4 DEF Inv, Scoped, input, scopes, global, local
<1>10. Started'
  BY <1>1 DEF Inv, Started, input, scopes, global, local
<1>11. Marks'
  <2>1. Len(stack) = 0
    BY <1>1
  <2>2. \A call, n : ~Working(call, n)
    BY <2>1 DEF Working, WorkingIn
  <2>3. \A call, n : ~Working(call, n)'
    BY <1>7 DEF Working, WorkingIn, Works
  <2>4. Alone'
    BY <1>7 DEF Alone, AloneIn
  <2> QED  BY <1>1, <2>2, <2>3, <2>4 DEF Inv, Marks, scopes, global, local
<1> QED  BY <1>1, LocalStays, <1>7, <1>8, <1>9, <1>10, <1>11 DEF Inv, input, scopes, global

LEMMA AnalyzedInv == Inv /\ Analyzed => Inv'
<1> SUFFICES ASSUME Inv, Analyzed PROVE Inv'
  OBVIOUS
<1>1. /\ UNCHANGED <<input, next, scopes, stack, ret, errors>> /\ phase = "analyze"
      /\ stack = <<>> /\ phase' = "done"
  BY DEF Analyzed
<1>2. TypeOK'
  BY <1>1 DEF Inv, TypeOK, input, scopes, global, local, Ends
<1>3. Scoped' /\ Calling'
  BY <1>1 DEF Inv, Scoped, Calling, Known, FrameOK, Waits, Answered, Top, Decl, input, scopes, global, local
<1>4. Started' /\ Marks'
  BY <1>1 DEF Inv, Started, Marks, Alone, Working, input, scopes, global, local
<1> QED  BY <1>1, LocalStays, <1>2, <1>3, <1>4 DEF Inv, input, scopes, global

\* A call of sema_complete_aggregate from the analysis of a variable or a function.
LEMMA AnalyzeCompletesInv ==
  ASSUME Inv, Quiet, phase' = phase, ret' = ret, stack # <<>>,
         Top.call \in {"sema_analyze_variable", "sema_analyze_function"},
         NEW t, IsAggregate(t), NEW h, h \in Types, Known(h)',
         Top.call = "sema_analyze_function" =>
           Top.item \in DOMAIN Decl(Top.name).params /\ h # NoType,
         CallFrom([Here("completed") EXCEPT !.type = h],
                  Frame("sema_complete_aggregate", t.base, NoType))
  PROVE  Inv'
<1>1. PICK d : d = Top
  OBVIOUS
<1>2. d \in Frames /\ FrameOK(d)
  BY <1>1, TopFacts
<1>3. FrameOK(d)' /\ Known(NoType)' /\ NoType \in Types
  BY <1>2, FrameStays, QuietGrows, NullKnown
<1>4. t.base \in DOMAIN aggregates /\ t.base \in DOMAIN entries /\ t.base \in Names
  BY DEF IsAggregate, Inv, TypeOK
<1>5. PICK e, f, g : /\ e = [d EXCEPT !.at = "completed"] /\ f = [e EXCEPT !.type = h]
                  /\ g = Frame("sema_complete_aggregate", t.base, NoType)
  OBVIOUS
<1>6. f \in Frames /\ f.call = d.call /\ f.name = d.name /\ f.at = "completed" /\ f.type = h
      /\ f.item = d.item
  <2>1. e \in Frames /\ e.call = d.call /\ e.name = d.name /\ e.at = "completed" /\ e.item = d.item
    BY <1>2, <1>5, FrameAt DEF Places
  <2> QED  BY <1>5, <2>1 DEF Frames
<1>7. /\ g \in Frames /\ g.call = "sema_complete_aggregate" /\ g.name = t.base
      /\ g.at = "start" /\ g.type = NoType
  BY <1>3, <1>4, <1>5, NewFrame DEF Calls
<1>8. CallFrom(f, g)
  BY <1>1, <1>5 DEF Here
<1>9. FrameOK(f)' /\ FrameOK(g)' /\ Waits(f, g)' /\ ~Marked(f) /\ ~Marked(Top)
  <2>1. Decl(d.name)' = Decl(d.name)
    BY <1>2, DeclStays, QuietGrows DEF FrameOK
  <2> QED  BY <1>1, <1>3, <1>4, <1>6, <1>7, <2>1 DEF FrameOK, Waits, Marked, Marking, Quiet
<1> QED  BY <1>1, <1>6, <1>7, <1>8, <1>9, QuietCall

\* A variable keeps no type over the call.
LEMMA VariableCompletesInv ==
  ASSUME Inv, Quiet, phase' = phase, ret' = ret, stack # <<>>,
         Top.call = "sema_analyze_variable", NEW t, IsAggregate(t),
         CallFrom(Here("completed"), Frame("sema_complete_aggregate", t.base, NoType))
  PROVE  Inv'
<1>1. PICK d, h : d = Top /\ h = d.type
  OBVIOUS
<1>2. d \in Frames /\ h \in Types /\ Known(h)
  BY <1>1, TopFacts DEF Frames, FrameOK
<1>3. Known(h)'
  BY <1>2, KnownStays, QuietGrows
<1>4. [d EXCEPT !.at = "completed"] = [[d EXCEPT !.at = "completed"] EXCEPT !.type = h]
  BY <1>1, <1>2 DEF Frames
<1>5. Here("completed") = [Here("completed") EXCEPT !.type = h]
  BY <1>1, <1>4 DEF Here
<1>6. CallFrom([Here("completed") EXCEPT !.type = h],
               Frame("sema_complete_aggregate", t.base, NoType))
  BY <1>5
<1> QED  BY <1>2, <1>3, <1>6, AnalyzeCompletesInv

\* The end of a call from sema_analyze: nobody looks at what it returned.
LEMMA AnalyzeEndsInv ==
  ASSUME Inv, Quiet, phase' = phase, ret' = ret, stack # <<>>, stack' = Callers,
         Top.call \in {"sema_analyze_variable", "sema_analyze_function"}
  PROVE  Inv'
<1>1. ~Marked(Top) /\ Top.call \notin Typing /\ Top.call # "sema_resolve_entry"
  BY DEF Marked, Marking, Typing
<1>2. Known(ret.type)' /\ ret' \in [ok : BOOLEAN, type : Types]
  BY RetStays DEF Inv, TypeOK
<1> QED  BY <1>1, <1>2, QuietReturn

\* A call of sema_resolve_entry for the variable itself, or what a parameter of
\* its name has.
LEMMA AnalyzeVariableStartInv == Inv /\ AnalyzeVariableStart => Inv'
<1> SUFFICES ASSUME Inv, AnalyzeVariableStart PROVE Inv'
  OBVIOUS
<1>1. /\ Quiet /\ phase' = phase /\ ret' = ret /\ stack # <<>>
      /\ Top.call = "sema_analyze_variable" /\ Top.at = "start"
  BY QuietScopes DEF AnalyzeVariableStart, At
<1>2. PICK d : d = Top
  OBVIOUS
<1>3. d \in Frames /\ FrameOK(d) /\ d.name \in DOMAIN entries /\ d.name \in Names
  BY <1>1, <1>2, TopFacts DEF FrameOK, Inv, TypeOK
<1>4. FrameOK(d)' /\ Known(NoType)' /\ NoType \in Types
  BY <1>1, <1>3, FrameStays, QuietGrows, NullKnown
<1>10. CASE d.name \in DOMAIN scope /\ IsAggregate(scope[d.name])
            /\ CallFrom(Here("completed"),
                        Frame("sema_complete_aggregate", scope[d.name].base, NoType))
  BY <1>1, <1>10, VariableCompletesInv
<1>11. CASE stack' = Callers
  BY <1>1, <1>11, AnalyzeEndsInv
<1>12. ASSUME CallFrom(Here("named"), Frame("sema_resolve_entry", d.name, NoType))
       PROVE  Inv'
  <2>5. PICK f, g : /\ f = [d EXCEPT !.at = "named"]
                    /\ g = Frame("sema_resolve_entry", d.name, NoType)
    OBVIOUS
  <2>6. f \in Frames /\ f.call = d.call /\ f.name = d.name /\ f.at = "named" /\ f.type = d.type
    BY <1>3, <2>5, FrameAt DEF Places
  <2>7. /\ g \in Frames /\ g.call = "sema_resolve_entry" /\ g.name = d.name /\ g.at = "start"
        /\ g.type = NoType
    BY <1>3, <1>4, <2>5, NewFrame DEF Calls
  <2>8. CallFrom(f, g)
    BY <1>2, <1>12, <2>5 DEF Here
  <2>9. FrameOK(f)' /\ FrameOK(g)' /\ Waits(f, g)' /\ ~Marked(f) /\ ~Marked(Top)
    BY <1>1, <1>2, <1>4, <2>6, <2>7 DEF FrameOK, Waits, Marked, Marking
  <2> QED  BY <1>1, <1>2, <2>6, <2>7, <2>8, <2>9, QuietCall
<1> QED  BY <1>2, <1>10, <1>11, <1>12 DEF AnalyzeVariableStart

LEMMA AnalyzeVariableNamedInv == Inv /\ AnalyzeVariableNamed => Inv'
<1> SUFFICES ASSUME Inv, AnalyzeVariableNamed PROVE Inv'
  OBVIOUS
<1>1. /\ Quiet /\ ret' = ret /\ stack # <<>> /\ errors' = errors
      /\ Top.call = "sema_analyze_variable" /\ Top.at = "named"
  BY QuietScopes DEF AnalyzeVariableNamed, At
<1>2. PICK t : t = entries[Top.name].type
  OBVIOUS
<1>3. errors = {} => ret.ok /\ t # NoType
  <2>1. Answered(Top) /\ Top.name \in DOMAIN entries
    BY <1>1, TopFacts DEF FrameOK
  <2> QED  BY <1>1, <1>2, <2>1 DEF Answered, Inv, Scoped
<1>4. CASE (~ret.ok \/ t = NoType) /\ End("crashed")
  <2>1. stack' = <<>> /\ phase' = "crashed"
    BY <1>4 DEF End
  <2> QED  BY <1>1, <1>3, <1>4, <2>1, QuietEnd
<1>5. CASE /\ IsAggregate(t) /\ phase' = phase
           /\ CallFrom(Here("completed"), Frame("sema_complete_aggregate", t.base, NoType))
  BY <1>1, <1>5, VariableCompletesInv
<1>6. CASE stack' = Callers /\ phase' = phase
  BY <1>1, <1>6, AnalyzeEndsInv
<1> QED  BY <1>2, <1>4, <1>5, <1>6 DEF AnalyzeVariableNamed

LEMMA AnalyzeVariableCompletedInv == Inv /\ AnalyzeVariableCompleted => Inv'
<1> SUFFICES ASSUME Inv, AnalyzeVariableCompleted PROVE Inv'
  OBVIOUS
<1>1. /\ Quiet /\ phase' = phase /\ ret' = ret /\ stack # <<>> /\ stack' = Callers
      /\ Top.call = "sema_analyze_variable"
  BY QuietScopes DEF AnalyzeVariableCompleted, At, Report
<1> QED  BY <1>1, AnalyzeEndsInv

LEMMA AnalyzeFunctionStartInv == Inv /\ AnalyzeFunctionStart => Inv'
<1> SUFFICES ASSUME Inv, AnalyzeFunctionStart PROVE Inv'
  OBVIOUS
<1>1. /\ Quiet /\ phase' = phase /\ ret' = ret /\ stack # <<>>
      /\ Top.call = "sema_analyze_function" /\ Top.at = "start"
  BY QuietScopes DEF AnalyzeFunctionStart, At
<1>2. PICK d : d = Top
  OBVIOUS
<1>3. d \in Frames /\ FrameOK(d) /\ d.name \in DOMAIN entries /\ d.name \in Names
  BY <1>1, <1>2, TopFacts DEF FrameOK, Inv, TypeOK
<1>4. FrameOK(d)' /\ Known(NoType)' /\ NoType \in Types
  BY <1>1, <1>3, FrameStays, QuietGrows, NullKnown
<1>5. PICK f, g : /\ f = [d EXCEPT !.at = "type"]
                  /\ g = Frame("sema_resolve_function_type", d.name, NoType)
  OBVIOUS
<1>6. f \in Frames /\ f.call = d.call /\ f.name = d.name /\ f.at = "type" /\ f.type = d.type
  BY <1>3, <1>5, FrameAt DEF Places
<1>7. /\ g \in Frames /\ g.call = "sema_resolve_function_type" /\ g.name = d.name
      /\ g.at = "start" /\ g.type = NoType
  BY <1>3, <1>4, <1>5, NewFrame DEF Calls
<1>8. CallFrom(f, g)
  BY <1>2, <1>5 DEF AnalyzeFunctionStart, Here
<1>9. FrameOK(f)' /\ FrameOK(g)' /\ Waits(f, g)' /\ ~Marked(f) /\ ~Marked(Top)
  BY <1>1, <1>2, <1>4, <1>6, <1>7 DEF FrameOK, Waits, Marked, Marking
<1> QED  BY <1>1, <1>2, <1>6, <1>7, <1>8, <1>9, QuietCall

LEMMA AnalyzeFunctionParameterInv == Inv /\ AnalyzeFunctionParameter => Inv'
<1> SUFFICES ASSUME Inv, AnalyzeFunctionParameter PROVE Inv'
  OBVIOUS
<1>1. /\ Quiet /\ phase' = phase /\ ret' = ret /\ stack # <<>>
      /\ Top.call = "sema_analyze_function" /\ Top.at = "parameters"
  BY QuietScopes DEF AnalyzeFunctionParameter, At
<1>2. PICK d, t : d = Top /\ t = Decl(Top.name).types[Top.item]
  OBVIOUS
<1>3. d \in Frames /\ FrameOK(d) /\ d.name \in DOMAIN entries /\ d.item \in Nat \ {0}
  BY <1>1, <1>2, TopFacts DEF FrameOK, Frames
<1>4. t \in Types /\ d.name \in Names /\ d.item \in DOMAIN Decl(d.name).params
  <2>1. d.item <= Len(Decl(d.name).params)
    BY <1>2 DEF AnalyzeFunctionParameter
  <2>2. d.item \in DOMAIN Decl(d.name).params
    BY <1>3, <2>1, DeclParts
  <2> QED  BY <1>2, <1>3, <2>2, DeclParts, DeclTyped
<1>5. PICK f, g : f = [d EXCEPT !.at = "typed"] /\ g = Frame("sema_resolve_type", d.name, t)
  OBVIOUS
<1>6. f \in Frames /\ f.call = d.call /\ f.name = d.name /\ f.at = "typed" /\ f.type = d.type
      /\ f.item = d.item
  BY <1>3, <1>5, FrameAt DEF Places
<1>7. /\ g \in Frames /\ g.call = "sema_resolve_type" /\ g.name = d.name /\ g.at = "start"
      /\ g.type = NoType /\ g.expr = t
  BY <1>4, <1>5, NewFrame DEF Calls
<1>8. CallFrom(f, g)
  BY <1>2, <1>5 DEF AnalyzeFunctionParameter, Here
<1>11. Mentioned(t)'
  BY <1>1, <1>2, <1>3, <1>4, DeclParts, Mentions, QuietGrows
<1>9. FrameOK(d)' /\ Known(NoType)' /\ Decl(d.name)' = Decl(d.name)
  BY <1>1, <1>3, FrameStays, DeclStays, QuietGrows, NullKnown
<1>10. FrameOK(f)' /\ FrameOK(g)' /\ Waits(f, g)' /\ ~Marked(f) /\ ~Marked(Top)
  BY <1>1, <1>2, <1>4, <1>6, <1>7, <1>9, <1>11 DEF FrameOK, Waits, Typing, Marked, Marking
<1> QED  BY <1>1, <1>2, <1>6, <1>7, <1>8, <1>10, QuietCall

\* The scope of the function starts as the one outside it.
LEMMA AnalyzeFunctionTypedInv == Inv /\ AnalyzeFunctionTyped => Inv'
<1> SUFFICES ASSUME Inv, AnalyzeFunctionTyped PROVE Inv'
  OBVIOUS
<1>1. /\ phase = "analyze" /\ stack # <<>>
      /\ Top.call = "sema_analyze_function" /\ Top.at = "type"
      /\ UNCHANGED <<input, phase, next, global, scope, ret, errors>>
  BY DEF AnalyzeFunctionTyped, At
<1>2. old_scope' = old_scope \/ old_scope' = scope
  BY DEF AnalyzeFunctionTyped
<1>3. Quiet /\ phase' = phase /\ ret' = ret
  <2>1. PICK s, o : s = scope /\ o = old_scope
    OBVIOUS
  <2>2. ScopeOK(s)' /\ ScopeOK(o)'
    BY <1>1, <2>1, ScopeStays DEF Inv, Local, input, global
  <2>3. scope' = s /\ (old_scope' = o \/ old_scope' = s)
    BY <1>1, <1>2, <2>1
  <2>4. Local'
    BY <2>2, <2>3 DEF Local
  <2> QED  BY <1>1, <2>4, QuietParts
<1>4. CASE stack' = Callers
  BY <1>1, <1>3, <1>4, AnalyzeEndsInv
<1>5. CASE Continue(Here("parameters"))
  <2>1. PICK d, f : d = Top /\ f = [d EXCEPT !.at = "parameters"]
    OBVIOUS
  <2>2. d \in Frames /\ FrameOK(d)' /\ Continue(f)
    BY <1>1, <1>3, <1>5, <2>1, TopFacts, FrameStays, QuietGrows DEF Here
  <2>3. f \in Frames /\ f.call = d.call /\ f.name = d.name /\ f.at = "parameters" /\ f.type = d.type
    BY <2>1, <2>2, FrameAt DEF Places
  <2>4. FrameOK(f)' /\ Answered(f)' /\ ~Marked(f) /\ ~Marked(Top)
    BY <1>1, <2>1, <2>2, <2>3 DEF FrameOK, Answered, Marked, Marking
  <2> QED  BY <1>1, <1>3, <2>1, <2>2, <2>3, <2>4, QuietContinue
<1> QED  BY <1>4, <1>5 DEF AnalyzeFunctionTyped

\* A parameter comes into scope.
LEMMA PutInv ==
  ASSUME Inv, phase = "analyze", stack # <<>>, Top.call = "sema_analyze_function",
         Top.at \in {"typed", "completed"}, NEW t, Known(t), t # NoType, Put(t),
         UNCHANGED <<input, phase, next, global, old_scope, ret, errors>>
  PROVE  Inv'
<1>1. PICK d : d = Top
  OBVIOUS
<1>2. d \in Frames /\ FrameOK(d)
  BY <1>1, TopFacts
<1>3. PICK n : n = Decl(d.name).params[d.item]
  OBVIOUS
<1>4. n \in ParametersIn(program)
  BY <1>1, <1>2, <1>3, DeclParts DEF FrameOK
<1>5. scope' = With(scope, n, t)
  BY <1>1, <1>3 DEF Put
<1>6. /\ DOMAIN scope' = DOMAIN scope \cup {n} /\ scope'[n] = t
      /\ \A m \in DOMAIN scope : m # n => scope'[m] = scope[m]
  BY <1>5 DEF With
<1>7. \A m \in DOMAIN scope' : m \in ParametersIn(program) /\ Known(scope'[m]) /\ scope'[m] # NoType
  BY <1>4, <1>6 DEF Inv, Local, ScopeOK
<1>8. Local'
  <2>1. PICK s, o : s = scope' /\ o = old_scope
    OBVIOUS
  <2>2. ScopeOK(s) /\ ScopeOK(o)
    BY <1>7, <2>1 DEF Inv, Local, ScopeOK
  <2>3. ScopeOK(s)' /\ ScopeOK(o)'
    BY <2>2, ScopeStays DEF input, global
  <2>4. scope' = s /\ old_scope' = o
    BY <2>1
  <2> QED  BY <2>3, <2>4 DEF Local
<1>9. Quiet
  BY <1>8, QuietParts
<1>10. Continue([Here("parameters") EXCEPT !.item = @ + 1])
  BY DEF Put
<1>11. Top.call \notin Marking
  BY DEF Marking
<1> QED  BY <1>9, <1>10, <1>11, NextItemInv

LEMMA AnalyzeFunctionParameterTypedInv == Inv /\ AnalyzeFunctionParameterTyped => Inv'
<1> SUFFICES ASSUME Inv, AnalyzeFunctionParameterTyped PROVE Inv'
  OBVIOUS
<1>1. /\ phase = "analyze" /\ stack # <<>>
      /\ Top.call = "sema_analyze_function" /\ Top.at = "typed"
      /\ UNCHANGED <<input, next, global, old_scope, ret, errors>>
  BY DEF AnalyzeFunctionParameterTyped, At
<1>2. PICK t : t = ret.type
  OBVIOUS
<1>3. Known(t) /\ t \in Types /\ (errors = {} => t # NoType)
  BY <1>1, <1>2, TopFacts DEF Answered, Inv, Scoped, Known
<1>4. scope' = scope => Quiet
  BY <1>1, QuietScopes DEF scopes, local
<1>5. CASE t = NoType /\ End("crashed") /\ UNCHANGED scope
  <2>1. stack' = <<>> /\ phase' = "crashed"
    BY <1>5 DEF End
  <2> QED  BY <1>1, <1>3, <1>4, <1>5, <2>1, QuietEnd
<1>6. CASE /\ IsAggregate(t) /\ UNCHANGED <<phase, scope>>
           /\ CallFrom([Here("completed") EXCEPT !.type = t],
                       Frame("sema_complete_aggregate", t.base, NoType))
  <2>1. Known(t)'
    BY <1>3, <1>4, <1>6, KnownStays, QuietGrows
  <2>2. t # NoType
    <3>1. NoType.base \notin DOMAIN aggregates
      BY NamesAssumption DEF Inv, TypeOK, NoType, Plain
    <3> QED  BY <1>6, <3>1 DEF IsAggregate
  <2>3. Top.item \in DOMAIN Decl(Top.name).params
    BY <1>1, TopFacts DEF FrameOK
  <2> QED  BY <1>1, <1>3, <1>4, <1>6, <2>1, <2>2, <2>3, AnalyzeCompletesInv
<1>7. CASE t # NoType /\ Put(t) /\ UNCHANGED phase
  BY <1>1, <1>3, <1>7, PutInv
<1> QED  BY <1>2, <1>5, <1>6, <1>7 DEF AnalyzeFunctionParameterTyped

LEMMA AnalyzeFunctionCompletedInv == Inv /\ AnalyzeFunctionCompleted => Inv'
<1> SUFFICES ASSUME Inv, AnalyzeFunctionCompleted PROVE Inv'
  OBVIOUS
<1>1. /\ phase = "analyze" /\ stack # <<>> /\ phase' = phase /\ ret' = ret
      /\ Top.call = "sema_analyze_function" /\ Top.at = "completed"
      /\ UNCHANGED <<input, next, global, old_scope>>
  BY DEF AnalyzeFunctionCompleted, At
<1>2. CASE Put(Top.type) /\ UNCHANGED errors
  <2>1. PICK d, t : d = Top /\ t = d.type
    OBVIOUS
  <2>2. Known(t) /\ t # NoType
    BY <1>1, <2>1, TopFacts DEF FrameOK
  <2> QED  BY <1>1, <1>2, <2>1, <2>2, PutInv
<1>3. CASE Report("incomplete aggregate") /\ stack' = Callers /\ UNCHANGED scope
  <2>1. Quiet
    BY <1>1, <1>3, QuietScopes DEF scopes, local, Report
  <2> QED  BY <1>1, <1>3, <2>1, AnalyzeEndsInv
<1> QED  BY <1>2, <1>3 DEF AnalyzeFunctionCompleted

\* The scope outside the function comes back.
LEMMA AnalyzeFunctionReturnInv == Inv /\ AnalyzeFunctionReturn => Inv'
<1> SUFFICES ASSUME Inv, AnalyzeFunctionReturn PROVE Inv'
  OBVIOUS
<1>1. /\ phase = "analyze" /\ stack # <<>> /\ phase' = phase /\ ret' = ret
      /\ Top.call = "sema_analyze_function" /\ stack' = Callers
      /\ UNCHANGED <<input, next, global, old_scope, errors>> /\ scope' = old_scope
  BY DEF AnalyzeFunctionReturn, At
<1>2. Local'
  <2>1. PICK o : o = old_scope
    OBVIOUS
  <2>2. ScopeOK(o)'
    BY <1>1, <2>1, ScopeStays DEF Inv, Local, input, global
  <2>3. scope' = o /\ old_scope' = o
    BY <1>1, <2>1
  <2> QED  BY <2>2, <2>3 DEF Local
<1>3. Quiet
  BY <1>1, <1>2, QuietParts
<1> QED  BY <1>1, <1>3, AnalyzeEndsInv

-----------------------------------------------------------------------------
(* sema_register_program *)

LEMMA RegisterInv == Inv /\ sema_register => Inv'
<1> SUFFICES ASSUME Inv, sema_register PROVE Inv'
  OBVIOUS
<1>1. /\ UNCHANGED <<input, phase, arrays, functions, local, stack, ret>> /\ next' = next + 1
      /\ phase = "register" /\ next <= Len(program) /\ stack = <<>>
  BY DEF sema_register, Inv, Started
<1>2. PICK d, n : d = program[next] /\ n = d.name
  OBVIOUS
<1> DEFINE r == d.kind = "aggregate" /\ n \notin DOMAIN entries /\ errors = {}
           s == IF r THEN "RESOLVED" ELSE "UNRESOLVED"
           t == IF r THEN Plain(n) ELSE NoType
<1>3. next \in DOMAIN program /\ next' \in 1 .. Len(program) + 1
  BY <1>1, LenProperties DEF Inv, TypeOK
<1>4. d \in Decls /\ n \in Names
  <2>1. d \in Decls
    BY <1>2, <1>3 DEF Inv, TypeOK
  <2> QED  BY <1>2, <2>1 DEF Decls
<1>5. /\ errors \subseteq errors' /\ (n \in DOMAIN entries => errors' # {})
      /\ entries' = With(entries, n, [node |-> next, state |-> s, type |-> t])
      /\ aggregates' = IF r THEN With(aggregates, n, [is_complete |-> FALSE,
                                                      is_resolving |-> FALSE, size |-> 0])
                       ELSE aggregates
  BY <1>2 DEF sema_register
<1>6. /\ t \in Types /\ Known(t)
      /\ s \in {"UNRESOLVED", "RESOLVING", "RESOLVED"} /\ s # "RESOLVING"
      /\ s = "RESOLVED" => t # NoType
      /\ d.kind = "aggregate" /\ errors' = {} => r
      /\ r => s = "RESOLVED" /\ t = Plain(n)
  <2>1. /\ Known(Plain(n)) /\ Known(NoType) /\ Plain(n) # NoType
        /\ Plain(n) \in Types /\ NoType \in Types
    BY <1>4, NamesAssumption, PlainKnown, NullKnown DEF Known
  <2> QED  BY <1>5, <2>1
<1> HIDE DEF r, s, t
<1>7. /\ DOMAIN entries' = DOMAIN entries \cup {n}
      /\ entries'[n] = [node |-> next, state |-> s, type |-> t]
      /\ \A m \in DOMAIN entries : m # n => entries'[m] = entries[m]
  <2>1. PICK v : v = [node |-> next, state |-> s, type |-> t]
    OBVIOUS
  <2>2. entries' = With(entries, n, v)
    BY <1>5, <2>1
  <2> QED  BY <2>1, <2>2 DEF With
<1>8. /\ DOMAIN aggregates \subseteq DOMAIN aggregates'
      /\ DOMAIN aggregates' \subseteq DOMAIN aggregates \cup {n}
      /\ r => n \in DOMAIN aggregates'
      /\ \A m \in DOMAIN aggregates' :
           \/ m \in DOMAIN aggregates /\ aggregates'[m] = aggregates[m]
           \/ aggregates'[m] = [is_complete |-> FALSE, is_resolving |-> FALSE, size |-> 0]
  <2>1. CASE r
    <3>1. PICK v : v = [is_complete |-> FALSE, is_resolving |-> FALSE, size |-> 0]
      OBVIOUS
    <3>2. aggregates' = With(aggregates, n, v)
      BY <1>5, <2>1, <3>1
    <3> QED  BY <2>1, <3>1, <3>2 DEF With
  <2>2. CASE ~r
    BY <1>5, <2>2
  <2> QED  BY <2>1, <2>2
<1>9. TypeOK'
  <2>1. \A m \in DOMAIN entries' :
          entries'[m] \in [node : DOMAIN program, type : Types,
                           state : {"UNRESOLVED", "RESOLVING", "RESOLVED"}]
    BY <1>3, <1>6, <1>7 DEF Inv, TypeOK
  <2>2. \A m \in DOMAIN aggregates' :
          aggregates'[m] \in [is_complete : BOOLEAN, is_resolving : BOOLEAN, size : Nat]
    <3>1. PICK zero \in Nat : zero = 0
      OBVIOUS
    <3>2. [is_complete |-> FALSE, is_resolving |-> FALSE, size |-> zero]
            \in [is_complete : BOOLEAN, is_resolving : BOOLEAN, size : Nat]
      OBVIOUS
    <3> QED  BY <1>8, <3>1, <3>2 DEF Inv, TypeOK
  <2> QED  BY <1>1, <1>3, <1>4, <1>7, <1>8, <2>1, <2>2 DEF Inv, TypeOK, input, local
<1>10. ASSUME NEW u, Known(u)
       PROVE  Known(u)'
  BY <1>1, <1>10 DEF Known, ArrayWrap, LastWrap
<1>11. Scoped'
  <2>1. ASSUME NEW m \in DOMAIN entries'
        PROVE  Known(entries[m].type)' /\ program[entries'[m].node].name = m
    <3>1. PICK u : u = entries'[m].type
      OBVIOUS
    <3>2. Known(u) /\ program[entries'[m].node].name = m
      BY <1>2, <1>6, <1>7, <3>1 DEF Inv, Scoped
    <3> QED  BY <1>10, <3>1, <3>2
  <2>2. PICK u : u = ret.type
    OBVIOUS
  <2>3. Known(ret.type)'
    BY <1>1, <1>10, <2>2 DEF Inv, Scoped
  <2>4. \A m \in DOMAIN entries' :
          entries'[m].state = "RESOLVED" /\ errors' = {} => entries'[m].type # NoType
    BY <1>5, <1>6, <1>7 DEF Inv, Scoped
  <2> QED  BY <1>1, <2>1, <2>3, <2>4 DEF Scoped, input, local
<1>12. Calling'
  <2>1. stack' = <<>> /\ Len(stack') = 0 /\ DOMAIN stack' = {}
    BY <1>1
  <2> QED  BY <2>1 DEF Calling
<1>13. Started'
  <2>1. \A m \in DOMAIN entries' : entries'[m].state # "RESOLVING"
    BY <1>1, <1>6, <1>7 DEF Inv, Started
  <2>2. \A m \in DOMAIN aggregates' : ~aggregates'[m].is_resolving
    BY <1>1, <1>8 DEF Inv, Started
  <2>3. ASSUME NEW i \in 1 .. next' - 1
        PROVE  /\ program[i].name \in DOMAIN entries'
               /\ errors' = {} /\ program[i].kind = "aggregate" =>
                    /\ program[i].name \in DOMAIN aggregates'
                    /\ entries'[program[i].name].state = "RESOLVED"
                    /\ entries'[program[i].name].type = Plain(program[i].name)
    <3>1. i = next \/ i \in 1 .. next - 1
      BY <1>1, <1>3
    <3>2. CASE i = next
      BY <1>2, <1>5, <1>6, <1>7, <1>8, <3>2
    <3>3. CASE i \in 1 .. next - 1
      BY <1>1, <1>5, <1>7, <1>8, <3>3 DEF Inv, Started
    <3> QED  BY <3>1, <3>2, <3>3
  <2> QED  BY <1>1, <2>1, <2>2, <2>3 DEF Started, input, local
<1>14. Marks'
  <2>1. Len(stack') = 0
    BY <1>1
  <2>2. (\A call, m : ~Working(call, m)') /\ Alone'
    BY <2>1 DEF Working, WorkingIn, Alone, AloneIn
  <2>3. \A m \in DOMAIN entries' : entries'[m].state # "RESOLVING"
    BY <1>1, <1>6, <1>7 DEF Inv, Started
  <2>4. \A m \in DOMAIN aggregates' : ~aggregates'[m].is_resolving
    BY <1>1, <1>8 DEF Inv, Started
  <2> QED  BY <2>2, <2>3, <2>4 DEF Marks
<1> QED  BY <1>1, LocalStays, <1>9, <1>11, <1>12, <1>13, <1>14 DEF Inv, input

LEMMA RegisteredInv == Inv /\ Registered => Inv'
<1> SUFFICES ASSUME Inv, Registered PROVE Inv'
  OBVIOUS
<1>1. /\ UNCHANGED <<input, scopes, stack, ret, errors>> /\ next' = 1
      /\ phase = "register" /\ next > Len(program) /\ stack = <<>>
      /\ phase' = IF errors = {} THEN "analyze" ELSE "done"
  BY DEF Registered, Inv, Started
<1>2. Len(program) \in Nat /\ DOMAIN program = 1 .. Len(program) /\ next = Len(program) + 1
  BY <1>1, LenProperties DEF Inv, TypeOK
<1>3. \A i \in DOMAIN program :
        /\ program[i].name \in DOMAIN entries
        /\ errors = {} /\ program[i].kind = "aggregate" =>
             /\ program[i].name \in DOMAIN aggregates
             /\ entries[program[i].name].state = "RESOLVED"
             /\ entries[program[i].name].type = Plain(program[i].name)
  BY <1>1, <1>2 DEF Inv, Started
<1>4. TypeOK'
  BY <1>1, <1>2, <1>3 DEF Inv, TypeOK, input, scopes, global, local, Ends
<1>5. Scoped' /\ Calling'
  BY <1>1 DEF Inv, Scoped, Calling, Known, FrameOK, Waits, Answered, Top, Decl, input, scopes, global, local
<1>6. Started' /\ Marks'
  BY <1>1, <1>3 DEF Inv, Started, Marks, Alone, Working, input, scopes, global, local
<1> QED  BY <1>1, LocalStays, <1>4, <1>5, <1>6 DEF Inv, input, scopes, global

-----------------------------------------------------------------------------
(* The invariant holds always *)

LEMMA InitInv == Init => Inv
<1> SUFFICES ASSUME Init PROVE Inv
  OBVIOUS
<1>1. /\ program \in Seq(Decls) /\ phase = "register" /\ next = 1
      /\ DOMAIN entries = {} /\ DOMAIN aggregates = {} /\ DOMAIN arrays = {}
      /\ DOMAIN scope = {} /\ DOMAIN old_scope = {}
      /\ functions = {} /\ stack = <<>> /\ errors = {}
      /\ ret = [ok |-> TRUE, type |-> NoType]
  BY ProgramsAssumption DEF Init
<1>2. Known(NoType) /\ NoType \in Types
  BY NullKnown
<1>3. /\ stack \in Seq(Frames) /\ Len(stack) = 0 /\ DOMAIN stack = {}
      /\ Len(program) \in Nat
  BY <1>1, EmptySeq, LenProperties
<1>4. TypeOK
  <2>1. ret \in [ok : BOOLEAN, type : Types]
    BY <1>1, <1>2
  <2> QED  BY <1>1, <1>3, <2>1 DEF TypeOK
<1>5. Scoped
  BY <1>1, <1>2 DEF Scoped
<1>6. Calling
  BY <1>1, <1>3 DEF Calling
<1>7. Started
  BY <1>1 DEF Started
<1>8. Marks
  BY <1>1, <1>3 DEF Marks, Alone, AloneIn
<1>9. Local
  BY <1>1 DEF Local, ScopeOK
<1> QED  BY <1>4, <1>9, <1>5, <1>6, <1>7, <1>8 DEF Inv

LEMMA StutterInv == Inv /\ UNCHANGED vars => Inv'
<1> SUFFICES ASSUME Inv, UNCHANGED vars PROVE Inv'
  OBVIOUS
<1>1. UNCHANGED <<program, phase, next, entries, aggregates, arrays, functions, scope, old_scope, stack, ret, errors>>
  BY DEF vars, input, scopes, global, local
<1>2. TypeOK'
  BY <1>1 DEF Inv, TypeOK
<1>3. Scoped' /\ Calling'
  BY <1>1 DEF Inv, Scoped, Calling, Known, FrameOK, Mentioned, Waits, Answered, Top, Decl
<1>4. Started' /\ Marks'
  BY <1>1 DEF Inv, Started, OfBuiltin, Marks, Alone, Working
<1> QED  BY <1>1, LocalStays, <1>2, <1>3, <1>4 DEF Inv, local

LEMMA NextInv == Inv /\ [Next]_vars => Inv'
<1> SUFFICES ASSUME Inv, [Next]_vars PROVE Inv'
  OBVIOUS
<1>1. CASE sema_register \/ Registered \/ AnalyzeDeclaration \/ Analyzed
  BY <1>1, RegisterInv, RegisteredInv, AnalyzeDeclarationInv, AnalyzedInv
<1>2. CASE sema_resolve_type
  BY <1>2, ResolveTypeNameInv, ResolveTypeNamedInv, ResolveTypeWrapInv, ResolveTypeReturnInv
  DEF sema_resolve_type
<1>3. CASE sema_resolve_entry
  BY <1>3, ResolveEntryMarkedInv, ResolveEntryCallInv, ResolveEntryReturnInv
  DEF sema_resolve_entry
<1>4. CASE sema_complete_aggregate
  BY <1>4, CompleteMarkedInv, CompleteStartInv, CompleteItemInv, CompleteItemTypedInv,
     CompleteItemNestedInv, CompleteReturnInv DEF sema_complete_aggregate
<1>5. CASE sema_analyze_initializer
  BY <1>5, InitializerStartInv, InitializerTypedInv, InitializerNamedInv,
     InitializerCompletedInv, InitializerReturnInv DEF sema_analyze_initializer
<1>6. CASE sema_resolve_function_type
  BY <1>6, FunctionTypeItemInv, FunctionTypeTypedInv, FunctionTypeReturnInv
  DEF sema_resolve_function_type
<1>7. CASE sema_analyze_variable
  BY <1>7, AnalyzeVariableStartInv, AnalyzeVariableNamedInv, AnalyzeVariableCompletedInv
  DEF sema_analyze_variable
<1>8. CASE sema_analyze_function
  BY <1>8, AnalyzeFunctionStartInv, AnalyzeFunctionParameterInv, AnalyzeFunctionTypedInv,
     AnalyzeFunctionParameterTypedInv, AnalyzeFunctionCompletedInv, AnalyzeFunctionReturnInv
  DEF sema_analyze_function
<1>9. CASE UNCHANGED vars
  BY <1>9, StutterInv
<1> QED  BY <1>1, <1>2, <1>3, <1>4, <1>5, <1>6, <1>7, <1>8, <1>9 DEF Next

LEMMA InvAlways == Spec => []Inv
<1> QED  BY InitInv, NextInv, PTL DEF Spec

-----------------------------------------------------------------------------
(* The theorems *)

\* sema.c keeps its scopes well formed whatever the program declares: every entry
\* has a declaration of the program, and when the analysis starts every aggregate
\* has been given a type ("as we never make an unresolved one").
THEOREM TypeCorrect == Spec => []TypeOK
<1>1. Inv => TypeOK
  BY DEF Inv
<1> QED  BY <1>1, InvAlways, PTL

\* Counting the calls at work on a name.
LEMMA InsideCount ==
  ASSUME Inv, phase \notin {"crashed", "aborted"}, NEW call \in Marking, NEW n
  PROVE  Cardinality(Inside(call, n)) = IF Working(call, n) THEN 1 ELSE 0
<1>1. DOMAIN stack = 1 .. Len(stack) /\ Alone
  BY LenProperties DEF Inv, TypeOK, Marks
<1>2. \A i : i \in Inside(call, n) <=> i \in 1 .. Len(stack) /\ Works(stack[i], call, n)
  BY <1>1 DEF Inside, Works, Marked
<1>3. \A i, j \in Inside(call, n) : i = j
  BY <1>1, <1>2 DEF Alone, AloneIn, Works
<1>4. CASE Working(call, n)
  <2>1. PICK i \in Inside(call, n) : TRUE
    BY <1>2, <1>4 DEF Working, WorkingIn
  <2>2. Inside(call, n) = {i}
    BY <1>3, <2>1
  <2> QED  BY <1>4, <2>2, FS_Singleton
<1>5. CASE ~Working(call, n)
  <2>1. Inside(call, n) = {}
    BY <1>2, <1>5 DEF Working, WorkingIn
  <2> QED  BY <1>5, <2>1, FS_EmptySet
<1> QED  BY <1>4, <1>5

\* The RESOLVING state and the is_resolving flag tell, for every program, which
\* calls of sema_resolve_entry and sema_complete_aggregate are on the C stack: no
\* name has two, so the recursion is bounded, and no mark outlives its call.
THEOREM MarksAreTheStack == Spec => []MarksOnStack
<1>1. Inv => MarksOnStack
  <2> SUFFICES ASSUME Inv, phase \notin {"crashed", "aborted"}
               PROVE  /\ \A n \in DOMAIN entries :
                           Cardinality(Inside("sema_resolve_entry", n)) =
                             IF entries[n].state = "RESOLVING" THEN 1 ELSE 0
                      /\ \A n \in DOMAIN aggregates :
                           Cardinality(Inside("sema_complete_aggregate", n)) =
                             IF aggregates[n].is_resolving THEN 1 ELSE 0
    BY DEF MarksOnStack
  <2>1. ASSUME NEW n \in DOMAIN entries
        PROVE  Cardinality(Inside("sema_resolve_entry", n)) =
                 IF entries[n].state = "RESOLVING" THEN 1 ELSE 0
    <3>1. entries[n].state = "RESOLVING" <=> Working("sema_resolve_entry", n)
      BY DEF Inv, Marks
    <3>2. Cardinality(Inside("sema_resolve_entry", n)) =
            IF Working("sema_resolve_entry", n) THEN 1 ELSE 0
      BY InsideCount DEF Marking
    <3> QED  BY <3>1, <3>2
  <2>2. ASSUME NEW n \in DOMAIN aggregates
        PROVE  Cardinality(Inside("sema_complete_aggregate", n)) =
                 IF aggregates[n].is_resolving THEN 1 ELSE 0
    <3>1. aggregates[n].is_resolving <=> Working("sema_complete_aggregate", n)
      BY DEF Inv, Marks
    <3>2. Cardinality(Inside("sema_complete_aggregate", n)) =
            IF Working("sema_complete_aggregate", n) THEN 1 ELSE 0
      BY InsideCount DEF Marking
    <3> QED  BY <3>1, <3>2
  <2> QED  BY <2>1, <2>2
<1> QED  BY <1>1, InvAlways, PTL

\* sema.c follows a null pointer only in a program that it has found an error in, or
\* in which a variable is initialized with the name of a builtin type.
THEOREM CrashesOnlyAfterErrors == Spec => []CrashesAfterErrors
<1>1. Inv => CrashesAfterErrors
  BY DEF Inv, Started, OfBuiltin, CrashesAfterErrors
<1> QED  BY <1>1, InvAlways, PTL

\* What ResolvedIsFinal says of one step.
Final ==
  /\ \A n \in DOMAIN entries :
       entries[n].state = "RESOLVED" /\ phase = "analyze" => entries'[n] = entries[n]
  /\ \A n \in DOMAIN aggregates : aggregates[n].is_complete => aggregates'[n] = aggregates[n]
  /\ \A t \in DOMAIN arrays : arrays'[t] = arrays[t]

LEMMA FinalStep == Inv /\ Next => Final
<1> SUFFICES ASSUME Inv, Next PROVE Final
  OBVIOUS
<1>1. ASSUME UNCHANGED <<entries, aggregates, arrays>>
      PROVE  Final
  BY <1>1 DEF Final
<1>2. CASE sema_register
  <2>1. phase = "register" /\ arrays' = arrays
    BY <1>2 DEF sema_register
  <2>2. \/ aggregates' = aggregates
        \/ \E n, v : n \notin DOMAIN entries /\ aggregates' = With(aggregates, n, v)
    BY <1>2 DEF sema_register
  <2>3. \A n \in DOMAIN aggregates : aggregates'[n] = aggregates[n]
    BY <2>2 DEF With, Inv, TypeOK
  <2> QED  BY <2>1, <2>3 DEF Final
<1>3. CASE ResolveTypeWrap
  <2>1. UNCHANGED <<entries, aggregates>>
    BY <1>3 DEF ResolveTypeWrap
  <2>2. \/ arrays' = arrays
        \/ \E t, v : t \notin DOMAIN arrays /\ arrays' = With(arrays, t, v)
    BY <1>3 DEF ResolveTypeWrap
  <2>3. \A t \in DOMAIN arrays : arrays'[t] = arrays[t]
    BY <2>2 DEF With
  <2> QED  BY <2>1, <2>3 DEF Final
<1>4. CASE ResolveEntryCall
  <2>1. /\ UNCHANGED <<aggregates, arrays>> /\ entries[Top.name].state = "UNRESOLVED"
        /\ entries' = [entries EXCEPT ![Top.name].state = "RESOLVING"]
    BY <1>4 DEF ResolveEntryCall
  <2> QED  BY <2>1 DEF Final
<1>5. CASE ResolveEntryReturn
  <2>1. /\ UNCHANGED <<aggregates, arrays>> /\ phase = "analyze" /\ stack # <<>>
        /\ Top.call = "sema_resolve_entry" /\ Top.at = "typed"
        /\ entries' = [entries EXCEPT ![Top.name].state = "RESOLVED",
                                      ![Top.name].type = ret.type]
    BY <1>5 DEF ResolveEntryReturn, At
  <2>2. PICK n : n = Top.name
    OBVIOUS
  <2>3. n \in DOMAIN entries /\ stack \in Seq(Frames)
    BY <2>1, <2>2, TopFacts DEF FrameOK, Inv, TypeOK
  <2>4. Works(Top, "sema_resolve_entry", n)
    BY <2>1, <2>2 DEF Works, Marked, Marking
  <2>5. Working("sema_resolve_entry", n)
    BY <2>1, <2>3, <2>4, TopWorks
  <2>6. entries[n].state = "RESOLVING"
    BY <2>1, <2>3, <2>5 DEF Inv, Marks
  <2>7. \A m \in DOMAIN entries : m # n => entries'[m] = entries[m]
    BY <2>1, <2>2
  <2> QED  BY <2>1, <2>6, <2>7 DEF Final
<1>6. CASE CompleteStart
  <2>1. /\ UNCHANGED <<entries, arrays>> /\ ~aggregates[Top.name].is_complete
        /\ aggregates' = [aggregates EXCEPT ![Top.name].is_resolving = TRUE]
    BY <1>6 DEF CompleteStart
  <2> QED  BY <2>1 DEF Final
<1>7. CASE CompleteReturn
  <2>1. /\ UNCHANGED <<entries, arrays>> /\ phase = "analyze" /\ stack # <<>>
        /\ Top.call = "sema_complete_aggregate" /\ Top.at = "items"
        /\ aggregates' = [aggregates EXCEPT ![Top.name] =
             [is_complete |-> TRUE, is_resolving |-> FALSE, size |-> Top.size]]
    BY <1>7 DEF CompleteReturn, At
  <2>2. PICK n : n = Top.name
    OBVIOUS
  <2>3. n \in DOMAIN aggregates /\ stack \in Seq(Frames)
    BY <2>1, <2>2, TopFacts DEF FrameOK, Inv, TypeOK
  <2>4. Works(Top, "sema_complete_aggregate", n)
    BY <2>1, <2>2 DEF Works, Marked, Marking
  <2>5. Working("sema_complete_aggregate", n)
    BY <2>1, <2>3, <2>4, TopWorks
  <2>6. ~aggregates[n].is_complete
    BY <2>1, <2>3, <2>5 DEF Inv, Marks
  <2>7. \A m \in DOMAIN aggregates : m # n => aggregates'[m] = aggregates[m]
    BY <2>1, <2>2
  <2> QED  BY <2>1, <2>6, <2>7 DEF Final
<1>8. CASE Registered \/ AnalyzeDeclaration \/ Analyzed
  BY <1>1, <1>8 DEF Registered, AnalyzeDeclaration, Analyzed, scopes, global, local
<1>9. CASE ResolveTypeName \/ ResolveTypeNamed \/ ResolveTypeReturn \/ ResolveEntryMarked
  BY <1>1, <1>9 DEF ResolveTypeName, ResolveTypeNamed, ResolveTypeReturn, ResolveEntryMarked, scopes, global, local
<1>10. CASE CompleteMarked \/ CompleteItem \/ CompleteItemTyped \/ CompleteItemNested
  BY <1>1, <1>10 DEF CompleteMarked, CompleteItem, CompleteItemTyped, CompleteItemNested, scopes, global, local
<1>11. CASE sema_analyze_initializer
  BY <1>1, <1>11 DEF sema_analyze_initializer, InitializerStart, InitializerTyped,
     InitializerNamed, InitializerCompleted, InitializerReturn, scopes, global, local
<1>12. CASE sema_resolve_function_type
  BY <1>1, <1>12 DEF sema_resolve_function_type, FunctionTypeItem, FunctionTypeTyped,
     FunctionTypeReturn, scopes, global, local
<1>13. CASE sema_analyze_variable
  BY <1>1, <1>13 DEF sema_analyze_variable, AnalyzeVariableStart, AnalyzeVariableNamed,
     AnalyzeVariableCompleted, scopes, global, local
<1>14. CASE sema_analyze_function
  BY <1>1, <1>14 DEF sema_analyze_function, AnalyzeFunctionStart, AnalyzeFunctionParameter,
     AnalyzeFunctionTyped, AnalyzeFunctionParameterTyped, AnalyzeFunctionCompleted,
     AnalyzeFunctionReturn, Put, scopes, global, local
<1> QED  BY <1>2, <1>3, <1>4, <1>5, <1>6, <1>7, <1>8, <1>9, <1>10, <1>11, <1>12, <1>13, <1>14
         DEF Next, sema_resolve_type, sema_resolve_entry, sema_complete_aggregate

\* What sema.c has decided stays: an entry it resolved keeps its type, an aggregate
\* it laid out its size, and an array type the size it was made with, which the
\* types built on them have read by then.
THEOREM ResolvedStays == Spec => ResolvedIsFinal
<1>1. Inv /\ [Next]_vars => [Final]_vars
  BY FinalStep
<1> QED  BY <1>1, InvAlways, PTL DEF Spec, ResolvedIsFinal, Final
=============================================================================
