-------------------------------- MODULE Layout --------------------------------
(***************************************************************************)
(* From the types a program writes to the C structs they are printed as    *)
(* and the places of the globals in GLOBAL_VARIABLES.  sema.c completes an *)
(* aggregate where a value of it is needed.  build_convert_type makes an   *)
(* array after its element but lists an aggregate before its members, with *)
(* a size of zero until they are all converted, and makes nothing of one   *)
(* that was never completed.  source.c prints the structs in the order     *)
(* they were made, arrays first.                                           *)
(***************************************************************************)
EXTENDS Integers, Sequences, FiniteSets, TLC
LOCAL INSTANCE SequencesExt
LOCAL INSTANCE FiniteSetsExt

CONSTANT Programs  \* sets of members by aggregate, and of declarations

VARIABLES
  members,       \* the types of the members of each aggregate
  declarations,  \* the globals and the functions, in their order
  complete,      \* the aggregates that are complete when the analysis ends
  phase,         \* "preload", "build", "print", "done", "rejected", "crashed"
  next,          \* the declaration, or the struct, it is at
  built,         \* what was made of the types so far
  offsets        \* where each global starts; the last entry is global_size

vars == <<members, declarations, complete, phase, next, built, offsets>>

POINTER_SIZE == 8
Base(n) == [kind |-> "base", size |-> n]
Pointer(t) == [kind |-> "pointer", to |-> t]
Sized(t, n) == [kind |-> "sized", element |-> t, count |-> n]
Slice(t) == [kind |-> "slice", element |-> t]
Aggregate(name) == [kind |-> "aggregate", name |-> name]
IsArray(t) == t.kind \in {"sized", "slice"}
IsAggregate(t) == t.kind = "aggregate"

\* A global; a function, with the types of its parameters, what it returns, and
\* the types its body declares variables of.
Variable(t) == [kind |-> "variable", type |-> t]
Function(parameters, result, locals) ==
  [kind |-> "function", parameters |-> parameters, result |-> result, locals |-> locals]

Globals(ds) == SelectSeq(ds, LAMBDA d : d.kind = "variable")

-----------------------------------------------------------------------------
(* sema.c: an aggregate is completed for a global, a parameter, a local     *)
(* variable and a member that is one, or an array with a number of them.    *)
(* What a function returns, and what is behind a pointer, is not.           *)

\* a.complete and a.resolving are marks on the types; a.ok is FALSE after an
\* aggregate that contains itself was reported.
RECURSIVE sema_complete_aggregate(_, _, _)
sema_complete_aggregate(m, a, t) ==
  IF t \in a.complete THEN a
  ELSE IF t \in a.resolving THEN [a EXCEPT !.ok = FALSE]
  ELSE LET Item(b, f) ==
             IF IsAggregate(f) THEN sema_complete_aggregate(m, b, f)
             ELSE IF f.kind = "sized" /\ IsAggregate(f.element)
               THEN sema_complete_aggregate(m, b, f.element)
             ELSE b
       IN  [FoldLeft(Item, [a EXCEPT !.resolving = @ \cup {t}], m[t.name])
              EXCEPT !.resolving = @ \ {t}, !.complete = @ \cup {t}]

\* The types a declaration needs values of, in the order of the analysis.
Values(d) == IF d.kind = "variable" THEN <<d.type>> ELSE d.parameters \o d.locals

Analysed(m, ds) ==
  FoldLeft(LAMBDA a, t : IF IsAggregate(t) THEN sema_complete_aggregate(m, a, t) ELSE a,
           [complete |-> {}, resolving |-> {}, ok |-> TRUE],
           FoldLeft(LAMBDA ts, d : ts \o Values(d), <<>>, ds))

\* aggregates and arrays are the lists of the bytecode context, sizes what the
\* struct made for an array or an aggregate has; the last array made for a type
\* is the one the cache has.
Nothing == [aggregates |-> <<>>, arrays |-> <<>>, sizes |-> <<>>, crashed |-> FALSE]

\* What the analysis reports no error of is lowered.  (An array of a number of
\* aggregates that are not complete stops it at sema.c:200, in a build with
\* assertions; in one without, bc_type_array crashes.)
Init ==
  /\ \E p \in Programs : members \in p.members /\ declarations \in p.declarations
  /\ LET a == Analysed(members, declarations) IN a.ok /\ complete = a.complete
  /\ phase = "preload"
  /\ next = 1
  /\ built = Nothing
  /\ offsets = <<0>>

-----------------------------------------------------------------------------
(* build_convert_type *)

SizeIn(b, t) ==
  CASE t.kind = "base" -> t.size
    [] t.kind = "pointer" -> POINTER_SIZE
    [] OTHER -> b.sizes[t]

\* An aggregate that is not complete has no struct: its type is null.
IsNull(b, t) == IsAggregate(t) /\ t \notin DOMAIN b.sizes

Sum(s) == FoldSeq(LAMBDA x, y : x + y, 0, s)
Sizes(b, T) == [i \in DOMAIN T |-> SizeIn(b, T[i])]
Give(b, t, size) == [b EXCEPT !.sizes = (t :> size) @@ @]

\* Mutant: the length field is forgotten.
ArraySizeWithoutLength(b, t) ==
  IF t.kind = "slice" THEN 2 * POINTER_SIZE ELSE SizeIn(b, t.element) * t.count

ArraySize(b, t) ==
  IF t.kind = "slice" THEN 2 * POINTER_SIZE ELSE SizeIn(b, t.element) * t.count + POINTER_SIZE

\* Mutant: the array is listed before its element is converted.
ListedFirst(b, with, t) ==
  [with EXCEPT !.arrays = Append(b.arrays, t) \o SubSeq(@, Len(b.arrays) + 1, Len(@))]

\* b is what was made before its element was converted, with after.
Listed(b, with, t) == [with EXCEPT !.arrays = Append(@, t)]

\* The size of the element is asked for, where there is a number of them.
bc_type_array(b, with, t) ==
  IF t.kind = "sized" /\ IsNull(with, t.element)
    THEN [Give(with, t, 0) EXCEPT !.crashed = TRUE]
    ELSE Listed(b, Give(with, t, ArraySize(with, t)), t)

\* bc_type_aggregate_set_body: members of a union follow each other too.
SetBody(b, t) == Give(b, t, Sum(Sizes(b, members[t.name])))

RECURSIVE build_convert_type(_, _)
build_convert_type(b, t) ==
  CASE t.kind = "base" -> b
    [] t.kind = "pointer" -> build_convert_type(b, t.to)
    [] IsArray(t) ->
         IF t \in DOMAIN b.sizes THEN b ELSE bc_type_array(b, build_convert_type(b, t.element), t)
    [] t.kind = "aggregate" ->
         IF t \notin complete \/ t \in DOMAIN b.sizes THEN b
         ELSE SetBody(FoldLeft(build_convert_type,
                               [Give(b, t, 0) EXCEPT !.aggregates = Append(@, t)],
                               members[t.name]), t)

Convert(ts) == FoldLeft(build_convert_type, built, ts)

\* To the next declaration, or from the last to the first for what follows.
Advance(after) ==
  /\ phase' = IF built'.crashed THEN "crashed"
               ELSE IF next = Len(declarations) THEN after ELSE phase
  /\ next' = IF next = Len(declarations) THEN 1 ELSE next + 1
  /\ UNCHANGED <<members, declarations, complete>>

\* A global starts where the one before ends.
build_preload_variable ==
  /\ phase = "preload"
  /\ declarations[next].kind = "variable"
  /\ LET t == declarations[next].type
     IN  /\ built' = Convert(<<t>>)
         /\ offsets' = Append(offsets, Last(offsets) + SizeIn(built', t))
  /\ Advance("build")

build_preload_function ==
  /\ phase = "preload"
  /\ declarations[next].kind = "function"
  /\ built' = Convert(Append(declarations[next].parameters, declarations[next].result))
  /\ Advance("build")
  /\ UNCHANGED offsets

\* The bodies, once every declaration is known; a global is stored into.
build_declaration ==
  /\ phase = "build"
  /\ built' = IF declarations[next].kind = "function" THEN Convert(declarations[next].locals)
               ELSE built
  /\ Advance("print")
  /\ UNCHANGED offsets

-----------------------------------------------------------------------------
(* source.c, and what a C compiler says *)

Printed == built.arrays \o built.aggregates

\* The types a struct has fields of.  The fields of an array are the number of
\* its elements and the elements, or a pointer to them.
Fields(t) ==
  CASE t.kind = "sized" -> <<Base(4), t.element>>
    [] t.kind = "slice" -> <<Base(4), Pointer(t.element)>>
    [] t.kind = "aggregate" -> members[t.name]

\* A field needs the structs in it printed before; behind a pointer an array
\* too, an aggregate has been announced.
RECURSIVE Needs(_, _)
Needs(t, behind) ==
  CASE t.kind = "base" -> {}
    [] t.kind = "pointer" -> Needs(t.to, TRUE)
    [] IsArray(t) -> {t}
    [] t.kind = "aggregate" -> IF behind THEN {} ELSE {t}

NeedsOf(t) == UNION {Needs(f, FALSE) : f \in ToSet(Fields(t))}

\* bc_generate_source, one struct after the other.
PrintStruct ==
  /\ phase = "print"
  /\ next <= Len(Printed)
  /\ phase' = IF NeedsOf(Printed[next]) \subseteq ToSet(SubSeq(Printed, 1, next - 1))
                THEN phase ELSE "rejected"
  /\ next' = next + 1
  /\ UNCHANGED <<members, declarations, complete, built, offsets>>

PrintFunctions ==
  /\ phase = "print"
  /\ next > Len(Printed)
  /\ phase' = "done"
  /\ UNCHANGED <<members, declarations, complete, next, built, offsets>>

Next ==
  \/ build_preload_variable
  \/ build_preload_function
  \/ build_declaration
  \/ PrintStruct
  \/ PrintFunctions

Spec == Init /\ [][Next]_vars

-----------------------------------------------------------------------------
(* Properties *)

\* What a struct is made of, directly, and without what is behind a pointer.
\* Nothing is made of an aggregate that is not complete.
Parts(t) ==
  CASE t.kind = "base" -> {}
    [] t.kind = "pointer" -> {t.to}
    [] IsArray(t) -> {t.element}
    [] t.kind = "aggregate" -> IF t \in complete THEN ToSet(members[t.name]) ELSE {}

Inside(t) == IF t.kind \in {"pointer", "slice"} THEN {} ELSE Parts(t)

RECURSIVE Closure(_, _)
Closure(Of(_), S) ==
  LET more == S \cup UNION {Of(t) : t \in S} IN IF more = S THEN S ELSE Closure(Of, more)

Reaches(t) == Closure(Parts, Parts(t))
Within(t) == Closure(Inside, Inside(t))

\* The types in the order the program needs them: those of the globals and of
\* what functions take and return, then those of the variables in bodies.
Signature(d) == IF d.kind = "variable" THEN <<d.type>> ELSE Append(d.parameters, d.result)
Body(d) == IF d.kind = "variable" THEN <<>> ELSE d.locals
Written ==
  LET All(Of(_)) == FoldLeft(LAMBDA ts, d : ts \o Of(d), <<>>, declarations)
  IN  All(Signature) \o All(Body)

Used == Closure(Parts, ToSet(Written))

\* t is in the types written before s is.
UsedBefore(t, s) ==
  \E i \in DOMAIN Written :
    LET earlier == Closure(Parts, ToSet(SubSeq(Written, 1, i)))
    IN  t \in earlier /\ s \notin earlier

\* A part of t, in t itself, leads back to t: an aggregate that is not finished
\* when t is made of it.
Entangled(t) == \E s \in {t} \cup Within(t) : \E p \in Inside(s) : s \in Reaches(p)

\* A C compiler takes the structs, in the order they were met, when there is no
\* array of a number of aggregates and every aggregate that is a member of another
\* is needed by a type written before all that lead to that other one.
StructsInOrder ==
  phase = "rejected" =>
    \/ \E t \in Used : t.kind = "sized" /\ IsAggregate(t.element)
    \/ \E t, s \in Used : IsAggregate(t) /\ IsAggregate(s) /\ s \in Inside(t) /\ ~UsedBefore(s, t)

\* C's own layout.
RoundUp(n, a) == ((n + a - 1) \div a) * a

RECURSIVE Align(_)
Align(t) ==
  CASE t.kind = "base" -> t.size
    [] t.kind = "pointer" -> POINTER_SIZE
    [] OTHER -> Max({1} \cup {Align(f) : f \in ToSet(Fields(t))})

RECURSIVE SizeInC(_)
SizeInC(t) ==
  CASE t.kind = "base" -> t.size
    [] t.kind = "pointer" -> POINTER_SIZE
    [] OTHER ->
         LET Place(n, f) ==
               RoundUp(n, Align(f))
                 + SizeInC(f) * (IF t.kind = "sized" /\ f = t.element THEN t.count ELSE 1)
         IN  RoundUp(FoldLeft(Place, 0, Fields(t)), Align(t))

\* The size build_convert_type is after.
RECURSIVE SizeMeant(_)
SizeMeant(t) ==
  CASE t.kind = "base" -> t.size
    [] t.kind = "pointer" -> POINTER_SIZE
    [] t.kind = "sized" -> SizeMeant(t.element) * t.count + POINTER_SIZE
    [] t.kind = "slice" -> 2 * POINTER_SIZE
    [] t.kind = "aggregate" -> Sum([i \in DOMAIN members[t.name] |-> SizeMeant(members[t.name][i])])

\* Globals do not overlap in GLOBAL_VARIABLES, although its offsets are counted
\* without C's padding and an aggregate may be asked for its size before it has
\* one: as long as a global's type has no padding and no part of it leads back to
\* what it is a part of.
GlobalsApart ==
  phase = "done" =>
    \A i \in DOMAIN Globals(declarations) :
      LET t == Globals(declarations)[i].type
      IN  ~Entangled(t) /\ SizeInC(t) <= SizeMeant(t) => offsets[i] + SizeInC(t) <= offsets[i + 1]
=============================================================================
