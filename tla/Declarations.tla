---------------------------- MODULE Declarations -----------------------------
(***************************************************************************)
(* The declarations of a program, as the parser hands them to sema.c, and  *)
(* what they mean: which declarations the meaning of another one needs,    *)
(* which programs have no meaning, and how large a type is.  It is the     *)
(* reference Resolve is compared with, and it does not follow its control. *)
(***************************************************************************)
EXTENDS Naturals, Sequences, FiniteSets

CONSTANTS
  Names,   \* the names a program declares or mentions
  Builtin, \* a scalar type of four bytes, defined in every program
  None     \* no name

ASSUME NamesAssumption ==
  IsFiniteSet(Names) /\ Builtin \notin Names /\ None \notin Names \cup {Builtin}

\* T*, T[n] and T[]; a function's type wraps its own name.
Wraps == {"pointer", "sized", "slice", "function"}

\* A type expression and a type have the same shape: what is wrapped, and the
\* wraps from the inside out.  The null Type pointer wraps nothing.
Types == [base : Names \cup {Builtin, None}, wraps : Seq(Wraps)]
Plain(n) == [base |-> n, wraps |-> <<>>]
NoType == Plain(None)
Wrap(t, w) == [t EXCEPT !.wraps = Append(@, w)]

\* One declaration.  The types it writes: the aliased type, the lines of fields, the
\* declared type of a variable (none when it is inferred from the name `init`),
\* or the parameters and the return type.  Only a variable has an initializer and
\* only a function names for its parameters.  How often a line of an aggregate
\* counts: once for each field it names, and once in a union, whatever it names;
\* the lines of a nested struct or union are among those of the outer one.
Kinds == {"alias", "aggregate", "variable", "function"}
Decls ==
  {d \in [kind : Kinds, name : Names, types : Seq(Types), init : Names \cup {Builtin, None},
          params : Seq(Names \cup {Builtin}), counts : Seq(Nat \ {0})] :
     /\ d.kind = "alias" \/ (d.kind = "variable" /\ d.init = None) => Len(d.types) = 1
     /\ d.kind # "variable" => d.init = None
     /\ IF d.kind = "function" THEN Len(d.types) = Len(d.params) + 1 ELSE d.params = <<>>
     /\ Len(d.counts) = IF d.kind = "aggregate" THEN Len(d.types) ELSE 0}

Declaration(kind, n, ts) ==
  [kind |-> kind, name |-> n, types |-> ts, init |-> None, params |-> <<>>, counts |-> <<>>]
Alias(n, t) == Declaration("alias", n, <<t>>)
Lines(n, counts, ts) == [Declaration("aggregate", n, ts) EXCEPT !.counts = counts]
Aggregate(n, ts) == Lines(n, [i \in DOMAIN ts |-> 1], ts)
Variable(n, t) == Declaration("variable", n, <<t>>)
Inferred(n, m) == [Declaration("variable", n, <<>>) EXCEPT !.init = m]
Function(n, ps, ts) == [Declaration("function", n, ts) EXCEPT !.params = ps]

Count == 2         \* the element count of every sized array
POINTER_SIZE == 8

ElementsOf(s) == {s[i] : i \in DOMAIN s}
DeclaredIn(p) == {p[i].name : i \in DOMAIN p}
DeclOf(p, n) == p[CHOOSE i \in DOMAIN p : p[i].name = n]
AggregatesIn(p) == {p[i].name : i \in {j \in DOMAIN p : p[j].kind = "aggregate"}}

-----------------------------------------------------------------------------
(* What a name denotes, when the names it goes through are followed k times *)

Denoted(D, t) ==
  IF t.base \in Names
    THEN [base |-> D[t.base].base, wraps |-> D[t.base].wraps \o t.wraps]
    ELSE t

\* One name further than D has followed them.
Followed(p, D) ==
  [n \in Names |->
     LET d == DeclOf(p, n)
     IN  IF n \notin DeclaredIn(p) THEN NoType
         ELSE CASE d.kind = "aggregate" -> Plain(n)
                [] d.kind = "function" -> Wrap(Plain(n), "function")
                [] d.init # None -> Denoted(D, Plain(d.init))
                [] OTHER -> Denoted(D, d.types[1])]

Following(p) ==
  LET follow[k \in 0 .. Cardinality(Names)] ==
        IF k = 0 THEN [n \in Names |-> NoType] ELSE Followed(p, follow[k - 1])
  IN  follow
Denotations(p) == Following(p)[Cardinality(Names)]

\* A type that is laid out inside what has it: everything but what is behind a
\* pointer or a slice.
Contains(t) == IF ElementsOf(t.wraps) \subseteq {"sized"} THEN {t.base} \cap Names ELSE {}

-----------------------------------------------------------------------------
(* The meaning of a declaration needs other ones: <<"name", n>> is what n   *)
(* denotes, <<"layout", n>> the layout of the aggregate n.                  *)

NamesIn(ts) == {<<"name", t.base>> : t \in {u \in ElementsOf(ts) : u.base # Builtin}}
LayoutsIn(D, ts) ==
  {<<"layout", n>> : n \in UNION {Contains(Denoted(D, t)) : t \in ElementsOf(ts)}}

\* A variable that infers its type from a name needs what that name denotes; an
\* aggregate it names by its own name is laid out there and then.
Needs(p, D, node) ==
  LET d == DeclOf(p, node[2])
  IN  IF node[2] \notin DeclaredIn(p) THEN {}
      ELSE IF node[1] = "layout" THEN NamesIn(d.types) \cup LayoutsIn(D, d.types)
      ELSE IF d.kind = "aggregate" THEN {}
      ELSE IF d.init # None
        THEN {<<"name", d.init>>}
               \cup {<<"layout", n>> : n \in {d.init} \cap AggregatesIn(p)}
      ELSE NamesIn(d.types)
             \cup (IF d.kind = "variable" THEN LayoutsIn(D, d.types) ELSE {})

NeededBy(p, D, nodes) == UNION {Needs(p, D, n) : n \in nodes}

\* Everything that is needed, directly or not, by one of the nodes.
Steps == 2 * Cardinality(Names) + 1
Closure(p, D, nodes) ==
  LET closure[k \in 0 .. Steps] ==
        IF k = 0 THEN NeededBy(p, D, nodes)
        ELSE LET before == closure[k - 1] IN before \cup NeededBy(p, D, before)
  IN  closure
Needed(p, D, nodes) == Closure(p, D, nodes)[Steps]

\* A program is analysed from its variables and functions; of these, the variables
\* and the parameters have to be laid out.  A type nobody uses needs nothing.
Roots(p, D) ==
  UNION {LET d == p[i]
         IN  IF d.kind = "variable"
               THEN {<<"name", d.name>>} \cup LayoutsIn(D, <<Plain(d.name)>>)
             ELSE IF d.kind = "function"
               THEN {<<"name", d.name>>}
                      \cup LayoutsIn(D, SubSeq(d.types, 1, Len(d.types) - 1))
             ELSE {} : i \in DOMAIN p}

\* A program has no meaning when something needed is not declared or needs
\* itself: its name, or its layout.
Meaningless(p) ==
  LET D == Denotations(p)
      needed == Roots(p, D) \cup Needed(p, D, Roots(p, D))
  IN  \E n \in needed : n[2] \notin DeclaredIn(p) \/ n \in Needed(p, D, {n})

Redefines(p) == \E i, j \in DOMAIN p : i # j /\ p[i].name = p[j].name

\* A parameter has the name of a declaration, or a name that a declaration uses:
\* one program text then says two things, by where it is looked at.
ParametersIn(p) == UNION {ElementsOf(p[i].params) : i \in DOMAIN p}
UsedIn(d) == {d.name, d.init} \cup {t.base : t \in ElementsOf(d.types)}
Shadows(p) == \E i \in DOMAIN p : UsedIn(p[i]) \cap ParametersIn(p) # {}

-----------------------------------------------------------------------------
(* The size of a type in a program with a meaning *)

\* What one more wrap makes of the size inside it; an array of arrays repeats the
\* count and the length field.
SizeOfWrap(w, size) ==
  CASE w \in {"pointer", "function"} -> POINTER_SIZE
    [] w = "slice" -> 2 * POINTER_SIZE
    [] w = "sized" -> Count * size + POINTER_SIZE

\* A type of a name that denotes nothing has no size.
SizeBy(sizes, t) ==
  LET element == IF t.base = Builtin THEN 4 ELSE IF t.base = None THEN 0 ELSE sizes[t.base]
      size[k \in 0 .. Len(t.wraps)] ==
        IF k = 0 THEN element ELSE SizeOfWrap(t.wraps[k], size[k - 1])
  IN  size[Len(t.wraps)]

Sum(s) ==
  LET sum[k \in 0 .. Len(s)] == IF k = 0 THEN 0 ELSE sum[k - 1] + s[k]
  IN  sum
Total(s) == Sum(s)[Len(s)]

\* What a line of an aggregate adds that counts so often.
Counted(count, size) == count * size
FieldSizes(sizes, D, d) ==
  [i \in DOMAIN d.counts |-> Counted(d.counts[i], SizeBy(sizes, Denoted(D, d.types[i])))]

\* One layout further than those that sizes has.
LaidOut(p, D, sizes) ==
  [n \in Names |->
     IF n \notin DeclaredIn(p) \/ DeclOf(p, n).kind # "aggregate" THEN 0
     ELSE Total(FieldSizes(sizes, D, DeclOf(p, n)))]

LayingOut(p) ==
  LET D == Denotations(p)
      lay[k \in 0 .. Cardinality(Names)] ==
        IF k = 0 THEN [n \in Names |-> 0] ELSE LaidOut(p, D, lay[k - 1])
  IN  lay
Sizes(p) == LayingOut(p)[Cardinality(Names)]
=============================================================================
