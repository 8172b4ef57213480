------------------------------ MODULE TypeCache ------------------------------
(***************************************************************************)
(* The types of sema.c as objects on the heap, and the two caches, keyed   *)
(* by addresses, that are to make equal type declarations share one        *)
(* object.  A pointer type is cached under its base.  An array type is     *)
(* cached under its base's address OR'ed with the element count shifted by *)
(* 32, or with bit 63 when the array is dynamic.                           *)
(*                                                                         *)
(* An address is its low half, different for any two objects, and the set  *)
(* of the bits that are one in its upper half; so is a count, which lands  *)
(* in the upper half.  To OR two words is to unite their bits.             *)
(***************************************************************************)
EXTENDS Naturals, FiniteSets, Sequences

CONSTANTS
  Null,      \* the null pointer
  Builtins,  \* the addresses of the scalar types of sema_initialize
  Heap,      \* the addresses make_type hands out afterwards
  Counts,    \* element counts of sized arrays
  MaxWraps   \* a bound of the model: "*" and "[...]" in one declaration

DynamicBit == 31  \* bit 63, counted in the upper half

ASSUME HeapAssumption ==
  /\ \A a, b \in Builtins \cup Heap : a # b => a.low # b.low
  /\ Builtins \cap Heap = {} /\ Null \notin Builtins \cup Heap

VARIABLES
  types,          \* the Type objects, by their address
  pointer_types,  \* context->pointer_types, from base to pointer type
  array_types,    \* context->array_types, from hash to array type
  asked,          \* what the last resolved declaration or expression denotes
  result          \* the type it was given, or Null

vars == <<types, pointer_types, array_types, asked, result>>

\* What a type declaration denotes: its name's address, then the wraps.
Pointer == [kind |-> "pointer"]
Sized(n) == [kind |-> "sized", size |-> n]
Slice == [kind |-> "slice"]
Dynamic == [kind |-> "dynamic"]

\* T[0] and T[] set no bit of the hash, so one of them is given the type of the
\* other: both have array_size 0, and only their sizes tell them apart.
Shape(w) == IF w = Sized({}) THEN Slice ELSE w
Alike(d, e) == DOMAIN d = DOMAIN e /\ \A i \in DOMAIN d : Shape(d[i]) = Shape(e[i])

\* A Type object: the base it was made with, and how it wraps it.
Builtin == [base |-> Null, wrap |-> [kind |-> "builtin"], denotes |-> <<>>]
Make(b, w) == [base |-> b, wrap |-> w, denotes |-> Append(types[b].denotes, w)]

\* `denotes` starts with the builtin's own name.
Init ==
  /\ types = [a \in Builtins |-> [Builtin EXCEPT !.denotes = <<a>>]]
  /\ pointer_types = [a \in {} |-> Null]
  /\ array_types = [h \in {} |-> Null]
  /\ asked = <<>>
  /\ result = Null

Live == DOMAIN types
Unused == Heap \ Live
With(f, k, v) == [x \in DOMAIN f \cup {k} |-> IF x = k THEN v ELSE f[x]]
Wrappable(b) == Len(types[b].denotes) <= MaxWraps

-----------------------------------------------------------------------------
(* The declarations, their base already resolved *)

\* Mutant: a made pointer type is not remembered.
PointerUncached(b) ==
  \E a \in Unused :
    /\ types' = With(types, a, Make(b, Pointer))
    /\ asked' = Append(types[b].denotes, Pointer)
    /\ result' = a
    /\ UNCHANGED <<pointer_types, array_types>>

\* T*
PointerTo(b) ==
  /\ asked' = Append(types[b].denotes, Pointer)
  /\ UNCHANGED array_types
  /\ \/ /\ b \in DOMAIN pointer_types
        /\ result' = pointer_types[b]
        /\ UNCHANGED <<types, pointer_types>>
     \/ /\ b \notin DOMAIN pointer_types
        /\ \E a \in Unused :
             /\ types' = With(types, a, Make(b, Pointer))
             /\ pointer_types' = With(pointer_types, b, a)
             /\ result' = a

\* Mutant: the hash leaves out whether the array is dynamic.
HashWithoutDynamic(b, w) ==
  [low |-> b.low, high |-> b.high \cup (IF w.kind = "sized" THEN w.size ELSE {})]

\* What the shape of an array sets in the upper half of the hash.
ShapeBits(w) ==
  IF w.kind = "sized" THEN w.size ELSE IF w.kind = "dynamic" THEN {DynamicBit} ELSE {}

type_hash(b, w) == [low |-> b.low, high |-> b.high \cup ShapeBits(w)]

\* Mutant: the element type is cached where the array type should be.
ArrayCachingElement(b, w) ==
  \E a \in Unused :
    /\ types' = With(types, a, Make(b, w))
    /\ array_types' = With(array_types, type_hash(b, w), b)
    /\ asked' = Append(types[b].denotes, w)
    /\ result' = a
    /\ UNCHANGED pointer_types

\* T[n], T[] and T[*]
ArrayOf(b, w) ==
  LET hash == type_hash(b, w)
  IN  /\ asked' = Append(types[b].denotes, w)
      /\ UNCHANGED pointer_types
      /\ \/ /\ hash \in DOMAIN array_types
            /\ result' = array_types[hash]
            /\ UNCHANGED <<types, array_types>>
         \/ /\ hash \notin DOMAIN array_types
            /\ \E a \in Unused :
                 /\ types' = With(types, a, Make(b, w))
                 /\ array_types' = With(array_types, hash, a)
                 /\ result' = a

-----------------------------------------------------------------------------
(* The operator & makes a pointer type without a look at the cache, and    *)
(* then overwrites what is there.                                          *)

AddressOf(b) ==
  \E a \in Unused :
    /\ types' = With(types, a, Make(b, Pointer))
    /\ pointer_types' = With(pointer_types, b, a)
    /\ asked' = Append(types[b].denotes, Pointer)
    /\ result' = a
    /\ UNCHANGED array_types

ArrayWraps == {Sized(n) : n \in Counts} \cup {Slice, Dynamic}

Declare ==
  \E b \in Live :
    /\ Wrappable(b)
    /\ PointerTo(b) \/ \E w \in ArrayWraps : ArrayOf(b, w)

TakeAddress == \E b \in Live : Wrappable(b) /\ AddressOf(b)

Next == Declare \/ TakeAddress

Spec == Init /\ [][Next]_vars

Arrays == {a \in Live : types[a].wrap.kind \in {"sized", "slice", "dynamic"}}

\* No bit of an address is one an array may set in its hash: a heap below 4 GB
\* has no upper bits at all.
AddressesApart ==
  /\ \A a \in Builtins \cup Heap, n \in Counts \cup {{DynamicBit}} : a.high \cap n = {}
  /\ \A n \in Counts : DynamicBit \notin n

-----------------------------------------------------------------------------
(* Properties *)

TypeOK ==
  /\ Live \subseteq Builtins \cup Heap
  /\ \A a \in Live : /\ types[a].base \in Live \cup {Null}
                     /\ types[a].wrap \in {Builtin.wrap, Pointer} \cup ArrayWraps
  /\ DOMAIN pointer_types \subseteq Live
  /\ \A b \in DOMAIN pointer_types : pointer_types[b] \in Live
  /\ \A h \in DOMAIN array_types : array_types[h] \in Arrays
  /\ result \in Live \cup {Null}

\* A declaration is given the type it writes, or T[] for T[0] and the other way
\* round.  tests/cases/04-array.aa relies on i32[1] and i32[5] being different
\* types; their hashes differ only in bits the address of i32 may have too.
TypeAsDeclared == result # Null => Alike(types[result].denotes, asked)

\* The operator & has taken a pointer type's place in the cache.
Replaced ==
  \E a \in Live :
    /\ types[a].wrap = Pointer
    /\ types[a].base \in DOMAIN pointer_types
    /\ pointer_types[types[a].base] # a

\* Equal declarations share one Type object until & replaces a cached pointer
\* type, and nothing else makes them part: the compiler compares base types by
\* address, which is right only as long as they do.
OneTypePerDeclaration ==
  ~Replaced => \A a, b \in Live : types[a].denotes = types[b].denotes => a = b
=============================================================================
