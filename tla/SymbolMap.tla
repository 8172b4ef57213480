------------------------------ MODULE SymbolMap ------------------------------
(***************************************************************************)
(* What the compiler expects of a symbol table or of a type cache: a       *)
(* partial map from keys to values.  Each call is one step that changes    *)
(* the map and answers the caller through result.  The hash tables of      *)
(* ati/table.c are shown to implement this specification.                  *)
(***************************************************************************)
CONSTANTS
  Keys,     \* the keys a caller may bind
  Values,   \* what a key may be bound to
  Absent    \* the answer of a get that finds nothing (the C null), no value

VARIABLES
  map,      \* the binding of every key, or Absent
  result    \* what the last call returned

vars == <<map, result>>

Unbound == [k \in Keys |-> Absent]

Init ==
  /\ map = Unbound
  /\ result = Absent

\* Binding a key replaces its binding and no other; the answer is whether
\* the key was unbound before.
Set(k, v) ==
  /\ map' = [map EXCEPT ![k] = v]
  /\ result' = (map[k] = Absent)

\* The null key is accepted, reported as new, and bound to nothing.
SetNull ==
  /\ map' = map
  /\ result' = TRUE

Get(k) ==
  /\ map' = map
  /\ result' = map[k]

GetNull ==
  /\ map' = map
  /\ result' = Absent

Destroy ==
  /\ map' = Unbound
  /\ result' = Absent

Next ==
  \/ \E k \in Keys, v \in Values : Set(k, v)
  \/ \E k \in Keys : Get(k)
  \/ SetNull
  \/ GetNull
  \/ Destroy

Spec == Init /\ [][Next]_vars
=============================================================================
