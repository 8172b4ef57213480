----------------------------- MODULE MCTypeCache -----------------------------
(***************************************************************************)
(* One builtin and four objects, on a heap below 4 GB, as a                *)
(* position-dependent executable has it, and on one above.  The counts 0,  *)
(* 1 and 3 are the sets {}, {0} and {0, 1} of their one-bits.              *)
(***************************************************************************)
EXTENDS TypeCache

At(low, high) == [low |-> low, high |-> high]

NullAddress == At(0, {})
MCCounts == {{}, {0}, {0, 1}}

LowBuiltins == {At(1, {})}
LowHeap == {At(i, {}) : i \in 2 .. 5}

HighBuiltins == {At(1, {0, 14})}
HighHeap == {At(i, {0, 14}) : i \in 2 .. 5}
=============================================================================
