---------------------------- MODULE MCStringTable ----------------------------
(***************************************************************************)
(* Five keys, on a table whose first array has four slots: it grows to     *)
(* eight for the fourth key.  k1, k2 and k3 have their home in the last    *)
(* slot of four, so probing wraps, and part in the larger array.  Null is  *)
(* among the arguments, as it is for the tables keyed by an address.       *)
(***************************************************************************)
EXTENDS StringTable, TLC

CONSTANTS k1, k2, k3, k4, k5

MCKeys == {k1, k2, k3, k4, k5}
MCArgs == MCKeys \cup {Null}
MCHash == k1 :> 7 @@ k2 :> 15 @@ k3 :> 3 @@ k4 :> 2 @@ k5 :> 0 @@ Null :> 5381
=============================================================================
