----------------------------- MODULE StringTable -----------------------------
(***************************************************************************)
(* The open-addressing hash table of ati/table.c: linear probing from the  *)
(* key's hash, growth at a load of 3/4, tombstones.  One call runs at a    *)
(* time; a set that has to grow rehashes the old entries one per step into *)
(* the fresh array, as the loop of string_table_resize does, and stores    *)
(* its own key when the arrays have been swapped.                          *)
(* The file has the table twice, keyed by strings and, line by line the    *)
(* same, by addresses, for the type caches; no caller passes the first an  *)
(* empty string, but sema_resolve_type passes the second null, the base of *)
(* a pointer whose base failed to resolve.  Null marks a free slot, so     *)
(* such a set is always new, is counted, and leaves a tombstone.           *)
(***************************************************************************)
EXTENDS Integers, FiniteSets

CONSTANTS
  Keys,     \* the keys of the table, none of length zero
  Null,     \* the key of length zero, which marks a slot without a key
  Values,   \* the non-null pointers stored
  Absent,   \* the C null: the value of a slot without a key, a failed get
  Args,     \* the keys callers pass
  Hash,     \* string_hash, which may collide in any way
  MinCapacity, \* the capacity of the first array, 8 in the code
  MaxCapacity  \* a bound of the model: no table grows beyond it

ASSUME TableAssumption ==
  /\ Null \notin Keys
  /\ Absent \notin Values \cup BOOLEAN
  /\ Args \subseteq Keys \cup {Null}
  /\ Hash \in [Keys \cup {Null} -> Nat]
  /\ MinCapacity \in Nat \ {0, 1}
  /\ MaxCapacity \in Nat

VARIABLES
  entries,  \* table->entries, a function on 0 .. capacity - 1
  capacity, \* table->capacity
  length,   \* table->length
  pc,       \* "ready" between calls, "rehash" inside string_table_resize
  fresh,    \* new_entries of string_table_resize
  cursor,   \* its loop counter
  pending,  \* the key and value of the set that is growing the table
  result    \* what the last finished call returned

table == <<entries, capacity, length>>
growth == <<pc, fresh, cursor, pending>>
vars == <<entries, capacity, length, pc, fresh, cursor, pending, result>>

Entry == [key : Keys \cup {Null}, value : Values \cup {Absent}, empty : BOOLEAN]
Slots(cap) == 0 .. cap - 1
Nothing == [key |-> Null, value |-> Absent, empty |-> TRUE]
Blank(cap) == [i \in Slots(cap) |-> Nothing]
NoArray == Blank(0)
NoCall == [key |-> Null, value |-> Absent]

Init ==
  /\ entries = NoArray
  /\ capacity = 0
  /\ length = 0
  /\ pc = "ready"
  /\ fresh = NoArray
  /\ cursor = 0
  /\ pending = NoCall
  /\ result = Absent

-----------------------------------------------------------------------------
(* The search *)

\* The slot looked at after d steps from the home slot hash & (cap - 1): the
\* index goes up by one and wraps around once.
Probe(k, cap, d) ==
  LET home == Hash[k] % cap
  IN  IF home + d < cap THEN home + d ELSE home + d - cap

\* The search goes no further than a slot with the key or an empty one.
Stops(E, cap, k, d) ==
  LET e == E[Probe(k, cap, d)]
  IN  e.key = k \/ (e.key = Null /\ e.empty)

Tombstone(E, i) == E[i].key = Null /\ ~E[i].empty

\* The loop has an exit; when there is none it runs for ever.
Terminates(E, cap, k) == \E d \in Slots(cap) : Stops(E, cap, k, d)

\* The number of steps the search takes, and the first tombstone it passes.
Steps(E, cap, k) ==
  CHOOSE d \in Slots(cap) :
    Stops(E, cap, k, d) /\ \A c \in Slots(d) : ~Stops(E, cap, k, c)

Passes(E, cap, k, n) == {d \in Slots(n) : Tombstone(E, Probe(k, cap, d))}
FirstPassed(E, cap, k, n) ==
  CHOOSE d \in Passes(E, cap, k, n) : \A c \in Passes(E, cap, k, n) : d <= c

find_entry(E, cap, k) ==
  LET last == Steps(E, cap, k)
  IN  IF E[Probe(k, cap, last)].key = k \/ Passes(E, cap, k, last) = {}
        THEN Probe(k, cap, last)
        ELSE Probe(k, cap, FirstPassed(E, cap, k, last))

\* Mutant: the key and the value land in the entry in the wrong order.
WriteSwapped(E, cap, k, v) ==
  [E EXCEPT ![find_entry(E, cap, k)] = [key |-> v, value |-> k, empty |-> FALSE]]

\* The caller's three assignments to the entry it found.
Write(E, cap, k, v) ==
  [E EXCEPT ![find_entry(E, cap, k)] = [key |-> k, value |-> v, empty |-> FALSE]]

-----------------------------------------------------------------------------
(* The calls *)

string_table_get(k) ==
  /\ pc = "ready"
  /\ length > 0 => Terminates(entries, capacity, k)
  /\ result' = IF \/ length = 0
                  \/ entries[find_entry(entries, capacity, k)].key = Null
                 THEN Absent
                 ELSE entries[find_entry(entries, capacity, k)].value
  /\ UNCHANGED <<table, growth>>

\* Mutants: a table may fill up, or passes its load by one.
CrowdedWhenFull == length + 1 > capacity
CrowdedLate == capacity = 0 \/ 4 * length > 3 * capacity

\* length + 1 > capacity * LOAD_CAPACITY_FACTOR
Crowded == 4 * (length + 1) > 3 * capacity
NewCapacity == IF capacity < MinCapacity THEN MinCapacity ELSE capacity * 2

\* Mutant: the answer is computed after the key was written.
StoreThenAsk(E, cap, len, k, v) ==
  /\ Terminates(E, cap, k)
  /\ entries' = Write(E, cap, k, v)
  /\ capacity' = cap
  /\ length' = IF E[find_entry(E, cap, k)].key = Null THEN len + 1 ELSE len
  /\ result' = FALSE

\* The end of string_table_set, on the array E of cap slots that holds len
\* keys.
Store(E, cap, len, k, v) ==
  LET is_new_entry == E[find_entry(E, cap, k)].key = Null
  IN  /\ Terminates(E, cap, k)
      /\ entries' = Write(E, cap, k, v)
      /\ capacity' = cap
      /\ length' = IF is_new_entry THEN len + 1 ELSE len
      /\ result' = is_new_entry

\* A set that does not grow the table.
string_table_set(k, v) ==
  /\ pc = "ready"
  /\ ~Crowded
  /\ Store(entries, capacity, length, k, v)
  /\ UNCHANGED growth

\* A set that has to grow the table enters string_table_resize, whose count
\* of the keys restarts at zero in the table itself.
BeginResize(k, v) ==
  /\ pc = "ready"
  /\ Crowded
  /\ NewCapacity <= MaxCapacity
  /\ pc' = "rehash"
  /\ fresh' = Blank(NewCapacity)
  /\ cursor' = 0
  /\ length' = 0
  /\ pending' = [key |-> k, value |-> v]
  /\ UNCHANGED <<entries, capacity, result>>

\* Mutant: an entry is copied to the slot it had.
RehashInPlace ==
  /\ pc = "rehash"
  /\ cursor < capacity
  /\ fresh' = [fresh EXCEPT ![cursor] = entries[cursor]]
  /\ length' = length + (IF entries[cursor].key = Null THEN 0 ELSE 1)
  /\ cursor' = cursor + 1
  /\ UNCHANGED <<entries, capacity, pc, pending, result>>

\* One round of the loop over the old entries.
Rehash ==
  /\ pc = "rehash"
  /\ cursor < capacity
  /\ LET e == entries[cursor]
     IN  IF e.key = Null
           THEN UNCHANGED <<fresh, length>>
           ELSE /\ Terminates(fresh, NewCapacity, e.key)
                /\ fresh' = Write(fresh, NewCapacity, e.key, e.value)
                /\ length' = length + 1
  /\ cursor' = cursor + 1
  /\ UNCHANGED <<entries, capacity, pc, pending, result>>

\* The loop is done: the arrays are swapped and the set that asked for the
\* growth stores its key.
EndResize ==
  /\ pc = "rehash"
  /\ cursor >= capacity
  /\ Store(fresh, NewCapacity, length, pending.key, pending.value)
  /\ pc' = "ready"
  /\ fresh' = NoArray
  /\ cursor' = 0
  /\ pending' = NoCall

string_table_destroy ==
  /\ pc = "ready"
  /\ entries' = NoArray
  /\ capacity' = 0
  /\ length' = 0
  /\ result' = Absent
  /\ UNCHANGED growth

-----------------------------------------------------------------------------
(* The calls the compiler makes; string_table_remove it never calls.       *)

Next ==
  \/ \E k \in Args : string_table_get(k)
  \/ \E k \in Args, v \in Values : string_table_set(k, v)
  \/ \E k \in Args, v \in Values : BeginResize(k, v)
  \/ Rehash
  \/ EndResize
  \/ string_table_destroy

Spec == Init /\ [][Next]_vars

-----------------------------------------------------------------------------
(* Properties *)

TypeOK ==
  /\ capacity \in Nat
  /\ length \in Nat
  /\ entries \in [Slots(capacity) -> Entry]
  /\ pc \in {"ready", "rehash"}
  /\ fresh \in [Slots(IF pc = "rehash" THEN NewCapacity ELSE 0) -> Entry]
  /\ cursor \in 0 .. capacity
  /\ pending \in [key : Args \cup {Null}, value : Values \cup {Absent}]
  /\ pc = "rehash" => pending.key \in Args /\ pending.value \in Values
  /\ result \in Values \cup {Absent} \cup BOOLEAN

\* The slots that are not empty: they hold a key or a tombstone.
Used(E) == {i \in DOMAIN E : ~E[i].empty}
Keyed(E) == {i \in DOMAIN E : E[i].key # Null}

\* The loop of find_entry has no bound of its own: it ends because there is
\* always an empty slot, in the table and in the array a resize is filling.
FindTerminates ==
  /\ capacity > 0 => \A k \in Keys \cup {Null} : Terminates(entries, capacity, k)
  /\ pc = "rehash" =>
       \A k \in Keys \cup {Null} : Terminates(fresh, NewCapacity, k)

\* A key is where the search for it ends, whatever collided with it, wrapped
\* around, or moved when the table grew; so no key is stored twice.
EveryKeyFound ==
  /\ \A i \in Keyed(entries) : find_entry(entries, capacity, entries[i].key) = i
  /\ \A i \in Keyed(fresh) : find_entry(fresh, NewCapacity, fresh[i].key) = i

\* The load never understates the slots in use and stays at or below 3/4, so a
\* table never fills up, whatever was bound to the null key.
LoadBounded ==
  /\ pc = "ready" => Cardinality(Used(entries)) <= length /\ 4 * length <= 3 * capacity
  /\ pc = "rehash" => Cardinality(Used(fresh)) <= length /\ length <= cursor

\* The value stored under key k.
Binding(E, k) ==
  IF \E i \in DOMAIN E : E[i].key = k
    THEN E[CHOOSE i \in DOMAIN E : E[i].key = k].value
    ELSE Absent

Map == INSTANCE SymbolMap WITH map <- [k \in Keys |-> Binding(entries, k)]

\* The table is a map: a set binds its key and changes no other binding, even
\* when it grows the table; a get answers the last value set; the answer of a
\* set is whether the key was new, which is how sema_register sees that a name
\* is defined twice.
ImplementsMap == Map!Spec
=============================================================================
