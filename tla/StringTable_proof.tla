-------------------------- MODULE StringTable_proof --------------------------
(***************************************************************************)
(* For every set of keys, every hash function and every capacity: a search *)
(* of the table ends, finds every stored key, and the table implements a   *)
(* map.                                                                    *)
(***************************************************************************)
EXTENDS StringTable, TLAPS, FiniteSetTheorems, WellFoundedInduction

-----------------------------------------------------------------------------
(* The search *)

\* Every set of naturals that is not empty has a least element.
LEMMA LeastExists ==
  ASSUME NEW S, S \subseteq Nat, S # {}
  PROVE  \E x \in S : \A y \in S : x <= y
<1> DEFINE R == {ss \in Nat \X Nat : ss[1] < ss[2]}
<1>1. IsWellFoundedOn(R, Nat)
  BY NatLessThanWellFounded DEF OpToRel
<1>2. PICK x \in S : \A y \in S : ~(<<y, x>> \in R)
  BY <1>1, WFMin
<1>3. \A y \in S : ~(y < x)
  BY <1>2
<1> QED
  BY <1>3

\* The probe sequence of a key stays inside the array.
LEMMA ProbeInRange ==
  ASSUME NEW cap \in Nat \ {0}, NEW k \in Keys \cup {Null}, NEW d \in Slots(cap)
  PROVE  Probe(k, cap, d) \in Slots(cap)
BY TableAssumption DEF Probe, Slots

\* The probe sequence of a key reaches every slot of the array.
LEMMA ProbeReaches ==
  ASSUME NEW cap \in Nat \ {0}, NEW k \in Keys \cup {Null}, NEW i \in Slots(cap)
  PROVE  \E d \in Slots(cap) : Probe(k, cap, d) = i
<1> DEFINE home == Hash[k] % cap
<1>1. home \in Slots(cap)
  BY TableAssumption DEF Slots
<1>2. CASE i >= home
  <2>1. i - home \in Slots(cap) /\ home + (i - home) < cap
    BY <1>1, <1>2 DEF Slots
  <2>2. Probe(k, cap, i - home) = i
    BY <1>1, <2>1 DEF Probe, Slots
  <2> QED
    BY <2>1, <2>2
<1>3. CASE i < home
  <2>1. i - home + cap \in Slots(cap) /\ ~(home + (i - home + cap) < cap)
    BY <1>1, <1>3 DEF Slots
  <2>2. Probe(k, cap, i - home + cap) = i
    BY <1>1, <2>1 DEF Probe, Slots
  <2> QED
    BY <2>1, <2>2
<1> QED
  BY <1>1, <1>2, <1>3 DEF Slots
-----------------------------------------------------------------------------
(* Arrays a search works on *)

\* Every key is stored once, in a used slot, with a value; and the probe
\* sequence that leads from its home to it passes over used slots only.
Stored(E, cap) == \A i \in Slots(cap) :
  E[i].key # Null => ~E[i].empty /\ E[i].value \in Values
Unique(E, cap) == \A i, j \in Slots(cap) :
  E[i].key # Null /\ E[i].key = E[j].key => i = j
UsedUpTo(E, cap, k, d) == \A c \in Slots(d) : ~E[Probe(k, cap, c)].empty
Probed(E, cap) == \A i \in Slots(cap) :
  E[i].key # Null =>
    \E d \in Slots(cap) : Probe(E[i].key, cap, d) = i /\ UsedUpTo(E, cap, E[i].key, d)

Good(E, cap) ==
  /\ E \in [Slots(cap) -> Entry]
  /\ Stored(E, cap)
  /\ Unique(E, cap)
  /\ Probed(E, cap)

HasRoom(E, cap) == \E j \in Slots(cap) : E[j].key = Null /\ E[j].empty

\* An array with fewer used slots than slots has room.
LEMMA RoomByCount ==
  ASSUME NEW cap \in Nat \ {0}, NEW E, Good(E, cap), Cardinality(Used(E)) < cap
  PROVE  HasRoom(E, cap)
<1> SUFFICES ASSUME ~HasRoom(E, cap) PROVE FALSE
  OBVIOUS
<1>1. DOMAIN E = 0 .. cap - 1
  BY DEF Good, Slots
<1>2. \A i \in 0 .. cap - 1 : E[i].empty \in BOOLEAN
  BY DEF Good, Slots, Entry
<1>3. Used(E) = 0 .. cap - 1
  BY <1>1, <1>2 DEF HasRoom, Good, Stored, Slots, Used
<1>4. Cardinality(0 .. cap - 1) = cap
  BY FS_Interval
<1> QED
  BY <1>3, <1>4

\* In an array with room every search ends.
LEMMA RoomTerminates ==
  ASSUME NEW cap \in Nat \ {0}, NEW E, HasRoom(E, cap), NEW k \in Keys \cup {Null}
  PROVE  Terminates(E, cap, k)
BY ProbeReaches DEF HasRoom, Terminates, Stops

\* The search takes the least number of steps that ends it.
LEMMA StepsLeast ==
  ASSUME NEW cap \in Nat \ {0}, NEW E, NEW k, Terminates(E, cap, k)
  PROVE  /\ Steps(E, cap, k) \in Slots(cap)
         /\ Stops(E, cap, k, Steps(E, cap, k))
         /\ \A c \in Slots(Steps(E, cap, k)) : ~Stops(E, cap, k, c)
<1> DEFINE S == {d \in Slots(cap) : Stops(E, cap, k, d)}
<1>1. S \subseteq Nat /\ S # {}
  BY DEF Terminates, Slots
<1> HIDE DEF S
<1>2. PICK d \in S : \A y \in S : d <= y
  BY <1>1, LeastExists
<1>3. d \in Slots(cap) /\ Stops(E, cap, k, d) /\ \A c \in Slots(d) : ~Stops(E, cap, k, c)
  <2>1. d \in Slots(cap) /\ Stops(E, cap, k, d)
    BY <1>2 DEF S
  <2>2. ASSUME NEW c \in Slots(d), Stops(E, cap, k, c) PROVE FALSE
    <3>1. c \in Slots(cap) /\ c < d
      BY <2>1 DEF Slots
    <3>2. c \in S
      BY <3>1, <2>2 DEF S
    <3> QED
      BY <3>1, <3>2, <1>2, <2>1 DEF Slots
  <2> QED
    BY <2>1, <2>2
<1> QED
  BY <1>3 DEF Steps

\* The first tombstone passed, when one is passed.
LEMMA FirstPassedLeast ==
  ASSUME NEW cap, NEW E, NEW k, NEW n \in Nat, Passes(E, cap, k, n) # {}
  PROVE  FirstPassed(E, cap, k, n) \in Passes(E, cap, k, n)
<1>1. Passes(E, cap, k, n) \subseteq Nat
  BY DEF Passes, Slots
<1>2. \E d \in Passes(E, cap, k, n) : \A c \in Passes(E, cap, k, n) : d <= c
  BY <1>1, LeastExists
<1> QED
  BY <1>2 DEF FirstPassed

\* Where the search of a good array with room ends: at a slot that holds the
\* key, or at one without a key when the key is nowhere; used slots lead there.
LEMMA FindSlot ==
  ASSUME NEW cap \in Nat \ {0}, NEW E, Good(E, cap), HasRoom(E, cap),
         NEW k \in Keys \cup {Null}
  PROVE  /\ find_entry(E, cap, k) \in Slots(cap)
         /\ E[find_entry(E, cap, k)].key \in {k, Null}
         /\ \E d \in Slots(cap) : /\ Probe(k, cap, d) = find_entry(E, cap, k)
                                  /\ UsedUpTo(E, cap, k, d)
         /\ k \in Keys /\ (\E i \in Slots(cap) : E[i].key = k) =>
              E[find_entry(E, cap, k)].key = k
<1> DEFINE last == Steps(E, cap, k)
           s == find_entry(E, cap, k)
<1>1. /\ last \in Slots(cap)
      /\ Stops(E, cap, k, last)
      /\ \A c \in Slots(last) : ~Stops(E, cap, k, c)
  BY RoomTerminates, StepsLeast
<1>2. Slots(last) \subseteq Slots(cap) /\ last \in Nat
  BY <1>1 DEF Slots
<1>3. ASSUME NEW c \in Slots(last)
      PROVE  E[Probe(k, cap, c)].key # k /\ ~E[Probe(k, cap, c)].empty
  <2>1. ~Stops(E, cap, k, c)
    BY <1>1
  <2>2. Probe(k, cap, c) \in Slots(cap)
    BY <1>2, ProbeInRange
  <2> QED
    BY <2>1, <2>2 DEF Stops, Good, Stored
<1>4. CASE E[Probe(k, cap, last)].key = k \/ Passes(E, cap, k, last) = {}
  <2>1. s = Probe(k, cap, last)
    BY <1>4 DEF find_entry
  <2>2. s \in Slots(cap) /\ E[s].key \in {k, Null}
    BY <2>1, <1>1, ProbeInRange DEF Stops
  <2>3. UsedUpTo(E, cap, k, last)
    BY <1>3 DEF UsedUpTo
  <2>4. ASSUME k \in Keys, NEW i \in Slots(cap), E[i].key = k
        PROVE  E[s].key = k
    <3>1. k # Null
      BY <2>4, TableAssumption
    <3>2. PICK d \in Slots(cap) : Probe(k, cap, d) = i /\ UsedUpTo(E, cap, k, d)
      BY <2>4, <3>1 DEF Good, Probed
    <3>3. ~(last < d) \/ ~E[Probe(k, cap, last)].empty
      BY <3>2, <1>1 DEF UsedUpTo, Slots
    <3>4. ~(d < last)
      BY <3>2, <2>4, <1>3, <1>1 DEF Slots
    <3>5. last = d \/ last < d
      BY <3>4, <1>1, <3>2 DEF Slots
    <3> QED
      BY <3>3, <3>5, <3>2, <2>4, <2>1, <1>1 DEF Stops
  <2> QED
    BY <2>1, <2>2, <2>3, <2>4, <1>1
<1>5. CASE E[Probe(k, cap, last)].key # k /\ Passes(E, cap, k, last) # {}
  <2> DEFINE t == FirstPassed(E, cap, k, last)
  <2>1. s = Probe(k, cap, t)
    BY <1>5 DEF find_entry
  <2>2. t \in Slots(last) /\ Tombstone(E, Probe(k, cap, t))
    BY <1>5, <1>2, FirstPassedLeast DEF Passes
  <2>3. s \in Slots(cap) /\ E[s].key = Null
    BY <2>1, <2>2, <1>2, ProbeInRange DEF Tombstone
  <2>4. UsedUpTo(E, cap, k, t)
    BY <1>3, <2>2, <1>2 DEF UsedUpTo, Slots
  <2>5. ASSUME k \in Keys, NEW i \in Slots(cap), E[i].key = k
        PROVE  FALSE
    <3>1. k # Null
      BY <2>5, TableAssumption
    <3>2. PICK d \in Slots(cap) : Probe(k, cap, d) = i /\ UsedUpTo(E, cap, k, d)
      BY <2>5, <3>1 DEF Good, Probed
    <3>3. ~(d < last) /\ d # last
      BY <3>2, <2>5, <1>3, <1>1, <1>5 DEF Slots
    <3>4. ~E[Probe(k, cap, last)].empty
      BY <3>3, <3>2, <1>1 DEF UsedUpTo, Slots
    <3> QED
      BY <3>4, <1>1, <1>5 DEF Stops
  <2> QED
    BY <2>1, <2>2, <2>3, <2>4, <2>5, <1>2
<1> QED
  BY <1>4, <1>5

\* A stored key is found in its own slot.
LEMMA FindStored ==
  ASSUME NEW cap \in Nat \ {0}, NEW E, Good(E, cap), HasRoom(E, cap),
         NEW i \in Slots(cap), E[i].key # Null
  PROVE  find_entry(E, cap, E[i].key) = i
<1>1. E[i].key \in Keys
  BY DEF Good, Entry
<1>2. /\ find_entry(E, cap, E[i].key) \in Slots(cap)
      /\ E[find_entry(E, cap, E[i].key)].key = E[i].key
  BY <1>1, FindSlot
<1> QED
  BY <1>2 DEF Good, Unique

\* Writing a key where the search for it ends keeps the array good, and
\* changes no slot but that one.
LEMMA WriteGood ==
  ASSUME NEW cap \in Nat \ {0}, NEW E, Good(E, cap), HasRoom(E, cap),
         NEW k \in Keys \cup {Null}, NEW v \in Values
  PROVE  LET s == find_entry(E, cap, k)
             W == Write(E, cap, k, v)
         IN  /\ Good(W, cap)
             /\ s \in Slots(cap)
             /\ W[s] = [key |-> k, value |-> v, empty |-> FALSE]
             /\ \A i \in Slots(cap) : i # s => W[i] = E[i]
             /\ E[s].key \in {k, Null}
<1> DEFINE s == find_entry(E, cap, k)
           W == Write(E, cap, k, v)
<1>1. /\ s \in Slots(cap)
      /\ E[s].key \in {k, Null}
      /\ \E d \in Slots(cap) : Probe(k, cap, d) = s /\ UsedUpTo(E, cap, k, d)
      /\ k \in Keys /\ (\E i \in Slots(cap) : E[i].key = k) => E[s].key = k
  BY FindSlot
<1>2. [key |-> k, value |-> v, empty |-> FALSE] \in Entry
  BY DEF Entry
<1>3. /\ W \in [Slots(cap) -> Entry]
      /\ W[s] = [key |-> k, value |-> v, empty |-> FALSE]
      /\ \A i \in Slots(cap) : i # s => W[i] = E[i]
  BY <1>1, <1>2 DEF Good, Write
<1> HIDE DEF W, s
<1>4. \A i \in Slots(cap) : ~E[i].empty => ~W[i].empty
  BY <1>3
<1>5. Stored(W, cap)
  BY <1>3 DEF Good, Stored
<1>6. Unique(W, cap)
  <2> SUFFICES ASSUME NEW i \in Slots(cap), NEW j \in Slots(cap),
                      W[i].key # Null, W[i].key = W[j].key, i # j
               PROVE  FALSE
    BY DEF Unique
  <2>1. CASE i # s /\ j # s
    BY <2>1, <1>3 DEF Good, Unique
  <2>2. CASE i = s
    <3>1. E[j].key = k /\ k # Null
      BY <2>2, <1>3
    <3>2. E[s].key = k
      BY <3>1, <1>1
    <3> QED
      BY <3>1, <3>2, <2>2, <1>1 DEF Good, Unique
  <2>3. CASE j = s
    <3>1. E[i].key = k /\ k # Null
      BY <2>3, <1>3
    <3>2. E[s].key = k
      BY <3>1, <1>1
    <3> QED
      BY <3>1, <3>2, <2>3, <1>1 DEF Good, Unique
  <2> QED
    BY <2>1, <2>2, <2>3
<1>7. Probed(W, cap)
  <2> SUFFICES ASSUME NEW i \in Slots(cap), W[i].key # Null
               PROVE  \E d \in Slots(cap) : /\ Probe(W[i].key, cap, d) = i
                                            /\ UsedUpTo(W, cap, W[i].key, d)
    BY DEF Probed
  <2>1. PICK d \in Slots(cap) :
          Probe(W[i].key, cap, d) = i /\ UsedUpTo(E, cap, W[i].key, d)
    <3>1. CASE i = s
      BY <3>1, <1>1, <1>3
    <3>2. CASE i # s
      BY <3>2, <1>3 DEF Good, Probed
    <3> QED
      BY <3>1, <3>2
  <2>2. UsedUpTo(W, cap, W[i].key, d)
    <3> SUFFICES ASSUME NEW c \in Slots(d)
                 PROVE  ~W[Probe(W[i].key, cap, c)].empty
      BY DEF UsedUpTo
    <3>1. c \in Slots(cap)
      BY DEF Slots
    <3>2. W[i].key \in Keys \cup {Null}
      BY <1>3 DEF Entry
    <3>3. Probe(W[i].key, cap, c) \in Slots(cap)
      BY <3>1, <3>2, ProbeInRange
    <3> QED
      BY <3>3, <2>1, <1>4 DEF UsedUpTo
  <2> QED
    BY <2>1, <2>2
<1> QED
  BY <1>1, <1>3, <1>5, <1>6, <1>7 DEF Good, W, s

\* Writing uses at most one more slot, and none more when the slot held a key.
LEMMA WriteUses ==
  ASSUME NEW cap \in Nat \ {0}, NEW E, Good(E, cap), HasRoom(E, cap),
         NEW k \in Keys \cup {Null}, NEW v \in Values
  PROVE  LET W == Write(E, cap, k, v)
             is_new == E[find_entry(E, cap, k)].key = Null
         IN  /\ Cardinality(Used(E)) \in Nat
             /\ Cardinality(Used(W)) \in Nat
             /\ Cardinality(Used(W)) <=
                  IF is_new THEN Cardinality(Used(E)) + 1 ELSE Cardinality(Used(E))
<1> DEFINE s == find_entry(E, cap, k)
           W == Write(E, cap, k, v)
<1>1. /\ Good(W, cap)
      /\ s \in Slots(cap)
      /\ W[s] = [key |-> k, value |-> v, empty |-> FALSE]
      /\ \A i \in Slots(cap) : i # s => W[i] = E[i]
      /\ E[s].key \in {k, Null}
  BY WriteGood
<1>2. DOMAIN E = Slots(cap) /\ DOMAIN W = Slots(cap)
  BY <1>1 DEF Good
<1> HIDE DEF W, s
<1>3. Used(W) = Used(E) \cup {s}
  BY <1>1, <1>2 DEF Used
<1>4. IsFiniteSet(Used(E))
  <2>1. IsFiniteSet(Slots(cap))
    BY FS_Interval DEF Slots
  <2> QED
    BY <2>1, <1>2, FS_Subset DEF Used
<1>5. E[s].key # Null => s \in Used(E)
  BY <1>1, <1>2 DEF Good, Stored, Used
<1>6. /\ Cardinality(Used(E)) \in Nat
      /\ Cardinality(Used(W)) =
           IF s \in Used(E) THEN Cardinality(Used(E)) ELSE Cardinality(Used(E)) + 1
  BY <1>3, <1>4, FS_AddElement, FS_CardinalityType
<1> QED
  BY <1>5, <1>6 DEF W, s

-----------------------------------------------------------------------------
(* The invariant *)

\* The array a resize fills holds the entries the loop has passed.
Moved == \A k \in Keys : \A v \in Values :
  (\E i \in Slots(NewCapacity) : fresh[i].key = k /\ fresh[i].value = v) <=>
  (\E j \in Slots(cursor) : entries[j].key = k /\ entries[j].value = v)

IInv ==
  /\ TypeOK
  /\ capacity = 0 \/ capacity >= MinCapacity
  /\ Good(entries, capacity)
  /\ capacity > 0 => Cardinality(Used(entries)) < capacity
  /\ LoadBounded
  /\ pc = "rehash" => Good(fresh, NewCapacity) /\ Moved
  /\ pc = "ready" => cursor = 0

\* The array without slots is good and uses no slot.
LEMMA BlankGood ==
  ASSUME NEW cap \in Nat
  PROVE  Good(Blank(cap), cap) /\ Used(Blank(cap)) = {} /\ Cardinality({}) = 0
<1>1. Blank(cap) \in [Slots(cap) -> Entry]
  BY DEF Blank, Nothing, Entry
<1>2. \A i \in Slots(cap) : Blank(cap)[i] = Nothing
  BY DEF Blank
<1>3. DOMAIN Blank(cap) = Slots(cap)
  BY DEF Blank
<1> QED
  BY <1>1, <1>2, <1>3, FS_EmptySet
     DEF Good, Stored, Unique, Probed, Used, Nothing

\* A resize always allocates more slots than there were, and at least two.
LEMMA GrowthSize ==
  ASSUME capacity \in Nat, capacity = 0 \/ capacity >= MinCapacity
  PROVE  /\ NewCapacity \in Nat \ {0, 1}
         /\ capacity < NewCapacity
         /\ NewCapacity >= MinCapacity
         /\ NewCapacity = 2 * capacity \/ capacity = 0
         /\ capacity > 0 => capacity >= 2
BY TableAssumption DEF NewCapacity

\* In a reachable state the table has room as soon as it has an array, and the
\* array a resize fills has room too.
LEMMA InvRoom ==
  ASSUME IInv
  PROVE  /\ capacity > 0 => HasRoom(entries, capacity)
         /\ length > 0 /\ pc = "ready" => capacity > 0
         /\ pc = "rehash" => HasRoom(fresh, NewCapacity)
<1>1. /\ capacity \in Nat /\ length \in Nat /\ cursor \in 0 .. capacity
      /\ capacity = 0 \/ capacity >= MinCapacity
  BY DEF IInv, TypeOK
<1>2. capacity > 0 => HasRoom(entries, capacity)
  BY <1>1, RoomByCount DEF IInv
<1>3. length > 0 /\ pc = "ready" => capacity > 0
  BY <1>1 DEF IInv, LoadBounded
<1>4. ASSUME pc = "rehash" PROVE HasRoom(fresh, NewCapacity)
  <2>1. Cardinality(Used(fresh)) <= length /\ length <= cursor
    BY <1>4 DEF IInv, LoadBounded
  <2>2. NewCapacity \in Nat \ {0} /\ capacity < NewCapacity
    BY <1>1, GrowthSize
  <2>3. Good(fresh, NewCapacity)
    BY <1>4 DEF IInv
  <2>4. Cardinality(Used(fresh)) \in Nat
    <3>1. DOMAIN fresh = 0 .. NewCapacity - 1
      BY <2>3 DEF Good, Slots
    <3>2. Used(fresh) \subseteq 0 .. NewCapacity - 1
      BY <3>1 DEF Used
    <3>3. IsFiniteSet(0 .. NewCapacity - 1)
      BY <2>2, FS_Interval
    <3>4. IsFiniteSet(Used(fresh))
      BY <3>2, <3>3, FS_Subset
    <3> QED
      BY <3>4, FS_CardinalityType
  <2> QED
    BY <1>1, <2>1, <2>2, <2>3, <2>4, RoomByCount
<1> QED
  BY <1>2, <1>3, <1>4

LEMMA InitInv == Init => IInv
<1> SUFFICES ASSUME Init PROVE IInv
  OBVIOUS
<1>1. Good(NoArray, 0) /\ Cardinality(Used(NoArray)) = 0
  BY BlankGood DEF NoArray
<1>2. TypeOK
  BY <1>1, TableAssumption DEF Init, TypeOK, NoCall, Good
<1> QED
  BY <1>1, <1>2 DEF Init, IInv, LoadBounded

\* What Store leaves behind, on a good array with room below the load bound.
LEMMA StoreInv ==
  ASSUME NEW E, NEW cap \in Nat \ {0}, NEW len \in Nat, NEW k \in Args, NEW v \in Values,
         Good(E, cap), HasRoom(E, cap), cap >= MinCapacity,
         Cardinality(Used(E)) <= len, 4 * (len + 1) <= 3 * cap,
         Store(E, cap, len, k, v)
  PROVE  /\ capacity' = cap
         /\ length' \in Nat
         /\ entries' = Write(E, cap, k, v)
         /\ Good(entries', cap)
         /\ Cardinality(Used(entries')) < cap
         /\ Cardinality(Used(entries')) <= length'
         /\ 4 * length' <= 3 * cap
         /\ result' \in BOOLEAN
<1>1. k \in Keys \cup {Null}
  BY TableAssumption
<1>2. Good(Write(E, cap, k, v), cap)
  BY <1>1, WriteGood
<1> DEFINE is_new == E[find_entry(E, cap, k)].key = Null
           W == Write(E, cap, k, v)
<1>3. /\ Cardinality(Used(E)) \in Nat
      /\ Cardinality(Used(W)) \in Nat
      /\ Cardinality(Used(W)) <=
           IF is_new THEN Cardinality(Used(E)) + 1 ELSE Cardinality(Used(E))
  BY <1>1, WriteUses
<1>4. /\ entries' = W
      /\ capacity' = cap
      /\ length' = IF is_new THEN len + 1 ELSE len
      /\ result' = is_new
  BY DEF Store
<1> HIDE DEF W, is_new
<1>5. is_new \in BOOLEAN
  BY DEF is_new
<1>6. length' \in Nat /\ Cardinality(Used(W)) <= length' /\ 4 * length' <= 3 * cap
  BY <1>3, <1>4
<1>7. Cardinality(Used(W)) < cap
  BY <1>3, <1>6
<1> QED
  BY <1>2, <1>4, <1>5, <1>6, <1>7 DEF W

LEMMA SetInv ==
  ASSUME IInv, NEW k \in Args, NEW v \in Values, string_table_set(k, v)
  PROVE  IInv'
<1>1. /\ pc = "ready" /\ pc' = "ready" /\ fresh' = fresh /\ cursor' = cursor
      /\ pending' = pending
      /\ Store(entries, capacity, length, k, v)
  BY DEF string_table_set, growth
<1>2. /\ capacity \in Nat /\ length \in Nat /\ cursor \in 0 .. capacity
      /\ 4 * (length + 1) <= 3 * capacity
  BY DEF IInv, TypeOK, string_table_set, Crowded
<1>3. capacity \in Nat \ {0} /\ capacity >= MinCapacity /\ Good(entries, capacity)
  BY <1>2 DEF IInv
<1>4. HasRoom(entries, capacity)
  BY <1>2, InvRoom
<1>5. Cardinality(Used(entries)) <= length
  BY <1>1 DEF IInv, LoadBounded
<1>6. /\ capacity' = capacity
      /\ length' \in Nat
      /\ Good(entries', capacity)
      /\ Cardinality(Used(entries')) < capacity
      /\ Cardinality(Used(entries')) <= length'
      /\ 4 * length' <= 3 * capacity
      /\ result' \in BOOLEAN
  BY <1>1, <1>2, <1>3, <1>4, <1>5, StoreInv
<1>7. TypeOK'
  BY <1>1, <1>6 DEF IInv, TypeOK, Good, NewCapacity
<1> QED
  BY <1>1, <1>3, <1>6, <1>7 DEF IInv, LoadBounded

LEMMA BeginResizeInv ==
  ASSUME IInv, NEW k \in Args, NEW v \in Values, BeginResize(k, v)
  PROVE  IInv'
<1>1. /\ pc' = "rehash" /\ cursor' = 0 /\ length' = 0
      /\ fresh' = Blank(NewCapacity)
      /\ pending' = [key |-> k, value |-> v]
      /\ entries' = entries /\ capacity' = capacity /\ result' = result
  BY DEF BeginResize
<1>2. NewCapacity' = NewCapacity /\ NewCapacity \in Nat
  BY <1>1, GrowthSize DEF NewCapacity, IInv, TypeOK
<1>3. Good(fresh', NewCapacity) /\ Cardinality(Used(fresh')) = 0
  BY <1>1, <1>2, BlankGood
<1>4. TypeOK'
  BY <1>1, <1>2, <1>3, TableAssumption DEF IInv, TypeOK, Good
<1>5. Moved'
  <2>1. \A i \in Slots(NewCapacity) : fresh'[i].key = Null
    BY <1>1 DEF Blank, Nothing
  <2>2. \A k_1 \in Keys : k_1 # Null
    BY TableAssumption
  <2>3. Slots(cursor') = {}
    BY <1>1 DEF Slots
  <2> QED
    BY <2>1, <2>2, <2>3, <1>2 DEF Moved
<1> QED
  BY <1>1, <1>2, <1>3, <1>4, <1>5 DEF IInv, LoadBounded

LEMMA RehashInv ==
  ASSUME IInv, Rehash
  PROVE  IInv'
<1> DEFINE e == entries[cursor]
<1>1. /\ pc = "rehash" /\ cursor < capacity
      /\ cursor' = cursor + 1
      /\ entries' = entries /\ capacity' = capacity /\ pc' = pc
      /\ pending' = pending /\ result' = result
  BY DEF Rehash
<1>2. /\ NewCapacity' = NewCapacity
      /\ NewCapacity \in Nat \ {0}
      /\ capacity \in Nat /\ length \in Nat /\ cursor \in 0 .. capacity
  BY <1>1, GrowthSize DEF NewCapacity, IInv, TypeOK
<1>3. cursor \in Slots(capacity) /\ cursor' \in 0 .. capacity
  BY <1>1, <1>2 DEF Slots
<1>4. Good(fresh, NewCapacity) /\ Moved /\ Good(entries, capacity)
  BY <1>1 DEF IInv
<1>5. Cardinality(Used(fresh)) <= length /\ length <= cursor
  BY <1>1 DEF IInv, LoadBounded
<1>6. \A j : j \in Slots(cursor') <=> (j \in Slots(cursor) \/ j = cursor)
  BY <1>1, <1>2 DEF Slots
<1>7. CASE e.key = Null
  <2>1. fresh' = fresh /\ length' = length
    BY <1>7 DEF Rehash
  <2>2. Moved'
    <3>1. \A k \in Keys : k # Null
      BY TableAssumption
    <3> QED
      BY <1>1, <1>2, <1>4, <1>6, <1>7, <2>1, <3>1 DEF Moved
  <2>3. TypeOK'
    BY <1>1, <1>2, <1>3, <2>1 DEF IInv, TypeOK
  <2>4. LoadBounded'
    BY <1>1, <1>2, <1>5, <2>1 DEF LoadBounded
  <2> QED
    BY <1>1, <1>2, <1>4, <2>1, <2>2, <2>3, <2>4 DEF IInv
<1>8. CASE e.key # Null
  <2>1. fresh' = Write(fresh, NewCapacity, e.key, e.value) /\ length' = length + 1
    BY <1>8 DEF Rehash
  <2>2. e.key \in Keys /\ e.value \in Values
    BY <1>3, <1>4, <1>8 DEF Good, Stored, Entry
  <2>3. HasRoom(fresh, NewCapacity)
    BY <1>1, InvRoom
  <2> DEFINE s == find_entry(fresh, NewCapacity, e.key)
  <2>4. /\ Good(fresh', NewCapacity)
        /\ s \in Slots(NewCapacity)
        /\ fresh'[s] = [key |-> e.key, value |-> e.value, empty |-> FALSE]
        /\ \A i \in Slots(NewCapacity) : i # s => fresh'[i] = fresh[i]
        /\ fresh[s].key \in {e.key, Null}
    BY <1>2, <1>4, <2>1, <2>2, <2>3, WriteGood
  <2>5. /\ Cardinality(Used(fresh)) \in Nat
        /\ Cardinality(Used(fresh')) \in Nat
        /\ Cardinality(Used(fresh')) <= Cardinality(Used(fresh)) + 1
    BY <1>2, <1>4, <2>1, <2>2, <2>3, WriteUses
  <2> HIDE DEF s
  <2>6. LoadBounded'
    BY <1>1, <1>2, <1>5, <2>1, <2>5 DEF LoadBounded
  <2>7. TypeOK'
    BY <1>1, <1>2, <1>3, <2>1, <2>4 DEF IInv, TypeOK, Good
  <2>8. Moved'
    <3> SUFFICES ASSUME NEW k \in Keys, NEW v \in Values
                 PROVE  (\E i \in Slots(NewCapacity) :
                           fresh'[i].key = k /\ fresh'[i].value = v)
                        <=> (\E j \in Slots(cursor') :
                               entries[j].key = k /\ entries[j].value = v)
      BY <1>1, <1>2 DEF Moved
    <3>1. ASSUME NEW i \in Slots(NewCapacity), fresh'[i].key = k, fresh'[i].value = v
          PROVE  \E j \in Slots(cursor') : entries[j].key = k /\ entries[j].value = v
      <4>1. CASE i = s
        BY <4>1, <3>1, <2>4, <1>6
      <4>2. CASE i # s
        BY <4>2, <3>1, <2>4, <1>4, <1>6 DEF Moved
      <4> QED
        BY <4>1, <4>2
    <3>2. ASSUME NEW j \in Slots(cursor'), entries[j].key = k, entries[j].value = v
          PROVE  \E i \in Slots(NewCapacity) : fresh'[i].key = k /\ fresh'[i].value = v
      <4>1. CASE j = cursor
        BY <4>1, <3>2, <2>4
      <4>2. CASE j # cursor
        <5>1. j \in Slots(cursor)
          BY <4>2, <1>6
        <5>2. PICK i \in Slots(NewCapacity) : fresh[i].key = k /\ fresh[i].value = v
          BY <5>1, <3>2, <1>4 DEF Moved
        <5>3. i # s
          <6>1. ASSUME i = s PROVE FALSE
            <7>1. k # Null
              BY TableAssumption
            <7>2. entries[j].key = entries[cursor].key
              BY <6>1, <7>1, <5>2, <2>4, <3>2
            <7>3. j \in Slots(capacity)
              BY <5>1, <1>1, <1>2 DEF Slots
            <7> QED
              BY <7>1, <7>2, <7>3, <1>3, <1>4, <4>2, <3>2 DEF Good, Unique
          <6> QED
            BY <6>1
        <5> QED
          BY <5>2, <5>3, <2>4
      <4> QED
        BY <4>1, <4>2
    <3> QED
      BY <3>1, <3>2
  <2> QED
    BY <1>1, <1>2, <2>4, <2>6, <2>7, <2>8 DEF IInv
<1> QED
  BY <1>7, <1>8

\* The state in which a resize ends allows the pending key to be stored.
LEMMA ResizeReady ==
  ASSUME IInv, EndResize
  PROVE  /\ Good(fresh, NewCapacity) /\ HasRoom(fresh, NewCapacity)
         /\ NewCapacity \in Nat \ {0} /\ NewCapacity >= MinCapacity
         /\ length \in Nat /\ Cardinality(Used(fresh)) <= length
         /\ 4 * (length + 1) <= 3 * NewCapacity
         /\ pending.key \in Args /\ pending.value \in Values
         /\ cursor = capacity
<1>1. /\ pc = "rehash" /\ cursor >= capacity
  BY DEF EndResize
<1>2. /\ capacity \in Nat /\ length \in Nat /\ cursor \in 0 .. capacity
      /\ Cardinality(Used(fresh)) <= length /\ length <= cursor
  BY <1>1 DEF IInv, TypeOK, LoadBounded
<1>3. /\ NewCapacity \in Nat \ {0, 1} /\ NewCapacity >= MinCapacity
      /\ NewCapacity = 2 * capacity \/ capacity = 0
      /\ capacity > 0 => capacity >= 2
  BY <1>2, GrowthSize DEF IInv
<1>4. 4 * (length + 1) <= 3 * NewCapacity
  BY <1>2, <1>3
<1> QED
  BY <1>1, <1>2, <1>3, <1>4, InvRoom DEF IInv, TypeOK

LEMMA EndResizeInv ==
  ASSUME IInv, EndResize
  PROVE  IInv'
<1>1. /\ pc' = "ready" /\ fresh' = NoArray /\ cursor' = 0 /\ pending' = NoCall
      /\ Store(fresh, NewCapacity, length, pending.key, pending.value)
  BY DEF EndResize
<1>2. /\ capacity' = NewCapacity
      /\ length' \in Nat
      /\ Good(entries', NewCapacity)
      /\ Cardinality(Used(entries')) < NewCapacity
      /\ Cardinality(Used(entries')) <= length'
      /\ 4 * length' <= 3 * NewCapacity
      /\ result' \in BOOLEAN
  BY <1>1, ResizeReady, StoreInv
<1>3. fresh' \in [Slots(0) -> Entry]
  BY <1>1, BlankGood DEF NoArray, Good
<1>4. NewCapacity \in Nat \ {0} /\ NewCapacity >= MinCapacity
  BY ResizeReady
<1>5. TypeOK'
  BY <1>1, <1>2, <1>3, <1>4 DEF TypeOK, Good, NoCall
<1> QED
  BY <1>1, <1>2, <1>4, <1>5 DEF IInv, LoadBounded

LEMMA DestroyInv ==
  ASSUME IInv, string_table_destroy
  PROVE  IInv'
<1>1. /\ pc = "ready" /\ pc' = "ready" /\ entries' = NoArray /\ capacity' = 0 /\ length' = 0
      /\ result' = Absent /\ fresh' = fresh /\ pending' = pending /\ cursor' = cursor
  BY DEF string_table_destroy, growth
<1>2. Good(NoArray, 0) /\ Cardinality(Used(NoArray)) = 0
  BY BlankGood DEF NoArray
<1> QED
  BY <1>1, <1>2 DEF IInv, TypeOK, LoadBounded, Good

\* A get answers the value in the slot of the key, or null.
LEMMA GetAnswer ==
  ASSUME IInv, NEW k \in Args, string_table_get(k)
  PROVE  /\ \/ result' = Absent /\ \A i \in Slots(capacity) : k = Null \/ entries[i].key # k
            \/ \E i \in Slots(capacity) : /\ entries[i].key = k /\ k # Null
                                          /\ result' = entries[i].value
         /\ UNCHANGED <<table, growth>>
<1>1. /\ k \in Keys \cup {Null} /\ pc = "ready" /\ UNCHANGED <<table, growth>>
      /\ capacity \in Nat /\ length \in Nat
  BY TableAssumption DEF string_table_get, IInv, TypeOK
<1>2. CASE length = 0
  <2>1. Used(entries) = {}
    <3>1. Cardinality(Used(entries)) <= 0
      BY <1>1, <1>2 DEF IInv, LoadBounded
    <3>2. DOMAIN entries = 0 .. capacity - 1
      BY DEF IInv, Good, Slots
    <3>3. IsFiniteSet(0 .. capacity - 1)
      BY <1>1, FS_Interval
    <3>4. IsFiniteSet(Used(entries))
      BY <3>2, <3>3, FS_Subset DEF Used
    <3> QED
      BY <3>1, <3>4, FS_CardinalityType, FS_EmptySet
  <2>2. \A i \in Slots(capacity) : entries[i].key = Null
    BY <2>1 DEF IInv, Good, Stored, Used
  <2>3. result' = Absent
    BY <1>2 DEF string_table_get
  <2> QED
    BY <1>1, <2>2, <2>3
<1>3. CASE length # 0
  <2> DEFINE s == find_entry(entries, capacity, k)
  <2>1. capacity \in Nat \ {0} /\ HasRoom(entries, capacity) /\ Good(entries, capacity)
    BY <1>1, <1>3, InvRoom DEF IInv
  <2>2. /\ s \in Slots(capacity)
        /\ entries[s].key \in {k, Null}
        /\ k \in Keys /\ (\E i \in Slots(capacity) : entries[i].key = k) =>
             entries[s].key = k
    BY <1>1, <2>1, FindSlot
  <2>3. result' = IF entries[s].key = Null THEN Absent ELSE entries[s].value
    BY <1>3 DEF string_table_get
  <2> HIDE DEF s
  <2>4. CASE entries[s].key = Null
    BY <1>1, <2>2, <2>3, <2>4
  <2>5. CASE entries[s].key # Null
    BY <1>1, <2>2, <2>3, <2>5
  <2> QED
    BY <2>4, <2>5
<1> QED
  BY <1>2, <1>3

LEMMA GetInv ==
  ASSUME IInv, NEW k \in Args, string_table_get(k)
  PROVE  IInv'
<1>1. UNCHANGED <<table, growth>>
  BY DEF string_table_get
<1>2. result' \in Values \cup {Absent}
  BY GetAnswer DEF IInv, Good, Stored
<1>3. /\ entries' = entries /\ capacity' = capacity /\ length' = length
      /\ pc' = pc /\ fresh' = fresh /\ cursor' = cursor /\ pending' = pending
  BY <1>1 DEF table, growth
<1> QED
  BY <1>2, <1>3 DEF IInv, TypeOK, LoadBounded, Moved, NewCapacity

LEMMA NextInv == IInv /\ [Next]_vars => IInv'
<1> SUFFICES ASSUME IInv, [Next]_vars PROVE IInv'
  OBVIOUS
<1>1. ASSUME NEW k \in Args, string_table_get(k) PROVE IInv'
  BY <1>1, GetInv
<1>2. ASSUME NEW k \in Args, NEW v \in Values, string_table_set(k, v) PROVE IInv'
  BY <1>2, SetInv
<1>3. ASSUME NEW k \in Args, NEW v \in Values, BeginResize(k, v) PROVE IInv'
  BY <1>3, BeginResizeInv
<1>4. CASE Rehash
  BY <1>4, RehashInv
<1>5. CASE EndResize
  BY <1>5, EndResizeInv
<1>6. CASE string_table_destroy
  BY <1>6, DestroyInv
<1>7. CASE UNCHANGED vars
  BY <1>7 DEF vars, IInv, TypeOK, LoadBounded, Moved, NewCapacity
<1> QED
  BY <1>1, <1>2, <1>3, <1>4, <1>5, <1>6, <1>7 DEF Next

LEMMA Invariance == Spec => []IInv
BY InitInv, NextInv, PTL DEF Spec

-----------------------------------------------------------------------------
(* The theorems *)

\* The table has the shape its C declaration and its code give it: among the
\* rest, new_entries exists exactly inside a resize.
THEOREM TypeCorrect == Spec => []TypeOK
<1>1. IInv => TypeOK
  BY DEF IInv
<1> QED
  BY <1>1, Invariance, PTL

\* The unbounded loop of string_table_find_entry ends, for every key, in every
\* reachable table and in every array a resize is filling.
THEOREM SearchesEnd == Spec => []FindTerminates
<1>1. ASSUME IInv PROVE FindTerminates
  <2>1. capacity \in Nat /\ NewCapacity \in Nat \ {0}
    BY <1>1, GrowthSize DEF IInv, TypeOK
  <2>2. ASSUME capacity > 0, NEW k \in Keys \cup {Null}
        PROVE  Terminates(entries, capacity, k)
    <3>1. capacity \in Nat \ {0} /\ HasRoom(entries, capacity)
      BY <2>1, <2>2, <1>1, InvRoom
    <3> QED
      BY <3>1, RoomTerminates
  <2>3. ASSUME pc = "rehash", NEW k \in Keys \cup {Null}
        PROVE  Terminates(fresh, NewCapacity, k)
    <3>1. NewCapacity \in Nat \ {0} /\ HasRoom(fresh, NewCapacity)
      BY <2>1, <2>3, <1>1, InvRoom
    <3> QED
      BY <3>1, RoomTerminates
  <2> QED
    BY <2>2, <2>3 DEF FindTerminates
<1> QED
  BY <1>1, Invariance, PTL

\* The load the growth decision reads bounds the slots in use by 3/4 of the
\* array: the reason why a search always meets an empty slot.
THEOREM LoadStaysBounded == Spec => []LoadBounded
<1>1. IInv => LoadBounded
  BY DEF IInv
<1> QED
  BY <1>1, Invariance, PTL

\* The search for a stored key ends in its slot, whatever the hash function
\* makes collide, before, during and after a growth.
THEOREM KeysFound == Spec => []EveryKeyFound
<1>1. ASSUME IInv PROVE EveryKeyFound
  <2>1. /\ capacity \in Nat /\ (pc = "rehash" => NewCapacity \in Nat \ {0})
        /\ DOMAIN entries = Slots(capacity)
        /\ DOMAIN fresh = Slots(IF pc = "rehash" THEN NewCapacity ELSE 0)
        /\ Slots(0) = {}
    BY <1>1, GrowthSize DEF IInv, TypeOK, Slots
  <2>2. ASSUME NEW i \in Keyed(entries)
        PROVE  find_entry(entries, capacity, entries[i].key) = i
    <3>1. capacity \in Nat \ {0} /\ i \in Slots(capacity) /\ entries[i].key # Null
      BY <2>1 DEF Keyed, Slots
    <3> QED
      BY <3>1, <1>1, InvRoom, FindStored DEF IInv
  <2>3. ASSUME NEW i \in Keyed(fresh)
        PROVE  find_entry(fresh, NewCapacity, fresh[i].key) = i
    <3>1. pc = "rehash" /\ i \in Slots(NewCapacity) /\ fresh[i].key # Null
      BY <2>1 DEF Keyed
    <3> QED
      BY <3>1, <2>1, <1>1, InvRoom, FindStored DEF IInv
  <2> QED
    BY <2>2, <2>3 DEF EveryKeyFound
<1> QED
  BY <1>1, Invariance, PTL

-----------------------------------------------------------------------------
(* The table implements a map *)

LEMMA BindingOf ==
  ASSUME NEW cap \in Nat, NEW E, Good(E, cap), NEW k \in Keys
  PROVE  /\ \A i \in Slots(cap) : E[i].key = k => Binding(E, k) = E[i].value
         /\ (\A i \in Slots(cap) : E[i].key # k) => Binding(E, k) = Absent
         /\ Binding(E, k) = Absent => \A i \in Slots(cap) : E[i].key # k
<1>1. DOMAIN E = Slots(cap) /\ k # Null
  BY TableAssumption DEF Good
<1>2. ASSUME NEW i \in Slots(cap), E[i].key = k
      PROVE  Binding(E, k) = E[i].value /\ Binding(E, k) # Absent
  <2>1. \A j \in Slots(cap) : E[j].key = k => j = i
    BY <1>1, <1>2 DEF Good, Unique
  <2>2. (CHOOSE j \in DOMAIN E : E[j].key = k) = i
    BY <1>1, <1>2, <2>1
  <2>3. Binding(E, k) = E[i].value
    BY <1>1, <1>2, <2>2 DEF Binding
  <2>4. E[i].value \in Values
    BY <1>1, <1>2 DEF Good, Stored
  <2> QED
    BY <2>3, <2>4, TableAssumption
<1>3. (\A i \in Slots(cap) : E[i].key # k) => Binding(E, k) = Absent
  BY <1>1 DEF Binding
<1> QED
  BY <1>2, <1>3

\* Writing a key binds it and leaves the other bindings; the slot had no key
\* exactly when the key was unbound.
LEMMA WriteBinds ==
  ASSUME NEW cap \in Nat \ {0}, NEW E, Good(E, cap), HasRoom(E, cap),
         NEW k \in Keys \cup {Null}, NEW v \in Values
  PROVE  /\ \A q \in Keys : Binding(Write(E, cap, k, v), q) =
                              IF q = k THEN v ELSE Binding(E, q)
         /\ k \in Keys =>
              ((E[find_entry(E, cap, k)].key = Null) <=> Binding(E, k) = Absent)
<1> DEFINE s == find_entry(E, cap, k)
           W == Write(E, cap, k, v)
<1>1. /\ Good(W, cap)
      /\ s \in Slots(cap)
      /\ W[s] = [key |-> k, value |-> v, empty |-> FALSE]
      /\ \A i \in Slots(cap) : i # s => W[i] = E[i]
      /\ E[s].key \in {k, Null}
  BY WriteGood
<1>2. k \in Keys /\ (\E i \in Slots(cap) : E[i].key = k) => E[s].key = k
  BY FindSlot
<1> HIDE DEF W, s
<1>3. ASSUME NEW q \in Keys
      PROVE  Binding(W, q) = IF q = k THEN v ELSE Binding(E, q)
  <2>1. q # Null
    BY TableAssumption
  <2>2. CASE q = k
    BY <2>2, <1>1, BindingOf
  <2>3. CASE q # k
    <3>1. \A i \in Slots(cap) : W[i].key = q => i # s /\ E[i] = W[i]
      BY <2>1, <2>3, <1>1
    <3>2. \A i \in Slots(cap) : E[i].key = q => i # s /\ E[i] = W[i]
      BY <2>1, <2>3, <1>1
    <3>3. CASE \E i \in Slots(cap) : E[i].key = q
      <4>1. PICK i \in Slots(cap) : E[i].key = q
        BY <3>3
      <4>2. Binding(E, q) = E[i].value
        BY <4>1, BindingOf
      <4>3. Binding(W, q) = W[i].value
        BY <4>1, <3>2, <1>1, BindingOf
      <4> QED
        BY <4>1, <4>2, <4>3, <3>2, <2>3
    <3>4. CASE \A i \in Slots(cap) : E[i].key # q
      <4>1. Binding(E, q) = Absent
        BY <3>4, BindingOf
      <4>2. \A i \in Slots(cap) : W[i].key # q
        BY <3>4, <3>1
      <4>3. Binding(W, q) = Absent
        BY <4>2, <1>1, BindingOf
      <4> QED
        BY <4>1, <4>3, <2>3
    <3> QED
      BY <3>3, <3>4
  <2> QED
    BY <2>2, <2>3
<1>4. ASSUME k \in Keys
      PROVE  (E[s].key = Null) <=> Binding(E, k) = Absent
  <2>1. k # Null
    BY <1>4, TableAssumption
  <2>2. ASSUME E[s].key = Null PROVE Binding(E, k) = Absent
    BY <2>1, <2>2, <1>2, <1>4, BindingOf
  <2>3. ASSUME Binding(E, k) = Absent PROVE E[s].key = Null
    BY <2>1, <2>3, <1>1, <1>4, BindingOf
  <2> QED
    BY <2>2, <2>3
<1> QED
  BY <1>3, <1>4 DEF W, s

\* Storing a key, at once or at the end of a resize, is a Set of the map.
LEMMA StoreSets ==
  ASSUME NEW E, NEW cap \in Nat \ {0}, NEW len, NEW k \in Args, NEW v \in Values,
         Good(E, cap), HasRoom(E, cap), Store(E, cap, len, k, v),
         \A q \in Keys : Binding(E, q) = Binding(entries, q)
  PROVE  Map!Next
<1>1. k \in Keys \cup {Null}
  BY TableAssumption
<1>2. /\ entries' = Write(E, cap, k, v)
      /\ result' = (E[find_entry(E, cap, k)].key = Null)
  BY DEF Store
<1>3. \A q \in Keys : Binding(entries', q) = IF q = k THEN v ELSE Binding(entries, q)
  BY <1>1, <1>2, WriteBinds
<1>4. CASE k \in Keys
  <2>1. result' = (Binding(entries, k) = Absent)
    BY <1>1, <1>2, <1>4, WriteBinds
  <2>2. Map!Set(k, v)
    BY <1>3, <1>4, <2>1 DEF Map!Set
  <2> QED
    BY <1>4, <2>2 DEF Map!Next
<1>5. CASE k = Null
  <2>1. k \notin Keys
    BY <1>5, TableAssumption
  <2>2. E[find_entry(E, cap, k)].key \in {k, Null}
    BY <1>1, FindSlot
  <2>3. E[find_entry(E, cap, k)].key = Null
    BY <1>5, <2>2
  <2>4. result' = TRUE
    BY <1>2, <2>3
  <2>5. Map!SetNull
    BY <1>3, <2>1, <2>4 DEF Map!SetNull
  <2> QED
    BY <2>5 DEF Map!Next
<1> QED
  BY <1>1, <1>4, <1>5

\* When the loop of a resize is done, the new array binds what the old one does.
LEMMA MovedAll ==
  ASSUME IInv, pc = "rehash", cursor = capacity, NEW q \in Keys
  PROVE  Binding(fresh, q) = Binding(entries, q)
<1>1. /\ Good(fresh, NewCapacity) /\ Good(entries, capacity) /\ Moved
      /\ capacity \in Nat /\ NewCapacity \in Nat
      /\ Slots(cursor) = Slots(capacity) /\ q # Null
  BY GrowthSize, TableAssumption DEF IInv, TypeOK
<1>2. CASE \E j \in Slots(capacity) : entries[j].key = q
  <2>1. PICK j \in Slots(capacity) : entries[j].key = q
    BY <1>2
  <2>2. entries[j].value \in Values
    BY <1>1, <2>1 DEF Good, Stored
  <2>3. PICK i \in Slots(NewCapacity) :
          fresh[i].key = q /\ fresh[i].value = entries[j].value
    BY <1>1, <2>1, <2>2 DEF Moved
  <2> QED
    BY <1>1, <2>1, <2>3, BindingOf
<1>3. CASE \A j \in Slots(capacity) : entries[j].key # q
  <2>1. ASSUME NEW i \in Slots(NewCapacity), fresh[i].key = q PROVE FALSE
    <3>1. fresh[i].value \in Values
      BY <1>1, <2>1 DEF Good, Stored
    <3> QED
      BY <1>1, <1>3, <2>1, <3>1 DEF Moved
  <2> QED
    BY <1>1, <1>3, <2>1, BindingOf
<1> QED
  BY <1>2, <1>3

\* Every step of the table is a step of the map or leaves it as it is.
LEMMA StepRefines == IInv /\ [Next]_vars => [Map!Next]_(Map!vars)
<1> SUFFICES ASSUME IInv, [Next]_vars PROVE Map!Next \/ UNCHANGED Map!vars
  OBVIOUS
<1> DEFINE bindings == [k \in Keys |-> Binding(entries, k)]
<1>1. ASSUME NEW k \in Args, string_table_get(k) PROVE Map!Next
  <2>1. entries' = entries
    BY <1>1 DEF string_table_get, table
  <2>2. Good(entries, capacity) /\ capacity \in Nat
    BY DEF IInv, TypeOK
  <2>3. CASE k \in Keys
    <3>1. k # Null
      BY <2>3, TableAssumption
    <3>2. result' = Binding(entries, k)
      BY <1>1, <2>2, <2>3, <3>1, GetAnswer, BindingOf
    <3> QED
      BY <2>1, <2>3, <3>2 DEF Map!Get, Map!Next
  <2>4. CASE k = Null
    <3>1. result' = Absent
      BY <1>1, <2>4, GetAnswer
    <3> QED
      BY <2>1, <3>1 DEF Map!GetNull, Map!Next
  <2> QED
    BY <2>3, <2>4, TableAssumption
<1>2. ASSUME NEW k \in Args, NEW v \in Values, string_table_set(k, v) PROVE Map!Next
  <2>1. Store(entries, capacity, length, k, v) /\ ~Crowded
    BY <1>2 DEF string_table_set
  <2>2. capacity \in Nat \ {0} /\ Good(entries, capacity)
    BY <2>1 DEF IInv, TypeOK, Crowded
  <2> QED
    BY <2>1, <2>2, InvRoom, StoreSets
<1>3. ASSUME NEW k \in Args, NEW v \in Values, BeginResize(k, v) PROVE UNCHANGED Map!vars
  BY <1>3 DEF BeginResize, Map!vars
<1>4. CASE Rehash
  BY <1>4 DEF Rehash, Map!vars
<1>5. CASE EndResize
  <2>1. pc = "rehash" /\ Store(fresh, NewCapacity, length, pending.key, pending.value)
    BY <1>5 DEF EndResize
  <2>2. \A q \in Keys : Binding(fresh, q) = Binding(entries, q)
    BY <1>5, <2>1, ResizeReady, MovedAll
  <2>3. /\ Good(fresh, NewCapacity) /\ HasRoom(fresh, NewCapacity)
        /\ NewCapacity \in Nat \ {0}
        /\ pending.key \in Args /\ pending.value \in Values
    BY <1>5, ResizeReady
  <2>4. Map!Next
    BY <2>1, <2>2, <2>3, StoreSets
  <2> QED
    BY <2>4
<1>6. CASE string_table_destroy
  <2>1. entries' = NoArray /\ result' = Absent
    BY <1>6 DEF string_table_destroy
  <2>2. Good(NoArray, 0) /\ Slots(0) = {}
    BY BlankGood DEF NoArray, Slots
  <2>3. \A q \in Keys : Binding(entries', q) = Absent
    BY <2>1, <2>2, BindingOf
  <2>4. Map!Destroy
    BY <2>1, <2>3 DEF Map!Destroy, Map!Unbound
  <2> QED
    BY <2>4 DEF Map!Next
<1>7. CASE UNCHANGED vars
  BY <1>7 DEF vars, Map!vars
<1> QED
  BY <1>1, <1>2, <1>3, <1>4, <1>5, <1>6, <1>7 DEF Next

\* The hash table implements the abstract map, whatever the keys, the hash
\* function, the values and the sizes of the arrays.
THEOREM TableImplementsMap == Spec => ImplementsMap
<1>1. Init => Map!Init
  <2>1. ASSUME Init PROVE Map!Init
    <3>1. entries = NoArray /\ result = Absent
      BY <2>1 DEF Init
    <3>2. Good(NoArray, 0) /\ Slots(0) = {}
      BY BlankGood DEF NoArray, Slots
    <3>3. \A q \in Keys : Binding(entries, q) = Absent
      BY <3>1, <3>2, BindingOf
    <3> QED
      BY <3>1, <3>3 DEF Map!Init, Map!Unbound
  <2> QED
    BY <2>1
<1> QED
  BY <1>1, StepRefines, Invariance, PTL DEF Spec, ImplementsMap, Map!Spec
=============================================================================
