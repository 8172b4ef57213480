--------------------------- MODULE TypeCache_proof ---------------------------
(***************************************************************************)
(* Proofs about the type caches, for any number of types and counts.       *)
(*                                                                         *)
(* The invariant has two parts.  Sound: what a cache holds is what its key *)
(* says, which makes a declaration denote what it writes.  Full: what was  *)
(* made is in its cache; this holds until & replaces a cached pointer      *)
(* type, and lets nothing make a type a second time.                       *)
(***************************************************************************)
EXTENDS TypeCache, TLAPS

Words == Builtins \cup {Pointer} \cup ArrayWraps

\* A type that is not a builtin one wraps its base.
Made(a) ==
  /\ types[a].base \in Live
  /\ types[a].wrap \in {Pointer} \cup ArrayWraps
  /\ types[a].denotes = Append(types[types[a].base].denotes, types[a].wrap)

Typed ==
  /\ Live \subseteq Builtins \cup Heap
  /\ Builtins \subseteq Live
  /\ \A a \in Live : types[a].denotes \in Seq(Words)
  /\ \A a \in Builtins : /\ types[a].denotes = <<a>> /\ Len(types[a].denotes) = 1
                         /\ types[a].wrap = Builtin.wrap /\ types[a].base = Null
  /\ \A a \in Live \ Builtins : Made(a) /\ Len(types[a].denotes) >= 2

Sound ==
  /\ \A b \in DOMAIN pointer_types :
       /\ pointer_types[b] \in Live \ Builtins
       /\ types[pointer_types[b]].base = b
       /\ types[pointer_types[b]].wrap = Pointer
  /\ \A h \in DOMAIN array_types :
       /\ array_types[h] \in Live \ Builtins
       /\ types[array_types[h]].wrap \in ArrayWraps
       /\ h = type_hash(types[array_types[h]].base, types[array_types[h]].wrap)

Answered ==
  result # Null =>
    /\ result \in Live
    /\ types[result].denotes \in Seq(Words) /\ Alike(types[result].denotes, asked)

SoundInv == Typed /\ Sound /\ Answered

Full ==
  \A a \in Live \ Builtins :
    /\ types[a].wrap = Pointer =>
         types[a].base \in DOMAIN pointer_types /\ pointer_types[types[a].base] = a
    /\ types[a].wrap \in ArrayWraps =>
         LET h == type_hash(types[a].base, types[a].wrap)
         IN  h \in DOMAIN array_types /\ array_types[h] = a

-----------------------------------------------------------------------------
(* The hash *)

\* Two array types have one hash only if they have one base and one shape, T[0]
\* and T[] being of one.
LEMMA HashInjective ==
  ASSUME AddressesApart,
         NEW b \in Builtins \cup Heap, NEW c \in Builtins \cup Heap,
         NEW w \in ArrayWraps, NEW v \in ArrayWraps,
         type_hash(b, w) = type_hash(c, v)
  PROVE  b = c /\ Shape(w) = Shape(v)
<1>1. b.low = c.low /\ b.high \cup ShapeBits(w) = c.high \cup ShapeBits(v)
  BY DEF type_hash
<1>2. b = c
  BY <1>1, HeapAssumption
<1>3. ASSUME NEW x \in ArrayWraps
      PROVE  \/ x = Slice /\ ShapeBits(x) = {}
             \/ x = Dynamic /\ ShapeBits(x) = {DynamicBit}
             \/ \E n \in Counts : x = Sized(n) /\ ShapeBits(x) = n
  BY DEF ShapeBits, ArrayWraps, Slice, Dynamic, Sized
<1>4. ASSUME NEW x \in ArrayWraps
      PROVE  b.high \cap ShapeBits(x) = {}
  <2>1. ShapeBits(x) \in Counts \cup {{DynamicBit}} \cup {{}}
    BY <1>3
  <2> QED  BY <2>1 DEF AddressesApart
<1>5. ShapeBits(w) = ShapeBits(v)
  BY <1>1, <1>2, <1>4
<1>6. Shape(w) = Shape(v)
  <2>1. \A n \in Counts : DynamicBit \notin n
    BY DEF AddressesApart
  <2>2. Slice # Dynamic /\ \A n : Sized(n) # Slice /\ Sized(n) # Dynamic
    BY DEF Slice, Dynamic, Sized
  <2>3. \A n, m : Sized(n) = Sized(m) => n = m
    BY DEF Sized
  <2>4. ASSUME NEW x \in ArrayWraps
        PROVE  \/ Shape(x) = Slice /\ ShapeBits(x) = {}
               \/ Shape(x) = Dynamic /\ ShapeBits(x) = {DynamicBit}
               \/ \E n \in Counts : n # {} /\ Shape(x) = Sized(n) /\ ShapeBits(x) = n
    <3>1. CASE x = Slice /\ ShapeBits(x) = {}
      BY <2>2, <3>1 DEF Shape
    <3>2. CASE x = Dynamic /\ ShapeBits(x) = {DynamicBit}
      BY <2>2, <3>2 DEF Shape
    <3>3. CASE \E n \in Counts : x = Sized(n) /\ ShapeBits(x) = n
      <4>1. PICK n \in Counts : x = Sized(n) /\ ShapeBits(x) = n
        BY <3>3
      <4> QED
        BY <2>3, <4>1 DEF Shape
    <3> QED  BY <1>3, <3>1, <3>2, <3>3
  <2> QED  BY <1>5, <2>1, <2>4
<1> QED  BY <1>2, <1>6

\* Words of one shape behind the same words mean the same.
LEMMA AlikeAppend ==
  ASSUME NEW d \in Seq(Words), NEW w \in Words, NEW v \in Words, Shape(w) = Shape(v)
  PROVE  Append(d, w) \in Seq(Words) /\ Alike(Append(d, w), Append(d, v))
<1>1. PICK n \in Nat : n = Len(d) /\ DOMAIN d = 1 .. n
  OBVIOUS
<1>2. /\ DOMAIN Append(d, w) = 1 .. n + 1 /\ Append(d, w)[n + 1] = w
      /\ \A i \in 1 .. n : Append(d, w)[i] = d[i]
  BY <1>1
<1>3. /\ DOMAIN Append(d, v) = 1 .. n + 1 /\ Append(d, v)[n + 1] = v
      /\ \A i \in 1 .. n : Append(d, v)[i] = d[i]
  BY <1>1
<1>4. \A i \in 1 .. n + 1 : i \in 1 .. n \/ i = n + 1
  OBVIOUS
<1>5. \A i \in 1 .. n + 1 : Shape(Append(d, w)[i]) = Shape(Append(d, v)[i])
  BY <1>2, <1>3, <1>4, Zenon
<1>6. Append(d, w) \in Seq(Words)
  OBVIOUS
<1> QED
  BY <1>2, <1>3, <1>5, <1>6 DEF Alike

\* Every type means what it means.
LEMMA AlikeSame == \A d : Alike(d, d)
BY DEF Alike

-----------------------------------------------------------------------------
(* Soundness of the caches *)

LEMMA SoundInit == Init => SoundInv
<1>1. SUFFICES ASSUME Init PROVE SoundInv
  OBVIOUS
<1>2. Live = Builtins /\ \A a \in Builtins : types[a] = [Builtin EXCEPT !.denotes = <<a>>]
  BY <1>1 DEF Init, Live
<1>3. \A a \in Builtins : /\ types[a].denotes = <<a>> /\ types[a].denotes \in Seq(Words)
                          /\ Len(types[a].denotes) = 1
                          /\ types[a].wrap = Builtin.wrap /\ types[a].base = Null
  <2> SUFFICES ASSUME NEW a \in Builtins
                PROVE  /\ types[a].denotes = <<a>> /\ types[a].denotes \in Seq(Words)
                       /\ Len(types[a].denotes) = 1
                       /\ types[a].wrap = Builtin.wrap /\ types[a].base = Null
    OBVIOUS
  <2> DEFINE d == <<a>>
             bw == [kind |-> "builtin"]
  <2>1. d \in Seq(Words) /\ Len(d) = 1
    BY DEF Words
  <2>2. types[a] = [base |-> Null, wrap |-> bw, denotes |-> d] /\ Builtin.wrap = bw
    BY <1>2 DEF Builtin
  <2> HIDE DEF d, bw
  <2>3. types[a].denotes = d /\ types[a].wrap = bw /\ types[a].base = Null
    BY <2>2
  <2> QED  BY <2>1, <2>2, <2>3 DEF d
<1>4. Typed
  BY <1>2, <1>3 DEF Typed
<1>5. Sound /\ Answered
  BY <1>1 DEF Init, Sound, Answered
<1> QED  BY <1>4, <1>5 DEF SoundInv

\* A new type changes nothing about those that are there.
LEMMA NewType ==
  ASSUME Typed, NEW b \in Live, NEW w \in {Pointer} \cup ArrayWraps, NEW a \in Unused,
         types' = With(types, a, Make(b, w))
  PROVE  /\ Typed'
         /\ Live' = Live \cup {a} /\ a \notin Live /\ a \notin Builtins
         /\ \A c \in Live : types'[c] = types[c]
         /\ types'[a] = Make(b, w)
         /\ types'[a].base = b /\ types'[a].wrap = w
         /\ types'[a].denotes = Append(types[b].denotes, w)
<1>1. a \notin Live /\ a \in Heap
  BY DEF Unused
<1>2. Live' = Live \cup {a}
  BY DEF Live, With
<1>3. \A c \in Live : types'[c] = types[c]
  BY <1>1 DEF Live, With
<1>4. types'[a] = Make(b, w)
  BY <1>1 DEF Live, With
<1>5. /\ types'[a].base = b /\ types'[a].wrap = w
      /\ types'[a].denotes = Append(types[b].denotes, w)
  <2> DEFINE d == Append(types[b].denotes, w)
  <2>1. types'[a] = [base |-> b, wrap |-> w, denotes |-> d]
    BY <1>4 DEF Make
  <2> HIDE DEF d
  <2>2. types'[a].base = b /\ types'[a].wrap = w /\ types'[a].denotes = d
    BY <2>1
  <2> QED  BY <2>2 DEF d
<1>6. types[b].denotes \in Seq(Words) /\ Len(types[b].denotes) >= 1
  <2>1. types[b].denotes \in Seq(Words)
    BY DEF Typed
  <2>2. CASE b \in Builtins
    <3>1. Len(types[b].denotes) = 1
      BY <2>2, Zenon DEF Typed
    <3> QED  BY <2>1, <3>1
  <2>3. CASE b \notin Builtins
    <3>1. Len(types[b].denotes) >= 2
      BY <2>3, Zenon DEF Typed
    <3> QED  BY <2>1, <3>1
  <2> QED  BY <2>1, <2>2, <2>3
<1>7. types'[a].denotes \in Seq(Words) /\ Len(types'[a].denotes) >= 2
  <2>1. w \in Words
    BY DEF Words
  <2> QED  BY <1>5, <1>6, <2>1
<1>8. a \notin Builtins
  BY <1>1 DEF Typed
<1>9. ASSUME NEW c \in Live' \ Builtins
      PROVE  Made(c)' /\ Len(types'[c].denotes) >= 2
  <2>1. CASE c = a
    BY <2>1, <1>2, <1>1, <1>3, <1>5, <1>7 DEF Made
  <2>2. CASE c # a
    <3>1. c \in Live \ Builtins /\ Made(c) /\ Len(types[c].denotes) >= 2
      BY <2>2, <1>2 DEF Typed
    <3> QED  BY <3>1, <1>2, <1>3 DEF Made
  <2> QED  BY <2>1, <2>2
<1>10. Typed'
  <2>1. (Live \subseteq Builtins \cup Heap)' /\ (Builtins \subseteq Live)'
    BY <1>1, <1>2 DEF Typed
  <2>2. \A c \in Live' : types'[c].denotes \in Seq(Words)
    BY <1>2, <1>3, <1>7 DEF Typed
  <2>3. \A c \in Builtins : types'[c] = types[c]
    BY <1>3 DEF Typed
  <2>4. \A c \in Builtins : /\ types'[c].denotes = <<c>> /\ Len(types'[c].denotes) = 1
                            /\ types'[c].wrap = Builtin.wrap /\ types'[c].base = Null
    BY <2>3 DEF Typed
  <2>5. (\A c \in Live \ Builtins : Made(c) /\ Len(types[c].denotes) >= 2)'
    BY <1>9
  <2> QED  BY <2>1, <2>2, <2>4, <2>5 DEF Typed, Words
<1> QED  BY <1>1, <1>2, <1>3, <1>4, <1>5, <1>8, <1>10

LEMMA SoundPointerTo ==
  ASSUME Typed, Sound, NEW b \in Live, PointerTo(b)
  PROVE  Typed' /\ Sound' /\ result' \in Live' /\ Answered'
<1>1. CASE /\ b \in DOMAIN pointer_types
           /\ result' = pointer_types[b]
           /\ UNCHANGED <<types, pointer_types>>
  <2>1. Typed' /\ Sound'
    BY <1>1 DEF PointerTo, Typed, Sound, Live, Made
  <2>2. result' \in Live \ Builtins /\ types[result'].base = b /\ types[result'].wrap = Pointer
    BY <1>1 DEF Sound
  <2>3. Made(result')
    BY <2>2 DEF Typed
  <2>4. types[result'].denotes = asked'
    BY <2>2, <2>3 DEF Made, PointerTo
  <2>5. types[result'].denotes \in Seq(Words)
    BY <2>2 DEF Typed
  <2> QED  BY <2>1, <2>2, <2>4, <2>5, <1>1, AlikeSame DEF Answered, Live, Words
<1>2. CASE \E a \in Unused : /\ types' = With(types, a, Make(b, Pointer))
                             /\ pointer_types' = With(pointer_types, b, a)
                             /\ result' = a
  <2>1. PICK a \in Unused : /\ types' = With(types, a, Make(b, Pointer))
                            /\ pointer_types' = With(pointer_types, b, a)
                            /\ result' = a
    BY <1>2
  <2>2. /\ Typed'
        /\ Live' = Live \cup {a} /\ a \notin Live /\ a \notin Builtins
        /\ \A c \in Live : types'[c] = types[c]
        /\ types'[a].base = b /\ types'[a].wrap = Pointer
        /\ types'[a].denotes = Append(types[b].denotes, Pointer)
    BY <2>1, NewType
  <2>3. DOMAIN pointer_types' = DOMAIN pointer_types \cup {b} /\ pointer_types'[b] = a
        /\ \A c \in DOMAIN pointer_types : c # b => pointer_types'[c] = pointer_types[c]
    BY <2>1 DEF With
  <2>4. Sound'
    BY <2>2, <2>3 DEF Sound, PointerTo
  <2>5. Answered'
    <3>1. asked' = types'[a].denotes
      BY <2>2 DEF PointerTo
    <3>2. types'[a].denotes \in Seq(Words)
      BY <2>2 DEF Typed, Words
    <3> QED  BY <2>1, <2>2, <3>1, <3>2, AlikeSame DEF Answered, Words
  <2> QED  BY <2>1, <2>2, <2>4, <2>5
<1> QED  BY <1>1, <1>2 DEF PointerTo

LEMMA SoundAddressOf ==
  ASSUME Typed, Sound, NEW b \in Live, AddressOf(b)
  PROVE  Typed' /\ Sound' /\ result' \in Live' /\ Answered'
<1>1. PICK a \in Unused : /\ types' = With(types, a, Make(b, Pointer))
                          /\ pointer_types' = With(pointer_types, b, a)
                          /\ asked' = Append(types[b].denotes, Pointer)
                          /\ result' = a
                          /\ UNCHANGED array_types
  BY DEF AddressOf
<1>2. /\ Typed'
      /\ Live' = Live \cup {a} /\ a \notin Live /\ a \notin Builtins
      /\ \A c \in Live : types'[c] = types[c]
      /\ types'[a].base = b /\ types'[a].wrap = Pointer
      /\ types'[a].denotes = Append(types[b].denotes, Pointer)
  BY <1>1, NewType
<1>3. DOMAIN pointer_types' = DOMAIN pointer_types \cup {b} /\ pointer_types'[b] = a
      /\ \A c \in DOMAIN pointer_types : c # b => pointer_types'[c] = pointer_types[c]
  BY <1>1 DEF With
<1>4. Sound'
  BY <1>1, <1>2, <1>3 DEF Sound
<1>5. Answered'
  <2>1. types'[a].denotes \in Seq(Words)
    BY <1>2 DEF Typed, Words
  <2> QED  BY <1>1, <1>2, <2>1, AlikeSame DEF Answered, Words
<1> QED  BY <1>1, <1>2, <1>4, <1>5

\* Only that the cached array type is the one asked for needs addresses and
\* shapes to use different bits.
LEMMA SoundArrayOf ==
  ASSUME Typed, Sound, NEW b \in Live, NEW w \in ArrayWraps, ArrayOf(b, w)
  PROVE  Typed' /\ Sound' /\ result' \in Live' /\ (AddressesApart => Answered')
<1> DEFINE hash == type_hash(b, w)
<1>1. CASE /\ hash \in DOMAIN array_types
           /\ result' = array_types[hash]
           /\ UNCHANGED <<types, array_types>>
  <2>1. Typed' /\ Sound'
    BY <1>1 DEF ArrayOf, Typed, Sound, Live, Made
  <2>2. /\ result' \in Live \ Builtins
        /\ types[result'].wrap \in ArrayWraps
        /\ hash = type_hash(types[result'].base, types[result'].wrap)
    BY <1>1 DEF Sound
  <2>3. Made(result')
    BY <2>2 DEF Typed
  <2>4. ASSUME AddressesApart
        PROVE  types[result'].base = b /\ Shape(types[result'].wrap) = Shape(w)
    <3>1. b \in Builtins \cup Heap /\ types[result'].base \in Builtins \cup Heap
      BY <2>3 DEF Typed, Made
    <3> QED  BY <3>1, <2>2, <2>4, HashInjective
  <2>5. ASSUME AddressesApart
        PROVE  types[result'].denotes \in Seq(Words) /\ Alike(types[result'].denotes, asked')
    <3>1. PICK d, v : d = types[b].denotes /\ v = types[result'].wrap
      OBVIOUS
    <3>2. d \in Seq(Words) /\ v \in Words /\ w \in Words
      BY <2>2, <3>1 DEF Typed, Words
    <3>3. types[result'].denotes = Append(d, v) /\ asked' = Append(d, w)
      BY <2>3, <2>4, <2>5, <3>1 DEF Made, ArrayOf
    <3>4. Shape(v) = Shape(w)
      BY <2>4, <2>5, <3>1
    <3> QED  BY <3>2, <3>3, <3>4, AlikeAppend
  <2>6. ASSUME AddressesApart PROVE Answered'
    BY <1>1, <2>2, <2>5, <2>6 DEF Answered, Live, Words
  <2> QED  BY <2>1, <2>2, <2>6, <1>1 DEF Live
<1>2. CASE \E a \in Unused : /\ types' = With(types, a, Make(b, w))
                             /\ array_types' = With(array_types, hash, a)
                             /\ result' = a
  <2>1. PICK a \in Unused : /\ types' = With(types, a, Make(b, w))
                            /\ array_types' = With(array_types, hash, a)
                            /\ result' = a
    BY <1>2
  <2>2. /\ Typed'
        /\ Live' = Live \cup {a} /\ a \notin Live /\ a \notin Builtins
        /\ \A c \in Live : types'[c] = types[c]
        /\ types'[a].base = b /\ types'[a].wrap = w
        /\ types'[a].denotes = Append(types[b].denotes, w)
    BY <2>1, NewType
  <2>3. DOMAIN array_types' = DOMAIN array_types \cup {hash} /\ array_types'[hash] = a
        /\ \A h \in DOMAIN array_types : h # hash => array_types'[h] = array_types[h]
    BY <2>1 DEF With
  <2>4. Sound'
    <3> HIDE DEF hash
    <3>1. hash = type_hash(types'[a].base, types'[a].wrap)
      BY <2>2 DEF hash
    <3>2. pointer_types' = pointer_types
      BY DEF ArrayOf
    <3>3. ASSUME NEW h \in DOMAIN array_types'
          PROVE  /\ array_types'[h] \in Live' \ Builtins
                 /\ types'[array_types'[h]].wrap \in ArrayWraps
                 /\ h = type_hash(types'[array_types'[h]].base, types'[array_types'[h]].wrap)
      <4>1. CASE h = hash
        BY <4>1, <3>1, <2>2, <2>3
      <4>2. CASE h # hash
        BY <4>2, <2>2, <2>3 DEF Sound
      <4> QED  BY <4>1, <4>2
    <3>4. ASSUME NEW c \in DOMAIN pointer_types'
          PROVE  /\ pointer_types'[c] \in Live' \ Builtins
                 /\ types'[pointer_types'[c]].base = c
                 /\ types'[pointer_types'[c]].wrap = Pointer
      BY <3>2, <2>2 DEF Sound
    <3> QED  BY <3>3, <3>4 DEF Sound, type_hash
  <2>5. Answered'
    <3>1. asked' = types'[a].denotes
      BY <2>2 DEF ArrayOf
    <3>2. types'[a].denotes \in Seq(Words)
      BY <2>2 DEF Typed, Words
    <3> QED  BY <2>1, <2>2, <3>1, <3>2, AlikeSame DEF Answered, Words
  <2> QED  BY <2>1, <2>2, <2>4, <2>5
<1> QED  BY <1>1, <1>2 DEF ArrayOf

\* A step that does something keeps the caches sound.
LEMMA NextSound ==
  ASSUME Typed, Sound, Next
  PROVE  Typed' /\ Sound' /\ result' \in Live' /\ (AddressesApart => Answered')
<1>1. CASE Declare
  BY <1>1, SoundPointerTo, SoundArrayOf DEF Declare
<1>2. CASE TakeAddress
  BY <1>2, SoundAddressOf DEF TakeAddress
<1> QED  BY <1>1, <1>2 DEF Next

LEMMA StutterSound ==
  ASSUME UNCHANGED vars
  PROVE  /\ Typed => Typed'
         /\ Sound => Sound'
         /\ Answered => Answered'
         /\ Live' = Live /\ result' = result
  BY DEF vars, Typed, Sound, Answered, Live, Made, Words

LEMMA SoundStep ==
  ASSUME AddressesApart, SoundInv, [Next]_vars
  PROVE  SoundInv'
  BY NextSound, StutterSound DEF SoundInv

\* The caches hold live types and lead only to live types, pointers to pointers
\* and arrays to arrays, wherever the heap is: a hash that two array types share
\* leads to the wrong one of them, but never to what is no array type.
THEOREM TypeCorrect == Spec => []TypeOK
<1> DEFINE Kept == Typed /\ Sound /\ result \in Live \cup {Null}
<1>1. Init => Kept
  BY SoundInit DEF Init, SoundInv
<1>2. Kept /\ [Next]_vars => Kept'
  BY NextSound, StutterSound
<1>3. Kept => TypeOK
  <2> SUFFICES ASSUME Typed, Sound, result \in Live \cup {Null} PROVE TypeOK
    OBVIOUS
  <2>1. ASSUME NEW a \in Live
        PROVE  /\ types[a].base \in Live \cup {Null}
               /\ types[a].wrap \in {Builtin.wrap, Pointer} \cup ArrayWraps
    BY DEF Typed, Made
  <2>2. ASSUME NEW b \in DOMAIN pointer_types
        PROVE  b \in Live /\ pointer_types[b] \in Live
    BY DEF Typed, Sound, Made
  <2>3. ASSUME NEW h \in DOMAIN array_types
        PROVE  array_types[h] \in Arrays
    <3>1. array_types[h] \in Live /\ types[array_types[h]].wrap \in ArrayWraps
      BY DEF Sound
    <3>2. \A w \in ArrayWraps : w.kind \in {"sized", "slice", "dynamic"}
      BY DEF ArrayWraps, Sized, Slice, Dynamic
    <3> QED  BY <3>1, <3>2 DEF Arrays
  <2>4. Live \subseteq Builtins \cup Heap
    BY DEF Typed
  <2> QED  BY <2>1, <2>2, <2>3, <2>4 DEF TypeOK
<1> HIDE DEF Kept
<1> QED  BY <1>1, <1>2, <1>3, PTL DEF Spec

\* A declaration or an address-of expression is given the type it writes, for
\* any number of types and counts, as long as the bits of the addresses and of
\* the counts do not overlap; but for T[0] and T[], which are given each other's.
THEOREM DeclarationsMeanWhatTheyWrite ==
  ASSUME AddressesApart
  PROVE  Spec => []TypeAsDeclared
<1>1. SoundInv => TypeAsDeclared
  BY DEF SoundInv, Answered, TypeAsDeclared
<1>2. SoundInv /\ [Next]_vars => SoundInv'
  BY SoundStep
<1> QED  BY <1>1, <1>2, SoundInit, PTL DEF Spec

-----------------------------------------------------------------------------
(* One object for one declaration *)

Distinct == \A a, b \in Live : types[a].denotes = types[b].denotes => a = b

FullInv == SoundInv /\ (~Replaced => Full /\ Distinct)

LEMMA AppendInjective ==
  ASSUME NEW S, NEW s \in Seq(S), NEW t \in Seq(S), NEW x \in S, NEW y \in S,
         Append(s, x) = Append(t, y)
  PROVE  s = t /\ x = y
<1>1. /\ Len(Append(s, x)) = Len(s) + 1 /\ Append(s, x)[Len(s) + 1] = x
      /\ \A i \in 1 .. Len(s) : Append(s, x)[i] = s[i]
  OBVIOUS
<1>2. /\ Len(Append(t, y)) = Len(t) + 1 /\ Append(t, y)[Len(t) + 1] = y
      /\ \A i \in 1 .. Len(t) : Append(t, y)[i] = t[i]
  OBVIOUS
<1>3. Len(s) = Len(t)
  BY <1>1, <1>2
<1>4. x = y /\ \A i \in 1 .. Len(s) : s[i] = t[i]
  BY <1>1, <1>2, <1>3
<1> QED  BY <1>3, <1>4

\* What is not in its cache has not been made.
LEMMA NotMade ==
  ASSUME SoundInv, Full, Distinct, NEW b \in Live, NEW w \in {Pointer} \cup ArrayWraps,
         w = Pointer => b \notin DOMAIN pointer_types,
         w \in ArrayWraps => type_hash(b, w) \notin DOMAIN array_types
  PROVE  \A c \in Live : types[c].denotes # Append(types[b].denotes, w)
<1> USE DEF SoundInv
<1> SUFFICES ASSUME NEW c \in Live, types[c].denotes = Append(types[b].denotes, w)
             PROVE  FALSE
  OBVIOUS
<1>1. types[b].denotes \in Seq(Words) /\ Len(types[b].denotes) >= 1 /\ w \in Words
  <2>1. types[b].denotes \in Seq(Words) /\ w \in Words
    BY DEF Typed, Words
  <2>2. Len(types[b].denotes) = 1 \/ Len(types[b].denotes) >= 2
    BY Zenon DEF Typed
  <2> QED  BY <2>1, <2>2
<1>2. Len(types[c].denotes) # 1
  BY <1>1
<1>3. c \notin Builtins
  BY <1>2, Zenon DEF Typed
<1>4. Made(c)
  BY <1>3, Zenon DEF Typed
<1>5. types[types[c].base].denotes \in Seq(Words) /\ types[c].wrap \in Words
  BY <1>4 DEF Made, Typed, Words
<1>6. types[types[c].base].denotes = types[b].denotes /\ types[c].wrap = w
  <2> DEFINE s == types[types[c].base].denotes
             t == types[b].denotes
             x == types[c].wrap
  <2>1. s \in Seq(Words) /\ t \in Seq(Words) /\ x \in Words /\ w \in Words
    BY <1>1, <1>5
  <2>2. Append(s, x) = Append(t, w)
    BY <1>4, Zenon DEF Made
  <2> HIDE DEF s, t, x
  <2>3. s = t /\ x = w
    BY <2>1, <2>2, AppendInjective
  <2> QED  BY <2>3 DEF s, t, x
<1>7. types[c].base = b
  BY <1>4, <1>6 DEF Distinct, Made
<1> QED  BY <1>3, <1>4, <1>6, <1>7 DEF Full

\* A type made under a key that was free keeps the caches full and the types
\* apart.
LEMMA FullStep ==
  ASSUME AddressesApart, SoundInv, Full, Distinct, ~Replaced', [Next]_vars
  PROVE  Full' /\ Distinct'
<1>2. CASE UNCHANGED <<types, pointer_types, array_types>>
  BY <1>2 DEF Full, Distinct, Live
<1>3. ASSUME NEW b \in Live, b \notin DOMAIN pointer_types, NEW a \in Unused,
             types' = With(types, a, Make(b, Pointer)),
             pointer_types' = With(pointer_types, b, a),
             array_types' = array_types
      PROVE  Full' /\ Distinct'
  <2>1. /\ Live' = Live \cup {a} /\ a \notin Live /\ a \notin Builtins
        /\ \A c \in Live : types'[c] = types[c]
        /\ types'[a].base = b /\ types'[a].wrap = Pointer
        /\ types'[a].denotes = Append(types[b].denotes, Pointer)
    BY <1>3, NewType DEF SoundInv
  <2>2. DOMAIN pointer_types' = DOMAIN pointer_types \cup {b} /\ pointer_types'[b] = a
        /\ \A c \in DOMAIN pointer_types : c # b => pointer_types'[c] = pointer_types[c]
    BY <1>3 DEF With
  <2>3. Pointer \notin ArrayWraps
    BY DEF Pointer, ArrayWraps, Sized, Slice, Dynamic
  <2>4. \A c \in Live : types[c].denotes # Append(types[b].denotes, Pointer)
    BY <1>3, <2>3, NotMade
  <2>5. Distinct'
    <3> DEFINE new == types'[a].denotes
               of(c) == types[c].denotes
    <3>1. \A c \in Live : of(c) # new /\ types'[c].denotes = of(c)
      BY <2>1, <2>4, Zenon
    <3>2. \A c, d \in Live : of(c) = of(d) => c = d
      BY DEF Distinct
    <3> HIDE DEF new, of
    <3>3. ASSUME NEW c \in Live', NEW d \in Live', types'[c].denotes = types'[d].denotes
          PROVE  c = d
      <4>1. CASE c \in Live /\ d \in Live
        BY <4>1, <3>1, <3>2, <3>3, Zenon
      <4>2. CASE c = a /\ d \in Live
        BY <4>2, <3>1, <3>3, Zenon DEF new
      <4>3. CASE c \in Live /\ d = a
        BY <4>3, <3>1, <3>3, Zenon DEF new
      <4> QED  BY <4>1, <4>2, <4>3, <2>1
    <3> QED  BY <3>3, Zenon DEF Distinct
  <2>6. Full'
    BY <1>3, <2>1, <2>2, <2>3 DEF Full
  <2> QED  BY <2>5, <2>6
<1>4. ASSUME NEW b \in Live, NEW w \in ArrayWraps, NEW a \in Unused,
             type_hash(b, w) \notin DOMAIN array_types,
             types' = With(types, a, Make(b, w)),
             array_types' = With(array_types, type_hash(b, w), a),
             pointer_types' = pointer_types
      PROVE  Full' /\ Distinct'
  <2> DEFINE hash == type_hash(b, w)
  <2>1. /\ Live' = Live \cup {a} /\ a \notin Live /\ a \notin Builtins
        /\ \A c \in Live : types'[c] = types[c]
        /\ types'[a].base = b /\ types'[a].wrap = w
        /\ types'[a].denotes = Append(types[b].denotes, w)
    BY <1>4, NewType DEF SoundInv
  <2>2. DOMAIN array_types' = DOMAIN array_types \cup {hash} /\ array_types'[hash] = a
        /\ \A h \in DOMAIN array_types : h # hash => array_types'[h] = array_types[h]
    BY <1>4 DEF With
  <2>3. Pointer \notin ArrayWraps
    BY DEF Pointer, ArrayWraps, Sized, Slice, Dynamic
  <2>4. \A c \in Live : types[c].denotes # Append(types[b].denotes, w)
    BY <1>4, <2>3, NotMade
  <2>5. Distinct'
    <3> DEFINE new == types'[a].denotes
               of(c) == types[c].denotes
    <3>1. \A c \in Live : of(c) # new /\ types'[c].denotes = of(c)
      BY <2>1, <2>4, Zenon
    <3>2. \A c, d \in Live : of(c) = of(d) => c = d
      BY DEF Distinct
    <3> HIDE DEF new, of
    <3>3. ASSUME NEW c \in Live', NEW d \in Live', types'[c].denotes = types'[d].denotes
          PROVE  c = d
      <4>1. CASE c \in Live /\ d \in Live
        BY <4>1, <3>1, <3>2, <3>3, Zenon
      <4>2. CASE c = a /\ d \in Live
        BY <4>2, <3>1, <3>3, Zenon DEF new
      <4>3. CASE c \in Live /\ d = a
        BY <4>3, <3>1, <3>3, Zenon DEF new
      <4> QED  BY <4>1, <4>2, <4>3, <2>1
    <3> QED  BY <3>3, Zenon DEF Distinct
  <2>6. hash \notin DOMAIN array_types
    BY <1>4
  <2>7. hash = type_hash(types'[a].base, types'[a].wrap)
    BY <2>1
  <2> HIDE DEF hash
  <2>8. ASSUME NEW c \in Live' \ Builtins
        PROVE  /\ types'[c].wrap = Pointer =>
                    /\ types'[c].base \in DOMAIN pointer_types'
                    /\ pointer_types'[types'[c].base] = c
               /\ types'[c].wrap \in ArrayWraps =>
                    LET h == type_hash(types'[c].base, types'[c].wrap)
                    IN  h \in DOMAIN array_types' /\ array_types'[h] = c
    <3>1. CASE c = a
      BY <3>1, <2>1, <2>2, <2>3, <2>7
    <3>2. CASE c # a
      BY <3>2, <1>4, <2>1, <2>2, <2>6 DEF Full
    <3> QED  BY <3>1, <3>2
  <2>9. Full'
    BY <2>8 DEF Full, type_hash
  <2> QED  BY <2>5, <2>9
<1>5. CASE Declare
  <2>1. PICK b \in Live : PointerTo(b) \/ \E w \in ArrayWraps : ArrayOf(b, w)
    BY <1>5 DEF Declare
  <2>2. CASE PointerTo(b)
    BY <2>2, <1>2, <1>3 DEF PointerTo
  <2>3. CASE \E w \in ArrayWraps : ArrayOf(b, w)
    BY <2>3, <1>2, <1>4 DEF ArrayOf
  <2> QED  BY <2>1, <2>2, <2>3
<1>6. CASE TakeAddress
  <2>1. PICK b \in Live, a \in Unused : /\ types' = With(types, a, Make(b, Pointer))
                                       /\ pointer_types' = With(pointer_types, b, a)
                                       /\ array_types' = array_types
    BY <1>6 DEF TakeAddress, AddressOf
  <2>2. ASSUME b \in DOMAIN pointer_types PROVE FALSE
    <3> DEFINE old == pointer_types[b]
    <3>1. old \in Live /\ types[old].base = b /\ types[old].wrap = Pointer
      BY <2>2 DEF SoundInv, Sound
    <3>2. Live' = Live \cup {a} /\ a \notin Live /\ \A c \in Live : types'[c] = types[c]
      BY <2>1, NewType DEF SoundInv
    <3>3. b \in DOMAIN pointer_types' /\ pointer_types'[b] = a
      BY <2>1 DEF With
    <3> QED  BY <3>1, <3>2, <3>3 DEF Replaced
  <2> QED  BY <2>1, <2>2, <1>3
<1> QED  BY <1>2, <1>5, <1>6 DEF Next, vars

\* What is replaced stays so: no type is freed, and no cache entry comes back.
LEMMA ReplacedStays ==
  ASSUME SoundInv, Replaced, [Next]_vars
  PROVE  Replaced'
<1>1. PICK old \in Live : /\ types[old].wrap = Pointer
                          /\ types[old].base \in DOMAIN pointer_types
                          /\ pointer_types[types[old].base] # old
  BY DEF Replaced
<1>2. CASE types' = types /\ pointer_types' = pointer_types
  BY <1>1, <1>2 DEF Replaced, Live
<1>3. ASSUME NEW b \in Live, NEW w \in {Pointer} \cup ArrayWraps, NEW a \in Unused,
             types' = With(types, a, Make(b, w)),
             \/ pointer_types' = pointer_types
             \/ pointer_types' = With(pointer_types, b, a)
      PROVE  Replaced'
  <2>1. Live' = Live \cup {a} /\ a \notin Live /\ \A c \in Live : types'[c] = types[c]
    BY <1>3, NewType DEF SoundInv
  <2>2. /\ types[old].base \in DOMAIN pointer_types'
        /\ pointer_types'[types[old].base] # old
    BY <1>1, <1>3, <2>1 DEF With
  <2> QED  BY <1>1, <2>1, <2>2 DEF Replaced
<1>4. CASE Declare
  BY <1>4, <1>2, <1>3 DEF Declare, PointerTo, ArrayOf
<1>5. CASE TakeAddress
  BY <1>5, <1>3 DEF TakeAddress, AddressOf
<1> QED  BY <1>2, <1>4, <1>5 DEF Next, vars

LEMMA FullInit == Init => FullInv
<1>1. SUFFICES ASSUME Init PROVE FullInv
  OBVIOUS
<1>2. Live = Builtins /\ SoundInv
  BY <1>1, SoundInit DEF Init, Live
<1>3. \A a \in Builtins : types[a].denotes = <<a>>
  BY <1>2 DEF SoundInv, Typed
<1>4. Distinct
  BY <1>2, <1>3 DEF Distinct
<1> QED  BY <1>2, <1>4 DEF FullInv, Full

LEMMA AlwaysFull ==
  ASSUME AddressesApart
  PROVE  Spec => []FullInv
<1>1. FullInv /\ [Next]_vars => FullInv'
  BY SoundStep, FullStep, ReplacedStays DEF FullInv
<1> QED  BY <1>1, FullInit, PTL DEF Spec

\* Nothing but an & that replaces a cached pointer type makes two objects for
\* one type, which the comparisons of types by address rely on.
THEOREM OneObjectPerType ==
  ASSUME AddressesApart
  PROVE  Spec => []OneTypePerDeclaration
<1>1. FullInv => OneTypePerDeclaration
  BY DEF FullInv, Distinct, OneTypePerDeclaration
<1> QED  BY <1>1, AlwaysFull, PTL
=============================================================================
