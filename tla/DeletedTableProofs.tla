------------------------- MODULE DeletedTableProofs -------------------------
(***************************************************************************)
(* Proofs about DeletedTable, for a table of any size, any set of keys and *)
(* any number of collisions among them.                                    *)
(***************************************************************************)
EXTENDS DeletedTable, NumberLemmas, TLAPS

LEMMA LeastOf ==
  ASSUME NEW S \in SUBSET Nat, S # {}
  PROVE  Least(S) \in S /\ \A m \in S : Least(S) <= m
BY LeastNumber DEF Least

-----------------------------------------------------------------------------
(* A search looks at cells of the table, and at all of them if it goes on  *)
(* for SIZE steps.                                                         *)
LEMMA Modulo ==
  ASSUME NEW n \in Nat
  PROVE  /\ n % SIZE \in Cells
         /\ n < SIZE => n % SIZE = n
         /\ (n + SIZE) % SIZE = n % SIZE
<1>1. n % SIZE \in Cells
  BY SizeAssumption DEF Cells
<1>2. n < SIZE => n % SIZE = n
  BY SizeAssumption, SmallModulo
<1>3. (n + SIZE) % SIZE = n % SIZE
  BY SizeAssumption, ModuloPlus
<1> QED
  BY <1>1, <1>2, <1>3

LEMMA ProbeInside ==
  ASSUME NEW key \in Nat, NEW n \in Nat
  PROVE  Probe(key, n) \in Cells
BY Modulo, SizeAssumption DEF Probe, hashCode, Cells

LEMMA ProbeBefore ==
  ASSUME NEW key \in Nat, NEW n \in Cells, NEW m \in 0 .. n
  PROVE  m \in Cells /\ Probe(key, m) \in Cells
<1>1. m \in Cells /\ m \in Nat
  BY SizeAssumption DEF Cells
<1> QED
  BY <1>1, ProbeInside

LEMMA ProbeEverywhere ==
  ASSUME NEW key \in Nat, NEW i \in Cells
  PROVE  \E n \in Cells : Probe(key, n) = i
<1> DEFINE h == hashCode(key)
<1>1. h \in Cells
  BY Modulo DEF hashCode
<1> HIDE DEF h
<1>2. CASE h <= i
  <2>1. i - h \in Cells /\ (h + (i - h)) % SIZE = i
    BY <1>1, <1>2, Modulo, SizeAssumption DEF Cells
  <2> QED
    BY <2>1 DEF Probe, h
<1>3. CASE i < h
  <2>1. i + SIZE - h \in Cells /\ h + (i + SIZE - h) = i + SIZE
    BY <1>1, <1>3, SizeAssumption DEF Cells
  <2>2. (h + (i + SIZE - h)) % SIZE = i
    BY <1>1, <2>1, Modulo, SizeAssumption DEF Cells
  <2> QED
    BY <2>1, <2>2 DEF Probe, h
<1> QED
  BY <1>1, <1>2, <1>3, SizeAssumption DEF Cells

-----------------------------------------------------------------------------
Table == [Cells -> Items \cup {EMPTY, DELETED}]

LiveOf(table) == {i \in Cells : table[i] \notin {EMPTY, DELETED}}
HoldersOf(table, key) == {i \in LiveOf(table) : table[i].key = key}

(* A search for the file in cell i gets there.                             *)
ReachedIn(table, i) ==
  \E n \in Cells : /\ Probe(table[i].key, n) = i
                  /\ \A m \in 0 .. n : table[Probe(table[i].key, m)] # EMPTY

AllReached(table) == \A i \in LiveOf(table) : ReachedIn(table, i)

LEMMA LiveItem ==
  ASSUME NEW table \in Table, NEW i \in LiveOf(table)
  PROVE  /\ i \in Cells /\ table[i] \in Items
         /\ table[i].key \in Keys /\ table[i].key \in Nat
         /\ table[i].slashes \in 0 .. Slashes
BY KeysAssumption DEF Table, LiveOf, Items

(* A file that is in the table is found by a search that may pass deleted  *)
(* cells, and what is found is a file with the number.                     *)
LEMMA FoundIfHeld ==
  ASSUME NEW table \in Table, AllReached(table), NEW key, HoldersOf(table, key) # {}
  PROVE  FoundAfter(table, key) # {}
<1>1. PICK i \in LiveOf(table) : table[i].key = key
  BY DEF HoldersOf
<1>2. PICK n \in Cells : /\ Probe(key, n) = i
                         /\ \A m \in 0 .. n : table[Probe(key, m)] # EMPTY
  BY <1>1 DEF AllReached, ReachedIn
<1>3. n \in FoundAfter(table, key)
  BY <1>1, <1>2 DEF FoundAfter, Holds, LiveOf
<1> QED
  BY <1>3

LEMMA FoundIsHeld ==
  ASSUME NEW table \in Table, NEW key \in Nat, FoundAfter(table, key) # {}
  PROVE  Probe(key, Least(FoundAfter(table, key))) \in HoldersOf(table, key)
<1>1. Least(FoundAfter(table, key)) \in FoundAfter(table, key)
  BY LeastOf, SizeAssumption DEF FoundAfter, Cells
<1>2. Least(FoundAfter(table, key)) \in Nat
  BY <1>1, SizeAssumption DEF FoundAfter, Cells
<1> QED
  BY <1>1, <1>2, ProbeInside DEF FoundAfter, Holds, HoldersOf, LiveOf

(* A deleted cell takes one file away and hides no other.                  *)
LEMMA WithoutOne ==
  ASSUME NEW table \in Table, AllReached(table), NEW key \in Nat, FoundAfter(table, key) # {}
  PROVE  /\ Without(table, key) \in Table
         /\ AllReached(Without(table, key))
         /\ \E at \in HoldersOf(table, key) :
              /\ LiveOf(Without(table, key)) = LiveOf(table) \ {at}
              /\ \A k : HoldersOf(Without(table, key), k) = HoldersOf(table, k) \ {at}
<1> DEFINE at == Probe(key, Least(FoundAfter(table, key)))
           less == Without(table, key)
<1>1. at \in HoldersOf(table, key) /\ at \in Cells
  BY FoundIsHeld DEF HoldersOf, LiveOf
<1>2. /\ less \in Table /\ less[at] = DELETED
      /\ \A i \in Cells : i # at => less[i] = table[i]
  BY <1>1 DEF Without, Table
<1> HIDE DEF at, less
<1>3. LiveOf(less) = LiveOf(table) \ {at}
  BY <1>1, <1>2 DEF LiveOf
<1>4. \A k : HoldersOf(less, k) = HoldersOf(table, k) \ {at}
  BY <1>2, <1>3 DEF HoldersOf, LiveOf
<1>5. AllReached(less)
  <2> SUFFICES ASSUME NEW i \in LiveOf(less) PROVE ReachedIn(less, i)
    BY DEF AllReached
  <2>1. i \in LiveOf(table) /\ less[i] = table[i] /\ table[i].key \in Nat
    BY <1>2, <1>3, LiveItem DEF LiveOf
  <2>2. PICK n \in Cells : /\ Probe(table[i].key, n) = i
                           /\ \A m \in 0 .. n : table[Probe(table[i].key, m)] # EMPTY
    BY <2>1 DEF AllReached, ReachedIn
  <2>3. \A m \in 0 .. n : less[Probe(table[i].key, m)] # EMPTY
    <3> TAKE m \in 0 .. n
    <3>1. Probe(table[i].key, m) \in Cells
      BY <2>1, ProbeBefore
    <3> QED
      BY <1>2, <2>2, <3>1, MarksAssumption
  <2> QED
    BY <2>1, <2>2, <2>3 DEF ReachedIn
<1> QED
  BY <1>1, <1>2, <1>3, <1>4, <1>5 DEF less

(* With a cell to spare an insertion takes one that held no file, on the   *)
(* way of the searches for its key.                                        *)
LEMMA InsertOne ==
  ASSUME NEW table \in Table, AllReached(table), NEW key \in Keys, LiveOf(table) # Cells
  PROVE  /\ insertToHashTable(table, key) \in Table
         /\ AllReached(insertToHashTable(table, key))
         /\ \E at \in Cells \ LiveOf(table) :
              /\ LiveOf(insertToHashTable(table, key)) = LiveOf(table) \cup {at}
              /\ \A k : HoldersOf(insertToHashTable(table, key), k)
                         = IF k = key THEN HoldersOf(table, k) \cup {at} ELSE HoldersOf(table, k)
<1> DEFINE free == {n \in Cells : table[Probe(key, n)] \in {EMPTY, DELETED}}
           steps == Least(free \cup {SIZE})
           at == Probe(key, steps)
           item == [key |-> key, slashes |-> Slashes]
           more == insertToHashTable(table, key)
<1>0. key \in Nat /\ item \in Items /\ item \notin {EMPTY, DELETED}
  BY KeysAssumption, MarksAssumption DEF Items
<1>1. PICK n \in Cells : n \in free
  <2>1. PICK i \in Cells : i \notin LiveOf(table)
    BY DEF LiveOf
  <2>2. PICK n \in Cells : Probe(key, n) = i
    BY <1>0, ProbeEverywhere
  <2> QED
    BY <2>1, <2>2 DEF LiveOf
<1>2. steps \in free \cup {SIZE} /\ \A m \in free \cup {SIZE} : steps <= m
  <2>1. free \cup {SIZE} \in SUBSET Nat /\ free \cup {SIZE} # {}
    BY SizeAssumption DEF Cells
  <2> HIDE DEF free
  <2> QED
    BY <2>1, LeastOf
<1>3. steps \in free /\ steps \in Cells /\ \A m \in free : steps <= m
  BY <1>1, <1>2, SizeAssumption DEF Cells
<1>4. at \in Cells /\ table[at] \in {EMPTY, DELETED}
  BY <1>0, <1>3, ProbeInside DEF Cells
<1>5. \A m \in 0 .. steps : m # steps => m \notin free
  BY <1>3, SizeAssumption DEF Cells
<1>6. \A m \in 0 .. steps : m \in Cells /\ Probe(key, m) \in Cells
  BY <1>0, <1>3, ProbeBefore
<1>7. \A m \in 0 .. steps : m # steps => table[Probe(key, m)] # EMPTY
  BY <1>5, <1>6
<1>8. more = [table EXCEPT ![at] = item]
  BY DEF insertToHashTable, FreeCell
<1> HIDE DEF at, more, item, steps, free
<1>9. more \in Table /\ more[at] = item /\ \A i \in Cells : i # at => more[i] = table[i]
  BY <1>0, <1>4, <1>8 DEF Table
<1>10. at \notin LiveOf(table) /\ LiveOf(more) = LiveOf(table) \cup {at}
  BY <1>0, <1>4, <1>9 DEF LiveOf
<1>11. item.key = key
  BY DEF item
<1>12. \A k : HoldersOf(more, k) = IF k = key THEN HoldersOf(table, k) \cup {at} ELSE HoldersOf(table, k)
  BY <1>9, <1>10, <1>11 DEF HoldersOf, LiveOf
<1>13. \A i \in Cells : table[i] # EMPTY => more[i] # EMPTY
  BY <1>0, <1>9
<1>14. AllReached(more)
  <2> SUFFICES ASSUME NEW i \in LiveOf(more) PROVE ReachedIn(more, i)
    BY DEF AllReached
  <2>1. CASE i = at
    <3>1. \A m \in 0 .. steps : more[Probe(key, m)] # EMPTY
      <4> TAKE m \in 0 .. steps
      <4>1. CASE m = steps
        BY <1>0, <1>9, <4>1 DEF at
      <4>2. CASE m # steps
        BY <1>6, <1>7, <1>13, <4>2
      <4> QED
        BY <4>1, <4>2
    <3>2. Probe(key, steps) = i /\ more[i].key = key
      BY <1>9, <1>11, <2>1 DEF at
    <3> QED
      BY <1>3, <3>1, <3>2 DEF ReachedIn
  <2>2. CASE i # at
    <3>1. i \in LiveOf(table) /\ more[i] = table[i] /\ table[i].key \in Nat
      BY <1>9, <1>10, <2>2, LiveItem DEF LiveOf
    <3>2. PICK k \in Cells : /\ Probe(table[i].key, k) = i
                             /\ \A m \in 0 .. k : table[Probe(table[i].key, m)] # EMPTY
      BY <3>1 DEF AllReached, ReachedIn
    <3>3. \A m \in 0 .. k : more[Probe(table[i].key, m)] # EMPTY
      <4> TAKE m \in 0 .. k
      <4>1. Probe(table[i].key, m) \in Cells
        BY <3>1, ProbeBefore
      <4> QED
        BY <1>13, <3>2, <4>1
    <3> QED
      BY <3>1, <3>2, <3>3 DEF ReachedIn
  <2> QED
    BY <2>1, <2>2
<1> QED
  BY <1>4, <1>9, <1>10, <1>12, <1>14 DEF more

-----------------------------------------------------------------------------
(* Cardinalities.                                                          *)
LEMMA LiveFinite ==
  ASSUME NEW table, NEW key
  PROVE  /\ IsFiniteSet(Cells) /\ Cardinality(Cells) = SIZE
         /\ IsFiniteSet(LiveOf(table)) /\ IsFiniteSet(HoldersOf(table, key))
         /\ Cardinality(LiveOf(table)) \in Nat /\ Cardinality(HoldersOf(table, key)) \in Nat
<1>1. IsFiniteSet(Cells) /\ Cardinality(Cells) = SIZE
  BY FS_Interval, SizeAssumption DEF Cells
<1>2. LiveOf(table) \in SUBSET Cells /\ HoldersOf(table, key) \in SUBSET Cells
  BY DEF LiveOf, HoldersOf
<1>3. IsFiniteSet(LiveOf(table)) /\ IsFiniteSet(HoldersOf(table, key))
  BY <1>1, <1>2, FS_Subset
<1> QED
  BY <1>1, <1>3, FS_CardinalityType

(* The places of a key among those that came, and after the first is gone. *)
PlacesOf(keys, key) == {k \in DOMAIN keys : keys[k] = key}

LEMMA SeqForm ==
  ASSUME NEW S, NEW s \in Seq(S), NEW n \in Nat, Len(s) = n
  PROVE  s = [i \in 1 .. n |-> s[i]]
<1>1. DOMAIN s = 1 .. n /\ s = [i \in DOMAIN s |-> s[i]]
  OBVIOUS
<1> QED
  BY <1>1

LEMMA PlacesAppend ==
  ASSUME NEW keys \in Seq(Keys), NEW new \in Keys, NEW key
  PROVE  /\ IsFiniteSet(PlacesOf(keys, key)) /\ Cardinality(PlacesOf(keys, key)) \in Nat
         /\ Cardinality(PlacesOf(Append(keys, new), key))
              = Cardinality(PlacesOf(keys, key)) + (IF key = new THEN 1 ELSE 0)
<1>1. /\ DOMAIN keys = 1 .. Len(keys) /\ Len(keys) \in Nat
      /\ DOMAIN Append(keys, new) = 1 .. Len(keys) + 1
      /\ \A k \in 1 .. Len(keys) : Append(keys, new)[k] = keys[k]
      /\ Append(keys, new)[Len(keys) + 1] = new
  OBVIOUS
<1>2. IsFiniteSet(PlacesOf(keys, key)) /\ Cardinality(PlacesOf(keys, key)) \in Nat
  <2>1. PlacesOf(keys, key) \in SUBSET (1 .. Len(keys)) /\ IsFiniteSet(1 .. Len(keys))
    BY <1>1, FS_Interval DEF PlacesOf
  <2> QED
    BY <2>1, FS_Subset, FS_CardinalityType
<1>3. PlacesOf(Append(keys, new), key)
        = IF key = new THEN PlacesOf(keys, key) \cup {Len(keys) + 1} ELSE PlacesOf(keys, key)
  BY <1>1 DEF PlacesOf
<1>4. Len(keys) + 1 \notin PlacesOf(keys, key)
  BY <1>1 DEF PlacesOf
<1>5. Cardinality(PlacesOf(keys, key) \cup {Len(keys) + 1}) = Cardinality(PlacesOf(keys, key)) + 1
  BY <1>2, <1>4, FS_AddElement
<1> QED
  BY <1>2, <1>3, <1>5

LEMMA PlacesTail ==
  ASSUME NEW keys \in Seq(Keys), keys # << >>, NEW key
  PROVE  Cardinality(PlacesOf(keys, key))
           = Cardinality(PlacesOf(Tail(keys), key)) + (IF key = keys[1] THEN 1 ELSE 0)
<1>1. /\ DOMAIN keys = 1 .. Len(keys) /\ Len(keys) \in Nat \ {0}
      /\ DOMAIN Tail(keys) = 1 .. Len(keys) - 1
      /\ \A k \in 1 .. Len(keys) - 1 : Tail(keys)[k] = keys[k + 1]
  OBVIOUS
<1> DEFINE later == PlacesOf(keys, key) \ {1}
           shift == [k \in later |-> k - 1]
<1>2. IsFiniteSet(PlacesOf(keys, key))
  BY PlacesAppend
<1>3. IsFiniteSet(later) /\ Cardinality(later) \in Nat
  BY <1>2, FS_RemoveElement, FS_CardinalityType
<1>4. ExistsBijection(later, PlacesOf(Tail(keys), key))
  <2>1. \A k \in later : k \in 2 .. Len(keys) /\ keys[k] = key
    BY <1>1 DEF PlacesOf
  <2>2. shift \in [later -> PlacesOf(Tail(keys), key)]
    BY <1>1, <2>1 DEF PlacesOf
  <2>3. \A j, k \in later : shift[j] = shift[k] => j = k
    BY <2>1
  <2>4. \A j \in PlacesOf(Tail(keys), key) : \E k \in later : shift[k] = j
    <3> TAKE j \in PlacesOf(Tail(keys), key)
    <3>1. j + 1 \in later /\ (j + 1) - 1 = j
      BY <1>1 DEF PlacesOf
    <3> QED
      BY <3>1
  <2> QED
    BY <2>2, <2>3, <2>4 DEF ExistsBijection, Bijection, Injection, Surjection, IsInjective
<1>5. Cardinality(PlacesOf(Tail(keys), key)) = Cardinality(later)
  BY <1>3, <1>4, FS_Bijection
<1>6. 1 \in PlacesOf(keys, key) <=> key = keys[1]
  BY <1>1 DEF PlacesOf
<1>7. Cardinality(later) = IF key = keys[1] THEN Cardinality(PlacesOf(keys, key)) - 1
                           ELSE Cardinality(PlacesOf(keys, key))
  BY <1>2, <1>6, FS_RemoveElement
<1> QED
  BY <1>2, <1>3, <1>5, <1>7, FS_CardinalityType

-----------------------------------------------------------------------------
(* The inductive invariant: what the runs check, over the cells a search   *)
(* reaches.                                                                *)
Buffer ==
  /\ age = [i \in 1 .. hashSize |-> inodeArray[i - 1]]
  /\ \A key \in Keys : Cardinality(HoldersOf(hashArray, key)) = Cardinality(PlacesOf(age, key))

TableInv ==
  /\ TypeOK
  /\ hashSize = Cardinality(LiveOf(hashArray))
  /\ AllReached(hashArray)
  /\ ~recovered => Buffer
  /\ InsertReturns

LEMMA InitTable == Init => TableInv
<1> SUFFICES ASSUME Init PROVE TableInv
  OBVIOUS
<1>1. TypeOK
  <2>1. hashArray \in [Cells -> Items \cup {EMPTY, DELETED}] /\ inodeArray \in [Cells -> Keys \cup {0}]
    BY DEF Init
  <2>2. age \in Seq(Keys)
    BY DEF Init
  <2>3. hashSize \in 0 .. SIZE
    BY SizeAssumption DEF Init
  <2>4. status \in {"running", "hung", "crashed"} /\ recovered \in BOOLEAN
    BY DEF Init
  <2> QED
    BY <2>1, <2>2, <2>3, <2>4 DEF TypeOK
<1>2. LiveOf(hashArray) = {} /\ \A key : HoldersOf(hashArray, key) = {} /\ PlacesOf(age, key) = {}
  BY DEF Init, LiveOf, HoldersOf, PlacesOf
<1>3. Cardinality(LiveOf(hashArray)) = 0 /\ hashSize = 0
  BY <1>2, FS_EmptySet DEF Init
<1>4. AllReached(hashArray)
  BY <1>2 DEF AllReached
<1>5. Buffer
  <2>1. age = [i \in 1 .. hashSize |-> inodeArray[i - 1]]
    BY DEF Init
  <2> QED
    BY <1>2, <2>1 DEF Buffer
<1> QED
  BY <1>1, <1>3, <1>4, <1>5 DEF TableInv, InsertReturns, Init

(* With hashSize below SIZE there is a cell to spare.                      *)
LEMMA Spare ==
  ASSUME NEW table \in Table, Cardinality(LiveOf(table)) < SIZE
  PROVE  LiveOf(table) # Cells
BY LiveFinite, SizeAssumption

(* The two changes of the table, with what they do to the counts.          *)
LEMMA InsertCounts ==
  ASSUME NEW table \in Table, AllReached(table), NEW key \in Keys,
         Cardinality(LiveOf(table)) < SIZE
  PROVE  /\ insertToHashTable(table, key) \in Table
         /\ AllReached(insertToHashTable(table, key))
         /\ Cardinality(LiveOf(insertToHashTable(table, key))) = Cardinality(LiveOf(table)) + 1
         /\ \A k : Cardinality(HoldersOf(insertToHashTable(table, key), k))
                     = Cardinality(HoldersOf(table, k)) + (IF k = key THEN 1 ELSE 0)
<1> DEFINE more == insertToHashTable(table, key)
<1>1. more \in Table /\ AllReached(more)
  BY Spare, InsertOne
<1>2. PICK at \in Cells \ LiveOf(table) :
              /\ LiveOf(more) = LiveOf(table) \cup {at}
              /\ \A k : HoldersOf(more, k)
                         = IF k = key THEN HoldersOf(table, k) \cup {at} ELSE HoldersOf(table, k)
  BY Spare, InsertOne
<1> HIDE DEF more
<1>3. Cardinality(LiveOf(more)) = Cardinality(LiveOf(table)) + 1
  BY <1>2, LiveFinite, FS_AddElement
<1>4. ASSUME NEW k
      PROVE  Cardinality(HoldersOf(more, k)) = Cardinality(HoldersOf(table, k)) + (IF k = key THEN 1 ELSE 0)
  <2>1. at \notin HoldersOf(table, k)
    BY <1>2 DEF HoldersOf
  <2>2. Cardinality(HoldersOf(table, k) \cup {at}) = Cardinality(HoldersOf(table, k)) + 1
    BY <2>1, LiveFinite, FS_AddElement
  <2>3. Cardinality(HoldersOf(table, k)) \in Nat
    BY LiveFinite
  <2>4. CASE k = key
    BY <1>2, <2>2, <2>4
  <2>5. CASE k # key
    BY <1>2, <2>3, <2>5
  <2> QED
    BY <2>4, <2>5
<1> QED
  BY <1>1, <1>3, <1>4 DEF more

LEMMA WithoutCounts ==
  ASSUME NEW table \in Table, AllReached(table), NEW key \in Nat, FoundAfter(table, key) # {}
  PROVE  /\ Without(table, key) \in Table
         /\ AllReached(Without(table, key))
         /\ Cardinality(LiveOf(Without(table, key))) = Cardinality(LiveOf(table)) - 1
         /\ \A k : Cardinality(HoldersOf(Without(table, key), k))
                     = Cardinality(HoldersOf(table, k)) - (IF k = key THEN 1 ELSE 0)
<1> DEFINE less == Without(table, key)
<1>1. less \in Table /\ AllReached(less)
  BY WithoutOne
<1>2. PICK at \in HoldersOf(table, key) :
              /\ LiveOf(less) = LiveOf(table) \ {at}
              /\ \A k : HoldersOf(less, k) = HoldersOf(table, k) \ {at}
  BY WithoutOne
<1> HIDE DEF less
<1>3. Cardinality(LiveOf(less)) = Cardinality(LiveOf(table)) - 1
  BY <1>2, LiveFinite, FS_RemoveElement DEF HoldersOf
<1>4. ASSUME NEW k
      PROVE  Cardinality(HoldersOf(less, k)) = Cardinality(HoldersOf(table, k)) - (IF k = key THEN 1 ELSE 0)
  <2>1. at \in HoldersOf(table, k) <=> k = key
    BY <1>2 DEF HoldersOf
  <2>2. Cardinality(HoldersOf(table, k)) \in Nat
    BY LiveFinite
  <2>3. CASE k = key
    BY <1>2, <2>1, <2>2, <2>3, LiveFinite, FS_RemoveElement
  <2>4. CASE k # key
    BY <1>2, <2>1, <2>2, <2>4
  <2> QED
    BY <2>3, <2>4
<1> QED
  BY <1>1, <1>3, <1>4 DEF less

-----------------------------------------------------------------------------
(* While no file was recovered, the oldest of a table with files is there. *)
LEMMA OldestFound ==
  ASSUME TableInv, ~recovered, hashSize > 0
  PROVE  /\ FoundAfter(hashArray, inodeArray[0]) # {}
         /\ age \in Seq(Keys) /\ age # << >> /\ Len(age) = hashSize
         /\ age[1] = inodeArray[0] /\ inodeArray[0] \in Keys
<1>1. /\ hashSize \in 1 .. SIZE /\ age \in Seq(Keys) /\ hashArray \in Table
      /\ inodeArray \in [Cells -> Keys \cup {0}]
  BY SizeAssumption DEF TableInv, TypeOK, Table
<1>2. age = [i \in 1 .. hashSize |-> inodeArray[i - 1]]
  BY DEF TableInv, Buffer
<1>3. Len(age) = hashSize /\ age # << >> /\ age[1] = inodeArray[0] /\ age[1] \in Keys
  BY <1>1, <1>2
<1>4. 1 \in PlacesOf(age, age[1])
  BY <1>1, <1>3 DEF PlacesOf
<1>5. Cardinality(PlacesOf(age, age[1])) # 0
  <2>1. IsFiniteSet(PlacesOf(age, age[1]))
    BY <1>1, <1>3, PlacesAppend
  <2> QED
    BY <1>4, <2>1, FS_EmptySet
<1>6. HoldersOf(hashArray, age[1]) # {}
  BY <1>3, <1>5, FS_EmptySet DEF TableInv, Buffer
<1> QED
  BY <1>1, <1>3, <1>6, FoundIfHeld DEF TableInv

LEMMA InsertPreserves ==
  ASSUME TableInv, NEW key \in Keys, insertToHash(key)
  PROVE  TableInv'
<1> DEFINE oldest == inodeArray[0]
<1>1. /\ hashSize \in 0 .. SIZE /\ hashSize \in Nat /\ SIZE \in Nat \ {0}
      /\ age \in Seq(Keys) /\ hashArray \in Table
      /\ inodeArray \in [Cells -> Keys \cup {0}] /\ AllReached(hashArray)
      /\ hashSize = Cardinality(LiveOf(hashArray)) /\ 0 \in Cells /\ oldest \in Nat
      /\ recovered \in BOOLEAN /\ status = "running" /\ recovered' = recovered
  BY SizeAssumption, KeysAssumption DEF TableInv, TypeOK, Table, Cells, insertToHash, Running
<1>2. CASE HasSpace
  <2>1. /\ inodeArray' = [inodeArray EXCEPT ![hashSize] = key]
        /\ hashArray' = insertToHashTable(hashArray, key)
        /\ hashSize' = hashSize + 1 /\ hashSize < SIZE
        /\ age' = Aged(Append(age, key)) /\ status' = status
    BY <1>2 DEF insertToHash, HasSpace
  <2>2. /\ hashArray' \in Table /\ AllReached(hashArray')
        /\ Cardinality(LiveOf(hashArray')) = hashSize + 1
        /\ \A k : Cardinality(HoldersOf(hashArray', k))
                    = Cardinality(HoldersOf(hashArray, k)) + (IF k = key THEN 1 ELSE 0)
    BY <1>1, <2>1, InsertCounts
  <2>3. /\ inodeArray' \in [Cells -> Keys \cup {0}] /\ inodeArray'[hashSize] = key
        /\ \A i \in Cells : i # hashSize => inodeArray'[i] = inodeArray[i]
    BY <1>1, <2>1 DEF Cells
  <2>4. age' \in Seq(Keys)
    BY <1>1, <2>1 DEF Aged
  <2>5. TypeOK'
    BY <1>1, <2>1, <2>2, <2>3, <2>4 DEF TypeOK, Table
  <2>6. ASSUME ~recovered PROVE Buffer'
    <3>1. age' = Append(age, key)
      BY <2>1, <2>6 DEF Aged
    <3>2. age = [i \in 1 .. hashSize |-> inodeArray[i - 1]] /\ Len(age) = hashSize
      BY <1>1, <2>6 DEF TableInv, Buffer
    <3>3. age' = [i \in 1 .. hashSize' |-> inodeArray'[i - 1]]
      <4>1. DOMAIN age' = 1 .. hashSize + 1 /\ age' = [i \in 1 .. hashSize + 1 |-> age'[i]]
        BY <1>1, <3>1, <3>2
      <4>2. ASSUME NEW i \in 1 .. hashSize + 1 PROVE age'[i] = inodeArray'[i - 1]
        <5>1. CASE i = hashSize + 1
          BY <1>1, <2>3, <3>1, <3>2, <5>1
        <5>2. CASE i # hashSize + 1
          <6>1. i \in 1 .. hashSize /\ i - 1 \in Cells /\ i - 1 # hashSize
            BY <1>1, <2>1, <5>2 DEF Cells
          <6>2. age'[i] = age[i]
            BY <1>1, <3>1, <3>2, <6>1
          <6> QED
            BY <2>3, <3>2, <6>1, <6>2
        <5> QED
          BY <5>1, <5>2
      <4> QED
        BY <2>1, <4>1, <4>2
    <3>4. ASSUME NEW k \in Keys
          PROVE  Cardinality(HoldersOf(hashArray', k)) = Cardinality(PlacesOf(age', k))
      <4>1. Cardinality(HoldersOf(hashArray, k)) = Cardinality(PlacesOf(age, k))
        BY <2>6 DEF TableInv, Buffer
      <4> QED
        BY <1>1, <2>2, <3>1, <4>1, PlacesAppend
    <3> QED
      BY <3>3, <3>4 DEF Buffer
  <2> QED
    BY <1>1, <2>1, <2>2, <2>5, <2>6 DEF TableInv, InsertReturns
<1>3. CASE ~HasSpace /\ FoundAfter(hashArray, oldest) # {}
  <2>1. /\ inodeArray' = [Shifted(inodeArray, hashSize) EXCEPT ![SIZE - 1] = key]
        /\ hashArray' = insertToHashTable(Without(hashArray, oldest), key)
        /\ age' = Aged(Append(Tail(age), key))
        /\ hashSize' = hashSize /\ status' = status /\ hashSize = SIZE
    BY <1>1, <1>3 DEF insertToHash, HasSpace
  <2> DEFINE less == Without(hashArray, oldest)
  <2>2. /\ less \in Table /\ AllReached(less)
        /\ Cardinality(LiveOf(less)) = hashSize - 1
        /\ \A k : Cardinality(HoldersOf(less, k))
                    = Cardinality(HoldersOf(hashArray, k)) - (IF k = oldest THEN 1 ELSE 0)
    BY <1>1, <1>3, WithoutCounts
  <2> HIDE DEF less
  <2>3. /\ hashArray' \in Table /\ AllReached(hashArray')
        /\ Cardinality(LiveOf(hashArray')) = hashSize
        /\ \A k : Cardinality(HoldersOf(hashArray', k))
                    = Cardinality(HoldersOf(less, k)) + (IF k = key THEN 1 ELSE 0)
    <3>1. hashArray' = insertToHashTable(less, key) /\ Cardinality(LiveOf(less)) < SIZE
      BY <1>1, <2>1, <2>2 DEF less
    <3> QED
      BY <1>1, <2>2, <3>1, InsertCounts
  <2>4. /\ inodeArray' \in [Cells -> Keys \cup {0}] /\ inodeArray'[SIZE - 1] = key
        /\ \A i \in Cells : i < SIZE - 1 => inodeArray'[i] = inodeArray[i + 1]
    BY <1>1, <2>1 DEF Cells, Shifted
  <2>5. age' \in Seq(Keys)
    <3>1. CASE recovered
      BY <2>1, <3>1 DEF Aged
    <3>2. CASE ~recovered
      BY <1>1, <2>1, <3>2, OldestFound DEF Aged
    <3> QED
      BY <3>1, <3>2
  <2>6. TypeOK'
    BY <1>1, <2>1, <2>3, <2>4, <2>5 DEF TypeOK, Table
  <2>7. ASSUME ~recovered PROVE Buffer'
    <3>1. age' = Append(Tail(age), key)
      BY <2>1, <2>7 DEF Aged
    <3>2. /\ age = [i \in 1 .. hashSize |-> inodeArray[i - 1]]
          /\ Len(age) = SIZE /\ age # << >> /\ age[1] = oldest
      BY <1>1, <2>1, <2>7, OldestFound DEF TableInv, Buffer
    <3>3. /\ Tail(age) \in Seq(Keys) /\ Len(Tail(age)) = SIZE - 1
          /\ \A i \in 1 .. SIZE - 1 : Tail(age)[i] = age[i + 1]
      BY <1>1, <3>2
    <3>4. age' = [i \in 1 .. hashSize' |-> inodeArray'[i - 1]]
      <4>1. age' = [i \in 1 .. SIZE |-> age'[i]]
        <5>1. Len(Append(Tail(age), key)) = (SIZE - 1) + 1
          BY <3>3
        <5>2. Append(Tail(age), key) \in Seq(Keys) /\ (SIZE - 1) + 1 = SIZE
          BY <1>1, <3>3
        <5> QED
          BY <1>1, <3>1, <5>1, <5>2, SeqForm
      <4>2. ASSUME NEW i \in 1 .. SIZE PROVE age'[i] = inodeArray'[i - 1]
        <5>1. CASE i = SIZE
          BY <1>1, <2>4, <3>1, <3>3, <5>1
        <5>2. CASE i # SIZE
          <6>1. i \in 1 .. SIZE - 1 /\ i - 1 \in Cells /\ i - 1 < SIZE - 1 /\ (i - 1) + 1 = i
            BY <1>1, <5>2 DEF Cells
          <6>2. age'[i] = age[i + 1]
            BY <1>1, <3>1, <3>3, <6>1
          <6>3. i + 1 \in 1 .. hashSize /\ (i + 1) - 1 = i
            BY <1>1, <2>1, <6>1
          <6>4. age[i + 1] = inodeArray[i]
            BY <3>2, <6>3
          <6> QED
            BY <2>4, <6>1, <6>2, <6>4
        <5> QED
          BY <5>1, <5>2
      <4> QED
        BY <2>1, <4>1, <4>2
    <3>5. ASSUME NEW k \in Keys
          PROVE  Cardinality(HoldersOf(hashArray', k)) = Cardinality(PlacesOf(age', k))
      <4>1. Cardinality(HoldersOf(hashArray, k)) = Cardinality(PlacesOf(age, k))
        BY <2>7 DEF TableInv, Buffer
      <4>2. /\ Cardinality(PlacesOf(Tail(age), k)) \in Nat
            /\ Cardinality(PlacesOf(Append(Tail(age), key), k))
                 = Cardinality(PlacesOf(Tail(age), k)) + (IF k = key THEN 1 ELSE 0)
        BY <3>3, PlacesAppend
      <4>3. Cardinality(PlacesOf(age, k))
              = Cardinality(PlacesOf(Tail(age), k)) + (IF k = oldest THEN 1 ELSE 0)
        BY <1>1, <3>2, PlacesTail
      <4> HIDE DEF oldest
      <4> QED
        BY <2>2, <2>3, <3>1, <4>1, <4>2, <4>3
    <3> QED
      BY <3>4, <3>5 DEF Buffer
  <2> QED
    BY <1>1, <2>1, <2>3, <2>6, <2>7 DEF TableInv, InsertReturns
<1>4. CASE ~HasSpace /\ FoundAfter(hashArray, oldest) = {}
  <2>1. /\ inodeArray' = Shifted(inodeArray, hashSize) /\ status' = "hung"
        /\ hashArray' = hashArray /\ hashSize' = hashSize /\ age' = age
        /\ hashSize > 0
    BY <1>1, <1>4 DEF insertToHash, HasSpace
  <2>2. recovered
    BY <1>4, <2>1, OldestFound
  <2>3. inodeArray' \in [Cells -> Keys \cup {0}]
    BY <1>1, <2>1 DEF Cells, Shifted
  <2>4. TypeOK'
    BY <1>1, <2>1, <2>3 DEF TypeOK, Table
  <2> QED
    BY <1>1, <2>1, <2>2, <2>4 DEF TableInv, InsertReturns
<1> QED
  BY <1>2, <1>3, <1>4

LEMMA RecoverPreserves ==
  ASSUME TableInv, NEW key \in Keys, deleteFromHashTable(key)
  PROVE  TableInv'
<1>1. /\ hashSize \in 1 .. SIZE /\ hashSize = Cardinality(LiveOf(hashArray))
      /\ hashArray \in Table /\ AllReached(hashArray) /\ key \in Nat
      /\ inodeArray \in [Cells -> Keys \cup {0}]
      /\ age' = << >> /\ recovered' = TRUE /\ inodeArray' = inodeArray /\ status = "running"
  BY SizeAssumption, KeysAssumption
     DEF TableInv, TypeOK, Table, deleteFromHashTable, Running
<1>2. age' \in Seq(Keys)
  BY <1>1
<1>3. CASE FoundAfter(hashArray, key) # {}
  <2>1. hashArray' = Without(hashArray, key) /\ hashSize' = hashSize - 1 /\ status' = status
    BY <1>3 DEF deleteFromHashTable
  <2>2. /\ hashArray' \in Table /\ AllReached(hashArray')
        /\ Cardinality(LiveOf(hashArray')) = hashSize - 1
    BY <1>1, <1>3, <2>1, WithoutCounts
  <2>3. TypeOK'
    BY <1>1, <1>2, <2>1, <2>2, SizeAssumption DEF TypeOK, Table
  <2> QED
    BY <1>1, <2>1, <2>2, <2>3 DEF TableInv, InsertReturns
<1>4. CASE FoundAfter(hashArray, key) = {}
  <2>1. /\ hashArray' = hashArray /\ hashSize' = hashSize
        /\ status' \in {"running", "hung"}
    BY <1>1, <1>4 DEF deleteFromHashTable
  <2>2. TypeOK'
    BY <1>1, <1>2, <2>1, SizeAssumption DEF TypeOK, Table
  <2> QED
    BY <1>1, <2>1, <2>2 DEF TableInv, InsertReturns
<1> QED
  BY <1>3, <1>4

LEMMA OldestPreserves ==
  ASSUME TableInv, deleteFromHash
  PROVE  TableInv'
<1> DEFINE oldest == inodeArray[0]
<1>1. /\ hashSize \in 1 .. SIZE /\ hashSize \in Nat /\ SIZE \in Nat \ {0}
      /\ hashSize = Cardinality(LiveOf(hashArray))
      /\ hashArray \in Table /\ AllReached(hashArray) /\ age \in Seq(Keys)
      /\ inodeArray \in [Cells -> Keys \cup {0}] /\ oldest \in Nat
      /\ recovered \in BOOLEAN /\ recovered' = recovered /\ status = "running"
      /\ inodeArray' = Shifted(inodeArray, hashSize)
  <2>1. /\ Running /\ hashSize > 0 /\ inodeArray' = Shifted(inodeArray, hashSize)
        /\ recovered' = recovered
    BY DEF deleteFromHash
  <2>2. /\ hashArray \in Table /\ hashSize \in 0 .. SIZE /\ age \in Seq(Keys)
        /\ inodeArray \in [Cells -> Keys \cup {0}] /\ recovered \in BOOLEAN
        /\ hashSize = Cardinality(LiveOf(hashArray)) /\ AllReached(hashArray)
    BY DEF TableInv, TypeOK, Table
  <2>3. oldest \in Nat
    BY <2>2, SizeAssumption, KeysAssumption DEF Cells
  <2> QED
    BY <2>1, <2>2, <2>3, SizeAssumption DEF Running
<1>2. /\ inodeArray' \in [Cells -> Keys \cup {0}]
      /\ \A i \in Cells : i < hashSize - 1 => inodeArray'[i] = inodeArray[i + 1]
  BY <1>1 DEF Cells, Shifted
<1>3. CASE FoundAfter(hashArray, oldest) # {}
  <2>1. /\ hashArray' = Without(hashArray, oldest) /\ hashSize' = hashSize - 1
        /\ age' = Aged(Tail(age)) /\ status' = status
    BY <1>3 DEF deleteFromHash
  <2>2. /\ hashArray' \in Table /\ AllReached(hashArray')
        /\ Cardinality(LiveOf(hashArray')) = hashSize - 1
        /\ \A k : Cardinality(HoldersOf(hashArray', k))
                    = Cardinality(HoldersOf(hashArray, k)) - (IF k = oldest THEN 1 ELSE 0)
    BY <1>1, <1>3, <2>1, WithoutCounts
  <2>3. age' \in Seq(Keys)
    <3>1. CASE recovered
      BY <2>1, <3>1 DEF Aged
    <3>2. CASE ~recovered
      BY <1>1, <2>1, <3>2, OldestFound DEF Aged
    <3> QED
      BY <3>1, <3>2
  <2>4. TypeOK'
    BY <1>1, <1>2, <2>1, <2>2, <2>3 DEF TypeOK, Table
  <2>5. ASSUME ~recovered PROVE Buffer'
    <3>1. age' = Tail(age)
      BY <2>1, <2>5 DEF Aged
    <3>2. /\ age = [i \in 1 .. hashSize |-> inodeArray[i - 1]]
          /\ Len(age) = hashSize /\ age # << >> /\ age[1] = oldest
      BY <1>1, <2>5, OldestFound DEF TableInv, Buffer
    <3>3. /\ Tail(age) \in Seq(Keys) /\ Len(Tail(age)) = hashSize - 1
          /\ \A i \in 1 .. hashSize - 1 : Tail(age)[i] = age[i + 1]
      BY <1>1, <3>2
    <3>4. age' = [i \in 1 .. hashSize' |-> inodeArray'[i - 1]]
      <4>1. age' = [i \in 1 .. hashSize - 1 |-> age'[i]]
        <5>1. hashSize - 1 \in Nat
          BY <1>1
        <5> QED
          BY <3>1, <3>3, <5>1, SeqForm
      <4>2. ASSUME NEW i \in 1 .. hashSize - 1 PROVE age'[i] = inodeArray'[i - 1]
        <5>1. i - 1 \in Cells /\ i - 1 < hashSize - 1 /\ (i - 1) + 1 = i
          BY <1>1 DEF Cells
        <5>2. i + 1 \in 1 .. hashSize /\ (i + 1) - 1 = i
          BY <1>1
        <5>3. age[i + 1] = inodeArray[i]
          BY <3>2, <5>2
        <5> QED
          BY <1>2, <3>1, <3>3, <5>1, <5>3
      <4> QED
        BY <2>1, <4>1, <4>2
    <3>5. ASSUME NEW k \in Keys
          PROVE  Cardinality(HoldersOf(hashArray', k)) = Cardinality(PlacesOf(age', k))
      <4>1. Cardinality(HoldersOf(hashArray, k)) = Cardinality(PlacesOf(age, k))
        BY <2>5 DEF TableInv, Buffer
      <4>2. Cardinality(PlacesOf(Tail(age), k)) \in Nat
        <5>1. k \in Keys
          OBVIOUS
        <5> QED
          BY <3>3, <5>1, PlacesAppend
      <4>3. Cardinality(PlacesOf(age, k))
              = Cardinality(PlacesOf(Tail(age), k)) + (IF k = oldest THEN 1 ELSE 0)
        BY <1>1, <3>2, PlacesTail
      <4> HIDE DEF oldest
      <4> QED
        BY <2>2, <3>1, <4>1, <4>2, <4>3
    <3> QED
      BY <3>4, <3>5 DEF Buffer
  <2> QED
    BY <1>1, <2>1, <2>2, <2>4, <2>5 DEF TableInv, InsertReturns
<1>4. CASE FoundAfter(hashArray, oldest) = {}
  <2>1. /\ hashArray' = hashArray /\ hashSize' = hashSize /\ age' = age
        /\ status' \in {"hung", "crashed"}
    BY <1>1, <1>4 DEF deleteFromHash
  <2>2. recovered
    BY <1>1, <1>4, OldestFound
  <2>3. TypeOK'
    BY <1>1, <1>2, <2>1 DEF TypeOK, Table
  <2> QED
    BY <1>1, <2>1, <2>2, <2>3 DEF TableInv, InsertReturns
<1> QED
  BY <1>3, <1>4

(* Taking a slash from a path leaves the file where it is.                 *)
LEMMA NamePreserves ==
  ASSUME TableInv, NEW key \in Keys, returnFileName(key)
  PROVE  TableInv'
<1> DEFINE at == Probe(key, Least(FoundAfter(hashArray, key)))
<1>1. /\ hashSize = Cardinality(LiveOf(hashArray)) /\ key \in Nat
      /\ hashArray \in Table /\ AllReached(hashArray) /\ TypeOK /\ status = "running"
      /\ hashSize' = hashSize /\ inodeArray' = inodeArray /\ age' = age /\ recovered' = recovered
      /\ FoundAfter(hashArray, key) # {}
  BY KeysAssumption DEF TableInv, TypeOK, Table, returnFileName, Running
<1>2. at \in LiveOf(hashArray) /\ at \in Cells
  BY <1>1, FoundIsHeld DEF HoldersOf, LiveOf
<1>3. CASE hashArray' = hashArray /\ status' \in {"running", "crashed"}
  <2>1. TypeOK'
    BY <1>1, <1>3 DEF TypeOK
  <2> QED
    BY <1>1, <1>3, <2>1 DEF TableInv, InsertReturns, Buffer
<1>4. CASE /\ hashArray[at].slashes > 0 /\ status' = status
           /\ hashArray' = [hashArray EXCEPT ![at].slashes = @ - 1]
  <2>1. hashArray[at] \in Items /\ hashArray[at].slashes \in 0 .. Slashes
    BY <1>1, <1>2, LiveItem
  <2>2. PICK item \in Items : item.key = hashArray[at].key
                              /\ item = [hashArray[at] EXCEPT !.slashes = @ - 1]
    <3>1. [hashArray[at] EXCEPT !.slashes = @ - 1] \in Items
      BY <1>4, <2>1, KeysAssumption DEF Items
    <3>2. [hashArray[at] EXCEPT !.slashes = @ - 1].key = hashArray[at].key
      BY <2>1 DEF Items
    <3> QED
      BY <3>1, <3>2
  <2>3. hashArray' = [hashArray EXCEPT ![at] = item]
    BY <1>4, <2>2
  <2> HIDE DEF at
  <2>4. /\ hashArray' \in Table /\ hashArray'[at] = item
        /\ \A i \in Cells : i # at => hashArray'[i] = hashArray[i]
    BY <1>1, <1>2, <2>3 DEF Table
  <2>5. item \notin {EMPTY, DELETED}
    BY MarksAssumption
  <2>6. LiveOf(hashArray') = LiveOf(hashArray)
    BY <1>2, <2>4, <2>5 DEF LiveOf
  <2>7. \A i \in LiveOf(hashArray) : hashArray'[i].key = hashArray[i].key
    BY <1>2, <2>2, <2>4 DEF LiveOf
  <2>8. \A k : HoldersOf(hashArray', k) = HoldersOf(hashArray, k)
    BY <2>6, <2>7 DEF HoldersOf
  <2>9. \A i \in Cells : hashArray[i] # EMPTY => hashArray'[i] # EMPTY
    BY <2>4, <2>5
  <2>10. AllReached(hashArray')
    <3> SUFFICES ASSUME NEW i \in LiveOf(hashArray') PROVE ReachedIn(hashArray', i)
      BY DEF AllReached
    <3>1. i \in LiveOf(hashArray) /\ hashArray'[i].key = hashArray[i].key /\ hashArray[i].key \in Nat
      BY <1>1, <2>6, <2>7, LiveItem
    <3>2. PICK n \in Cells : /\ Probe(hashArray[i].key, n) = i
                             /\ \A m \in 0 .. n : hashArray[Probe(hashArray[i].key, m)] # EMPTY
      BY <1>1, <3>1 DEF AllReached, ReachedIn
    <3>3. \A m \in 0 .. n : hashArray'[Probe(hashArray[i].key, m)] # EMPTY
      <4> TAKE m \in 0 .. n
      <4>1. Probe(hashArray[i].key, m) \in Cells
        BY <3>1, ProbeBefore
      <4> QED
        BY <2>9, <3>2, <4>1
    <3> QED
      BY <3>1, <3>2, <3>3 DEF ReachedIn
  <2>11. TypeOK'
    BY <1>1, <1>4, <2>4 DEF TypeOK, Table
  <2>12. ~recovered => Buffer'
    BY <1>1, <2>8 DEF TableInv, Buffer
  <2> QED
    BY <1>1, <1>4, <2>6, <2>10, <2>11, <2>12 DEF TableInv, InsertReturns
<1> QED
  BY <1>1, <1>3, <1>4 DEF returnFileName

LEMMA NextPreserves == TableInv /\ [Next]_vars => TableInv'
<1> SUFFICES ASSUME TableInv, [Next]_vars PROVE TableInv'
  OBVIOUS
<1>1. ASSUME NEW key \in Keys, insertToHash(key) PROVE TableInv'
  BY <1>1, InsertPreserves
<1>2. ASSUME NEW key \in Keys, deleteFromHashTable(key) PROVE TableInv'
  BY <1>2, RecoverPreserves
<1>3. CASE deleteFromHash
  BY <1>3, OldestPreserves
<1>4. CASE searchOnPath
  <2>1. TypeOK'
    BY <1>4 DEF searchOnPath, TableInv, TypeOK
  <2>2. status' = "hung" => status = "hung"
    BY <1>4 DEF searchOnPath
  <2> QED
    BY <1>4, <2>1, <2>2 DEF searchOnPath, TableInv, Buffer, InsertReturns
<1>5. ASSUME NEW key \in Keys, returnFileName(key) PROVE TableInv'
  BY <1>5, NamePreserves
<1>6. CASE UNCHANGED vars
  <2>1. TypeOK'
    BY <1>6 DEF vars, TableInv, TypeOK
  <2> QED
    BY <1>6, <2>1 DEF vars, TableInv, Buffer, InsertReturns
<1> QED
  BY <1>1, <1>2, <1>3, <1>4, <1>5, <1>6 DEF Next

THEOREM Inductive == Spec => []TableInv
BY InitTable, NextPreserves, PTL DEF Spec

-----------------------------------------------------------------------------
(* The theorems.                                                           *)

(* The cells, the count and the order keep their types, whatever the       *)
(* order of insertions, evictions and recoveries.                          *)
THEOREM TypesHold == Spec => []TypeOK
<1>1. TableInv => TypeOK
  BY DEF TableInv
<1> QED
  BY Inductive, <1>1, PTL

(* hashSize counts the files of the table: insertToHash may rely on it to  *)
(* know of a free cell.                                                    *)
THEOREM SizeIsRight == Spec => []SizeMatches
<1>1. TableInv => SizeMatches
  BY DEF TableInv, SizeMatches, Live, LiveOf
<1> QED
  BY Inductive, <1>1, PTL

(* A search by number reaches every file of the table, behind however many *)
(* cells that were deleted.                                                *)
THEOREM EveryFileFindable == Spec => []Findable
<1>1. TableInv => Findable
  <2> SUFFICES ASSUME TableInv, NEW i \in Live
               PROVE  i \in {Probe(hashArray[i].key, n) : n \in FoundAfter(hashArray, hashArray[i].key)}
    BY DEF Findable
  <2>1. i \in LiveOf(hashArray)
    BY DEF Live, LiveOf
  <2>2. PICK n \in Cells : /\ Probe(hashArray[i].key, n) = i
                           /\ \A m \in 0 .. n : hashArray[Probe(hashArray[i].key, m)] # EMPTY
    BY <2>1 DEF TableInv, AllReached, ReachedIn
  <2>3. n \in FoundAfter(hashArray, hashArray[i].key)
    BY <2>1, <2>2 DEF FoundAfter, Holds, LiveOf
  <2> QED
    BY <2>2, <2>3
<1> QED
  BY Inductive, <1>1, PTL

(* Until a file is recovered the table is a first-in first-out buffer of   *)
(* its size: it holds the files deleted last, and gives up the oldest.     *)
THEOREM FirstInFirstOut == Spec => []KeepsTheYoungest
<1>1. TableInv => KeepsTheYoungest
  BY DEF TableInv, KeepsTheYoungest, Buffer, HoldersOf, PlacesOf, LiveOf, Live
<1> QED
  BY Inductive, <1>1, PTL

(* An insertion cannot hang before a file was recovered.                   *)
THEOREM InsertionReturns == Spec => []InsertReturns
<1>1. TableInv => InsertReturns
  BY DEF TableInv
<1> QED
  BY Inductive, <1>1, PTL
=============================================================================
