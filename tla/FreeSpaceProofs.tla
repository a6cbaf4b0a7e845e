--------------------------- MODULE FreeSpaceProofs ---------------------------
(***************************************************************************)
(* Proofs about FreeSpace, for any sizes of blocks, zones, files and disk. *)
(***************************************************************************)
EXTENDS FreeSpace, NumberLemmas

(* The address of a position whose zone is z.                              *)
At(z, i) == z * zone_size + (i % zone_size)
Addr(i)  == At(zones[i \div zone_size], i)

LEMMA ZoneSize ==
  /\ zone_size \in Nat \ {0} /\ zone_size = block_size * scale
  /\ block_size \in Nat \ {0} /\ scale \in Nat \ {0}
<1>1. block_size \in Nat \ {0} /\ scale \in Nat \ {0}
  BY SizesAssumption
<1>2. \A a, b \in Nat \ {0} : a * b \in Nat \ {0}
  OBVIOUS
<1> QED
  BY <1>1, <1>2 DEF zone_size

(* The positions of a file are in any larger file.                         *)
LEMMA Larger ==
  ASSUME NEW n \in Nat, NEW m \in Nat, n <= m, NEW i \in 0 .. n - 1
  PROVE  i \in Nat /\ i < n /\ i \in 0 .. m - 1 /\ i \in 0 .. m
OBVIOUS

(* A position is a place in the file and an offset in the zone.            *)
LEMMA Position ==
  ASSUME NEW i \in Nat
  PROVE  /\ i \div zone_size \in Nat /\ i % zone_size \in Nat
         /\ (i \div zone_size) * zone_size \in Nat
         /\ i % zone_size < zone_size
         /\ i = (i \div zone_size) * zone_size + (i % zone_size)
<1>1. zone_size \in Nat \ {0}
  BY ZoneSize
<1>2. \E q \in Nat, r \in 0 .. zone_size - 1 :
         i = q * zone_size + r /\ q = i \div zone_size /\ r = i % zone_size
  BY <1>1, Division
<1>3. \A q \in Nat : q * zone_size \in Nat
  BY <1>1
<1> HIDE DEF zone_size
<1> QED
  BY <1>1, <1>2, <1>3

(* The block of a position, counted from the first block of the disk and   *)
(* from the first block of a zone.                                         *)
LEMMA Blocks ==
  ASSUME NEW i \in Nat
  PROVE  LET k == (i % zone_size) \div block_size
         IN  /\ k \in Nat /\ i % block_size \in 0 .. block_size - 1
             /\ i \div block_size = (i \div zone_size) * scale + k
             /\ \A z \in Nat : (z * scale + k) * block_size + (i % block_size) = At(z, i)
<1>1. /\ zone_size \in Nat \ {0} /\ zone_size = block_size * scale
      /\ block_size \in Nat \ {0} /\ scale \in Nat \ {0}
  BY ZoneSize
<1>2. PICK p \in Nat, r \in Nat : /\ i = p * zone_size + r
                                 /\ p = i \div zone_size /\ r = i % zone_size
  BY Position
<1>3. PICK k \in Nat, o \in 0 .. block_size - 1 :
         r = k * block_size + o /\ k = r \div block_size
  BY <1>1, Division
<1>4. \A z, s, b \in Nat : z * (b * s) + (k * b + o) = (z * s + k) * b + o
  OBVIOUS
<1>5. \A z \in Nat : z * zone_size + r = (z * scale + k) * block_size + o
  BY <1>1, <1>3, <1>4
<1>6. i = (p * scale + k) * block_size + o
  BY <1>2, <1>5
<1>7. p * scale + k \in Nat
  BY <1>1
<1>8. i \div block_size = p * scale + k /\ i % block_size = o
  BY <1>1, <1>6, <1>7, Quotient
<1> QED
  BY <1>2, <1>3, <1>5, <1>8 DEF At

LEMMA ReadMap ==
  ASSUME NEW i \in Nat, zones[i \div zone_size] \in Nat
  PROVE  read_map(i) * block_size + (i % block_size) = Addr(i)
BY Blocks DEF read_map, Addr

(* Within a zone, addresses follow each other as positions do.             *)
LEMMA SameZone ==
  ASSUME NEW i \in Nat, NEW j \in Nat, i \div zone_size = j \div zone_size, NEW z \in Nat
  PROVE  /\ At(z, i) \in Nat /\ At(z, j) = At(z, i) + (j - i)
         /\ \A x \in i .. j : x \div zone_size = i \div zone_size
<1>1. zone_size \in Nat \ {0}
  BY ZoneSize
<1>2. /\ i % zone_size \in Nat /\ j % zone_size \in Nat
      /\ (i \div zone_size) * zone_size \in Nat
      /\ i = (i \div zone_size) * zone_size + (i % zone_size)
      /\ j = (i \div zone_size) * zone_size + (j % zone_size)
  BY Position
<1>3. z * zone_size \in Nat
  BY <1>1
<1>4. At(z, i) \in Nat /\ At(z, j) = At(z, i) + (j - i)
  BY <1>2, <1>3 DEF At
<1>5. ASSUME NEW x \in i .. j PROVE x \div zone_size = i \div zone_size
  <2>1. i \div zone_size \in Nat /\ x \in Nat
    BY Position
  <2>2. /\ x \div zone_size \in Nat
        /\ x \div zone_size >= i \div zone_size <=> x >= (i \div zone_size) * zone_size
    BY <1>1, <2>1, Position, Floor
  <2>3. x >= i /\ i >= (i \div zone_size) * zone_size
    BY <1>2
  <2>4. x \div zone_size >= i \div zone_size
    BY <1>2, <2>1, <2>2, <2>3
  <2>5. /\ j \div zone_size >= x \div zone_size <=> j >= (x \div zone_size) * zone_size
        /\ (x \div zone_size) * zone_size \in Nat /\ x >= (x \div zone_size) * zone_size
    <3>1. j \div zone_size >= x \div zone_size <=> j >= (x \div zone_size) * zone_size
      BY <1>1, <2>2, Floor
    <3>2. /\ x % zone_size \in Nat /\ (x \div zone_size) * zone_size \in Nat
          /\ x = (x \div zone_size) * zone_size + (x % zone_size)
      BY <2>1, Position
    <3> QED
      BY <2>1, <3>1, <3>2
  <2>6. i \div zone_size >= x \div zone_size
    BY <2>1, <2>5
  <2> QED
    BY <2>1, <2>2, <2>4, <2>6
<1> QED
  BY <1>4, <1>5

LEMMA MinOfTwo ==
  ASSUME NEW a \in Nat, NEW b \in Nat
  PROVE  Min({a, b}) = IF a <= b THEN a ELSE b
<1>1. \A x \in {a, b} : (\A y \in {a, b} : x =< y) <=> x = IF a <= b THEN a ELSE b
  OBVIOUS
<1>2. Min({a, b}) \in {a, b} /\ \A y \in {a, b} : Min({a, b}) =< y
  <2>1. \E x \in {a, b} : \A y \in {a, b} : x =< y
    BY <1>1
  <2> QED
    BY <2>1 DEF Min
<1> QED
  BY <1>1, <1>2

LEMMA MaxOfTwo ==
  ASSUME NEW a \in Nat, NEW b \in Nat
  PROVE  Max({a, b}) = IF a <= b THEN b ELSE a
<1>1. \A x \in {a, b} : (\A y \in {a, b} : x >= y) <=> x = IF a <= b THEN b ELSE a
  OBVIOUS
<1>2. Max({a, b}) \in {a, b} /\ \A y \in {a, b} : Max({a, b}) >= y
  <2>1. \E x \in {a, b} : \A y \in {a, b} : x >= y
    BY <1>1
  <2> QED
    BY <2>1 DEF Max
<1> QED
  BY <1>1, <1>2

(* The blocks that zerozone_range goes through follow each other in the    *)
(* zone: it clears the bytes of the range, and no others.                  *)
LEMMA RangeClears ==
  ASSUME NEW position \in Nat, NEW len \in Nat, zones[position \div zone_size] \in Nat,
         \A x \in position .. position + len - 1 : x \div zone_size = position \div zone_size
  PROVE  zerozone_range(position, len)
           = {Addr(x) : x \in {y \in position .. position + len - 1 : Mapped(y)}}
<1> DEFINE range == position .. position + len - 1
           Q == Chunks(position, len)
           z == zones[position \div zone_size]
           B(q) == read_map(position) + (q \div block_size) - (position \div block_size)
           Count(q) == Min({block_size - (q % block_size), position + len - q})
           Chunk(q) == B(q) * block_size + (q % block_size)
                         .. B(q) * block_size + (q % block_size) + Count(q) - 1
<1>1. /\ zone_size \in Nat \ {0} /\ block_size \in Nat \ {0} /\ scale \in Nat \ {0}
      /\ z \in Nat
  BY ZoneSize
<1>2. \A x \in range : Mapped(x) <=> z # NO_ZONE
  BY DEF Mapped
<1>3. CASE len = 0 \/ z = NO_ZONE
  <2>1. zerozone_range(position, len) = {}
    BY <1>3 DEF zerozone_range, Mapped
  <2>2. {y \in range : Mapped(y)} = {}
    BY <1>2, <1>3
  <2> QED
    BY <2>1, <2>2
<1>4. CASE len # 0 /\ z # NO_ZONE
  <2>1. zerozone_range(position, len) = UNION {Chunk(q) : q \in Q}
    BY <1>4 DEF zerozone_range, Mapped
  <2>2. \A x \in range : x \in Nat /\ x \div zone_size = position \div zone_size /\ Addr(x) = At(z, x)
    BY DEF Addr
  <2>3. position \in range
    BY <1>4
  <2>4. ASSUME NEW q \in range PROVE B(q) * block_size + (q % block_size) = At(z, q)
    <3> DEFINE kp == (position % zone_size) \div block_size
               kq == (q % zone_size) \div block_size
               first == (position \div zone_size) * scale
    <3>1. /\ position \div block_size = first + kp /\ q \div block_size = first + kq
          /\ kp \in Nat /\ kq \in Nat
      BY <2>2, <2>3, <2>4, Blocks
    <3>2. first \in Nat /\ z * scale \in Nat
      BY <1>1, Position
    <3>3. read_map(position) = z * scale + kp
      BY DEF read_map
    <3>4. B(q) = z * scale + kq
      <4> HIDE DEF first, kp, kq, z
      <4> QED
        BY <3>1, <3>2, <3>3
    <3> QED
      BY <1>1, <2>2, <2>4, <3>4, Blocks
  <2> HIDE DEF B
  <2>5. ASSUME NEW q \in range
        PROVE  /\ (q % block_size) \in 0 .. block_size - 1
               /\ Count(q) = IF block_size - (q % block_size) <= position + len - q
                             THEN block_size - (q % block_size) ELSE position + len - q
               /\ Count(q) \in Nat
    <3>1. (q % block_size) \in 0 .. block_size - 1
      BY <2>2, Blocks
    <3>2. block_size - (q % block_size) \in Nat /\ position + len - q \in Nat
      BY <1>1, <3>1
    <3> QED
      BY <3>1, <3>2, MinOfTwo
  <2> HIDE DEF Count
  <2>6. ASSUME NEW q \in Q PROVE Chunk(q) = {Addr(x) : x \in q .. q + Count(q) - 1}
                                /\ q .. q + Count(q) - 1 \subseteq range
    <3>1. q \in range
      BY DEF Chunks
    <3>2. /\ Count(q) \in Nat /\ Count(q) <= position + len - q
          /\ Chunk(q) = At(z, q) .. At(z, q) + Count(q) - 1
      <4>1. Chunk(q) = At(z, q) .. At(z, q) + Count(q) - 1
        BY <2>4, <3>1
      <4> HIDE DEF Chunk
      <4>2. /\ q \in Nat /\ q <= position + len - 1
            /\ q % block_size \in 0 .. block_size - 1 /\ Count(q) \in Nat
            /\ Count(q) = IF block_size - (q % block_size) <= position + len - q
                          THEN block_size - (q % block_size) ELSE position + len - q
        BY <2>5, <3>1
      <4>3. Count(q) <= position + len - q
        BY <1>1, <4>2
      <4> QED
        BY <4>1, <4>2, <4>3
    <3> HIDE DEF Chunk
    <3>3. q .. q + Count(q) - 1 \subseteq range
      BY <3>1, <3>2
    <3>4. At(z, q) \in Nat /\ \A x \in q .. q + Count(q) - 1 : Addr(x) = At(z, q) + (x - q)
      <4>1. At(z, q) \in Nat
        BY <1>1, <2>2, <3>1, SameZone
      <4>2. ASSUME NEW x \in q .. q + Count(q) - 1 PROVE Addr(x) = At(z, q) + (x - q)
        BY <1>1, <2>2, <3>1, <3>3, <4>2, SameZone
      <4> QED
        BY <4>1, <4>2
    <3>5. ASSUME NEW a \in Chunk(q) PROVE \E x \in q .. q + Count(q) - 1 : a = Addr(x)
      <4>1. q + (a - At(z, q)) \in q .. q + Count(q) - 1
        BY <3>1, <3>2, <3>4, <3>5
      <4>2. Addr(q + (a - At(z, q))) = At(z, q) + ((q + (a - At(z, q))) - q)
        BY <3>4, <4>1
      <4>3. At(z, q) + ((q + (a - At(z, q))) - q) = a
        BY <3>1, <3>2, <3>4, <3>5
      <4> QED
        BY <4>1, <4>2, <4>3
    <3>6. ASSUME NEW x \in q .. q + Count(q) - 1 PROVE Addr(x) \in Chunk(q)
      <4>1. At(z, q) + (x - q) \in At(z, q) .. At(z, q) + Count(q) - 1
        BY <3>1, <3>2, <3>4, <3>6
      <4> QED
        BY <3>2, <3>4, <3>6, <4>1
    <3> QED
      BY <3>3, <3>5, <3>6
  <2>7. ASSUME NEW x \in range PROVE \E q \in Q : x \in q .. q + Count(q) - 1
    <3> DEFINE start == x - (x % block_size)
    <3>1. PICK k \in Nat, o \in 0 .. block_size - 1 :
             x = k * block_size + o /\ o = (x % block_size)
      BY <1>1, <2>2, <2>7, Division
    <3>2. k * block_size \in Nat /\ start = k * block_size
      BY <1>1, <3>1
    <3>3. CASE start >= position
      <4>1. (start % block_size) = 0
        <5>1. k * block_size = k * block_size + 0 /\ 0 \in 0 .. block_size - 1
          BY <1>1, <3>2
        <5>2. (k * block_size) % block_size = 0
          BY <1>1, <3>2, <5>1, Quotient
        <5> QED
          BY <3>2, <5>2
      <4>2. start \in range /\ start \in Nat /\ x = start + o
        BY <3>1, <3>2, <3>3, <2>7
      <4>3. start \in Q
        BY <4>1, <4>2 DEF Chunks
      <4> HIDE DEF start
      <4>4. Count(start) = IF block_size <= position + len - start THEN block_size
                           ELSE position + len - start
        BY <1>1, <2>5, <4>1, <4>2
      <4>5. x \in start .. start + Count(start) - 1
        BY <1>1, <2>7, <3>1, <4>2, <4>4
      <4> QED
        BY <4>3, <4>5
    <3>4. CASE start < position
      <4>1. position \in Q
        BY <2>3 DEF Chunks
      <4>2. (position % block_size) = position - start
        <5> DEFINE r == position - start
        <5>1. r \in 0 .. block_size - 1 /\ position = k * block_size + r
          BY <1>1, <2>7, <3>1, <3>2, <3>4
        <5> HIDE DEF r
        <5>2. (position % block_size) = r
          BY <1>1, <5>1, Quotient
        <5> QED
          BY <5>2 DEF r
      <4>3. start \in Nat /\ x = start + o
        BY <3>1, <3>2
      <4> HIDE DEF start
      <4>4. x \in position .. position + Count(position) - 1
        BY <1>1, <2>3, <2>5, <2>7, <3>1, <3>4, <4>2, <4>3
      <4> QED
        BY <4>1, <4>4
    <3> QED
      BY <2>2, <2>7, <3>2, <3>3, <3>4
  <2> HIDE DEF Q, Chunk
  <2>8. UNION {Chunk(q) : q \in Q} = {Addr(x) : x \in range}
    BY <2>6, <2>7
  <2>9. {y \in range : Mapped(y)} = range
    BY <1>2, <1>4
  <2> QED
    BY <2>1, <2>8, <2>9
<1> QED
  BY <1>1, <1>3, <1>4

-----------------------------------------------------------------------------
(* The zones a range begins and ends in.                                   *)
LEMMA Places1 ==
  /\ \A i \in 0 .. s_max_size : i \div zone_size \in Places
  /\ \A p \in Places : p \in Nat
<1>1. zone_size \in Nat \ {0} /\ s_max_size \in Nat
  BY ZoneSize, SizesAssumption
<1>2. s_max_size \div zone_size \in Nat
  BY <1>1, Position
<1>3. ASSUME NEW i \in 0 .. s_max_size PROVE i \div zone_size \in Places
  <2>1. i \in Nat /\ i \div zone_size \in Nat
    BY <1>1, Position
  <2>2. /\ i \div zone_size >= i \div zone_size <=> i >= (i \div zone_size) * zone_size
        /\ s_max_size \div zone_size >= i \div zone_size <=> s_max_size >= (i \div zone_size) * zone_size
    BY <1>1, <2>1, Floor
  <2>3. (i \div zone_size) * zone_size \in Nat
    BY <2>1, Position
  <2>4. i \div zone_size >= i \div zone_size
    BY <2>1
  <2>5. s_max_size >= (i \div zone_size) * zone_size
    BY <1>1, <2>1, <2>2, <2>3, <2>4
  <2> QED
    BY <1>2, <2>1, <2>2, <2>5 DEF Places
<1> QED
  BY <1>2, <1>3 DEF Places

LEMMA ZoneNumbers ==
  ASSUME TypeOK
  PROVE  \A p \in Places : /\ zones[p] \in Nat
                           /\ zones[p] # NO_ZONE => zones[p] \in DiskZones \ Others
<1>1. \A p \in Places : zones[p] \in {NO_ZONE} \cup (DiskZones \ Others)
  BY DEF TypeOK
<1>2. NO_ZONE \in Nat /\ DiskZones \subseteq Nat
  BY ZonesAssumption DEF NO_ZONE
<1> QED
  BY <1>1, <1>2

LEMMA NextBlock ==
  ASSUME NEW i \in Nat
  PROVE  LET next == nextblock(i) IN
         /\ next \in Nat /\ next \div zone_size \in Nat /\ next >= i
         /\ next = (next \div zone_size) * zone_size
         /\ zero_last(i) => /\ next = i + (zone_size - (i % zone_size)) /\ next > i
                            /\ next = (i \div zone_size) * zone_size + zone_size
                            /\ \A x \in i .. next - 1 : x \div zone_size = i \div zone_size
         /\ ~zero_last(i) => next = i
<1> DEFINE k == IF i % zone_size # 0 THEN i \div zone_size + 1 ELSE i \div zone_size
           floor == (i \div zone_size) * zone_size
<1>1. /\ zone_size \in Nat \ {0}
      /\ i \div zone_size \in Nat /\ i % zone_size \in Nat /\ floor \in Nat
      /\ i % zone_size < zone_size /\ i = floor + (i % zone_size)
  BY ZoneSize, Position
<1>2. k \in Nat
  BY <1>1
<1>3. nextblock(i) = floor + (IF i % zone_size # 0 THEN zone_size ELSE 0)
  BY DEF nextblock
<1>4. k * zone_size = floor + (IF i % zone_size # 0 THEN zone_size ELSE 0)
  <2>1. \A q, d \in Nat : (q + 1) * d = q * d + d
    OBVIOUS
  <2>2. (i \div zone_size + 1) * zone_size = floor + zone_size
    BY <1>1, <2>1
  <2> QED
    BY <1>1, <2>2
<1>5. nextblock(i) = k * zone_size + 0 /\ nextblock(i) \in Nat /\ 0 \in 0 .. zone_size - 1
  BY <1>1, <1>3, <1>4
<1> HIDE DEF k
<1>6. nextblock(i) \div zone_size = k /\ nextblock(i) = k * zone_size
  <2>1. nextblock(i) \div zone_size = k
    BY <1>1, <1>2, <1>5, Quotient
  <2>2. k * zone_size \in Nat
    BY <1>1, <1>2
  <2> QED
    BY <1>5, <2>1, <2>2
<1>7. /\ nextblock(i) >= i
      /\ zero_last(i) => /\ nextblock(i) = i + (zone_size - (i % zone_size))
                         /\ nextblock(i) > i /\ nextblock(i) = floor + zone_size
      /\ ~zero_last(i) => nextblock(i) = i
  <2> HIDE DEF floor
  <2> QED
    BY <1>1, <1>3 DEF zero_last
<1>8. ASSUME zero_last(i), NEW x \in i .. nextblock(i) - 1
      PROVE  x \div zone_size = i \div zone_size
  <2> DEFINE last == floor + (zone_size - 1)
  <2>1. zone_size - 1 \in 0 .. zone_size - 1 /\ last \in Nat /\ x \in i .. last
    BY <1>1, <1>3, <1>8 DEF zero_last
  <2>2. last \div zone_size = i \div zone_size
    BY <1>1, <2>1, Quotient
  <2> HIDE DEF last, floor
  <2> QED
    BY <2>1, <2>2, SameZone
<1> QED
  BY <1>2, <1>5, <1>6, <1>7, <1>8

(* A position at least at the beginning of a zone is in it or behind it.   *)
LEMMA Above ==
  ASSUME NEW i \in Nat, NEW n \in Nat, NEW k \in Nat, n = k * zone_size
  PROVE  i >= n <=> i \div zone_size >= k
BY ZoneSize, Floor

-----------------------------------------------------------------------------
(* The positions freesp_inode clears.                                      *)
Wiped(start, end) ==
  IF WithinZone(start, end) THEN start .. end - 1
  ELSE (IF zero_last(start) THEN start .. nextblock(start) - 1 ELSE {})
       \cup (IF zero_first(end) THEN end - (end % zone_size) .. end - 1 ELSE {})

MappedIn(S) == {x \in S : Mapped(x)}

(* The end of a range and the beginning of its last zone.                  *)
LEMMA RangeEnd ==
  ASSUME NEW end \in Nat, end > 0, end % zone_size # 0
  PROVE  LET floor == end - (end % zone_size)
         IN  /\ floor \in Nat /\ floor = (end \div zone_size) * zone_size /\ floor < end
             /\ floor \div zone_size = end \div zone_size
             /\ (end - 1) \div zone_size = end \div zone_size
             /\ \A x \in floor .. end - 1 : x \div zone_size = end \div zone_size
<1> DEFINE floor == (end \div zone_size) * zone_size
<1>1. /\ zone_size \in Nat \ {0}
      /\ end \div zone_size \in Nat /\ end % zone_size \in Nat /\ floor \in Nat
      /\ end % zone_size < zone_size /\ end = floor + (end % zone_size)
  BY ZoneSize, Position
<1>2. floor = floor + 0 /\ 0 \in 0 .. zone_size - 1
  BY <1>1
<1>3. floor \div zone_size = end \div zone_size
  BY <1>1, <1>2, Quotient
<1> HIDE DEF floor
<1>4. end - (end % zone_size) = floor /\ floor < end /\ end - 1 \in floor .. end
  BY <1>1
<1>5. \A x \in floor .. end : x \div zone_size = floor \div zone_size
  BY <1>1, <1>3, SameZone
<1>6. \A x \in floor .. end - 1 : x \div zone_size = end \div zone_size
  <2>1. \A x \in floor .. end - 1 : x \in floor .. end
    BY <1>1
  <2> QED
    BY <1>3, <1>5, <2>1
<1> QED
  BY <1>1, <1>3, <1>4, <1>5, <1>6 DEF floor

LEMMA Clears ==
  ASSUME TypeOK, NEW start \in Nat, NEW end \in Nat, start < end, end <= i_size
  PROVE  ClearedAddresses(start, end) = {Addr(x) : x \in MappedIn(Wiped(start, end))}
<1>1. /\ s_max_size \in Nat /\ start \in 0 .. s_max_size /\ end \in 0 .. s_max_size
      /\ zone_size \in Nat \ {0}
  BY SizesAssumption, ZoneSize DEF TypeOK
<1>2. ASSUME NEW x \in 0 .. s_max_size PROVE zones[x \div zone_size] \in Nat
  <2>1. x \div zone_size \in Places
    BY Places1
  <2>2. \A p \in Places : zones[p] \in Nat
    BY ZoneNumbers
  <2> QED
    BY <2>1, <2>2
<1>3. CASE WithinZone(start, end)
  <2>1. end - start \in Nat /\ end - 1 \in Nat /\ start + (end - start) - 1 = end - 1
    BY <1>1
  <2>2. \A x \in start .. end - 1 : x \div zone_size = start \div zone_size
    BY <1>1, <1>3, <2>1, <1>2, SameZone DEF WithinZone
  <2>3. zerozone_range(start, end - start)
          = {Addr(x) : x \in {y \in start .. end - 1 : Mapped(y)}}
    BY <1>1, <1>2, <2>1, <2>2, RangeClears
  <2> QED
    BY <1>3, <2>3 DEF ClearedAddresses, Wiped, MappedIn
<1>4. CASE ~WithinZone(start, end)
  <2>1. ASSUME zero_last(start)
        PROVE  zerozone_half(start, LAST_HALF)
                 = {Addr(x) : x \in MappedIn(start .. nextblock(start) - 1)}
    <3> DEFINE len == zone_size - (start % zone_size)
    <3>1. /\ start % zone_size \in Nat /\ start % zone_size < zone_size
          /\ nextblock(start) = start + len
          /\ \A x \in start .. nextblock(start) - 1 : x \div zone_size = start \div zone_size
      BY <2>1, Position, NextBlock
    <3>2. len \in Nat
      BY <1>1, <3>1
    <3>3. zerozone_half(start, LAST_HALF) = zerozone_range(start, len)
      BY DEF zerozone_half, HalfRange
    <3> HIDE DEF len
    <3>4. zones[start \div zone_size] \in Nat
      BY <1>1, <1>2
    <3>5. \A x \in start .. start + len - 1 : x \div zone_size = start \div zone_size
      BY <3>1, <3>2
    <3>6. zerozone_range(start, len)
            = {Addr(x) : x \in {y \in start .. start + len - 1 : Mapped(y)}}
      BY <3>2, <3>4, <3>5, RangeClears
    <3>7. start .. nextblock(start) - 1 = start .. start + len - 1
      BY <3>1, <3>2
    <3> QED
      BY <3>3, <3>6, <3>7 DEF MappedIn
  <2>2. ASSUME zero_first(end)
        PROVE  zerozone_half(end, FIRST_HALF)
                 = {Addr(x) : x \in MappedIn(end - (end % zone_size) .. end - 1)}
    <3> DEFINE len == end % zone_size
               floor == end - len
    <3>1. /\ len \in Nat /\ floor \in Nat /\ floor < end
          /\ \A x \in floor .. end - 1 : x \div zone_size = floor \div zone_size
      <4>1. end > 0 /\ end % zone_size # 0
        BY <2>2 DEF zero_first
      <4> QED
        BY <4>1, Position, RangeEnd
    <3>2. zerozone_half(end, FIRST_HALF) = zerozone_range(floor, len)
      BY DEF zerozone_half, HalfRange, FIRST_HALF, LAST_HALF
    <3>3. floor + len - 1 = end - 1 /\ floor \in 0 .. s_max_size
      BY <1>1, <3>1
    <3> HIDE DEF len, floor
    <3>4. zerozone_range(floor, len) = {Addr(x) : x \in {y \in floor .. end - 1 : Mapped(y)}}
      BY <1>2, <3>1, <3>3, RangeClears
    <3> QED
      BY <3>2, <3>4 DEF MappedIn, floor, len
  <2> DEFINE A == start .. nextblock(start) - 1
             B == end - (end % zone_size) .. end - 1
             L == IF zero_last(start) THEN A ELSE {}
             F == IF zero_first(end) THEN B ELSE {}
  <2>3. /\ ClearedAddresses(start, end)
             = (IF zero_last(start) THEN zerozone_half(start, LAST_HALF) ELSE {})
               \cup (IF zero_first(end) THEN zerozone_half(end, FIRST_HALF) ELSE {})
        /\ Wiped(start, end) = L \cup F
    BY <1>4 DEF ClearedAddresses, Wiped
  <2> HIDE DEF A, B
  <2>4. ClearedAddresses(start, end)
          = {Addr(x) : x \in MappedIn(L)} \cup {Addr(x) : x \in MappedIn(F)}
    <3>1. MappedIn({}) = {}
      BY DEF MappedIn
    <3> QED
      BY <2>1, <2>2, <2>3, <3>1 DEF A, B
  <2> HIDE DEF L, F
  <2>5. MappedIn(L \cup F) = MappedIn(L) \cup MappedIn(F)
    BY DEF MappedIn
  <2> QED
    BY <2>3, <2>4, <2>5
<1> QED
  BY <1>3, <1>4

-----------------------------------------------------------------------------
(* What a range covers: a part of it is cleared, the rest is in the zones  *)
(* that are freed.                                                         *)
CutEnd(end) == IF zero_first(end) THEN end - (end % zone_size) ELSE end

LEMMA LaterPlaces ==
  ASSUME NEW i \in Nat, NEW j \in Nat, i <= j
  PROVE  /\ i \div zone_size \in Nat /\ j \div zone_size \in Nat
         /\ i \div zone_size <= j \div zone_size
<1> DEFINE k == i \div zone_size
           low == k * zone_size
<1>1. k \in Nat /\ low \in Nat /\ i >= low /\ j \div zone_size \in Nat
  <2>1. /\ k \in Nat /\ low \in Nat /\ i % zone_size \in Nat /\ i = low + (i % zone_size)
        /\ j \div zone_size \in Nat
    BY Position
  <2> HIDE DEF k, low
  <2> QED
    BY <2>1
<1> HIDE DEF k
<1>2. j >= low
  <2> HIDE DEF low
  <2> QED
    BY <1>1
<1>3. j \div zone_size >= k
  BY <1>1, <1>2, Above
<1> QED
  BY <1>1, <1>3 DEF k

LEMMA EndOfFreed ==
  ASSUME NEW end \in Nat, i_size \in Nat, 0 < end, end <= i_size
  PROVE  /\ EndZone(end) \in Nat
         /\ \A i \in 0 .. i_size - 1 : i \div zone_size < EndZone(end) <=> i < CutEnd(end)
<1>1. end \div zone_size \in Nat /\ end % zone_size \in Nat /\ zone_size \in Nat \ {0}
  BY Position, ZoneSize
<1>2. \A i \in 0 .. i_size - 1 : i \in Nat /\ i \div zone_size \in Nat
  BY Position
<1>3. CASE end % zone_size = 0
  <2>1. CutEnd(end) = end /\ EndZone(end) = end \div zone_size
    BY <1>1, <1>3 DEF CutEnd, EndZone, zero_first
  <2>2. end = (end \div zone_size) * zone_size
    <3>1. end = (end \div zone_size) * zone_size + (end % zone_size)
      BY Position
    <3>2. (end \div zone_size) * zone_size \in Nat
      BY Position
    <3> QED
      BY <1>3, <3>1, <3>2
  <2>3. ASSUME NEW i \in 0 .. i_size - 1
        PROVE  i \div zone_size < EndZone(end) <=> i < CutEnd(end)
    <3>1. i >= end <=> i \div zone_size >= end \div zone_size
      BY <1>1, <1>2, <2>2, Above
    <3> QED
      BY <1>1, <1>2, <2>1, <3>1
  <2> QED
    BY <1>1, <2>1, <2>3
<1>4. CASE end % zone_size # 0 /\ end = i_size
  <2>1. CutEnd(end) = end /\ EndZone(end) = end \div zone_size + 1
    BY <1>1, <1>4 DEF CutEnd, EndZone, zero_first
  <2>2. ASSUME NEW i \in 0 .. i_size - 1
        PROVE  i \div zone_size < EndZone(end) <=> i < CutEnd(end)
    <3>1. i \in Nat /\ i <= end /\ i < end
      BY <1>4
    <3>2. i \div zone_size \in Nat /\ i \div zone_size <= end \div zone_size
      BY <3>1, LaterPlaces
    <3> QED
      BY <1>1, <2>1, <3>1, <3>2
  <2> QED
    BY <1>1, <2>1, <2>2
<1>5. CASE end % zone_size # 0 /\ end < i_size
  <2> DEFINE floor == end - (end % zone_size)
  <2>1. CutEnd(end) = floor /\ EndZone(end) = end \div zone_size
    BY <1>1, <1>5 DEF CutEnd, EndZone, zero_first
  <2>2. floor \in Nat /\ floor = (end \div zone_size) * zone_size
    BY <1>5, RangeEnd
  <2> HIDE DEF floor
  <2>3. ASSUME NEW i \in 0 .. i_size - 1
        PROVE  i \div zone_size < EndZone(end) <=> i < CutEnd(end)
    <3>1. i >= floor <=> i \div zone_size >= end \div zone_size
      BY <1>1, <1>2, <2>2, Above
    <3> QED
      BY <1>1, <1>2, <2>1, <2>2, <3>1
  <2> QED
    BY <1>1, <2>1, <2>3
<1> QED
  BY <1>1, <1>3, <1>4, <1>5

LEMMA Parts ==
  ASSUME NEW start \in Nat, NEW end \in Nat, i_size \in Nat, start < end, end <= i_size,
         ~WithinZone(start, end)
  PROVE  LET next == nextblock(start)
             cut == CutEnd(end)
         IN  /\ next \in start .. end /\ cut \in next .. end
             /\ Wiped(start, end) = (start .. next - 1) \cup (cut .. end - 1)
             /\ \A i \in 0 .. i_size - 1 :
                  i \div zone_size \in FreedPlaces(start, end) <=> i \in next .. cut - 1
<1> DEFINE next == nextblock(start)
           cut == CutEnd(end)
<1>1. /\ next \in Nat /\ next \div zone_size \in Nat /\ next >= start
      /\ next = (next \div zone_size) * zone_size
      /\ ~zero_last(start) => next = start
  BY NextBlock
<1>2. /\ cut \in Nat /\ cut <= end
      /\ ~zero_first(end) => cut = end
      /\ zero_first(end) => cut = end - (end % zone_size)
      /\ (end - 1) \div zone_size = cut \div zone_size \/ cut = end
  <2>1. CASE zero_first(end)
    <3>1. cut = end - (end % zone_size)
      BY <2>1 DEF CutEnd
    <3>2. end > 0 /\ end % zone_size # 0
      BY <2>1 DEF zero_first
    <3>3. LET floor == end - (end % zone_size)
          IN  /\ floor \in Nat /\ floor < end
              /\ floor \div zone_size = end \div zone_size
              /\ (end - 1) \div zone_size = end \div zone_size
      BY <3>2, RangeEnd
    <3> HIDE DEF cut
    <3> QED
      BY <2>1, <3>1, <3>3
  <2>2. CASE ~zero_first(end)
    BY <2>2 DEF CutEnd
  <2> QED
    BY <2>1, <2>2
<1>3. ASSUME zero_last(start) \/ zero_first(end)
      PROVE  /\ start \div zone_size \in Nat /\ (end - 1) \div zone_size \in Nat
             /\ start \div zone_size < (end - 1) \div zone_size
  <2>1. start \div zone_size # (end - 1) \div zone_size
    BY <1>3 DEF WithinZone
  <2>2. end - 1 \in Nat /\ start <= end - 1
    OBVIOUS
  <2>3. /\ start \div zone_size \in Nat /\ (end - 1) \div zone_size \in Nat
        /\ start \div zone_size <= (end - 1) \div zone_size
    BY <2>2, LaterPlaces
  <2> QED
    BY <2>1, <2>3
<1>4. zero_last(start) => next \div zone_size = start \div zone_size + 1
  <2> SUFFICES ASSUME zero_last(start) PROVE next \div zone_size = start \div zone_size + 1
    OBVIOUS
  <2>1. /\ next = (start \div zone_size) * zone_size + zone_size
        /\ start \div zone_size \in Nat /\ zone_size \in Nat \ {0}
    BY NextBlock, Position, ZoneSize
  <2>2. \A q, d \in Nat : (q + 1) * d + 0 = q * d + d
    OBVIOUS
  <2>3. next = (start \div zone_size + 1) * zone_size + 0 /\ 0 \in 0 .. zone_size - 1
    BY <2>1, <2>2
  <2> HIDE DEF next
  <2> QED
    BY <1>1, <2>1, <2>3, Quotient
<1> HIDE DEF next, cut
<1>5. next <= cut
  <2>1. CASE zero_last(start)
    <3>1. /\ (end - 1) \div zone_size >= next \div zone_size /\ end - 1 \in Nat
      BY <1>3, <1>4, <2>1
    <3>2. end - 1 >= next
      BY <1>1, <3>1, Above
    <3>3. CASE cut = end
      BY <1>1, <3>2, <3>3
    <3>4. CASE (end - 1) \div zone_size = cut \div zone_size
      BY <1>1, <1>2, <3>1, <3>4, Above
    <3> QED
      BY <1>2, <3>3, <3>4
  <2>2. CASE ~zero_last(start) /\ zero_first(end)
    <3>1. CASE cut = end
      BY <1>1, <2>2, <3>1
    <3>2. CASE (end - 1) \div zone_size = cut \div zone_size
      <4>1. ASSUME cut <= start PROVE FALSE
        <5>1. /\ cut \div zone_size \in Nat /\ start \div zone_size \in Nat
              /\ cut \div zone_size <= start \div zone_size
          BY <1>2, <4>1, LaterPlaces
        <5> QED
          BY <1>3, <2>2, <3>2, <5>1
      <4> QED
        BY <1>1, <1>2, <2>2, <4>1
    <3> QED
      BY <1>2, <3>1, <3>2
  <2>3. CASE ~zero_last(start) /\ ~zero_first(end)
    BY <1>1, <1>2, <2>3
  <2> QED
    BY <2>1, <2>2, <2>3
<1>6. Wiped(start, end) = (start .. next - 1) \cup (cut .. end - 1)
  <2>1. Wiped(start, end)
          = (IF zero_last(start) THEN start .. next - 1 ELSE {})
            \cup (IF zero_first(end) THEN end - (end % zone_size) .. end - 1 ELSE {})
    BY DEF Wiped, next
  <2>2. ~zero_last(start) => start .. next - 1 = {}
    BY <1>1
  <2>3. ~zero_first(end) => cut .. end - 1 = {}
    BY <1>2
  <2> QED
    BY <1>2, <2>1, <2>2, <2>3
<1>7. ASSUME NEW i \in 0 .. i_size - 1
      PROVE  i \div zone_size \in FreedPlaces(start, end) <=> i \in next .. cut - 1
  <2>1. i \in Nat /\ i \div zone_size \in Nat
    <3>1. i \in Nat
      OBVIOUS
    <3> QED
      BY <3>1, Position
  <2>2. EndZone(end) \in Nat /\ (i \div zone_size < EndZone(end) <=> i < cut)
    BY EndOfFreed DEF cut
  <2>3. i >= next <=> i \div zone_size >= next \div zone_size
    BY <1>1, <2>1, Above
  <2>4. FreedPlaces(start, end) = next \div zone_size .. EndZone(end) - 1
    BY DEF FreedPlaces, next
  <2> QED
    BY <1>1, <1>2, <2>1, <2>2, <2>3, <2>4
<1> QED
  BY <1>1, <1>2, <1>5, <1>6, <1>7 DEF next, cut

(* All of the range, and nothing else.                                     *)
LEMMA Covered ==
  ASSUME NEW start \in Nat, NEW end \in Nat, i_size \in Nat, start < end, end <= i_size,
         NEW i \in 0 .. i_size - 1
  PROVE  /\ i \in start .. end - 1
              <=> i \in Wiped(start, end) \/ i \div zone_size \in FreedPlaces(start, end)
         /\ Wiped(start, end) \subseteq start .. end - 1
<1>1. CASE WithinZone(start, end)
  BY <1>1 DEF Wiped, FreedPlaces
<1>2. CASE ~WithinZone(start, end)
  <2> DEFINE next == nextblock(start)
             cut == CutEnd(end)
  <2>1. /\ next \in start .. end /\ cut \in next .. end
        /\ Wiped(start, end) = (start .. next - 1) \cup (cut .. end - 1)
        /\ i \div zone_size \in FreedPlaces(start, end) <=> i \in next .. cut - 1
    BY <1>2, Parts
  <2> HIDE DEF next, cut
  <2> QED
    BY <2>1
<1> QED
  BY <1>1, <1>2

(* A zone the file has is freed when no byte that is kept is in it.        *)
LEMMA KeptPlaces ==
  ASSUME NEW start \in Nat, NEW end \in Nat, i_size \in Nat, start < end, end <= i_size,
         NEW p \in Nat, p * zone_size < i_size
  PROVE  p \notin FreedPlaces(start, end)
           <=> \E i \in 0 .. start - 1 \cup end .. i_size - 1 : i \div zone_size = p
<1> DEFINE low == p * zone_size
<1>1. low \in 0 .. i_size - 1 /\ low \div zone_size = p
  <2>1. low \in Nat /\ low = p * zone_size + 0 /\ 0 \in 0 .. zone_size - 1
    BY ZoneSize
  <2> HIDE DEF low
  <2>2. low \div zone_size = p
    BY <2>1, ZoneSize, Quotient
  <2>3. low < i_size
    BY DEF low
  <2> QED
    BY <2>1, <2>2, <2>3
<1>2. ASSUME NEW i \in 0 .. start - 1 \cup end .. i_size - 1, i \div zone_size = p
      PROVE  p \notin FreedPlaces(start, end)
  <2>1. i \in 0 .. i_size - 1 /\ i \notin start .. end - 1
    OBVIOUS
  <2> QED
    BY <1>2, <2>1, Covered
<1>3. ASSUME p \notin FreedPlaces(start, end)
      PROVE  \E i \in 0 .. start - 1 \cup end .. i_size - 1 : i \div zone_size = p
  <2>1. CASE low \notin start .. end - 1
    <3> HIDE DEF low
    <3>1. low \in 0 .. start - 1 \cup end .. i_size - 1
      BY <1>1, <2>1
    <3> QED
      BY <1>1, <3>1
  <2>2. CASE low \in start .. end - 1
    <3>1. ASSUME zero_last(start), start \div zone_size = p PROVE FALSE
      <4>1. /\ start = low + (start % zone_size) /\ start % zone_size \in Nat
            /\ start % zone_size # 0
        BY <3>1, Position DEF zero_last
      <4> HIDE DEF low
      <4> QED
        BY <1>1, <2>2, <4>1
    <3>2. ASSUME zero_first(end), end \div zone_size = p
          PROVE  \E i \in 0 .. start - 1 \cup end .. i_size - 1 : i \div zone_size = p
      <4>1. end \in end .. i_size - 1
        BY <3>2 DEF zero_first
      <4> QED
        BY <3>2, <4>1
    <3>3. zero_first(end) =>
             LET floor == end - (end % zone_size)
             IN  /\ (end - 1) \div zone_size = end \div zone_size
                 /\ \A x \in floor .. end - 1 : x \div zone_size = end \div zone_size
      <4>1. end > 0
        OBVIOUS
      <4> QED
        BY <4>1, RangeEnd DEF zero_first
    <3> HIDE DEF low
    <3>4. CASE WithinZone(start, end)
      <4>1. start \in Nat /\ low \in Nat /\ end - 1 \in Nat /\ start <= low /\ low <= end - 1
        BY <1>1, <2>2
      <4>2. /\ start \div zone_size \in Nat /\ start \div zone_size <= p
            /\ (end - 1) \div zone_size \in Nat /\ p <= (end - 1) \div zone_size
        BY <1>1, <4>1, LaterPlaces
      <4>3. start \div zone_size = p /\ (end - 1) \div zone_size = p
        BY <3>4, <4>2 DEF WithinZone
      <4> QED
        BY <3>1, <3>2, <3>3, <3>4, <4>3 DEF WithinZone
    <3>5. CASE ~WithinZone(start, end)
      <4> DEFINE next == nextblock(start)
                 cut == CutEnd(end)
      <4>1. low \in (start .. next - 1) \cup (cut .. end - 1)
        BY <1>1, <1>3, <2>2, <3>5, Covered, Parts
      <4>2. ASSUME low \in start .. next - 1 PROVE FALSE
        <5>1. zero_last(start) \/ next = start
          BY NextBlock
        <5>2. next = start => start .. next - 1 = {}
          OBVIOUS
        <5>3. zero_last(start) => start \div zone_size = p
          <6>1. zero_last(start) => \A x \in start .. next - 1 : x \div zone_size = start \div zone_size
            BY NextBlock
          <6> HIDE DEF next
          <6> QED
            BY <1>1, <4>2, <6>1
        <5> HIDE DEF next
        <5> QED
          BY <3>1, <4>2, <5>1, <5>2, <5>3
      <4>3. ASSUME low \in cut .. end - 1
            PROVE  zero_first(end) /\ end \div zone_size = p
        <5>1. zero_first(end)
          <6>1. ~zero_first(end) => cut = end
            BY DEF CutEnd
          <6> HIDE DEF cut
          <6> QED
            BY <4>3, <6>1
        <5>2. cut = end - (end % zone_size)
          BY <5>1 DEF CutEnd
        <5> HIDE DEF cut
        <5> QED
          BY <1>1, <3>3, <4>3, <5>1, <5>2
      <4> QED
        BY <3>2, <4>1, <4>2, <4>3
    <3> QED
      BY <3>4, <3>5
  <2> QED
    BY <2>1, <2>2
<1> QED
  BY <1>2, <1>3

(* The addresses of a zone.                                                *)
LEMMA InZone ==
  ASSUME NEW z \in DiskZones, NEW i \in Nat
  PROVE  /\ At(z, i) \in Addresses
         /\ At(z, i) \div zone_size = z /\ At(z, i) % zone_size = i % zone_size
<1>1. z \in Nat /\ zone_size \in Nat \ {0} /\ i % zone_size \in 0 .. zone_size - 1
  <2>1. z \in Nat /\ zone_size \in Nat \ {0}
    BY ZonesAssumption, ZoneSize
  <2> QED
    BY <2>1, ModuloRange
<1>2. z * zone_size \in Nat /\ At(z, i) = z * zone_size + (i % zone_size)
  BY <1>1 DEF At
<1>3. At(z, i) \in Nat
  BY <1>1, <1>2
<1>4. At(z, i) \div zone_size = z /\ At(z, i) % zone_size = i % zone_size
  BY <1>1, <1>2, <1>3, Quotient
<1>5. At(z, i) \in z * zone_size .. z * zone_size + zone_size - 1
  <2> HIDE DEF zone_size, At
  <2> QED
    BY <1>1, <1>2
<1> QED
  BY <1>4, <1>5 DEF Addresses

LEMMA ZoneOfAddress ==
  ASSUME NEW a \in Addresses
  PROVE  a \in Nat /\ a \div zone_size \in DiskZones /\ a \div zone_size # NO_ZONE
<1>1. PICK z \in DiskZones : a \in z * zone_size .. z * zone_size + zone_size - 1
  BY DEF Addresses
<1>2. z \in Nat /\ z # NO_ZONE /\ zone_size \in Nat \ {0} /\ z * zone_size \in Nat
  BY ZonesAssumption, ZoneSize DEF NO_ZONE
<1> DEFINE low == z * zone_size
           r == a - low
<1>3. r \in 0 .. zone_size - 1 /\ a = low + r /\ a \in Nat
  <2> HIDE DEF zone_size
  <2>1. low \in Nat /\ a \in low .. low + zone_size - 1
    BY <1>1, <1>2
  <2> HIDE DEF low
  <2> QED
    BY <1>2, <2>1
<1> HIDE DEF r
<1>4. a \div zone_size = z
  BY <1>2, <1>3, Quotient
<1> QED
  BY <1>2, <1>3, <1>4

(* A position is known by its place in the file and its offset there.      *)
LEMMA SameAddress ==
  ASSUME NEW z \in DiskZones, NEW w \in DiskZones, NEW i \in Nat, NEW j \in Nat,
         At(z, i) = At(w, j)
  PROVE  z = w /\ (i \div zone_size = j \div zone_size => i = j)
<1>1. z = w /\ i % zone_size = j % zone_size
  BY InZone
<1> QED
  BY <1>1, Position

-----------------------------------------------------------------------------
(* No zone is at two places of the file.                                   *)
OnePlaceEach ==
  \A p, q \in Places : zones[p] # NO_ZONE /\ zones[p] = zones[q] => p = q

(* What is not zero belongs to another file, or to a byte of this one: in  *)
(* the rest of the file's last zone, and in the free zones, all is zero.   *)
OwnBytes ==
  \A a \in Addresses :
    disk[a] = 1 /\ ~Other(a) =>
      \E i \in 0 .. i_size - 1 : zones[i \div zone_size] # NO_ZONE /\ a = Addr(i)

IInv ==
  /\ TypeOK /\ OthersUntouched /\ NoneBehindEnd /\ NeverWraps
  /\ OnePlaceEach /\ OwnBytes

(* A mapped position has an address of its own, outside of other files.    *)
LEMMA OwnAddress ==
  ASSUME IInv, NEW i \in Nat, i \div zone_size \in Places, zones[i \div zone_size] # NO_ZONE
  PROVE  /\ zones[i \div zone_size] \in DiskZones \ Others
         /\ Addr(i) \in Addresses /\ ~Other(Addr(i))
         /\ Addr(i) \div zone_size = zones[i \div zone_size]
         /\ \A j \in Nat :
              /\ j \div zone_size \in Places /\ zones[j \div zone_size] # NO_ZONE
              /\ Addr(i) = Addr(j)
              => i = j
<1>1. TypeOK /\ OnePlaceEach
  BY DEF IInv
<1>2. ASSUME NEW j \in Nat, j \div zone_size \in Places, zones[j \div zone_size] # NO_ZONE
      PROVE  zones[j \div zone_size] \in DiskZones \ Others
  BY <1>1, <1>2, ZoneNumbers
<1>3. Addr(i) \in Addresses /\ Addr(i) \div zone_size = zones[i \div zone_size]
  BY <1>2, InZone DEF Addr
<1>4. ASSUME NEW j \in Nat, j \div zone_size \in Places, zones[j \div zone_size] # NO_ZONE,
             Addr(i) = Addr(j)
      PROVE  i = j
  <2>1. /\ zones[i \div zone_size] = zones[j \div zone_size]
        /\ i \div zone_size = j \div zone_size => i = j
    BY <1>2, <1>4, SameAddress DEF Addr
  <2>2. i \div zone_size = j \div zone_size
    BY <1>1, <1>4, <2>1 DEF OnePlaceEach
  <2> QED
    BY <2>1, <2>2
<1> QED
  BY <1>2, <1>3, <1>4 DEF Other

(* Behind the end all is zero.                                             *)
LEMMA ZeroBehindEnd ==
  ASSUME IInv, NEW i \in Nat, i \div zone_size \in Places, zones[i \div zone_size] # NO_ZONE,
         i >= i_size
  PROVE  disk[Addr(i)] = 0
<1>1. TypeOK /\ OwnBytes /\ s_max_size \in Nat /\ i_size \in 0 .. s_max_size
  BY SizesAssumption DEF IInv, TypeOK
<1>2. Addr(i) \in Addresses /\ ~Other(Addr(i))
  BY OwnAddress
<1>3. disk[Addr(i)] \in 0 .. 1
  BY <1>1, <1>2 DEF TypeOK
<1>4. ASSUME disk[Addr(i)] = 1 PROVE FALSE
  <2>1. PICK j \in 0 .. i_size - 1 : zones[j \div zone_size] # NO_ZONE /\ Addr(i) = Addr(j)
    BY <1>1, <1>2, <1>4 DEF OwnBytes
  <2>2. j \in 0 .. s_max_size /\ j \in Nat /\ j # i
    BY <1>1
  <2>3. j \div zone_size \in Places
    BY <2>2, Places1
  <2> QED
    BY <2>1, <2>2, <2>3, OwnAddress
<1> QED
  BY <1>3, <1>4

LEMMA CountedFits ==
  ASSUME TypeOK, NEW start \in Nat, NEW end \in Nat, start < end, end <= i_size,
         NEW v \in Counted(start, end)
  PROVE  v \in Int /\ v <= OFF_MAX
<1>1. /\ i_size \in 0 .. s_max_size /\ s_max_size \in Nat /\ OFF_MAX \in Nat
      /\ s_max_size <= OFF_MAX
  BY SizesAssumption DEF TypeOK
<1>2. v \in Int /\ v <= end
  <2>1. CASE WithinZone(start, end)
    BY <2>1 DEF Counted
  <2>2. CASE ~WithinZone(start, end)
    <3> DEFINE next == nextblock(start)
               first == HalfRange(start, LAST_HALF)
               second == HalfRange(end, FIRST_HALF)
    <3>1. next \in start .. end
      BY <1>1, <2>2, Parts
    <3>2. zero_last(start) => first[1] + first[2] = next
      <4>1. first = <<start, zone_size - (start % zone_size)>>
        BY DEF HalfRange
      <4> QED
        BY <4>1, NextBlock
    <3>3. second[1] + second[2] = end
      <4>1. second = <<end - (end % zone_size), end % zone_size>>
        BY DEF HalfRange, FIRST_HALF, LAST_HALF
      <4>2. end % zone_size \in Nat
        BY Position
      <4>3. (end - (end % zone_size)) + (end % zone_size) = end
        BY <4>2
      <4> QED
        BY <4>1, <4>3
    <3>4. ASSUME NEW p \in FreedPlaces(start, end) PROVE p * zone_size \in Nat /\ p * zone_size <= end
      <4>1. EndZone(end) \in Nat /\ next \div zone_size \in Nat
        BY <1>1, EndOfFreed, NextBlock
      <4>2. p \in next \div zone_size .. EndZone(end) - 1
        BY <2>2 DEF FreedPlaces
      <4>3. end \div zone_size \in Nat /\ EndZone(end) - 1 <= end \div zone_size
        BY Position DEF EndZone
      <4>4. p \in Nat /\ end \div zone_size >= p
        <5> HIDE DEF next
        <5> QED
          BY <4>1, <4>2, <4>3
      <4>5. end \div zone_size >= p <=> end >= p * zone_size
        BY <4>4, ZoneSize, Floor
      <4>6. p * zone_size \in Nat
        BY <4>4, ZoneSize
      <4> QED
        BY <4>4, <4>5, <4>6
    <3>5. \/ v = next \/ v \in LoopValues(start, end)
          \/ zero_last(start) /\ v = first[1] + first[2]
          \/ zero_first(end) /\ v = second[1] + second[2]
      <4> DEFINE H == (IF zero_last(start) THEN {first} ELSE {})
                      \cup (IF zero_first(end) THEN {second} ELSE {})
      <4>1. Counted(start, end) = {r[1] + r[2] : r \in H} \cup {next} \cup LoopValues(start, end)
        BY <2>2 DEF Counted
      <4> HIDE DEF next, first, second
      <4>2. \A r \in H : (zero_last(start) /\ r = first) \/ (zero_first(end) /\ r = second)
        OBVIOUS
      <4> HIDE DEF H
      <4> QED
        BY <4>1, <4>2
    <3> HIDE DEF next, first, second
    <3>6. CASE v \in LoopValues(start, end)
      BY <3>4, <3>6 DEF LoopValues
    <3>7. CASE v = next \/ v = end
      BY <3>1, <3>7
    <3> QED
      BY <3>2, <3>3, <3>5, <3>6, <3>7
  <2> QED
    BY <2>1, <2>2
<1> QED
  BY <1>1, <1>2

-----------------------------------------------------------------------------
(* What freesp_inode does to a file: the zones without a byte that is kept *)
(* are gone, the bytes of the range are zero where they still have an      *)
(* address, and no other byte has changed.                                 *)
LEMMA FreespStep ==
  ASSUME IInv, NEW start \in Nat, NEW end \in Nat, start < end, end <= i_size,
         freesp_inode(start, end)
  PROVE  /\ zones' = [p \in Places |-> IF p \in FreedPlaces(start, end) THEN NO_ZONE ELSE zones[p]]
         /\ disk' \in [Addresses -> 0 .. 1] /\ wrapped' = FALSE
         /\ \A a \in Addresses : Other(a) => disk'[a] = disk[a]
         /\ \A a \in Addresses : disk'[a] = 1 /\ ~Other(a) =>
              \E i \in 0 .. start - 1 \cup end .. i_size - 1 :
                zones'[i \div zone_size] # NO_ZONE /\ a = Addr(i) /\ a = At(zones'[i \div zone_size], i)
         /\ \A i \in 0 .. i_size - 1 : zones'[i \div zone_size] # NO_ZONE =>
              /\ zones[i \div zone_size] # NO_ZONE
              /\ zones'[i \div zone_size] = zones[i \div zone_size]
              /\ disk'[Addr(i)] = IF i \in start .. end - 1 THEN 0 ELSE disk[Addr(i)]
<1> DEFINE cleared == {Addr(x) : x \in MappedIn(Wiped(start, end))}
           freed == FreedPlaces(start, end)
           free == {zones[p] : p \in freed}
<1>1. /\ TypeOK /\ OwnBytes /\ ~wrapped
      /\ s_max_size \in Nat /\ i_size \in 0 .. s_max_size
  BY SizesAssumption DEF IInv, TypeOK, NeverWraps
<1>2. /\ zones' = [p \in Places |-> IF p \in freed THEN NO_ZONE ELSE zones[p]]
      /\ disk' = [a \in Addresses |->
                    IF a \in cleared \/ a \div zone_size \in free THEN 0 ELSE disk[a]]
      /\ wrapped' = (wrapped \/ \E v \in Counted(start, end) : v > OFF_MAX)
  BY <1>1, Clears DEF freesp_inode
<1>3. wrapped' = FALSE
  <2>1. \A v \in Counted(start, end) : ~(v > OFF_MAX)
    <3>1. \A v \in Counted(start, end) : v \in Int /\ v <= OFF_MAX
      BY <1>1, CountedFits
    <3>2. OFF_MAX \in Nat
      BY SizesAssumption
    <3> QED
      BY <3>1, <3>2
  <2> QED
    BY <1>1, <1>2, <2>1
<1> HIDE DEF cleared, freed
<1>4. freed \subseteq Places
  <2> SUFFICES ASSUME ~WithinZone(start, end) PROVE freed \subseteq Places
    BY DEF freed, FreedPlaces
  <2>1. freed = nextblock(start) \div zone_size .. EndZone(end) - 1
    BY DEF freed, FreedPlaces
  <2>2. nextblock(start) \div zone_size \in Nat /\ EndZone(end) \in Nat
    BY <1>1, NextBlock, EndOfFreed
  <2>3. end \div zone_size \in Places /\ end \div zone_size \in Nat
    BY <1>1, Places1
  <2>4. EndZone(end) - 1 <= end \div zone_size
    BY <2>3 DEF EndZone
  <2>5. s_max_size \div zone_size \in Nat
    BY <1>1, Position
  <2> QED
    BY <2>1, <2>2, <2>3, <2>4, <2>5 DEF Places
<1>5. ASSUME NEW i \in 0 .. i_size - 1
      PROVE  /\ i \in 0 .. s_max_size /\ i \in Nat /\ i \div zone_size \in Places
             /\ i \in start .. end - 1 <=> i \in Wiped(start, end) \/ i \div zone_size \in freed
             /\ Wiped(start, end) \subseteq start .. end - 1
             /\ zones'[i \div zone_size]
                  = IF i \div zone_size \in freed THEN NO_ZONE ELSE zones[i \div zone_size]
  <2>1. i \in 0 .. s_max_size /\ i \in Nat
    BY <1>1
  <2>2. i \div zone_size \in Places
    BY <2>1, Places1
  <2>3. /\ i \in start .. end - 1 <=> i \in Wiped(start, end) \/ i \div zone_size \in freed
        /\ Wiped(start, end) \subseteq start .. end - 1
    BY <1>1, Covered DEF freed
  <2> QED
    BY <1>2, <2>1, <2>2, <2>3
<1>6. Wiped(start, end) \subseteq 0 .. i_size - 1
  <2>1. start \in 0 .. i_size - 1
    BY <1>1
  <2>2. Wiped(start, end) \subseteq start .. end - 1
    BY <1>5, <2>1
  <2> QED
    BY <1>1, <2>2
<1>7. \A p \in freed : zones[p] \notin Others \/ zones[p] = NO_ZONE
  BY <1>1, <1>4, ZoneNumbers
<1>8. disk \in [Addresses -> 0 .. 1]
  BY <1>1 DEF TypeOK
<1>9. ASSUME NEW a \in Addresses, Other(a) PROVE disk'[a] = disk[a]
  <2>1. a \notin cleared
    <3> SUFFICES ASSUME NEW x \in MappedIn(Wiped(start, end)), a = Addr(x) PROVE FALSE
      BY DEF cleared
    <3>1. x \in 0 .. i_size - 1 /\ zones[x \div zone_size] # NO_ZONE
      BY <1>6 DEF MappedIn, Mapped
    <3> QED
      BY <1>5, <1>9, <3>1, OwnAddress
  <2>2. a \div zone_size \notin free
    <3>1. a \div zone_size \in Others /\ a \div zone_size # NO_ZONE
      BY <1>9, ZoneOfAddress DEF Other
    <3> QED
      BY <1>7, <3>1
  <2> QED
    BY <1>2, <2>1, <2>2
<1>10. ASSUME NEW i \in 0 .. i_size - 1, zones'[i \div zone_size] # NO_ZONE
       PROVE  /\ zones[i \div zone_size] # NO_ZONE
              /\ zones'[i \div zone_size] = zones[i \div zone_size]
              /\ disk'[Addr(i)] = IF i \in start .. end - 1 THEN 0 ELSE disk[Addr(i)]
  <2>1. /\ zones[i \div zone_size] # NO_ZONE /\ i \div zone_size \notin freed
        /\ zones'[i \div zone_size] = zones[i \div zone_size]
    BY <1>5, <1>10
  <2>2. /\ Addr(i) \in Addresses /\ Addr(i) \div zone_size = zones[i \div zone_size]
        /\ \A j \in Nat :
             /\ j \div zone_size \in Places /\ zones[j \div zone_size] # NO_ZONE
             /\ Addr(i) = Addr(j)
             => i = j
    BY <1>5, <2>1, OwnAddress
  <2>3. Addr(i) \div zone_size \notin free
    <3> SUFFICES ASSUME NEW p \in freed, zones[i \div zone_size] = zones[p] PROVE FALSE
      BY <2>2
    <3>1. p = i \div zone_size
      BY <1>4, <1>5, <2>1 DEF OnePlaceEach, IInv
    <3> QED
      BY <2>1, <3>1
  <2>4. Addr(i) \in cleared <=> i \in Wiped(start, end)
    <3>1. ASSUME i \in Wiped(start, end) PROVE Addr(i) \in cleared
      BY <2>1, <3>1 DEF cleared, MappedIn, Mapped
    <3>2. ASSUME NEW x \in MappedIn(Wiped(start, end)), Addr(i) = Addr(x) PROVE i = x
      <4>1. x \in 0 .. i_size - 1 /\ zones[x \div zone_size] # NO_ZONE
        BY <1>6 DEF MappedIn, Mapped
      <4> QED
        BY <1>5, <2>2, <3>2, <4>1
    <3> QED
      BY <3>1, <3>2 DEF cleared, MappedIn
  <2>5. disk'[Addr(i)] = IF i \in Wiped(start, end) THEN 0 ELSE disk[Addr(i)]
    BY <1>2, <2>2, <2>3, <2>4
  <2> QED
    BY <1>5, <2>1, <2>5
<1>11. ASSUME NEW a \in Addresses, disk'[a] = 1, ~Other(a)
       PROVE  \E i \in 0 .. start - 1 \cup end .. i_size - 1 :
                zones'[i \div zone_size] # NO_ZONE /\ a = Addr(i) /\ a = At(zones'[i \div zone_size], i)
  <2>1. disk[a] = 1 /\ a \notin cleared /\ a \div zone_size \notin free
    BY <1>2, <1>11
  <2>2. PICK i \in 0 .. i_size - 1 : zones[i \div zone_size] # NO_ZONE /\ a = Addr(i)
    BY <1>1, <1>11, <2>1 DEF OwnBytes
  <2>3. i \div zone_size \notin freed
    <3>1. a \div zone_size = zones[i \div zone_size]
      BY <1>5, <2>2, OwnAddress
    <3> QED
      BY <2>1, <3>1
  <2>4. i \notin Wiped(start, end)
    BY <2>1, <2>2 DEF cleared, MappedIn, Mapped
  <2>5. i \notin start .. end - 1 /\ zones'[i \div zone_size] = zones[i \div zone_size]
    BY <1>5, <2>3, <2>4
  <2>6. i \in 0 .. start - 1 \cup end .. i_size - 1
    BY <1>1, <2>5
  <2> QED
    BY <2>2, <2>5, <2>6 DEF Addr
<1>12. disk' \in [Addresses -> 0 .. 1]
  BY <1>2, <1>8
<1> QED
  BY <1>2, <1>3, <1>9, <1>10, <1>11, <1>12 DEF freed

-----------------------------------------------------------------------------
(* What a reader finds at a position, before a step and after it.          *)
LEMMA ByteNow ==
  ASSUME TypeOK, NEW i \in 0 .. s_max_size
  PROVE  Byte(i) = IF i < i_size /\ zones[i \div zone_size] # NO_ZONE THEN disk[Addr(i)] ELSE 0
<1>1. i \in Nat /\ zones[i \div zone_size] \in Nat
  <2>1. i \div zone_size \in Places /\ i \in Nat
    BY Places1, SizesAssumption
  <2> QED
    BY <2>1, ZoneNumbers
<1>2. read_map(i) * block_size + (i % block_size) = Addr(i)
  BY <1>1, ReadMap
<1> QED
  BY <1>2 DEF Byte, Mapped

LEMMA ByteNext ==
  ASSUME TypeOK', NEW i \in 0 .. s_max_size
  PROVE  Byte(i)' = IF i < i_size' /\ zones'[i \div zone_size] # NO_ZONE
                    THEN disk'[At(zones'[i \div zone_size], i)] ELSE 0
<1>1. i \in Nat /\ zones'[i \div zone_size] \in Nat
  <2>1. i \div zone_size \in Places /\ i \in Nat
    BY Places1, SizesAssumption
  <2>2. zones' \in [Places -> {NO_ZONE} \cup (DiskZones \ Others)]
    BY DEF TypeOK
  <2>3. NO_ZONE \in Nat /\ DiskZones \subseteq Nat
    BY ZonesAssumption DEF NO_ZONE
  <2> QED
    BY <2>1, <2>2, <2>3
<1>2. (zones'[i \div zone_size] * scale + ((i % zone_size) \div block_size)) * block_size
        + (i % block_size) = At(zones'[i \div zone_size], i)
  BY <1>1, Blocks
<1>3. Byte(i)' = IF i < i_size' /\ zones'[i \div zone_size] # NO_ZONE
                 THEN disk'[(zones'[i \div zone_size] * scale + ((i % zone_size) \div block_size))
                              * block_size + (i % block_size)]
                 ELSE 0
  BY DEF Byte, Mapped, read_map
<1> QED
  BY <1>2, <1>3

Taken == {p \in Places : zones[p] # NO_ZONE}

(* Cutting keeps the invariant, and does to the bytes and the zones of the *)
(* file what is promised.                                                  *)
LEMMA CutStep ==
  ASSUME IInv, NEW start \in Nat, NEW end \in Nat, start < end, end <= i_size,
         freesp_inode(start, end), UNCHANGED <<special, rd_only>>,
         i_size' = i_size \/ (i_size' = start /\ end = i_size)
  PROVE  /\ IInv'
         /\ Taken' = Taken \cap
              {i \div zone_size : i \in 0 .. start - 1 \cup end .. i_size - 1}
         /\ \A i \in 0 .. s_max_size - 1 :
              Byte(i)' = IF start <= i /\ i < end THEN 0 ELSE Byte(i)
<1> DEFINE freed == FreedPlaces(start, end)
           kept == 0 .. start - 1 \cup end .. i_size - 1
<1>1. /\ TypeOK /\ NoneBehindEnd /\ OthersUntouched /\ OnePlaceEach
      /\ s_max_size \in Nat /\ i_size \in 0 .. s_max_size
  BY SizesAssumption DEF IInv, TypeOK
<1>2. /\ zones' = [p \in Places |-> IF p \in freed THEN NO_ZONE ELSE zones[p]]
      /\ disk' \in [Addresses -> 0 .. 1] /\ wrapped' = FALSE
      /\ \A a \in Addresses : Other(a) => disk'[a] = disk[a]
      /\ \A a \in Addresses : disk'[a] = 1 /\ ~Other(a) =>
           \E i \in kept : /\ zones'[i \div zone_size] # NO_ZONE /\ a = Addr(i)
                           /\ a = At(zones'[i \div zone_size], i)
      /\ \A i \in 0 .. i_size - 1 : zones'[i \div zone_size] # NO_ZONE =>
           /\ zones[i \div zone_size] # NO_ZONE
           /\ zones'[i \div zone_size] = zones[i \div zone_size]
           /\ disk'[Addr(i)] = IF i \in start .. end - 1 THEN 0 ELSE disk[Addr(i)]
  BY FreespStep
<1>3. /\ i_size' \in 0 .. s_max_size /\ i_size' <= i_size
      /\ i_size' = i_size \/ i_size' = start
      /\ kept \subseteq 0 .. i_size' - 1
  BY <1>1
<1>4. ASSUME NEW p \in Places, zones[p] # NO_ZONE
      PROVE  p \notin freed <=> \E i \in kept : i \div zone_size = p
  <2>1. p \in Nat /\ p * zone_size < i_size /\ i_size \in Nat
    BY <1>1, <1>4, Places1 DEF NoneBehindEnd
  <2> QED
    BY <2>1, KeptPlaces
<1> HIDE DEF freed, kept
<1>5. TypeOK'
  <2>1. zones \in [Places -> {NO_ZONE} \cup (DiskZones \ Others)]
        /\ special \in BOOLEAN /\ rd_only \in BOOLEAN
    BY <1>1 DEF TypeOK
  <2>2. zones' \in [Places -> {NO_ZONE} \cup (DiskZones \ Others)]
    BY <1>2, <2>1
  <2> QED
    BY <1>2, <1>3, <2>1, <2>2 DEF TypeOK
<1>6. OthersUntouched'
  BY <1>1, <1>2 DEF OthersUntouched, Other
<1>7. NoneBehindEnd'
  <2> SUFFICES ASSUME NEW p \in Places, zones'[p] # NO_ZONE PROVE p * zone_size < i_size'
    BY DEF NoneBehindEnd
  <2>1. zones[p] # NO_ZONE /\ p \notin freed
    BY <1>2
  <2>2. PICK i \in kept : i \div zone_size = p
    BY <1>4, <2>1
  <2>3. i \in Nat /\ i < i_size'
    <3>1. i_size' \in Nat
      BY <1>1, <1>3
    <3>2. i \in 0 .. i_size' - 1
      BY <1>3, <2>2
    <3>3. \A n \in Nat : \A j \in 0 .. n - 1 : j \in Nat /\ j < n
      OBVIOUS
    <3> QED
      BY <3>1, <3>2, <3>3, Zenon
  <2>4. /\ (i \div zone_size) * zone_size \in Nat /\ i % zone_size \in Nat
        /\ i = (i \div zone_size) * zone_size + (i % zone_size)
    BY <2>3, Position
  <2>5. p * zone_size \in Nat /\ p * zone_size <= i
    BY <2>2, <2>3, <2>4
  <2> HIDE DEF zone_size
  <2> QED
    BY <1>3, <2>3, <2>5
<1>8. OnePlaceEach'
  BY <1>1, <1>2 DEF OnePlaceEach
<1>9. OwnBytes'
  <2> SUFFICES ASSUME NEW a \in Addresses, disk'[a] = 1, ~Other(a)
               PROVE  \E i \in 0 .. i_size' - 1 :
                        zones'[i \div zone_size] # NO_ZONE /\ a = At(zones'[i \div zone_size], i)
    BY DEF OwnBytes, Other, Addr, At
  <2> QED
    BY <1>2, <1>3
<1>10. IInv'
  BY <1>2, <1>5, <1>6, <1>7, <1>8, <1>9 DEF IInv, NeverWraps
<1>11. Taken' = Taken \cap {i \div zone_size : i \in kept}
  <2>1. ASSUME NEW p \in Places
        PROVE  zones'[p] # NO_ZONE <=> zones[p] # NO_ZONE /\ \E i \in kept : i \div zone_size = p
    BY <1>2, <1>4
  <2> QED
    BY <2>1 DEF Taken
<1>12. ASSUME NEW i \in 0 .. s_max_size - 1
       PROVE  Byte(i)' = IF start <= i /\ i < end THEN 0 ELSE Byte(i)
  <2>1. i \in 0 .. s_max_size /\ i \div zone_size \in Places /\ i \in Nat
    BY <1>1, Places1
  <2>2. Byte(i) = IF i < i_size /\ zones[i \div zone_size] # NO_ZONE THEN disk[Addr(i)] ELSE 0
    BY <1>1, <2>1, ByteNow
  <2>3. Byte(i)' = IF i < i_size' /\ zones'[i \div zone_size] # NO_ZONE
                   THEN disk'[At(zones'[i \div zone_size], i)] ELSE 0
    BY <1>5, <2>1, ByteNext
  <2>4. CASE i >= i_size
    BY <1>1, <1>3, <2>1, <2>2, <2>3, <2>4
  <2>5. CASE i < i_size /\ zones'[i \div zone_size] # NO_ZONE
    <3>1. /\ zones[i \div zone_size] # NO_ZONE
          /\ At(zones'[i \div zone_size], i) = Addr(i)
          /\ disk'[Addr(i)] = IF i \in start .. end - 1 THEN 0 ELSE disk[Addr(i)]
      <4>1. i \in 0 .. i_size - 1
        BY <1>1, <2>1, <2>5
      <4> QED
        BY <1>2, <2>5, <4>1 DEF Addr
    <3>2. i < i_size' \/ (start <= i /\ i < end)
      BY <1>1, <1>3, <2>1, <2>5
    <3> QED
      BY <2>1, <2>2, <2>3, <2>5, <3>1, <3>2
  <2>6. CASE i < i_size /\ zones'[i \div zone_size] = NO_ZONE
    <3>1. zones[i \div zone_size] # NO_ZONE => i \div zone_size \in freed
      BY <1>2, <2>1, <2>6
    <3>2. i \div zone_size \in freed => i \in start .. end - 1
      <4>1. i \in 0 .. i_size - 1 /\ i_size \in Nat
        BY <1>1, <2>1, <2>6
      <4> QED
        BY <4>1, Covered DEF freed
    <3> QED
      BY <2>1, <2>2, <2>3, <2>6, <3>1, <3>2
  <2> QED
    BY <1>1, <2>1, <2>4, <2>5, <2>6
<1> QED
  BY <1>10, <1>11, <1>12 DEF kept

(* What is behind the end of a file is zero already: clear_zone, whatever  *)
(* it clears, changes nothing.                                             *)
LEMMA ClearStep ==
  ASSUME IInv, clear_zone(i_size)
  PROVE  disk' = disk
<1> DEFINE next == nextblock(i_size)
           rest == i_size .. next - 1
           address(i) == read_map(i_size) * block_size + (i_size % block_size) + i - i_size
<1>1. /\ TypeOK /\ s_max_size \in Nat /\ i_size \in Nat /\ i_size \in 0 .. s_max_size
      /\ disk \in [Addresses -> 0 .. 1]
  BY SizesAssumption DEF IInv, TypeOK
<1>2. PICK clears \in {{}, rest} :
        disk' = [a \in Addresses |->
                   IF Mapped(i_size) /\ a \in {address(i) : i \in clears} THEN 0 ELSE disk[a]]
  BY DEF clear_zone
<1>3. i_size \div zone_size \in Places /\ zones[i_size \div zone_size] \in Nat
  BY <1>1, Places1, ZoneNumbers
<1>4. ASSUME Mapped(i_size), NEW i \in rest PROVE disk[address(i)] = 0
  <2>1. i \in Nat /\ i >= i_size /\ i \div zone_size = i_size \div zone_size
    <3>1. /\ ~zero_last(i_size) => next = i_size
          /\ zero_last(i_size) => \A x \in i_size .. next - 1 : x \div zone_size = i_size \div zone_size
      BY <1>1, NextBlock
    <3> HIDE DEF next
    <3> QED
      BY <1>1, <1>4, <3>1
  <2>2. /\ Addr(i_size) = read_map(i_size) * block_size + (i_size % block_size)
        /\ Addr(i_size) \in Nat /\ Addr(i) = Addr(i_size) + (i - i_size)
    <3>1. Addr(i_size) = read_map(i_size) * block_size + (i_size % block_size)
      BY <1>1, <1>3, ReadMap
    <3> QED
      BY <1>1, <1>3, <2>1, <3>1, SameZone DEF Addr
  <2>3. address(i) = Addr(i)
    <3> DEFINE here == read_map(i_size) * block_size + (i_size % block_size)
    <3>1. address(i) = here + i - i_size /\ here \in Nat /\ Addr(i) = here + (i - i_size)
      BY <2>2
    <3> HIDE DEF here, address
    <3> QED
      BY <1>1, <2>1, <3>1
  <2>4. disk[Addr(i)] = 0
    BY <1>3, <1>4, <2>1, ZeroBehindEnd DEF Mapped
  <2> QED
    BY <2>3, <2>4
<1> HIDE DEF address, rest
<1>5. \A a \in Addresses : disk'[a] = disk[a]
  BY <1>2, <1>4
<1>6. disk' = [a \in Addresses |-> disk'[a]] /\ disk = [a \in Addresses |-> disk[a]]
  BY <1>1, <1>2
<1> QED
  BY <1>5, <1>6

(* An extended file has the bytes and the zones it had.                    *)
LEMMA ExtendStep ==
  ASSUME IInv, NEW n \in Nat, Extend(n)
  PROVE  /\ IInv' /\ i_size' = n /\ n >= i_size /\ n <= s_max_size
         /\ Taken' = Taken
         /\ \A i \in 0 .. s_max_size - 1 : Byte(i)' = Byte(i)
<1>1. /\ TypeOK /\ NoneBehindEnd /\ s_max_size \in Nat /\ i_size \in 0 .. s_max_size
  BY SizesAssumption DEF IInv, TypeOK
<1>2. /\ zones' = zones /\ disk' = disk /\ wrapped' = wrapped
      /\ special' = special /\ rd_only' = rd_only
      /\ i_size' = n /\ n >= i_size /\ n <= s_max_size
  <2>1. clear_zone(i_size) => disk' = disk
    BY ClearStep
  <2> QED
    BY <2>1 DEF Extend, Truncatable
<1>3. TypeOK'
  <2>1. i_size' \in 0 .. s_max_size
    BY <1>1, <1>2
  <2> QED
    BY <1>1, <1>2, <2>1 DEF TypeOK
<1>4. NoneBehindEnd'
  <2>1. ASSUME NEW p \in Places, zones[p] # NO_ZONE PROVE p * zone_size < n
    <3>1. p * zone_size < i_size /\ p * zone_size \in Nat
      BY <1>1, <2>1, Places1, ZoneSize DEF NoneBehindEnd
    <3> HIDE DEF zone_size
    <3> QED
      BY <1>1, <1>2, <3>1
  <2> QED
    BY <1>2, <2>1 DEF NoneBehindEnd
<1>5. OwnBytes'
  <2>1. 0 .. i_size - 1 \subseteq 0 .. n - 1
    BY <1>1, <1>2
  <2> QED
    BY <1>2, <2>1 DEF OwnBytes, IInv, Other, Addr, At
<1>6. IInv'
  BY <1>2, <1>3, <1>4, <1>5 DEF IInv, OthersUntouched, NeverWraps, OnePlaceEach, Other
<1>7. ASSUME NEW i \in 0 .. s_max_size - 1 PROVE Byte(i)' = Byte(i)
  <2>1. i \in 0 .. s_max_size /\ i \in Nat /\ i \div zone_size \in Places
    BY <1>1, Places1
  <2>2. Byte(i) = IF i < i_size /\ zones[i \div zone_size] # NO_ZONE THEN disk[Addr(i)] ELSE 0
    BY <1>1, <2>1, ByteNow
  <2>3. Byte(i)' = IF i < n /\ zones[i \div zone_size] # NO_ZONE THEN disk[Addr(i)] ELSE 0
    BY <1>2, <1>3, <2>1, ByteNext DEF Addr
  <2>4. zones[i \div zone_size] # NO_ZONE /\ i >= i_size => disk[Addr(i)] = 0
    BY <2>1, ZeroBehindEnd
  <2> QED
    BY <1>1, <1>2, <2>1, <2>2, <2>3, <2>4
<1> QED
  BY <1>2, <1>6, <1>7 DEF Taken

-----------------------------------------------------------------------------
(* A block is in one zone.                                                 *)
LEMMA OneBlock ==
  ASSUME NEW position \in Nat
  PROVE  position % block_size = 0 =>
           \A i \in position .. position + block_size - 1 :
             i \div zone_size = position \div zone_size
<1>1. /\ zone_size \in Nat \ {0} /\ zone_size = block_size * scale
      /\ block_size \in Nat \ {0} /\ scale \in Nat \ {0}
  BY ZoneSize
<1>2. PICK p \in Nat, r \in Nat :
        /\ p = position \div zone_size /\ position = p * zone_size + r /\ r < zone_size
  BY Position
<1>3. PICK k \in Nat, o \in 0 .. block_size - 1 :
         r = k * block_size + o /\ k = r \div block_size
  BY <1>1, Division
<1> SUFFICES ASSUME position % block_size = 0
             PROVE  \A i \in position .. position + block_size - 1 :
                      i \div zone_size = position \div zone_size
  OBVIOUS
<1>4. o = 0
  <2> DEFINE q == p * scale + k
  <2>1. \A z, t, b \in Nat : z * (b * t) + (k * b + o) = (z * t + k) * b + o
    BY <1>3
  <2>2. q \in Nat /\ position = q * block_size + o
    <3>1. p * (block_size * scale) + (k * block_size + o) = (p * scale + k) * block_size + o
      BY <1>1, <2>1
    <3>2. position = p * (block_size * scale) + (k * block_size + o)
      BY <1>1, <1>2, <1>3
    <3>3. q \in Nat
      BY <1>1
    <3> QED
      BY <3>1, <3>2, <3>3
  <2> HIDE DEF q
  <2>3. position % block_size = o
    BY <1>1, <1>3, <2>2, Quotient
  <2> QED
    BY <2>3
<1> DEFINE all == scale * block_size
           low == k * block_size
<1>5. all = zone_size /\ all \in Nat /\ low \in Nat /\ r = low
  BY <1>1, <1>2, <1>3, <1>4
<1>6. low + block_size <= all
  <2>1. k + 1 <= scale
    <3> SUFFICES ASSUME scale <= k PROVE FALSE
      BY <1>1, <1>3
    <3>1. all <= low
      BY <1>1, <1>3, ProductMonotone
    <3> HIDE DEF all, low
    <3> QED
      BY <1>1, <1>2, <1>5, <3>1
  <2>2. k + 1 \in Nat /\ (k + 1) * block_size <= all
    BY <1>1, <1>3, <2>1, ProductMonotone
  <2>3. (k + 1) * block_size = low + block_size
    BY <1>1, <1>3
  <2> QED
    BY <2>2, <2>3
<1> DEFINE floor == p * zone_size
           last == position + block_size - 1
<1>7. floor \in Nat /\ position = floor + r
  BY <1>1, <1>2
<1> HIDE DEF all, low
<1>8. last \div zone_size = p
  <2>1. /\ r + block_size - 1 \in 0 .. zone_size - 1
        /\ last \in Nat /\ last = floor + (r + block_size - 1)
    <3>1. /\ block_size \in Nat \ {0} /\ zone_size \in Nat /\ r \in Nat
          /\ r + block_size <= zone_size
      BY <1>1, <1>5, <1>6
    <3> HIDE DEF floor
    <3> QED
      BY <1>7, <3>1
  <2> HIDE DEF last
  <2>2. zone_size \in Nat \ {0}
    BY <1>1
  <2> QED
    BY <2>1, <2>2, Quotient
<1>9. last \in Nat /\ position <= last
  BY <1>1
<1> HIDE DEF last
<1>10. \A i \in position .. last : i \div zone_size = p
  BY <1>2, <1>8, <1>9, SameZone
<1> QED
  BY <1>2, <1>10 DEF last

(* Writing a block keeps the invariant; the bytes are in the file, and     *)
(* whatever else a reader finds is as it was, in a zone that was free as   *)
(* well.                                                                   *)
LEMMA WriteStep ==
  ASSUME IInv, NEW position \in Nat, Write(position)
  PROVE  LET end == Min({position + block_size, s_max_size})
         IN  /\ IInv' /\ end \in 0 .. s_max_size /\ position < end
             /\ i_size' = IF i_size < end THEN end ELSE i_size
             /\ Taken' = Taken \cup {i \div zone_size : i \in position .. end - 1}
             /\ \A i \in 0 .. s_max_size - 1 :
                  Byte(i)' = IF position <= i /\ i < end THEN 1 ELSE Byte(i)
<1> DEFINE end == Min({position + block_size, s_max_size})
           place == position \div zone_size
           range == position .. end - 1
<1>1. /\ TypeOK /\ NoneBehindEnd /\ OthersUntouched /\ OnePlaceEach /\ OwnBytes /\ ~wrapped
      /\ s_max_size \in Nat /\ i_size \in Nat /\ i_size \in 0 .. s_max_size
      /\ position < s_max_size /\ position % block_size = 0
      /\ block_size \in Nat \ {0} /\ zone_size \in Nat \ {0}
  BY SizesAssumption, ZoneSize DEF IInv, TypeOK, Write, NeverWraps
<1>2. /\ end \in 0 .. s_max_size /\ position < end /\ end <= position + block_size
  <2>1. end = IF position + block_size <= s_max_size THEN position + block_size ELSE s_max_size
    BY <1>1, MinOfTwo
  <2> HIDE DEF end
  <2> QED
    BY <1>1, <2>1
<1>3. PICK z \in IF zones[place] = NO_ZONE THEN FreeZones ELSE {zones[place]} :
        /\ zones' = [zones EXCEPT ![place] = z]
        /\ disk' = [a \in Addresses |->
                      IF \E i \in range : a = z * zone_size + (i % zone_size) THEN 1 ELSE disk[a]]
        /\ i_size' = Max({i_size, end})
  BY DEF Write
<1>4. /\ wrapped' = wrapped /\ special' = special /\ rd_only' = rd_only
  BY DEF Write
<1>5. i_size' = IF i_size < end THEN end ELSE i_size
  <2>1. Max({i_size, end}) = IF i_size <= end THEN end ELSE i_size
    BY <1>1, <1>2, MaxOfTwo
  <2> HIDE DEF end
  <2> QED
    BY <1>1, <1>2, <1>3, <2>1
<1>6. \A i \in range : i \div zone_size = place /\ i \in Nat
  <2>1. range \subseteq position .. position + block_size - 1
    <3> HIDE DEF end
    <3> QED
      BY <1>1, <1>2
  <2> QED
    BY <1>1, <2>1, OneBlock
<1> HIDE DEF end
<1>7. place \in Places /\ place \in Nat /\ position \in range
  <2>1. position \in 0 .. s_max_size
    BY <1>1
  <2> QED
    BY <1>1, <1>2, <2>1, Places1
<1> HIDE DEF range, place
<1>8. /\ z \in DiskZones \ Others /\ z # NO_ZONE
      /\ \A p \in Places : zones[p] = z => p = place
  <2>1. CASE zones[place] = NO_ZONE
    <3>1. z \in DiskZones \ Others /\ \A p \in Places : zones[p] # z
      BY <1>3, <2>1 DEF FreeZones
    <3> QED
      BY <3>1, ZonesAssumption DEF NO_ZONE
  <2>2. CASE zones[place] # NO_ZONE
    <3>1. z = zones[place]
      BY <1>3, <2>2
    <3> QED
      BY <1>1, <1>7, <2>2, <3>1, ZoneNumbers DEF OnePlaceEach
  <2> QED
    BY <2>1, <2>2
<1>9. /\ zones \in [Places -> {NO_ZONE} \cup (DiskZones \ Others)]
      /\ disk \in [Addresses -> 0 .. 1]
  BY <1>1 DEF TypeOK
<1>10. /\ zones' \in [Places -> {NO_ZONE} \cup (DiskZones \ Others)]
       /\ zones'[place] = z
       /\ \A p \in Places : p # place => zones'[p] = zones[p]
       /\ \A p \in Places : zones[p] # NO_ZONE => zones'[p] = zones[p]
  BY <1>3, <1>7, <1>8, <1>9
<1>11. /\ disk' \in [Addresses -> 0 .. 1]
       /\ \A a \in Addresses :
            disk'[a] = IF \E i \in range : a = At(z, i) THEN 1 ELSE disk[a]
  BY <1>3, <1>9 DEF At
<1>12. i_size' \in 0 .. s_max_size /\ i_size' >= i_size /\ i_size' >= end
  BY <1>1, <1>2, <1>5
<1>13. TypeOK'
  BY <1>1, <1>4, <1>10, <1>11, <1>12 DEF TypeOK
<1>14. OthersUntouched'
  <2> SUFFICES ASSUME NEW a \in Addresses, Other(a) PROVE disk'[a] = 1
    BY DEF OthersUntouched, Other
  <2> QED
    BY <1>1, <1>11 DEF OthersUntouched
<1>15. NoneBehindEnd'
  <2> SUFFICES ASSUME NEW p \in Places, zones'[p] # NO_ZONE PROVE p * zone_size < i_size'
    BY DEF NoneBehindEnd
  <2>1. CASE p = place
    <3> DEFINE floor == place * zone_size
    <3>1. floor \in Nat /\ position % zone_size \in Nat /\ position = floor + (position % zone_size)
      BY Position DEF place
    <3> HIDE DEF floor
    <3>2. floor < i_size'
      BY <1>1, <1>2, <1>12, <3>1
    <3> QED
      BY <2>1, <3>2 DEF floor
  <2>2. CASE p # place
    <3>1. p * zone_size < i_size /\ p * zone_size \in Nat
      BY <1>1, <1>10, <2>2, Places1, ZoneSize DEF NoneBehindEnd
    <3> HIDE DEF zone_size
    <3> QED
      BY <1>1, <1>12, <3>1
  <2> QED
    BY <2>1, <2>2
<1>16. OnePlaceEach'
  <2> SUFFICES ASSUME NEW p \in Places, NEW q \in Places, zones'[p] # NO_ZONE, zones'[p] = zones'[q]
               PROVE  p = q
    BY DEF OnePlaceEach
  <2> QED
    BY <1>1, <1>8, <1>10 DEF OnePlaceEach
<1>17. OwnBytes'
  <2> SUFFICES ASSUME NEW a \in Addresses, disk'[a] = 1, ~Other(a)
               PROVE  \E i \in 0 .. i_size' - 1 :
                        zones'[i \div zone_size] # NO_ZONE /\ a = At(zones'[i \div zone_size], i)
    BY DEF OwnBytes, Other, Addr, At
  <2>1. CASE \E i \in range : a = At(z, i)
    <3>1. PICK i \in range : a = At(z, i)
      BY <2>1
    <3>2. i \in 0 .. i_size' - 1
      <4>1. i_size' \in Nat /\ end \in Nat /\ end <= i_size' /\ i \in 0 .. end - 1
        <5>1. i \in 0 .. end - 1
          BY DEF range
        <5> QED
          BY <1>1, <1>2, <1>12, <5>1
      <4> QED
        BY <4>1, Larger
    <3> QED
      BY <1>6, <1>8, <1>10, <3>1, <3>2
  <2>2. CASE ~\E i \in range : a = At(z, i)
    <3>1. disk[a] = 1
      BY <1>11, <2>2
    <3>2. PICK i \in 0 .. i_size - 1 : zones[i \div zone_size] # NO_ZONE /\ a = Addr(i)
      BY <1>1, <3>1 DEF OwnBytes
    <3>3. i \in 0 .. i_size' - 1 /\ i \in 0 .. s_max_size
      <4>1. /\ i_size' \in Nat /\ i_size <= i_size' /\ i_size <= s_max_size
        BY <1>1, <1>12
      <4> QED
        BY <1>1, <4>1, Larger
    <3>4. zones'[i \div zone_size] = zones[i \div zone_size]
      BY <1>10, <3>2, <3>3, Places1
    <3> QED
      BY <3>2, <3>3, <3>4 DEF Addr
  <2> QED
    BY <2>1, <2>2
<1>18. IInv'
  BY <1>1, <1>4, <1>13, <1>14, <1>15, <1>16, <1>17 DEF IInv, NeverWraps
<1>19. Taken' = Taken \cup {i \div zone_size : i \in range}
  <2>1. {i \div zone_size : i \in range} = {place}
    BY <1>6, <1>7
  <2>2. \A p \in Places : zones'[p] # NO_ZONE <=> p = place \/ zones[p] # NO_ZONE
    BY <1>8, <1>10
  <2> QED
    BY <1>7, <2>1, <2>2 DEF Taken
<1>20. ASSUME NEW i \in 0 .. s_max_size - 1
       PROVE  Byte(i)' = IF position <= i /\ i < end THEN 1 ELSE Byte(i)
  <2>1. /\ i \in 0 .. s_max_size /\ i \div zone_size \in Places /\ i \in Nat
        /\ i \in range <=> position <= i /\ i < end
    <3>1. i \in 0 .. s_max_size /\ i \in Nat
      BY <1>1
    <3>2. i \in range <=> position <= i /\ i < end
      BY <1>2, <3>1 DEF range
    <3> QED
      BY <3>1, <3>2, Places1
  <2>2. Byte(i) = IF i < i_size /\ zones[i \div zone_size] # NO_ZONE THEN disk[Addr(i)] ELSE 0
    BY <1>1, <2>1, ByteNow
  <2>3. Byte(i)' = IF i < i_size' /\ zones'[i \div zone_size] # NO_ZONE
                   THEN disk'[At(zones'[i \div zone_size], i)] ELSE 0
    BY <1>13, <2>1, ByteNext
  <2>4. CASE i \in range
    <3>1. zones'[i \div zone_size] = z /\ i < i_size'
      BY <1>1, <1>2, <1>6, <1>10, <1>12, <2>1, <2>4
    <3>2. At(z, i) \in Addresses
      BY <1>8, <2>1, InZone
    <3>3. disk'[At(z, i)] = 1
      BY <1>11, <2>4, <3>2
    <3> QED
      BY <1>8, <2>1, <2>3, <2>4, <3>1, <3>3
  <2>5. CASE i \notin range /\ zones[i \div zone_size] # NO_ZONE
    <3>1. /\ zones'[i \div zone_size] = zones[i \div zone_size]
          /\ zones[i \div zone_size] \in DiskZones /\ Addr(i) \in Addresses
      BY <1>10, <2>1, <2>5, OwnAddress
    <3>2. disk'[Addr(i)] = disk[Addr(i)]
      <4> SUFFICES ASSUME NEW j \in range, Addr(i) = At(z, j) PROVE FALSE
        BY <1>11, <3>1
      <4>1. j \in Nat /\ j \div zone_size = place
        BY <1>6
      <4>2. zones[i \div zone_size] = z /\ (i \div zone_size = place => i = j)
        BY <1>8, <2>1, <3>1, <4>1, SameAddress DEF Addr
      <4> QED
        BY <1>8, <2>1, <2>5, <4>2
    <3>3. i >= i_size => disk[Addr(i)] = 0
      BY <2>1, <2>5, ZeroBehindEnd
    <3> QED
      BY <1>1, <1>12, <2>1, <2>2, <2>3, <2>5, <3>1, <3>2, <3>3 DEF Addr
  <2>6. CASE i \notin range /\ zones[i \div zone_size] = NO_ZONE
    <3>1. Byte(i) = 0
      BY <2>2, <2>6
    <3>2. CASE i \div zone_size # place
      BY <1>10, <2>1, <2>3, <2>6, <3>1, <3>2
    <3>3. CASE i \div zone_size = place
      <4>1. zones'[i \div zone_size] = z /\ At(z, i) \in Addresses /\ At(z, i) \div zone_size = z
        BY <1>8, <1>10, <2>1, <3>3, InZone
      <4>2. \A p \in Places : zones[p] # z
        BY <1>8, <2>6, <3>3
      <4>3. disk[At(z, i)] = 0
        <5>1. disk[At(z, i)] \in 0 .. 1 /\ ~Other(At(z, i))
          BY <1>8, <1>9, <4>1 DEF Other
        <5>2. ASSUME disk[At(z, i)] = 1 PROVE FALSE
          <6>1. PICK j \in 0 .. i_size - 1 : zones[j \div zone_size] # NO_ZONE /\ At(z, i) = Addr(j)
            BY <1>1, <4>1, <5>1, <5>2 DEF OwnBytes
          <6>2. j \in 0 .. s_max_size /\ j \in Nat
            BY <1>1
          <6>3. j \div zone_size \in Places
            BY <6>2, Places1
          <6>4. zones[j \div zone_size] = z
            BY <4>1, <6>1, <6>2, <6>3, OwnAddress
          <6> QED
            BY <4>2, <6>3, <6>4
        <5> QED
          BY <5>1, <5>2
      <4>4. ~\E j \in range : At(z, i) = At(z, j)
        <5> SUFFICES ASSUME NEW j \in range, At(z, i) = At(z, j) PROVE FALSE
          OBVIOUS
        <5>1. j \in Nat /\ j \div zone_size = place
          BY <1>6
        <5>2. i = j
          BY <1>8, <2>1, <3>3, <5>1, SameAddress
        <5> QED
          BY <2>6, <5>2
      <4>5. disk'[At(z, i)] = 0
        BY <1>11, <4>1, <4>3, <4>4
      <4> QED
        BY <2>1, <2>3, <2>6, <3>1, <4>1, <4>5
    <3> QED
      BY <3>2, <3>3
  <2> QED
    BY <2>4, <2>5, <2>6
<1> QED
  BY <1>2, <1>5, <1>18, <1>19, <1>20 DEF end, range

-----------------------------------------------------------------------------
LEMMA InitSound ==
  ASSUME Init PROVE IInv /\ File!Empty
<1>1. /\ zones = [p \in Places |-> NO_ZONE]
      /\ disk = [a \in Addresses |-> IF Other(a) THEN 1 ELSE 0]
      /\ i_size = 0 /\ wrapped = FALSE /\ special \in BOOLEAN /\ rd_only \in BOOLEAN
  BY DEF Init
<1>2. s_max_size \in Nat /\ i_size \in 0 .. s_max_size
  BY <1>1, SizesAssumption
<1>3. TypeOK
  <2>1. disk \in [Addresses -> 0 .. 1]
    BY <1>1
  <2>2. zones \in [Places -> {NO_ZONE} \cup (DiskZones \ Others)]
    BY <1>1
  <2>3. wrapped \in BOOLEAN
    BY <1>1
  <2> QED
    BY <1>1, <1>2, <2>1, <2>2, <2>3 DEF TypeOK
<1>4. \A p \in Places : zones[p] = NO_ZONE
  BY <1>1
<1>5. OthersUntouched /\ NoneBehindEnd /\ NeverWraps /\ OnePlaceEach /\ OwnBytes
  BY <1>1, <1>4 DEF OthersUntouched, NoneBehindEnd, NeverWraps, OnePlaceEach, OwnBytes
<1>6. \A i \in 0 .. s_max_size - 1 : Byte(i) = 0
  BY <1>1 DEF Byte
<1>7. File!Empty
  BY <1>1, <1>4, <1>6 DEF File!Empty, File!Positions
<1> QED
  BY <1>3, <1>5, <1>7 DEF IInv

(* A step does what is promised, or nothing a user could see.              *)
FileStep == File!FileNext \/ UNCHANGED File!fileVars

LEMMA StepSound ==
  ASSUME IInv, [Next]_vars PROVE IInv' /\ FileStep
<1> USE DEF File!Positions, File!Sizes, File!ZoneOf
<1>1. /\ TypeOK /\ s_max_size \in Nat /\ i_size \in Nat /\ i_size \in 0 .. s_max_size
  BY SizesAssumption DEF IInv, TypeOK
<1>2. ASSUME UNCHANGED vars PROVE IInv' /\ FileStep
  <2>1. /\ disk' = disk /\ zones' = zones /\ i_size' = i_size /\ wrapped' = wrapped
        /\ special' = special /\ rd_only' = rd_only
    BY <1>2 DEF vars
  <2>2. IInv'
    BY <2>1 DEF IInv, TypeOK, OthersUntouched, NoneBehindEnd, NeverWraps, OnePlaceEach, OwnBytes,
                Other, Addr, At
  <2>3. \A i : Byte(i)' = Byte(i)
    BY <2>1 DEF Byte, Mapped, read_map
  <2>4. UNCHANGED File!fileVars
    BY <2>1, <2>3 DEF File!fileVars
  <2> QED
    BY <2>2, <2>4 DEF FileStep
<1>3. ASSUME NEW start \in Nat, NEW end \in Nat, start < end, end <= i_size,
             freesp_inode(start, end), UNCHANGED <<special, rd_only>>,
             i_size' = i_size \/ (i_size' = start /\ end = i_size)
      PROVE  IInv' /\ FileStep
  <2>1. /\ IInv'
        /\ Taken' = Taken \cap {i \div zone_size : i \in 0 .. start - 1 \cup end .. i_size - 1}
        /\ \A i \in 0 .. s_max_size - 1 :
             Byte(i)' = IF start <= i /\ i < end THEN 0 ELSE Byte(i)
    BY <1>3, CutStep
  <2>2. start \in File!Sizes /\ end \in File!Sizes
    BY <1>1, <1>3
  <2>3. CASE i_size' = i_size
    <3>1. File!Hole(start, end)
      BY <1>3, <2>1, <2>3 DEF File!Hole, File!Kept, File!Filled, Taken
    <3> QED
      BY <2>1, <2>2, <3>1 DEF FileStep, File!FileNext
  <2>4. CASE i_size' = start /\ end = i_size
    <3>1. 0 .. start - 1 \cup end .. i_size - 1 = 0 .. start - 1
      BY <1>1, <2>4
    <3>2. ASSUME NEW i \in 0 .. s_max_size - 1
          PROVE  Byte(i)' = IF start <= i /\ i < s_max_size THEN 0 ELSE Byte(i)
      <4>1. i >= i_size => Byte(i) = 0
        BY <1>1 DEF Byte
      <4>2. Byte(i)' = IF start <= i /\ i < i_size THEN 0 ELSE Byte(i)
        BY <2>1, <2>4
      <4> QED
        BY <1>1, <4>1, <4>2
    <3>3. File!Resize(start)
      BY <2>1, <2>4, <3>1, <3>2 DEF File!Resize, File!Kept, File!Filled, Taken
    <3> QED
      BY <2>1, <2>2, <3>3 DEF FileStep, File!FileNext
  <2> QED
    BY <1>3, <2>3, <2>4
<1>4. ASSUME NEW start \in Nat, Shrink(start) PROVE IInv' /\ FileStep
  BY <1>1, <1>3, <1>4 DEF Shrink
<1>5. ASSUME NEW n \in Nat, Extend(n) PROVE IInv' /\ FileStep
  <2>1. /\ IInv' /\ i_size' = n /\ n >= i_size /\ n <= s_max_size
        /\ Taken' = Taken
        /\ \A i \in 0 .. s_max_size - 1 : Byte(i)' = Byte(i)
    BY <1>5, ExtendStep
  <2>2. Taken \subseteq {i \div zone_size : i \in 0 .. n - 1}
    <3> SUFFICES ASSUME NEW p \in Places, zones[p] # NO_ZONE
                 PROVE  \E i \in 0 .. n - 1 : i \div zone_size = p
      BY DEF Taken
    <3> DEFINE low == p * zone_size
    <3>1. p \in Nat /\ low \in Nat /\ low < i_size
      BY Places1, ZoneSize DEF NoneBehindEnd, IInv
    <3>2. low = p * zone_size + 0 /\ 0 \in 0 .. zone_size - 1 /\ zone_size \in Nat \ {0}
      BY <3>1, ZoneSize
    <3> HIDE DEF low
    <3>3. low \div zone_size = p
      BY <3>1, <3>2, Quotient
    <3>4. low \in 0 .. n - 1
      BY <1>1, <2>1, <3>1
    <3> QED
      BY <3>3, <3>4
  <2>3. ASSUME NEW i \in 0 .. s_max_size - 1
        PROVE  Byte(i)' = IF n <= i /\ i < s_max_size THEN 0 ELSE Byte(i)
    <3>1. i >= i_size => Byte(i) = 0
      BY <1>1 DEF Byte
    <3> QED
      BY <1>1, <2>1, <3>1
  <2>4. File!Resize(n)
    BY <2>1, <2>2, <2>3 DEF File!Resize, File!Kept, File!Filled, Taken
  <2>5. n \in File!Sizes
    BY <1>1, <2>1
  <2> QED
    BY <2>1, <2>4, <2>5 DEF FileStep, File!FileNext
<1>6. ASSUME NEW start \in Nat, NEW end \in Nat, CutHole(start, end) PROVE IInv' /\ FileStep
  <2>1. Clipped(end) = IF end <= i_size THEN end ELSE i_size
    BY <1>1, MinOfTwo DEF Clipped
  <2>2. Clipped(end) \in Nat /\ Clipped(end) <= i_size /\ start < Clipped(end)
    BY <1>1, <1>6, <2>1 DEF CutHole
  <2> QED
    BY <1>3, <1>6, <2>2 DEF CutHole
<1>7. ASSUME NEW position \in Nat, Write(position) PROVE IInv' /\ FileStep
  <2> DEFINE end == Min({position + block_size, s_max_size})
  <2>1. /\ IInv' /\ end \in 0 .. s_max_size /\ position < end
        /\ i_size' = IF i_size < end THEN end ELSE i_size
        /\ Taken' = Taken \cup {i \div zone_size : i \in position .. end - 1}
        /\ \A i \in 0 .. s_max_size - 1 :
             Byte(i)' = IF position <= i /\ i < end THEN 1 ELSE Byte(i)
    BY <1>7, WriteStep
  <2> HIDE DEF end
  <2>2. File!Put(position, end)
    BY <2>1 DEF File!Put, File!Filled, Taken
  <2>3. position \in File!Sizes /\ end \in File!Sizes
    BY <1>1, <2>1
  <2> QED
    BY <2>1, <2>2, <2>3 DEF FileStep, File!FileNext
<1>8. Offsets \subseteq Nat
  BY SizesAssumption DEF Offsets
<1> QED
  BY <1>2, <1>4, <1>5, <1>6, <1>7, <1>8 DEF Next, fs_ftrunc, Refused

-----------------------------------------------------------------------------
(* The invariant: besides what is promised, no zone is at two places of    *)
(* the file, and nothing is left in the zones that the file does not have. *)
THEOREM Inductive == Spec => []IInv
<1>1. Init => IInv
  BY InitSound
<1>2. IInv /\ [Next]_vars => IInv'
  BY StepSound
<1> QED
  BY <1>1, <1>2, PTL DEF Spec

(* Whatever is cut, extended and written, the file is never larger than    *)
(* the largest, and has none but zones of its own (link.c:551).            *)
THEOREM TypesHold == Spec => []TypeOK
<1>1. IInv => TypeOK
  BY DEF IInv
<1> QED
  BY <1>1, Inductive, PTL

(* The blocks that are cleared are counted from one that was looked up,    *)
(* and never leave the file's zone (link.c:688-720).                       *)
THEOREM NothingElseIsCleared == Spec => []OthersUntouched
<1>1. IInv => OthersUntouched
  BY DEF IInv
<1> QED
  BY <1>1, Inductive, PTL

(* A file that was cut has no zone behind its end (link.c:620-624).        *)
THEOREM NoZoneIsLost == Spec => []NoneBehindEnd
<1>1. IInv => NoneBehindEnd
  BY DEF IInv
<1> QED
  BY <1>1, Inductive, PTL

(* However close the sizes come to the largest off_t (link.c:617-645).     *)
THEOREM OffsetsFit == Spec => []NeverWraps
<1>1. IInv => NeverWraps
  BY DEF IInv
<1> QED
  BY <1>1, Inductive, PTL

(* fs_ftrunc and writing implement a file as a user knows it: holes and    *)
(* extensions read as zeroes, all other bytes stay, and exactly the zones  *)
(* without a byte left are given back (link.c:533-720).                    *)
THEOREM Refinement == Spec => ImplementsFile
<1>1. Init => File!Empty
  BY InitSound
<1>2. IInv /\ [Next]_vars => [File!FileNext]_(File!fileVars)
  BY StepSound DEF FileStep
<1> QED
  BY <1>1, <1>2, Inductive, PTL DEF Spec, ImplementsFile, File!FileSpec
=============================================================================
