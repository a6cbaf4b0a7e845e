------------------------------ MODULE FreeSpace ------------------------------
(***************************************************************************)
(* How MFS shrinks and extends a file and cuts holes into it: fs_ftrunc of *)
(* "Project 3 - Commands"/link.c, truncate_inode, freesp_inode and what    *)
(* they call, down to the bytes of the blocks on the disk.                 *)
(*                                                                         *)
(* A zone is a power of two of consecutive blocks.  The blocks of the disk *)
(* are numbered through, so that the block behind the last one of a zone   *)
(* is the first of the next zone on the disk, whose ever that is.          *)
(***************************************************************************)
EXTENDS Integers, FiniteSets, FiniteSetsExt

CONSTANTS block_size,   \* bytes in a block
          scale,        \* blocks in a zone
          s_max_size,   \* the largest file
          OFF_MAX,      \* the largest value of an off_t
          DiskZones,    \* the zones of the disk that hold data
          Others        \* those among them that hold another file

zone_size == block_size * scale

ASSUME SizesAssumption ==
  /\ block_size \in Nat \ {0} /\ scale \in Nat \ {0}
  /\ s_max_size \in Nat /\ OFF_MAX \in Nat /\ s_max_size <= OFF_MAX
ASSUME ZonesAssumption == DiskZones \subseteq Nat \ {0} /\ Others \subseteq DiskZones

VARIABLES disk,     \* the byte at every address
          zones,    \* the zone behind every place in the file
          i_size,
          special,  \* whether it is a device's inode
          rd_only,  \* whether the file system is mounted read-only
          wrapped   \* whether an off_t was given a value beyond its largest

vars == <<disk, zones, i_size, special, rd_only, wrapped>>

NO_ZONE == 0
Places == 0 .. s_max_size \div zone_size
Addresses == UNION {zone * zone_size .. zone * zone_size + zone_size - 1 : zone \in DiskZones}
Offsets == 0 .. OFF_MAX

Other(address) == address \div zone_size \in Others

-----------------------------------------------------------------------------
(* The block of a position, if there is one.                               *)
Mapped(position) == zones[position \div zone_size] # NO_ZONE
read_map(position) ==
  zones[position \div zone_size] * scale + (position % zone_size) \div block_size

(* The addresses that zerozone_range clears: in one block after the other, *)
(* those of the first one from the position on, and in all of them no more *)
(* than is left of the length.                                             *)
Chunks(position, len) ==
  {q \in position .. position + len - 1 : q = position \/ q % block_size = 0}

(* Mutant: every block is cleared to its end.                              *)
zerozone_range_blocks(position, len) ==
  IF len = 0 \/ ~Mapped(position) THEN {}
  ELSE UNION {LET b == read_map(position) + q \div block_size - position \div block_size
                  offset == q % block_size
                  count == block_size - offset
              IN  b * block_size + offset .. b * block_size + offset + count - 1
                : q \in Chunks(position, len)}

zerozone_range(position, len) ==
  IF len = 0 \/ ~Mapped(position) THEN {}
  ELSE UNION {LET b == read_map(position) + q \div block_size - position \div block_size
                  offset == q % block_size
                  count == Min({block_size - offset, position + len - q})
              IN  b * block_size + offset .. b * block_size + offset + count - 1
                : q \in Chunks(position, len)}

FIRST_HALF == "first"
LAST_HALF  == "last"

(* Mutant: the first half is cleared from the position on.                 *)
HalfRange_unmoved(position, half) ==
  LET offset == position % zone_size
  IN  <<position, IF half = LAST_HALF THEN zone_size - offset ELSE offset>>

(* Where a half begins, and its length.                                    *)
HalfRange(position, half) ==
  LET offset == position % zone_size
  IN  IF half = LAST_HALF THEN <<position, zone_size - offset>>
      ELSE <<position - offset, offset>>

zerozone_half(position, half) ==
  zerozone_range(HalfRange(position, half)[1], HalfRange(position, half)[2])

nextblock(position) ==
  (position \div zone_size) * zone_size + (IF position % zone_size # 0 THEN zone_size ELSE 0)

-----------------------------------------------------------------------------
(* freesp_inode, between a start and an end that is no larger than the     *)
(* size.                                                                   *)
zero_last(start) == start % zone_size # 0
zero_first(end) == end % zone_size # 0 /\ end < i_size

WithinZone(start, end) ==
  /\ start \div zone_size = (end - 1) \div zone_size
  /\ zero_last(start) \/ zero_first(end)

ClearedAddresses(start, end) ==
  IF WithinZone(start, end) THEN zerozone_range(start, end - start)
  ELSE (IF zero_last(start) THEN zerozone_half(start, LAST_HALF) ELSE {})
       \cup (IF zero_first(end) THEN zerozone_half(end, FIRST_HALF) ELSE {})

(* Mutant: the zone the file ends in is never freed.                       *)
EndZone_whole(end) == end \div zone_size

EndZone(end) ==
  end \div zone_size + (IF end = i_size /\ end % zone_size # 0 THEN 1 ELSE 0)

FreedPlaces(start, end) ==
  IF WithinZone(start, end) THEN {}
  ELSE nextblock(start) \div zone_size .. EndZone(end) - 1

(* Mutant: the loop counts bytes, and goes on to the zone behind the last. *)
LoopValues_bytes(start, end) ==
  {p * zone_size + zone_size : p \in FreedPlaces(start, end)}

LoopValues(start, end) == {p * zone_size : p \in FreedPlaces(start, end)}

(* The values an off_t takes.                                              *)
Counted(start, end) ==
  LET halves == (IF zero_last(start) THEN {HalfRange(start, LAST_HALF)} ELSE {})
                \cup (IF zero_first(end) THEN {HalfRange(end, FIRST_HALF)} ELSE {})
  IN  IF WithinZone(start, end) THEN {start + (end - start)}
      ELSE {r[1] + r[2] : r \in halves}
           \cup {nextblock(start)} \cup LoopValues(start, end)

(* What a free zone holds is not kept: it is cleared when it is taken.     *)
freesp_inode(start, end) ==
  LET cleared == ClearedAddresses(start, end)
      freed == FreedPlaces(start, end)
      free == {zones[p] : p \in freed}
  IN  /\ zones' = [p \in Places |-> IF p \in freed THEN NO_ZONE ELSE zones[p]]
      /\ disk' = [a \in Addresses |->
                    IF a \in cleared \/ a \div zone_size \in free THEN 0 ELSE disk[a]]
      /\ wrapped' = (wrapped \/ \E v \in Counted(start, end) : v > OFF_MAX)

(* clear_zone clears what is left of the zone a position is in, or does    *)
(* nothing when it knows of nothing to clear.                              *)
clear_zone(position) ==
  LET rest == position .. nextblock(position) - 1
      address(i) == read_map(position) * block_size + (position % block_size) + i - position
  IN  \E clears \in {{}, rest} :
        disk' = [a \in Addresses |->
                   IF Mapped(position) /\ a \in {address(i) : i \in clears} THEN 0 ELSE disk[a]]

-----------------------------------------------------------------------------
Init ==
  /\ zones = [p \in Places |-> NO_ZONE]
  /\ disk = [a \in Addresses |-> IF Other(a) THEN 1 ELSE 0]
  /\ i_size = 0 /\ wrapped = FALSE
  /\ special \in BOOLEAN /\ rd_only \in BOOLEAN

(* Mutant: a file may get as large as an off_t.                            *)
Truncatable_unbounded(newsize) == ~rd_only /\ ~special /\ newsize \in Offsets

(* truncate_inode, to a new size.                                          *)
Truncatable(newsize) == ~rd_only /\ ~special /\ newsize <= s_max_size

Shrink(newsize) ==
  /\ Truncatable(newsize) /\ newsize < i_size
  /\ freesp_inode(newsize, i_size)
  /\ i_size' = newsize
  /\ UNCHANGED <<special, rd_only>>

Extend(newsize) ==
  /\ Truncatable(newsize) /\ newsize >= i_size
  /\ IF newsize > i_size THEN clear_zone(i_size) ELSE UNCHANGED disk
  /\ i_size' = newsize
  /\ UNCHANGED <<zones, special, rd_only, wrapped>>

(* With an end: freesp_inode, up to it or to the end of the file.          *)
Clipped(end) == Min({end, i_size})

CutHole(start, end) ==
  /\ ~rd_only /\ end # 0
  /\ Clipped(end) > start
  /\ freesp_inode(start, Clipped(end))
  /\ UNCHANGED <<i_size, special, rd_only>>

(* EROFS, EINVAL for a device or an empty range, and EFBIG.                *)
Refused(start, end) ==
  /\ \/ rd_only
     \/ end = 0 /\ ~Truncatable(start)
     \/ end # 0 /\ Clipped(end) <= start
  /\ UNCHANGED vars

fs_ftrunc(start, end) ==
  \/ end = 0 /\ (Shrink(start) \/ Extend(start))
  \/ CutHole(start, end)
  \/ Refused(start, end)

(* A block of a file is written: the zone is taken and cleared if it is    *)
(* not there yet.                                                          *)
FreeZones == DiskZones \ (Others \cup {zones[p] : p \in Places})

Write(position) ==
  /\ ~rd_only /\ ~special /\ position < s_max_size /\ position % block_size = 0
  /\ LET place == position \div zone_size
         end == Min({position + block_size, s_max_size})
     IN  \E zone \in IF zones[place] = NO_ZONE THEN FreeZones ELSE {zones[place]} :
           /\ zones' = [zones EXCEPT ![place] = zone]
           /\ disk' = [a \in Addresses |->
                         IF \E i \in position .. end - 1 : a = zone * zone_size + (i % zone_size)
                         THEN 1 ELSE disk[a]]
           /\ i_size' = Max({i_size, end})
  /\ UNCHANGED <<special, rd_only, wrapped>>

Next ==
  \/ \E start, end \in Offsets : fs_ftrunc(start, end)
  \/ \E position \in Offsets : Write(position)

Spec == Init /\ [][Next]_vars

-----------------------------------------------------------------------------
(* The types of the variables; no file gets larger than the largest        *)
(* (link.c:551).                                                           *)
TypeOK ==
  /\ disk \in [Addresses -> 0 .. 1]
  /\ zones \in [Places -> {NO_ZONE} \cup (DiskZones \ Others)]
  /\ i_size \in 0 .. s_max_size
  /\ special \in BOOLEAN /\ rd_only \in BOOLEAN /\ wrapped \in BOOLEAN

(* link.c:688-720: the blocks that zerozone_range counts through from the  *)
(* one it looked up never leave the zone: nothing of another file changes. *)
OthersUntouched == \A a \in Addresses : Other(a) => disk[a] = 1

(* link.c:620-624: no zone behind the end of a file is left to it, where   *)
(* nothing but its removal would free it.                                  *)
NoneBehindEnd ==
  \A p \in Places : zones[p] # NO_ZONE => p * zone_size < i_size

(* link.c:617-618 and 643-645: "avoids overflow on p".                     *)
NeverWraps == ~wrapped

(* The bytes a reader of the file sees, and the space it takes.            *)
Byte(i) ==
  IF i < i_size /\ Mapped(i) THEN disk[read_map(i) * block_size + (i % block_size)] ELSE 0

File == INSTANCE FileSpace WITH
  MaxSize <- s_max_size,
  bytes <- [i \in 0 .. s_max_size - 1 |-> Byte(i)],
  size <- i_size,
  taken <- {p \in Places : zones[p] # NO_ZONE}

(* link.c:533-720: a hole and an extension read as zeroes, all other bytes *)
(* stay, what was cut off does not come back when the file is extended     *)
(* again, and exactly the zones without a byte left are given back.        *)
ImplementsFile == File!FileSpec
=============================================================================
