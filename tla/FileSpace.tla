------------------------------ MODULE FileSpace ------------------------------
(***************************************************************************)
(* What is promised to the user of a file: its bytes, and the space it     *)
(* takes.  Bytes that were cut out, and bytes a file is extended by, are   *)
(* zero.  A zone is given back once none of the bytes the file still has   *)
(* is in it, and not before.                                               *)
(***************************************************************************)
EXTENDS Integers

CONSTANTS zone_size, MaxSize

VARIABLES bytes,   \* what every position holds: 0, or 1 for what a user wrote
          size,
          taken    \* the zones, by their place in the file, that take space

fileVars == <<bytes, size, taken>>

Sizes == 0 .. MaxSize
Positions == 0 .. MaxSize - 1
ZoneOf(position) == position \div zone_size

(* The bytes of a range get a value and all others stay; the zones with a  *)
(* byte that the file keeps stay taken.                                    *)
Filled(start, end, value) ==
  /\ DOMAIN bytes' = Positions
  /\ \A i \in Positions : bytes'[i] = IF start <= i /\ i < end THEN value ELSE bytes[i]

Kept(positions) == taken' = taken \cap {ZoneOf(i) : i \in positions}

Empty ==
  /\ bytes = [i \in Positions |-> 0]
  /\ size = 0
  /\ taken = {}

Put(start, end) ==
  /\ start < end
  /\ size' = IF size < end THEN end ELSE size
  /\ taken' = taken \cup {ZoneOf(i) : i \in start .. end - 1}
  /\ Filled(start, end, 1)

Resize(n) ==
  /\ size' = n
  /\ Kept(0 .. n - 1)
  /\ Filled(n, MaxSize, 0)

Hole(start, end) ==
  /\ start < end /\ end <= size
  /\ UNCHANGED size
  /\ Kept(0 .. start - 1 \cup end .. size - 1)
  /\ Filled(start, end, 0)

FileNext ==
  \/ \E start, end \in Sizes : Put(start, end) \/ Hole(start, end)
  \/ \E n \in Sizes : Resize(n)

FileSpec == Empty /\ [][FileNext]_fileVars
=============================================================================
