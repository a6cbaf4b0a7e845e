---------------------------- MODULE DeletedTable ----------------------------
(***************************************************************************)
(* The table of deleted files, translated from "Project 3 -                *)
(* Commands/HashTable.c": a hash table with linear probing whose cells are *)
(* searched by inode number, and an array that remembers in which order    *)
(* the numbers came.                                                       *)
(*                                                                         *)
(* Its callers are the undelete command and the places of link.c and       *)
(* inode.c where the calls are commented out: unlink_file inserts the      *)
(* inode it unlinks, alloc_inode deletes an entry whose inode it takes.    *)
(* Of a path only matters how many of its slashes are left: returnFileName *)
(* takes one away each time it is asked.  One path per inode.              *)
(***************************************************************************)
EXTENDS Naturals, Sequences, SequencesExt, FiniteSets

CONSTANTS SIZE,            \* cells of the table
          Keys,            \* inode numbers
          Slashes,         \* slashes in the path of a file
          EMPTY, DELETED   \* a cell that is NULL, or holds dummyItem

ASSUME SizeAssumption == SIZE \in Nat \ {0}
ASSUME KeysAssumption == Keys \subseteq Nat \ {0} /\ Slashes \in Nat

VARIABLES hashArray,   \* the cells
          hashSize,
          inodeArray,  \* the keys, the oldest first, as far as hashSize
          status,      \* "running", "hung" in a loop, or "crashed" on a NULL pointer
          age,         \* history: the keys that came last, until a recovery
          recovered    \* history: whether deleteFromHashTable was called directly

vars == <<hashArray, hashSize, inodeArray, status, age, recovered>>

Cells == 0 .. SIZE - 1
Items == [key : Keys, slashes : 0 .. Slashes]

ASSUME MarksAssumption == EMPTY # DELETED /\ {EMPTY, DELETED} \cap Items = {}

Init ==
  /\ hashArray = [i \in Cells |-> EMPTY]
  /\ hashSize = 0
  /\ inodeArray = [i \in Cells |-> 0]
  /\ status = "running"
  /\ age = << >>
  /\ recovered = FALSE

-----------------------------------------------------------------------------
hashCode(key) == key % SIZE

(* The cell a search looks at after n others.                              *)
Probe(key, n) == (hashCode(key) + n) % SIZE

Holds(cell, key) == cell \notin {EMPTY, DELETED} /\ cell.key = key

(* The numbers of steps after which a search for key in table has found    *)
(* it, not having met an empty cell before.                                *)
FoundAfter(table, key) ==
  {n \in Cells : /\ Holds(table[Probe(key, n)], key)
                 /\ \A m \in 0 .. n : table[Probe(key, m)] # EMPTY}

Least(S) == CHOOSE n \in S : \A m \in S : n <= m

(* Where insertToHashTable puts a key: the first cell that is empty or     *)
(* deleted; it stops where it started when there is none.                  *)
FreeCell(table, key) ==
  Probe(key, Least({n \in Cells : table[Probe(key, n)] \in {EMPTY, DELETED}} \cup {SIZE}))

insertToHashTable(table, key) ==
  [table EXCEPT ![FreeCell(table, key)] = [key |-> key, slashes |-> Slashes]]

(* Mutant: the cell becomes empty, which ends the searches that pass it.   *)
Without_empty(table, key) ==
  [table EXCEPT ![Probe(key, Least(FoundAfter(table, key)))] = EMPTY]

Without(table, key) ==
  [table EXCEPT ![Probe(key, Least(FoundAfter(table, key)))] = DELETED]

(* Mutant: the youngest key moves up as well as the others.                *)
Shifted_not(array, size) == array

(* deleteFromHash moves every key but the first one place forward.         *)
Shifted(array, size) == [i \in Cells |-> IF i < size - 1 THEN array[i + 1] ELSE array[i]]

(* A search without bound ends at an empty cell only.                      *)
Endless(table) == \A i \in Cells : table[i] # EMPTY

-----------------------------------------------------------------------------
Running == status = "running"

Aged(keys) == IF recovered THEN << >> ELSE keys

(* Mutant: off by one.                                                     *)
HasSpace_late == hashSize <= SIZE

HasSpace == hashSize < SIZE

(* A deleted file enters the table; a full table gives up its oldest.      *)
insertToHash(key) ==
  LET oldest == inodeArray[0]
  IN
  /\ Running
  /\ \/ /\ HasSpace
        /\ inodeArray' = [inodeArray EXCEPT ![hashSize] = key]
        /\ hashArray' = insertToHashTable(hashArray, key)
        /\ hashSize' = hashSize + 1
        /\ age' = Aged(Append(age, key))
        /\ UNCHANGED status
     \/ /\ ~HasSpace
        /\ FoundAfter(hashArray, oldest) # {}
        /\ inodeArray' = [Shifted(inodeArray, hashSize) EXCEPT ![SIZE - 1] = key]
        /\ hashArray' = insertToHashTable(Without(hashArray, oldest), key)
        /\ age' = Aged(Append(Tail(age), key))
        /\ UNCHANGED <<hashSize, status>>
     \/ /\ ~HasSpace
        /\ FoundAfter(hashArray, oldest) = {}
        /\ inodeArray' = Shifted(inodeArray, hashSize)
        /\ status' = "hung"
        /\ UNCHANGED <<hashArray, hashSize, age>>
  /\ UNCHANGED recovered

(* Mutant: hashSize stays.                                                 *)
deleteFromHashTable_uncounted(key) ==
  /\ Running /\ hashSize > 0
  /\ recovered' = TRUE
  /\ \/ /\ FoundAfter(hashArray, key) # {}
        /\ hashArray' = Without(hashArray, key)
        /\ UNCHANGED <<hashSize, status>>
     \/ /\ FoundAfter(hashArray, key) = {}
        /\ status' = IF Endless(hashArray) THEN "hung" ELSE status
        /\ UNCHANGED <<hashArray, hashSize>>
  /\ age' = << >>
  /\ UNCHANGED inodeArray

(* A file leaves the table because its inode is recovered, or taken.  The  *)
(* search for it has no bound, and inodeArray keeps its number.            *)
deleteFromHashTable(key) ==
  /\ Running /\ hashSize > 0
  /\ recovered' = TRUE
  /\ \/ /\ FoundAfter(hashArray, key) # {}
        /\ hashArray' = Without(hashArray, key)
        /\ hashSize' = hashSize - 1
        /\ UNCHANGED status
     \/ /\ FoundAfter(hashArray, key) = {}
        /\ status' = IF Endless(hashArray) THEN "hung" ELSE status
        /\ UNCHANGED <<hashArray, hashSize>>
  /\ age' = << >>
  /\ UNCHANGED inodeArray

(* The oldest file leaves the table.  The key deleted is printed, whether  *)
(* it was found or not.                                                    *)
deleteFromHash ==
  LET oldest == inodeArray[0]
  IN
  /\ Running /\ hashSize > 0
  /\ inodeArray' = Shifted(inodeArray, hashSize)
  /\ \/ /\ FoundAfter(hashArray, oldest) # {}
        /\ hashArray' = Without(hashArray, oldest)
        /\ hashSize' = hashSize - 1
        /\ age' = Aged(Tail(age))
        /\ UNCHANGED status
     \/ /\ FoundAfter(hashArray, oldest) = {}
        /\ status' = IF Endless(hashArray) THEN "hung" ELSE "crashed"
        /\ UNCHANGED <<hashArray, hashSize, age>>
  /\ UNCHANGED recovered

(* searchOnPath, and searchOnData when the path is not met: look at the    *)
(* first hashSize cells, wherever the files are.                           *)
searchOnPath ==
  /\ Running
  /\ status' = IF \E i \in Cells : i < hashSize /\ hashArray[i] = EMPTY
               THEN "crashed" ELSE status
  /\ UNCHANGED <<hashArray, hashSize, inodeArray, age, recovered>>

(* The name of the file is what follows the last slash; it is moved over   *)
(* the slash, so that the next call finds the slash before.                *)
returnFileName(key) ==
  LET at == Probe(key, Least(FoundAfter(hashArray, key)))
  IN
  /\ Running
  /\ FoundAfter(hashArray, key) # {}
  /\ \/ /\ hashArray[at].slashes > 0
        /\ hashArray' = [hashArray EXCEPT ![at].slashes = @ - 1]
        /\ UNCHANGED status
     \/ /\ hashArray[at].slashes = 0
        /\ status' = "crashed"
        /\ UNCHANGED hashArray
  /\ UNCHANGED <<hashSize, inodeArray, age, recovered>>

-----------------------------------------------------------------------------
Next ==
  \/ \E key \in Keys : insertToHash(key)
  \/ \E key \in Keys : deleteFromHashTable(key)
  \/ deleteFromHash
  \/ searchOnPath
  \/ \E key \in Keys : returnFileName(key)

Spec == Init /\ [][Next]_vars

-----------------------------------------------------------------------------
(* Properties.                                                             *)

TypeOK ==
  /\ hashArray \in [Cells -> Items \cup {EMPTY, DELETED}]
  /\ hashSize \in 0 .. SIZE
  /\ inodeArray \in [Cells -> Keys \cup {0}]
  /\ status \in {"running", "hung", "crashed"}
  /\ age \in Seq(Keys)
  /\ recovered \in BOOLEAN

Live == {i \in Cells : hashArray[i] \notin {EMPTY, DELETED}}

(* hashSize is the number of files in the table, whatever evictions and    *)
(* recoveries were mixed: insertToHash relies on it to know of a free cell.*)
SizeMatches == hashSize = Cardinality(Live)

(* Every file in the table is found by its number, in spite of the cells   *)
(* that were deleted in front of it.                                       *)
Findable ==
  \A i \in Live : i \in {Probe(hashArray[i].key, n) : n \in FoundAfter(hashArray, hashArray[i].key)}

(* While no file was recovered, the table is a first-in first-out buffer:  *)
(* it holds the files that came last, and a full one gives up the oldest.  *)
KeepsTheYoungest ==
  ~recovered =>
    /\ age = [i \in 1 .. hashSize |-> inodeArray[i - 1]]
    /\ \A key \in Keys : Cardinality({i \in Live : hashArray[i].key = key})
                           = Cardinality({k \in DOMAIN age : age[k] = key})

(* Without a recovery an insertion never hangs: its oldest file is there.  *)
InsertReturns == status = "hung" => recovered
=============================================================================
