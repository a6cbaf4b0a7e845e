----------------------------- MODULE InodeCache -----------------------------
(***************************************************************************)
(* The inode table of the Minix file server (MFS), translated from         *)
(* "Project 3 - Commands/inode.c", for one mounted device.                 *)
(*                                                                         *)
(* MFS serves one request at a time, and a request calls these routines    *)
(* many times over.  So each routine is an operator on the server's state, *)
(* a record c, and MFS.tla strings them together into requests:            *)
(*   c.inode[s]    what slot s of the inode table holds                    *)
(*   c.unused      the slots with i_count = 0, the next one to reuse first *)
(*   c.hashed[n]   the slots inode n is found in, newest first             *)
(*   c.imap        the inode bit map: the numbers in use                   *)
(*   c.disk[n]     inode n as it is on disk                                *)
(*   c.entries     the contents of the directories, see MFS.tla            *)
(* i_zone and i_size are one flag: whether the inode has zones.  Owners,   *)
(* permissions and times are left out.                                     *)
(***************************************************************************)
EXTENDS Integers, Sequences, FiniteSets, FiniteSetsExt, SequencesExt

CONSTANTS Slots,         \* the slots of the inode table, NR_INODES of them
          Inums,         \* the inode numbers of the device
          NO_ENTRY,      \* the number of a slot that holds no inode
          I_DIRECTORY, I_REGULAR

ASSUME SlotsAssumption == IsFiniteSet(Slots) /\ Slots # {}
ASSUME NoEntryAssumption == IsFiniteSet(Inums) /\ NO_ENTRY \notin Inums
ASSUME ModesAssumption == I_DIRECTORY # I_REGULAR

Modes == {I_DIRECTORY, I_REGULAR}

Links  == 0 .. 65535   \* i_nlinks has 16 bits
U16(n) == n % 65536

DiskInode == [nlinks : Links, mode : Modes, zones : BOOLEAN]
Inode     == [num : Inums \cup {NO_ENTRY}, count : Nat, nlinks : Links,
              mode : Modes, zones : BOOLEAN, dirty : BOOLEAN]

(* A slot that holds no inode; its other fields are never looked at.       *)
FreeSlot == [num |-> NO_ENTRY, count |-> 0, nlinks |-> 0, mode |-> I_REGULAR,
             zones |-> FALSE, dirty |-> FALSE]

(* A list without its element e.                                           *)
Unlinked(list, e) == RemoveAt(list, CHOOSE k \in DOMAIN list : list[k] = e)

OnDisk(i) == [nlinks |-> i.nlinks, mode |-> i.mode, zones |-> i.zones]

(* rw_inode(rip, WRITING) of slot s.                                       *)
Written(c, s) ==
  [c EXCEPT !.disk[c.inode[s].num] = OnDisk(c.inode[s]), !.inode[s].dirty = FALSE]

Marked(c, s) == [c EXCEPT !.inode[s].dirty = TRUE]

-----------------------------------------------------------------------------
(* get_inode finds inode n, or takes the first unused slot for it; there   *)
(* may be none (NULL).                                                     *)
Cached(c, n)  == c.hashed[n] # << >>
HasSlot(c, n) == ~(c.hashed[n] = << >> /\ c.unused = << >>)
SlotOf(c, n)  == IF Cached(c, n) THEN Head(c.hashed[n]) ELSE Head(c.unused)

(* Mutant: the old inode stays on its hash list.                           *)
Load_stale(c, i) ==
  LET s == Head(c.unused)
  IN  [c EXCEPT !.unused = Tail(@), !.inode[s] = i, !.hashed[i.num] = Cons(s, @)]

(* Inode i goes to the first unused slot, and what was there is forgotten. *)
Load(c, i) ==
  LET s   == Head(c.unused)
      old == c.inode[s].num
      kept == IF old = NO_ENTRY THEN c.hashed ELSE [c.hashed EXCEPT ![old] = Unlinked(@, s)]
  IN  [c EXCEPT !.unused = Tail(@),
                !.inode[s] = i,
                !.hashed = [kept EXCEPT ![i.num] = Cons(s, @)]]

(* Mutant: a cached inode stays on the unused list.                        *)
Dup_listed(c, s) == [c EXCEPT !.inode[s].count = @ + 1]

(* One more reference to what slot s holds: dup_inode, or get_inode when   *)
(* it finds the inode in the table.                                        *)
Dup(c, s) ==
  [c EXCEPT !.inode[s].count = @ + 1,
            !.unused = IF c.inode[s].count = 0 THEN Unlinked(@, s) ELSE @]

get_inode(c, n) ==
  IF Cached(c, n)
  THEN Dup(c, SlotOf(c, n))
  ELSE Load(c, [num |-> n, count |-> 1, nlinks |-> c.disk[n].nlinks,
                mode |-> c.disk[n].mode, zones |-> c.disk[n].zones, dirty |-> FALSE])

(* find_inode finds the slot of an inode somebody uses; there may be none  *)
(* (NULL).                                                                 *)
InUse(c, n) == \E k \in DOMAIN c.hashed[n] : c.inode[c.hashed[n][k]].count > 0

find_inode(c, n) ==
  c.hashed[n][Min({k \in DOMAIN c.hashed[n] : c.inode[c.hashed[n][k]].count > 0})]

(* One reference less.  The last one writes the inode back and puts its    *)
(* slot on the unused list: in front and forgotten when the inode has no   *)
(* links, behind the others and still cached when it has.  The zones of an *)
(* inode without links stay: the call that frees them is commented out.    *)
(* That i_count is not below 1 already, or put_inode panics, is the type   *)
(* of count.                                                               *)
Flushed(c, s) == IF c.inode[s].dirty \/ c.inode[s].nlinks = 0 THEN Written(c, s) ELSE c

(* Mutant: free_inode is not called.                                       *)
Released_allocated(c, s) ==
  IF c.inode[s].nlinks = 0
  THEN [c EXCEPT !.inode[s] = FreeSlot,
                 !.hashed[c.inode[s].num] = Unlinked(@, s),
                 !.unused = Cons(s, @)]
  ELSE [c EXCEPT !.inode[s].count = 0, !.unused = Append(@, s)]

(* Mutant: every slot goes behind the others.                              *)
Released_back(c, s) ==
  IF c.inode[s].nlinks = 0
  THEN [c EXCEPT !.imap = @ \ {c.inode[s].num},
                 !.inode[s] = FreeSlot,
                 !.hashed[c.inode[s].num] = Unlinked(@, s),
                 !.unused = Append(@, s)]
  ELSE [c EXCEPT !.inode[s].count = 0, !.unused = Append(@, s)]

Released(c, s) ==
  IF c.inode[s].nlinks = 0
  THEN [c EXCEPT !.imap = @ \ {c.inode[s].num},
                 !.inode[s] = FreeSlot,
                 !.hashed[c.inode[s].num] = Unlinked(@, s),
                 !.unused = Cons(s, @)]
  ELSE [c EXCEPT !.inode[s].count = 0, !.unused = Append(@, s)]

put_inode(c, s) ==
  IF c.inode[s].count = 1 THEN Released(Flushed(c, s), s)
  ELSE [c EXCEPT !.inode[s].count = @ - 1]

(* Mutant: the bit is not set.                                             *)
alloc_inode_unmarked(c, b, mode) ==
  Load([c EXCEPT !.entries[b] = [name \in DOMAIN @ |-> << >>]],
       [num |-> b, count |-> 1, nlinks |-> 0, mode |-> mode, zones |-> FALSE, dirty |-> TRUE])

(* alloc_bit hands out b, any free bit (external); the new inode goes to a *)
(* slot of its own without a look at the inodes that are cached already.   *)
(* wipe_inode takes its zones, and so what a directory held.               *)
alloc_inode(c, b, mode) ==
  Load([c EXCEPT !.imap = @ \cup {b},
                 !.entries[b] = [name \in DOMAIN @ |-> << >>]],
       [num |-> b, count |-> 1, nlinks |-> 0, mode |-> mode, zones |-> FALSE, dirty |-> TRUE])

(* retrieve_inode allocates a bit, whichever alloc_bit hands out, and then *)
(* gets inode n.                                                           *)
retrieve_inode(c, n, allocated) == get_inode([c EXCEPT !.imap = @ \cup allocated], n)
=============================================================================
