--------------------------------- MODULE MFS ---------------------------------
(***************************************************************************)
(* The requests of the Minix file server that change names and links,      *)
(* translated from "Project 3 - Commands/link.c" and inode.c, with the     *)
(* undelete request fs_recover this repository adds.  VFS sends one        *)
(* request at a time and MFS answers it before it takes the next, so every *)
(* request is one atomic action built from the routines of InodeCache.     *)
(*                                                                         *)
(* A directory is a function from names to the inode numbers entered under *)
(* that name, in the order search_dir meets them; only the first is ever   *)
(* looked up.  Link counts include "." and "..", which are names like the  *)
(* others.  Nobody links directories as super user.                        *)
(***************************************************************************)
EXTENDS InodeCache

CONSTANTS ROOT_INODE,    \* the number of the root directory
          FileNames,     \* names of directory entries, besides "." and ".."
          dot1, dot2,    \* "." and ".."
          RecoverName,   \* "test.c", the only name fs_recover enters
          LINK_MAX,      \* links an inode may have
          Room,          \* bound: names the disk has room for, besides the dots
          MaxRefs,       \* bound: references VFS holds to an inode
          Writable,      \* bound: the inodes VFS writes to
          MaxRecovers    \* bound: fs_recover requests in a behaviour

ASSUME RootAssumption == ROOT_INODE \in Inums
ASSUME NameAssumption == RecoverName \in FileNames /\ dot1 # dot2
                         /\ {dot1, dot2} \cap FileNames = {}
ASSUME LinkMaxAssumption == LINK_MAX \in Links

VARIABLES fs,         \* the state of MFS, as in InodeCache
          vfs,        \* vfs[n]: references VFS holds to inode n
          crashed,    \* MFS has panicked, followed a null pointer or hung
          recovers    \* how many fs_recover requests there were, for the bound

vars == <<fs, vfs, crashed, recovers>>

Names == FileNames \cup {dot1, dot2}

NoNames     == [name \in Names |-> << >>]
Dots(n, up) == [NoNames EXCEPT ![dot1] = <<n>>, ![dot2] = <<up>>]

(* An empty root directory, which VFS holds; init_inode_cache puts the     *)
(* slots on the unused list in some order.                                 *)
Init ==
  \E slots \in SetToSeqs(Slots) :
    LET root == [nlinks |-> 2, mode |-> I_DIRECTORY, zones |-> TRUE]
        none == [nlinks |-> 0, mode |-> I_REGULAR, zones |-> FALSE]
        fresh == [inode   |-> [s \in Slots |-> FreeSlot],
                  unused  |-> slots,
                  hashed  |-> [n \in Inums |-> << >>],
                  imap    |-> {ROOT_INODE},
                  disk    |-> [n \in Inums |-> IF n = ROOT_INODE THEN root ELSE none],
                  entries |-> [n \in Inums |-> IF n = ROOT_INODE THEN Dots(n, n) ELSE NoNames]]
    IN  /\ fs = get_inode(fresh, ROOT_INODE)
        /\ vfs = [n \in Inums |-> IF n = ROOT_INODE THEN 1 ELSE 0]
        /\ crashed = FALSE
        /\ recovers = 0

-----------------------------------------------------------------------------
(* search_dir (external), on the directory in slot d.                      *)
Num(c, s)          == c.inode[s].num
IsDir(c, s)        == c.inode[s].mode = I_DIRECTORY
Found(c, d, name)  == IsDir(c, d) /\ c.entries[Num(c, d)][name] # << >>
LookUp(c, d, name) == Head(c.entries[Num(c, d)][name])

HasRoom(c) ==
  MapThenSumSet(LAMBDA place : Len(c.entries[place[1]][place[2]]), Inums \X FileNames) < Room

Entered(c, d, name, n) ==
  Marked([c EXCEPT !.entries[Num(c, d)][name] = Append(@, n)], d)

Deleted(c, d, name) ==
  IF Found(c, d, name) THEN Marked([c EXCEPT !.entries[Num(c, d)][name] = Tail(@)], d) ELSE c

IsEmpty(c, d) == IsDir(c, d) /\ \A name \in FileNames : c.entries[Num(c, d)][name] = << >>

(* Mutant: the inode is not marked dirty.                                  *)
Unlink_clean(c, s) == [c EXCEPT !.inode[s].nlinks = U16(@ - 1)]

(* A link more or less for the inode in slot s.                            *)
Linked(c, s) == Marked([c EXCEPT !.inode[s].nlinks = U16(@ + 1)], s)
Unlink(c, s)    == Marked([c EXCEPT !.inode[s].nlinks = U16(@ - 1)], s)

(* advance finds the inode of a name in directory d, if a slot is left for *)
(* it.                                                                     *)
CanAdvance(c, d, name) == Found(c, d, name) /\ HasSlot(c, LookUp(c, d, name))
AdvanceSlot(c, d, name) == SlotOf(c, LookUp(c, d, name))
Advance(c, d, name) == get_inode(c, LookUp(c, d, name))

(* Mutant: fs_link keeps the inode that has the name already.              *)
Looked_kept(c, d, name) == IF CanAdvance(c, d, name) THEN Advance(c, d, name) ELSE c

(* advance followed by put_inode: what it leaves is the order of reuse.    *)
Looked(c, d, name) ==
  IF CanAdvance(c, d, name) THEN put_inode(Advance(c, d, name), AdvanceSlot(c, d, name)) ELSE c

(* unlink_file with the inode in slot s, and without it.                   *)
unlink_file(c, d, s, name) ==
  IF Found(c, d, name) THEN put_inode(Unlink(Deleted(Dup(c, s), d, name), s), s) ELSE c

unlink_dot(c, d, name) ==
  IF CanAdvance(c, d, name)
  THEN LET s == AdvanceSlot(c, d, name)
       IN  put_inode(Unlink(Deleted(Advance(c, d, name), d, name), s), s)
  ELSE c

Removable(c, s, name) == IsEmpty(c, s) /\ name \in FileNames /\ Num(c, s) # ROOT_INODE

remove_dir(c, d, s, name) ==
  unlink_dot(unlink_dot(unlink_file(c, d, s, name), s, dot1), s, dot2)

-----------------------------------------------------------------------------
(* MFS answers no request after a crash.                                   *)
(* VFS holds the inodes it names in a request, and names a directory where *)
(* a directory is meant; so get_inode finds them in the table.  A request  *)
(* that finds no slot for its first inode changes nothing and is no step.  *)
Serving    == ~crashed
Held(n)    == vfs[n] > 0
HeldDir(n) == Held(n) /\ IsDir(fs, SlotOf(fs, n))

(* A new name for inode n.  search_dir may fail to enter it: the disk may  *)
(* be full.                                                                *)
fs_link(n, dir, name) ==
  LET s  == SlotOf(fs, n)
      c1 == get_inode(fs, n)
      d  == SlotOf(c1, dir)
      c2 == get_inode(c1, dir)
      c3 == IF c2.inode[d].nlinks = 0 THEN c2 ELSE Looked(c2, d, name)
      linkable == c1.inode[s].nlinks < LINK_MAX /\ ~IsDir(c1, s)
  IN
  /\ Serving /\ HasSlot(fs, n) /\ Held(n) /\ HeldDir(dir)
  /\ \/ /\ ~(linkable /\ HasSlot(c1, dir))
        /\ fs' = put_inode(c1, s)
     \/ /\ linkable /\ HasSlot(c1, dir)
        /\ fs' = put_inode(put_inode(c3, s), d)
     \/ /\ linkable /\ HasSlot(c1, dir)
        /\ c2.inode[d].nlinks # 0 /\ ~Found(c2, d, name) /\ HasRoom(c2)
        /\ fs' = put_inode(put_inode(Linked(Entered(c3, d, name, n), s), s), d)
  /\ UNCHANGED <<vfs, crashed, recovers>>

(* unlink(name) and rmdir(name).                                           *)
fs_unlink(dir, name, rmdir) ==
  LET d  == SlotOf(fs, dir)
      c1 == get_inode(fs, dir)
      s  == AdvanceSlot(c1, d, name)
      c2 == Advance(c1, d, name)
      c3 == IF ~rmdir /\ ~IsDir(c2, s) THEN unlink_file(c2, d, s, name)
            ELSE IF rmdir /\ Removable(c2, s, name) THEN remove_dir(c2, d, s, name)
            ELSE c2
  IN
  /\ Serving /\ HasSlot(fs, dir) /\ HeldDir(dir)
  /\ fs' = IF CanAdvance(c1, d, name) THEN put_inode(put_inode(c3, s), d)
           ELSE put_inode(c1, d)
  /\ UNCHANGED <<vfs, crashed, recovers>>

-----------------------------------------------------------------------------
(* Mutant: the walk does not look for the inode that moves.                *)
Climb_blind(w, old) ==
  IF ~CanAdvance(w.c, w.at, dot2)
  THEN [w EXCEPT !.c = put_inode(@, w.at), !.result = "refused"]
  ELSE LET next == AdvanceSlot(w.c, w.at, dot2)
           c    == put_inode(Advance(w.c, w.at, dot2), w.at)
       IN  IF next = w.at THEN [w EXCEPT !.c = put_inode(c, w.at), !.result = "reached"]
           ELSE [w EXCEPT !.c = c, !.at = next]

(* fs_rename walks from the new directory up to the root, to see that it   *)
(* does not pass the inode it moves.  A step of the walk w:                *)
Climb(w, old) ==
  IF w.at = old \/ ~CanAdvance(w.c, w.at, dot2)
  THEN [w EXCEPT !.c = put_inode(@, w.at), !.result = "refused"]
  ELSE LET next == AdvanceSlot(w.c, w.at, dot2)
           c    == put_inode(Advance(w.c, w.at, dot2), w.at)
       IN  IF next = w.at THEN [w EXCEPT !.c = put_inode(c, w.at), !.result = "reached"]
           ELSE [w EXCEPT !.c = c, !.at = next]

(* The walk after k steps.  One that takes more steps than there are       *)
(* inodes goes round for ever.                                             *)
Walk(c, old, new) ==
  LET Steps == Cardinality(Inums) + 1
      walk[k \in 0 .. Steps] ==
        IF k = 0 THEN [c |-> Dup(c, new), at |-> new, result |-> "walking"]
        ELSE LET w == walk[k - 1] IN IF w.result = "walking" THEN Climb(w, old) ELSE w
  IN  walk[Steps]

(* The name of the inode in slot i moves from directory o to d.            *)
Moved(c, o, on, i, d, nn) ==
  IF o = d THEN IF Found(c, o, on) THEN Entered(Deleted(c, o, on), d, nn, Num(c, i)) ELSE c
  ELSE Deleted(Entered(c, d, nn, Num(c, i)), o, on)

(* Mutant: the new parent's link is not counted.                           *)
Reparented_uncounted(c, i, d) == Entered(unlink_dot(c, i, dot2), i, dot2, Num(c, d))

(* A directory that moves to d has d as its "..".                          *)
Reparented(c, i, d) == Linked(Entered(unlink_dot(c, i, dot2), i, dot2, Num(c, d)), d)

(* At the end of fs_rename; new_ip is NULL when the list replaced is empty.*)
PutAll(c, o, i, d, replaced) ==
  LET rest == put_inode(put_inode(put_inode(c, o), i), d)
  IN  IF replaced = << >> THEN rest ELSE put_inode(rest, Head(replaced))

(* rename(od/on, nd/nn) once both names are looked up: old directory o,    *)
(* its inode i, new directory d, and replaced, a list of the inode the new *)
(* name has now, empty if it has none or get_inode has no slot for it.     *)
Renamed(c, o, on, i, d, nn, replaced) ==
  LET moves == IsDir(c, i) /\ o # d
      w     == IF moves THEN Walk(c, i, d) ELSE [c |-> c, at |-> d, result |-> "reached"]
      allowed ==
        /\ w.result = "reached"
        /\ {on, nn} \cap {dot1, dot2} = {}
        /\ replaced = << >> => ~(moves /\ w.c.inode[d].nlinks >= LINK_MAX)
        /\ \A s \in Range(replaced) :
             /\ s # i
             /\ IsDir(w.c, s) = IsDir(w.c, i)
             /\ IsDir(w.c, s) => Removable(w.c, s, nn)
      without ==
        IF replaced = << >> THEN w.c
        ELSE IF IsDir(w.c, i) THEN remove_dir(w.c, d, Head(replaced), nn)
        ELSE unlink_file(w.c, d, Head(replaced), nn)
      moved   == Moved(without, o, on, i, d, nn)
  IN
  /\ crashed' = (w.result = "walking")
  /\ \/ /\ allowed
        /\ o = d \/ replaced # << >> \/ HasRoom(w.c)
        /\ fs' = PutAll(IF moves THEN Reparented(moved, i, d) ELSE moved, o, i, d, replaced)
     \/ /\ ~allowed \/ (o # d /\ replaced = << >>)
        /\ fs' = PutAll(w.c, o, i, d, replaced)

fs_rename(od, on, nd, nn) ==
  LET o  == SlotOf(fs, od)
      c1 == get_inode(fs, od)
      i  == AdvanceSlot(c1, o, on)
      c2 == Advance(c1, o, on)
      d  == SlotOf(c2, nd)
      c3 == get_inode(c2, nd)
      s  == AdvanceSlot(c3, d, nn)
  IN
  /\ Serving /\ HasSlot(fs, od) /\ HeldDir(od) /\ HeldDir(nd)
  /\ \/ /\ ~(CanAdvance(c1, o, on) /\ HasSlot(c2, nd))
        /\ fs' = put_inode(IF CanAdvance(c1, o, on) THEN put_inode(c2, i) ELSE c1, o)
        /\ UNCHANGED crashed
     \/ /\ CanAdvance(c1, o, on) /\ HasSlot(c2, nd)
        /\ c3.inode[d].nlinks = 0
        /\ fs' = put_inode(put_inode(put_inode(c3, i), o), d)
        /\ UNCHANGED crashed
     \/ /\ CanAdvance(c1, o, on) /\ HasSlot(c2, nd)
        /\ c3.inode[d].nlinks # 0
        /\ IF CanAdvance(c3, d, nn)
           THEN Renamed(Advance(c3, d, nn), o, on, i, d, nn, <<s>>)
           ELSE Renamed(c3, o, on, i, d, nn, << >>)
  /\ UNCHANGED <<vfs, recovers>>

-----------------------------------------------------------------------------
(* Truncating the file to nothing; the partial cuts keep it nonempty.      *)
fs_ftrunc(n) ==
  LET s == find_inode(fs, n)
  IN
  /\ Serving /\ InUse(fs, n)
  /\ Held(n) /\ ~HeldDir(n)
  /\ fs' = Marked([fs EXCEPT !.inode[s].zones = FALSE], s)
  /\ UNCHANGED <<vfs, crashed, recovers>>

(* Mutant: no reference is kept for put_inode.                             *)
fs_putnode_all(n, count) ==
  LET s == find_inode(fs, n)
  IN
  /\ Serving /\ count <= vfs[n]
  /\ n = ROOT_INODE => count < vfs[n]
  /\ InUse(fs, n)
  /\ count <= fs.inode[s].count
  /\ fs' = put_inode([fs EXCEPT !.inode[s].count = @ - count], s)
  /\ vfs' = [vfs EXCEPT ![n] = @ - count]
  /\ UNCHANGED <<crashed, recovers>>

(* VFS gives count of its references to inode n back; it keeps the root's  *)
(* as long as the device is mounted.                                       *)
fs_putnode(n, count) ==
  LET s == find_inode(fs, n)
  IN
  /\ Serving /\ count <= vfs[n]
  /\ n = ROOT_INODE => count < vfs[n]
  /\ \/ /\ ~(InUse(fs, n) /\ count <= fs.inode[s].count)
        /\ crashed' = TRUE
        /\ UNCHANGED <<fs, vfs>>
     \/ /\ InUse(fs, n)
        /\ count <= fs.inode[s].count
        /\ fs' = put_inode([fs EXCEPT !.inode[s].count = @ - (count - 1)], s)
        /\ vfs' = [vfs EXCEPT ![n] = @ - count]
        /\ UNCHANGED crashed
  /\ UNCHANGED recovers

-----------------------------------------------------------------------------
(* fs_recover(n, dir): enter the inode n, deleted or not, in dir.  The     *)
(* caller is the undelete command, with any two numbers.  alloc_bit, asked *)
(* to start at n, hands out some free bit, if there is one.  No reference  *)
(* is returned, and the table may have no slot for n: retrieve_inode then  *)
(* frees the bit n and goes on with a null pointer.                        *)
fs_recover(n, dir) ==
  \E allocated \in IF fs.imap = Inums THEN {{}} ELSE {{b} : b \in Inums \ fs.imap} :
    LET d  == SlotOf(fs, dir)
        c1 == get_inode(fs, dir)
        s  == SlotOf(c1, n)
        c2 == retrieve_inode(c1, n, allocated)
        c3 == [c2 EXCEPT !.inode[s].nlinks = U16(@ + 1), !.inode[s].dirty = FALSE]
    IN
    /\ Serving /\ recovers < MaxRecovers
    /\ recovers' = recovers + 1
    /\ \/ /\ ~HasSlot(fs, dir)
          /\ UNCHANGED <<fs, crashed>>
       \/ /\ HasSlot(fs, dir) /\ ~HasSlot(c1, n)
          /\ fs' = [c1 EXCEPT !.imap = (@ \cup allocated) \ {n}]
          /\ crashed' = TRUE
       \/ /\ HasSlot(fs, dir) /\ HasSlot(c1, n)
          /\ \/ fs' = c3
             \/ IsDir(c3, d) /\ HasRoom(c3) /\ fs' = Entered(c3, d, RecoverName, n)
          /\ UNCHANGED crashed
    /\ UNCHANGED vfs

-----------------------------------------------------------------------------
(* The requests of MFS that are not in this repository, as far as they     *)
(* change the state above.                                                 *)

(* A path component of a lookup: VFS holds what it finds.                  *)
fs_lookup(dir, name) ==
  LET d  == SlotOf(fs, dir)
      c1 == get_inode(fs, dir)
      n  == LookUp(c1, d, name)
  IN
  /\ Serving /\ HasSlot(fs, dir) /\ HeldDir(dir)
  /\ CanAdvance(c1, d, name)
  /\ vfs[n] < MaxRefs
  /\ fs' = put_inode(Advance(c1, d, name), d)
  /\ vfs' = [vfs EXCEPT ![n] = @ + 1]
  /\ UNCHANGED <<crashed, recovers>>

(* creat and mkdir.  A new inode is written to disk at once; VFS holds a   *)
(* new file, not a new directory.                                          *)
fs_create(dir, name, mode) ==
  \E b \in Inums \ fs.imap :
    LET d  == SlotOf(fs, dir)
        c1 == get_inode(fs, dir)
        s  == Head(c1.unused)
        c2 == alloc_inode(c1, b, mode)
        c3 == Entered(Written([c2 EXCEPT !.inode[s].nlinks = 1], s), d, name, b)
        c4 == Linked(Linked([c3 EXCEPT !.entries[b] = Dots(b, dir),
                                       !.inode[s].zones = TRUE], s), d)
    IN
    /\ Serving /\ HasSlot(fs, dir) /\ HeldDir(dir) /\ fs.inode[d].nlinks # 0
    /\ ~Found(c1, d, name) /\ HasRoom(c1)
    /\ c1.unused # << >>
    /\ \/ /\ mode = I_REGULAR
          /\ fs' = put_inode(c3, d)
          /\ vfs' = [vfs EXCEPT ![b] = @ + 1]
       \/ /\ mode = I_DIRECTORY /\ fs.inode[d].nlinks < LINK_MAX
          /\ fs' = put_inode(put_inode(c4, s), d)
          /\ UNCHANGED vfs
    /\ UNCHANGED <<crashed, recovers>>

(* Writing a file gives it zones.                                          *)
fs_write(n) ==
  LET s == find_inode(fs, n)
  IN
  /\ Serving /\ InUse(fs, n)
  /\ Held(n) /\ ~HeldDir(n) /\ n \in Writable
  /\ fs' = Marked([fs EXCEPT !.inode[s].zones = TRUE], s)
  /\ UNCHANGED <<vfs, crashed, recovers>>

-----------------------------------------------------------------------------
Next ==
  \/ \E n, dir \in Inums, name \in Names : fs_link(n, dir, name)
  \/ \E dir \in Inums, name \in Names, rmdir \in BOOLEAN : fs_unlink(dir, name, rmdir)
  \/ \E od, nd \in Inums, on, nn \in Names : fs_rename(od, on, nd, nn)
  \/ \E n \in Inums : fs_ftrunc(n)
  \/ \E n \in Inums, count \in 1 .. MaxRefs : fs_putnode(n, count)
  \/ \E n, dir \in Inums : fs_recover(n, dir)
  \/ \E dir \in Inums, name \in Names : fs_lookup(dir, name)
  \/ \E dir \in Inums, name \in FileNames, mode \in Modes : fs_create(dir, name, mode)
  \/ \E n \in Inums : fs_write(n)

Spec == Init /\ [][Next]_vars

-----------------------------------------------------------------------------
(* Properties.                                                             *)

(* The type of the state.  A count below 0 would be put_inode's panic.     *)
TypeOK ==
  /\ fs \in [inode   : [Slots -> Inode],
             unused  : Seq(Slots),
             hashed  : [Inums -> Seq(Slots)],
             imap    : SUBSET Inums,
             disk    : [Inums -> DiskInode],
             entries : [Inums -> [Names -> Seq(Inums)]]]
  /\ vfs \in [Inums -> Nat]
  /\ crashed \in BOOLEAN
  /\ recovers \in Nat

(* Between requests the unused list holds the slots nobody refers to, each *)
(* once.  A slot missing from it is lost for ever; one that is on it and   *)
(* in use is handed out a second time.                                     *)
UnusedExact ==
  /\ IsInjective(fs.unused)
  /\ Range(fs.unused) = {s \in Slots : fs.inode[s].count = 0}

(* The unused list is in the order put_inode's comments promise: get_inode *)
(* forgets no cached inode while a slot is free.                           *)
FreeSlotsFirst ==
  \A j, k \in DOMAIN fs.unused :
    j < k /\ Num(fs, fs.unused[k]) = NO_ENTRY => Num(fs, fs.unused[j]) = NO_ENTRY

(* The hash lists hold exactly the slots that hold an inode, so that none  *)
(* is found under a number that is no longer its own.                      *)
HashedExact ==
  \A n \in Inums :
    /\ IsInjective(fs.hashed[n])
    /\ Range(fs.hashed[n]) = {s \in Slots : Num(fs, s) = n}

(* A slot somebody uses is not given to another inode under his feet.      *)
KeepsItsInode ==
  [][\A s \in Slots : fs.inode[s].count > 0 /\ fs'.inode[s].count > 0
                        => fs'.inode[s].num = fs.inode[s].num]_vars

(* An inode is in one slot of the table.  With two, a change made through  *)
(* the one is lost when the other is written back.                         *)
OneSlotPerInode == \A n \in Inums : Len(fs.hashed[n]) <= 1

(* Every request gives back every reference it takes, on each of its error *)
(* paths: between requests an inode's count is what VFS holds of it.       *)
ReferencesMatchVFS ==
  /\ \A s \in Slots : fs.inode[s].count > 0 => fs.inode[s].count = vfs[Num(fs, s)]
  /\ \A n \in Inums : Held(n) => InUse(fs, n)

(* Inode n as MFS knows it: in the table, or else on disk.                 *)
Known(n) == IF Cached(fs, n) THEN OnDisk(fs.inode[SlotOf(fs, n)]) ELSE fs.disk[n]

(* The directory entries that name inode n.                                *)
NamesIn(entries, n) ==
  UNION {{<<dir, name, k>> : k \in {j \in DOMAIN entries[dir][name] : entries[dir][name][j] = n}} :
           dir \in Inums, name \in Names}
NamesOf(n) == NamesIn(fs.entries, n)

(* Link counts are the number of directory entries, dots included, however *)
(* unlink, rmdir, link and rename were mixed and whatever of it failed.    *)
LinkCountsMatch == \A n \in Inums : Known(n).nlinks = Cardinality(NamesOf(n))

(* An inode number is in use exactly as long as the inode has a name or is *)
(* open: an unlinked open file keeps its inode until it is closed, and no  *)
(* longer.                                                                 *)
AllocatedExactly == \A n \in Inums : n \in fs.imap <=> Known(n).nlinks > 0 \/ Held(n)

(* An inode in the table that differs from the disk is marked dirty: its   *)
(* slot can be reused at any time, and only dirty inodes are written.      *)
CleanMatchesDisk ==
  \A s \in Slots :
    Num(fs, s) # NO_ENTRY /\ ~fs.inode[s].dirty => fs.disk[Num(fs, s)] = OnDisk(fs.inode[s])

Parent(n) == fs.entries[n][dot2][1]
Ancestor(n) ==
  LET up[k \in 0 .. Cardinality(Inums)] == IF k = 0 THEN n ELSE Parent(up[k - 1])
  IN  up[Cardinality(Inums)]
Directories == {n \in Inums : Known(n).nlinks > 0 /\ Known(n).mode = I_DIRECTORY}

(* The directories are a tree: each has one "." and one "..", which is     *)
(* where its names are, and every ".." chain ends at the root, so that no  *)
(* rename cuts a directory off and fs_rename's walk comes to an end.       *)
IsTree ==
  /\ \A n \in Directories :
       /\ fs.entries[n][dot1] = <<n>>
       /\ Len(fs.entries[n][dot2]) = 1
       /\ Parent(n) \in Directories
       /\ n # ROOT_INODE =>
            \A entry \in NamesOf(n) : entry[2] \in FileNames => entry[1] = Parent(n)
  /\ \A n \in Directories : Ancestor(n) = ROOT_INODE

(* No request panics, follows a null pointer or walks in a circle.         *)
NeverCrashes == ~crashed

-----------------------------------------------------------------------------
(* What the repository's comments say and the code does not do.            *)

(* fs_rename: "The rename will probably work.  Only two things can go      *)
(* wrong now"; so a name is never in a directory twice.  It is when        *)
(* get_inode had no slot for the inode that has the name already.          *)
NamesUnique == \A n \in Inums, name \in Names : Len(fs.entries[n][name]) <= 1

(* retrieve_inode: "Put the inode just allocated into it"; so an inode     *)
(* that is recovered is allocated.  alloc_bit allocated some other one.    *)
NamedIsAllocated == \A n \in Inums : NamesOf(n) # {} => n \in fs.imap
=============================================================================
