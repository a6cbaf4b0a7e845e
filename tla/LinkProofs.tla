----------------------------- MODULE LinkProofs -----------------------------
(***************************************************************************)
(* The directories and the inodes of MFS, as long as nobody undeletes: an  *)
(* inode has as many links as names, the directories are a tree, the bit   *)
(* map is exact, a clean slot is as on disk, counts are VFS's references,  *)
(* and no request crashes.  The invariant is Orderly, at the end: there is *)
(* a table of inodes, known, that the slots and the disk agree with (Tidy, *)
(* in InodeCacheProofs) and the directories fit (Good).                    *)
(*                                                                         *)
(* Within a request Keeps says what holds with the references it has taken *)
(* so far; every routine is shown to keep it, every request to end with    *)
(* none left but those VFS gets.                                           *)
(***************************************************************************)
EXTENDS MFSProofs

-----------------------------------------------------------------------------
(* A request in the making.  at[s] is the inode in slot s, as long as the  *)
(* request has a reference to it, known the inodes and entries the         *)
(* directories as they are at the moment.                                  *)
Keeps(base, c, t, at, known, entries) ==
  /\ Holding(base, c, t) /\ Tidy(c, known) /\ c.entries = entries
  /\ at \in [Slots -> Inums]
  /\ \A s \in Slots : t[s] > 0 => c.inode[s].num = at[s]

More(known, n)  == [known EXCEPT ![n].nlinks = @ + 1]
Fewer(known, n) == [known EXCEPT ![n].nlinks = @ - 1]

Enter(entries, d, name, n) == [entries EXCEPT ![d][name] = Append(@, n)]
Drop(entries, d, name)     == [entries EXCEPT ![d][name] = Tail(@)]

(* The types of what a request keeps.                                      *)
LEMMA KeepsTypes ==
  ASSUME NEW base, NEW c, NEW t, NEW at, NEW known, NEW entries,
         Keeps(base, c, t, at, known, entries)
  PROVE  /\ c \in State /\ Lists(c) /\ t \in Taken /\ at \in [Slots -> Inums]
         /\ known \in [Inums -> DiskInode] /\ entries \in [Inums -> [Names -> Seq(Inums)]]
BY StateTypes DEF Keeps, Holding, Tidy

(* What MFS finds in a slot it has a reference to.                         *)
LEMMA KeepsSees ==
  ASSUME NEW base, NEW c, NEW t, NEW at, NEW known, NEW entries,
         Keeps(base, c, t, at, known, entries), NEW s \in Slots, t[s] > 0
  PROVE  /\ c.inode[s].count > 0 /\ at[s] \in Inums /\ UsedIn(c, at[s])
         /\ c.inode[s].num = at[s] /\ Num(c, s) = at[s] /\ c.inode[s] \in Inode
         /\ OnDisk(c.inode[s]) = known[at[s]]
         /\ c.inode[s].nlinks = known[at[s]].nlinks
         /\ c.inode[s].mode = known[at[s]].mode
         /\ IsDir(c, s) <=> known[at[s]].mode = I_DIRECTORY
         /\ HasSlot(c, at[s]) /\ SlotOf(c, at[s]) = s
         /\ \A name : /\ Found(c, s, name) <=> /\ known[at[s]].mode = I_DIRECTORY
                                               /\ entries[at[s]][name] # << >>
                      /\ LookUp(c, s, name) = Head(entries[at[s]][name])
<1>1. /\ c.inode[s].count > 0 /\ c.inode[s].num = at[s] /\ at[s] \in Inums
      /\ c \in State /\ c.inode[s] \in Inode /\ Lists(c)
  BY HoldingInode, StateTypes DEF Keeps, Holding
<1>2. /\ OnDisk(c.inode[s]) = known[at[s]] /\ UsedIn(c, at[s]) /\ c.entries = entries
  BY <1>1 DEF Keeps, Tidy, UsedIn
<1>3. c.inode[s].nlinks = known[at[s]].nlinks /\ c.inode[s].mode = known[at[s]].mode
  BY <1>1, <1>2, OnDiskType
<1>4. Cached(c, at[s])
  BY <1>1, CachedSlot
<1>5. SlotOf(c, at[s]) \in Slots /\ c.inode[SlotOf(c, at[s])].num = at[s]
  BY <1>1, <1>4, CachedSlot
<1>6. SlotOf(c, at[s]) = s
  BY <1>1, <1>5 DEF Keeps, Tidy
<1>7. HasSlot(c, at[s])
  BY <1>4 DEF HasSlot, Cached
<1> QED
  BY <1>1, <1>2, <1>3, <1>6, <1>7 DEF Num, IsDir, Found, LookUp

(* A request begins: nothing is taken.                                     *)
LEMMA KeepsStart ==
  ASSUME NEW c, Sound(c), NEW known, Tidy(c, known), NEW at \in [Slots -> Inums]
  PROVE  Keeps(c, c, Nothing, at, known, c.entries)
<1>1. \A s \in Slots : ~(Nothing[s] > 0)
  BY DEF Nothing
<1> QED
  BY <1>1, SoundStart DEF Keeps

(* The slot is the first of the unused list, or the one the inode is in.   *)
LEMMA KeepsGet ==
  ASSUME NEW base, NEW c, NEW t, NEW at, NEW known, NEW entries,
         Keeps(base, c, t, at, known, entries),
         NEW n \in Inums, HasSlot(c, n), known[n].nlinks # 0 \/ UsedIn(c, n)
  PROVE  LET s == SlotOf(c, n)
         IN  /\ s \in Slots
             /\ Keeps(base, get_inode(c, n), Plus(t, s), [at EXCEPT ![s] = n], known, entries)
             /\ t[s] > 0 => at[s] = n
<1> DEFINE s == SlotOf(c, n)
           e == get_inode(c, n)
           u == Plus(t, s)
           put == [at EXCEPT ![s] = n]
<1>1. /\ c \in State /\ Lists(c) /\ t \in Taken /\ at \in [Slots -> Inums] /\ Tidy(c, known)
  BY KeepsTypes DEF Keeps
<1>2. s \in Slots /\ Holding(base, e, u) /\ e.inode[s].num = n
  BY HoldingGet DEF Keeps
<1>3. Others(c, e, s) /\ (c.inode[s].count > 0 => c.inode[s].num = n)
  BY <1>1, GetOne
<1>4. Tidy(e, known)
  BY <1>1, GetTidy
<1>5. e.entries = c.entries
  BY <1>1 DEF get_inode, Load, Dup, State
<1> HIDE DEF e, s
<1>6. /\ u \in Taken /\ \A r \in Slots \ {s} : u[r] = t[r]
  BY <1>1, <1>2, TakenPlus
<1> HIDE DEF u
<1>7. t[s] > 0 => at[s] = n
  BY <1>2, <1>3, KeepsSees
<1>8. put \in [Slots -> Inums] /\ put[s] = n /\ \A r \in Slots \ {s} : put[r] = at[r]
  BY <1>1, <1>2
<1> HIDE DEF put
<1>9. \A r \in Slots : u[r] > 0 => e.inode[r].num = put[r]
  BY <1>2, <1>3, <1>6, <1>8 DEF Others, Keeps
<1> QED
  BY <1>2, <1>4, <1>5, <1>7, <1>8, <1>9 DEF Keeps, e, u, s, put

(* dup_inode within a request.                                             *)
LEMMA KeepsDup ==
  ASSUME NEW base, NEW c, NEW t, NEW at, NEW known, NEW entries,
         Keeps(base, c, t, at, known, entries), NEW s \in Slots, t[s] > 0
  PROVE  Keeps(base, Dup(c, s), Plus(t, s), at, known, entries)
<1> DEFINE e == Dup(c, s)
           u == Plus(t, s)
<1>1. /\ c \in State /\ Lists(c) /\ t \in Taken /\ at \in [Slots -> Inums] /\ Tidy(c, known)
      /\ c.inode[s].num \in Inums /\ c.inode[s].num = at[s]
  BY KeepsTypes, KeepsSees DEF Keeps
<1>2. Holding(base, e, u)
  BY HoldingDup DEF Keeps
<1>3. Others(c, e, s) /\ e.inode[s].num = at[s]
  BY <1>1, DupOne
<1>4. Tidy(e, known)
  BY <1>1, DupTidy
<1>5. e.entries = c.entries
  BY <1>1 DEF Dup, State
<1> HIDE DEF e
<1>6. \A r \in Slots \ {s} : u[r] = t[r]
  BY <1>1, TakenPlus
<1> HIDE DEF u
<1>7. \A r \in Slots : u[r] > 0 => e.inode[r].num = at[r]
  BY <1>3, <1>6 DEF Others, Keeps
<1> QED
  BY <1>1, <1>2, <1>4, <1>5, <1>7 DEF Keeps, e, u

(* put_inode within a request; it frees no number that is still used.      *)
LEMMA KeepsPut ==
  ASSUME NEW base, NEW c, NEW t \in Taken, NEW at, NEW known, NEW entries, NEW s \in Slots,
         Keeps(base, c, Plus(t, s), at, known, entries)
  PROVE  Keeps(base, put_inode(c, s), t, at, known, entries)
<1> DEFINE e == put_inode(c, s)
           u == Plus(t, s)
<1>1. /\ u[s] = t[s] + 1 /\ u[s] > 0 /\ t[s] \in Nat
      /\ \A r \in Slots \ {s} : u[r] = t[r]
  BY TakenPlus DEF Taken
<1>2. /\ c \in State /\ Lists(c) /\ at \in [Slots -> Inums] /\ Tidy(c, known)
      /\ c.inode[s].count > 0 /\ c.inode[s].num = at[s]
      /\ c.inode[s].count = base.inode[s].count + u[s] /\ base.inode[s].count \in Nat
  BY <1>1, KeepsTypes, KeepsSees, StateTypes DEF Keeps, Holding
<1>3. Holding(base, e, t)
  BY HoldingPut DEF Keeps
<1>4. /\ Others(c, e, s)
      /\ c.inode[s].count > 1 => e.inode[s].num = c.inode[s].num
  BY <1>2, PutOne
<1>5. Tidy(e, known)
  BY <1>2, PutTidy
<1>6. e.entries = c.entries
  <2>1. \A f \in State : Released(f, s).entries = f.entries
    BY DEF Released, State
  <2>2. Written(c, s).entries = c.entries /\ Written(c, s) \in State
    BY <1>2, WrittenSame DEF Written, State, Same
  <2>3. Flushed(c, s).entries = c.entries /\ Flushed(c, s) \in State
    BY <1>2, <2>2 DEF Flushed
  <2>4. [c EXCEPT !.inode[s].count = @ - 1].entries = c.entries
    BY <1>2 DEF State
  <2> QED
    BY <2>1, <2>3, <2>4 DEF put_inode
<1> HIDE DEF e, u
<1>7. \A r \in Slots : t[r] > 0 => e.inode[r].num = at[r]
  <2>1. t[s] > 0 => c.inode[s].count > 1
    BY <1>1, <1>2
  <2> QED
    BY <1>1, <1>2, <1>4, <2>1 DEF Others, Keeps, u
<1> QED
  BY <1>2, <1>3, <1>5, <1>6, <1>7 DEF Keeps, e

(* The inode in a slot changes; either it is marked dirty or the disk has  *)
(* the new inode already.                                                  *)
LEMMA KeepsSet ==
  ASSUME NEW base, NEW c, NEW t, NEW at, NEW known, NEW entries,
         Keeps(base, c, t, at, known, entries), NEW s \in Slots, t[s] > 0,
         NEW i \in Inode, i.num = c.inode[s].num, i.count = c.inode[s].count,
         i.dirty \/ c.disk[i.num] = OnDisk(i)
  PROVE  Keeps(base, [c EXCEPT !.inode[s] = i], t, at,
               [known EXCEPT ![at[s]] = OnDisk(i)], entries)
<1> DEFINE e == [c EXCEPT !.inode[s] = i]
<1>1. /\ c \in State /\ Lists(c) /\ Tidy(c, known) /\ Holding(base, c, t)
      /\ i.num \in Inums /\ i.num = at[s] /\ i.count > 0
  BY KeepsTypes, KeepsSees DEF Keeps
<1>2. Same(c, e)
  BY <1>1, InodeSame
<1>3. e \in State /\ \A r \in Slots : e.inode[r].num = c.inode[r].num
  BY <1>2 DEF Same
<1>4. /\ e.inode = [c.inode EXCEPT ![s] = i] /\ e.disk = c.disk /\ e.imap = c.imap
      /\ e.entries = c.entries
  BY <1>1 DEF State
<1> HIDE DEF e
<1>5. Holding(base, e, t)
  BY <1>1, <1>2, HoldingSame
<1>6. Tidy(e, [known EXCEPT ![i.num] = OnDisk(i)])
  BY <1>1, <1>3, <1>4, TidyChanged
<1>7. Tidy(e, [known EXCEPT ![at[s]] = OnDisk(i)])
  BY <1>1, <1>6
<1>8. c.entries = entries /\ at \in [Slots -> Inums] /\ \A r \in Slots : t[r] > 0 => c.inode[r].num = at[r]
  BY DEF Keeps
<1>9. Keeps(base, e, t, at, [known EXCEPT ![at[s]] = OnDisk(i)], entries)
  BY <1>3, <1>4, <1>5, <1>7, <1>8 DEF Keeps
<1> QED
  BY <1>9 DEF e

(* Other names for the slots the request has no reference to.              *)
LEMMA KeepsAt ==
  ASSUME NEW base, NEW c, NEW t, NEW at, NEW known, NEW entries,
         Keeps(base, c, t, at, known, entries), NEW new \in [Slots -> Inums],
         \A s \in Slots : t[s] > 0 => new[s] = at[s]
  PROVE  Keeps(base, c, t, new, known, entries)
BY DEF Keeps

(* i_nlinks does not wrap.                                                 *)
LEMMA LinksFit ==
  ASSUME NEW n \in Links
  PROVE  /\ n + 1 \in Links => U16(n + 1) = n + 1
         /\ n # 0 => n - 1 \in Links /\ U16(n - 1) = n - 1
<1> DEFINE d == 65536
<1>1. d \in Nat \ {0} /\ Links = 0 .. d - 1
  BY SMTT(30) DEF Links
<1>2. \A k : U16(k) = k % d
  BY DEF U16
<1> HIDE DEF d
<1>3. \A k \in Links : k \in Nat /\ k < d
  BY <1>1
<1>4. \A k \in Links : k % d = k
  BY <1>1, <1>3, SmallModulo
<1>5. n # 0 => n - 1 \in Links
  BY <1>1
<1> QED
  BY <1>2, <1>4, <1>5

(* Link counts are numbers.                                                *)
LEMMA LinksAreNumbers ==
  ASSUME NEW n \in Links
  PROVE  n \in Nat
BY SMTT(30) DEF Links

(* One link of at least two goes.                                          *)
LEMMA TwoLinks ==
  ASSUME NEW n \in Links, n > 1
  PROVE  n # 0 /\ n - 1 # 0
BY LinksAreNumbers

(* A link count set in a slot the request holds is known from then on.     *)
LEMMA KeepsNlinks ==
  ASSUME NEW base, NEW c, NEW t, NEW at, NEW known, NEW entries,
         Keeps(base, c, t, at, known, entries), NEW s \in Slots, t[s] > 0, NEW k \in Links
  PROVE  Keeps(base, Marked([c EXCEPT !.inode[s].nlinks = k], s), t, at,
               [known EXCEPT ![at[s]].nlinks = k], entries)
<1> DEFINE i == [c.inode[s] EXCEPT !.nlinks = k, !.dirty = TRUE]
<1>1. /\ c \in State /\ c.inode[s] \in Inode /\ at[s] \in Inums
      /\ known \in [Inums -> DiskInode] /\ OnDisk(c.inode[s]) = known[at[s]]
  BY KeepsTypes, KeepsSees
<1>2. Marked([c EXCEPT !.inode[s].nlinks = k], s) = [c EXCEPT !.inode[s] = i]
  BY <1>1 DEF Marked, State
<1>3. i \in Inode /\ i.num = c.inode[s].num /\ i.count = c.inode[s].count /\ i.dirty
  BY <1>1 DEF Inode
<1>4. OnDisk(i) = [known[at[s]] EXCEPT !.nlinks = k]
  BY <1>1 DEF Inode, OnDisk
<1> HIDE DEF i
<1>5. Keeps(base, [c EXCEPT !.inode[s] = i], t, at, [known EXCEPT ![at[s]] = OnDisk(i)], entries)
  BY <1>3, KeepsSet
<1>6. [known EXCEPT ![at[s]] = OnDisk(i)] = [known EXCEPT ![at[s]].nlinks = k]
  BY <1>4
<1> QED
  BY <1>2, <1>5, <1>6

(* A link more.                                                            *)
LEMMA KeepsLinked ==
  ASSUME NEW base, NEW c, NEW t, NEW at, NEW known, NEW entries,
         Keeps(base, c, t, at, known, entries), NEW s \in Slots, t[s] > 0,
         known[at[s]].nlinks + 1 \in Links
  PROVE  Keeps(base, Linked(c, s), t, at, More(known, at[s]), entries)
<1> DEFINE k == known[at[s]].nlinks
<1>1. c.inode[s] \in Inode /\ c.inode[s].nlinks = k
  BY KeepsSees
<1>2. k \in Links
  BY <1>1 DEF Inode
<1>3. U16(k + 1) = k + 1
  BY <1>2, LinksFit
<1>4. Linked(c, s) = Marked([c EXCEPT !.inode[s].nlinks = k + 1], s)
  BY <1>1, <1>3 DEF Linked
<1>5. More(known, at[s]) = [known EXCEPT ![at[s]].nlinks = k + 1]
  BY DEF More
<1> HIDE DEF k
<1> QED
  BY <1>4, <1>5, KeepsNlinks DEF k

(* A link less: there was one, so the count does not wrap.                 *)
LEMMA KeepsUnlink ==
  ASSUME NEW base, NEW c, NEW t, NEW at, NEW known, NEW entries,
         Keeps(base, c, t, at, known, entries), NEW s \in Slots, t[s] > 0,
         known[at[s]].nlinks # 0
  PROVE  Keeps(base, Unlink(c, s), t, at, Fewer(known, at[s]), entries)
<1> DEFINE k == known[at[s]].nlinks
<1>1. c.inode[s] \in Inode /\ c.inode[s].nlinks = k
  BY KeepsSees
<1>2. k \in Links
  BY <1>1 DEF Inode
<1>3. k - 1 \in Links /\ U16(k - 1) = k - 1
  BY <1>2, LinksFit
<1>4. Unlink(c, s) = Marked([c EXCEPT !.inode[s].nlinks = k - 1], s)
  BY <1>1, <1>3 DEF Unlink
<1>5. Fewer(known, at[s]) = [known EXCEPT ![at[s]].nlinks = k - 1]
  BY DEF Fewer
<1> HIDE DEF k
<1> QED
  BY <1>3, <1>4, <1>5, KeepsNlinks DEF k

(* The directory in slot d gets another list for a name, and is dirty.     *)
LEMMA KeepsEntry ==
  ASSUME NEW base, NEW c, NEW t, NEW at, NEW known, NEW entries,
         Keeps(base, c, t, at, known, entries), NEW d \in Slots, t[d] > 0,
         NEW name \in Names, NEW list \in Seq(Inums)
  PROVE  Keeps(base, Marked([c EXCEPT !.entries[at[d]][name] = list], d), t, at, known,
               [entries EXCEPT ![at[d]][name] = list])
<1> DEFINE f == [c EXCEPT !.entries[at[d]][name] = list]
           i == [f.inode[d] EXCEPT !.dirty = TRUE]
           new == [entries EXCEPT ![at[d]][name] = list]
<1>1. /\ c \in State /\ at[d] \in Inums /\ known \in [Inums -> DiskInode]
      /\ entries \in [Inums -> [Names -> Seq(Inums)]] /\ c.entries = entries
  BY KeepsTypes, KeepsSees DEF Keeps
<1>2. /\ f.inode = c.inode /\ f.disk = c.disk /\ f.imap = c.imap /\ f.entries = new
  BY <1>1 DEF State
<1>3. Same(c, f)
  BY <1>1, EntrySame
<1>4. Marked(f, d) = [f EXCEPT !.inode[d] = i]
  BY DEF Marked
<1> HIDE DEF f, new
<1>5. Keeps(base, f, t, at, known, new)
  <2>1. Holding(base, f, t) /\ Tidy(f, known)
    BY <1>2, <1>3, HoldingSame, TidySame DEF Keeps
  <2> QED
    BY <1>2, <2>1 DEF Keeps
<1>6. f.inode[d] \in Inode /\ OnDisk(f.inode[d]) = known[at[d]]
  BY <1>5, KeepsSees
<1>7. /\ i \in Inode /\ i.num = f.inode[d].num /\ i.count = f.inode[d].count /\ i.dirty
      /\ OnDisk(i) = known[at[d]]
  BY <1>6 DEF Inode, OnDisk
<1> HIDE DEF i
<1>8. Keeps(base, [f EXCEPT !.inode[d] = i], t, at, [known EXCEPT ![at[d]] = OnDisk(i)], new)
  BY <1>5, <1>7, KeepsSet
<1>9. [known EXCEPT ![at[d]] = OnDisk(i)] = known
  BY <1>1, <1>7, KnownSame
<1> QED
  BY <1>4, <1>8, <1>9 DEF f, new

(* A name entered in a directory the request holds.                        *)
LEMMA KeepsEntered ==
  ASSUME NEW base, NEW c, NEW t, NEW at, NEW known, NEW entries,
         Keeps(base, c, t, at, known, entries), NEW d \in Slots, t[d] > 0,
         NEW name \in Names, NEW n \in Inums
  PROVE  Keeps(base, Entered(c, d, name, n), t, at, known, Enter(entries, at[d], name, n))
<1> DEFINE list == Append(entries[at[d]][name], n)
<1>1. /\ Num(c, d) = at[d] /\ c.entries = entries /\ at[d] \in Inums
      /\ entries \in [Inums -> [Names -> Seq(Inums)]]
  BY KeepsTypes, KeepsSees DEF Keeps
<1>2. entries[at[d]][name] \in Seq(Inums)
  BY <1>1
<1>3. list \in Seq(Inums)
  BY <1>2
<1>4. Entered(c, d, name, n) = Marked([c EXCEPT !.entries[at[d]][name] = list], d)
  BY <1>1 DEF Entered
<1>5. Enter(entries, at[d], name, n) = [entries EXCEPT ![at[d]][name] = list]
  BY DEF Enter
<1> HIDE DEF list
<1> QED
  BY <1>3, <1>4, <1>5, KeepsEntry

(* A name taken out of one.                                                *)
LEMMA KeepsDeleted ==
  ASSUME NEW base, NEW c, NEW t, NEW at, NEW known, NEW entries,
         Keeps(base, c, t, at, known, entries), NEW d \in Slots, t[d] > 0,
         NEW name \in Names, Found(c, d, name)
  PROVE  Keeps(base, Deleted(c, d, name), t, at, known, Drop(entries, at[d], name))
<1> DEFINE list == Tail(entries[at[d]][name])
<1>1. /\ Num(c, d) = at[d] /\ c.entries = entries /\ at[d] \in Inums
      /\ entries \in [Inums -> [Names -> Seq(Inums)]] /\ entries[at[d]][name] # << >>
  BY KeepsTypes, KeepsSees DEF Keeps
<1>2. entries[at[d]][name] \in Seq(Inums)
  BY <1>1
<1>3. list \in Seq(Inums)
  BY <1>1, <1>2
<1>4. Deleted(c, d, name) = Marked([c EXCEPT !.entries[at[d]][name] = list], d)
  BY <1>1 DEF Deleted
<1>5. Drop(entries, at[d], name) = [entries EXCEPT ![at[d]][name] = list]
  BY DEF Drop
<1> HIDE DEF list
<1> QED
  BY <1>3, <1>4, <1>5, KeepsEntry

(* advance, when the name leads to an inode with links, or one in use.     *)
LEMMA KeepsAdvance ==
  ASSUME NEW base, NEW c, NEW t, NEW at, NEW known, NEW entries,
         Keeps(base, c, t, at, known, entries), NEW d \in Slots, t[d] > 0,
         NEW name \in Names, CanAdvance(c, d, name),
         NEW n, n = Head(entries[at[d]][name]), known[n].nlinks # 0 \/ UsedIn(c, n)
  PROVE  LET s == AdvanceSlot(c, d, name)
         IN  /\ s \in Slots /\ n \in Inums
             /\ Keeps(base, Advance(c, d, name), Plus(t, s), [at EXCEPT ![s] = n], known, entries)
             /\ t[s] > 0 => at[s] = n
<1>1. /\ at[d] \in Inums /\ entries \in [Inums -> [Names -> Seq(Inums)]]
      /\ entries[at[d]][name] # << >> /\ LookUp(c, d, name) = n
  BY KeepsTypes, KeepsSees DEF CanAdvance
<1>2. entries[at[d]][name] \in Seq(Inums)
  BY <1>1
<1>3. n \in Inums
  BY <1>1, <1>2
<1>4. HasSlot(c, n)
  BY <1>1 DEF CanAdvance
<1>5. AdvanceSlot(c, d, name) = SlotOf(c, n) /\ Advance(c, d, name) = get_inode(c, n)
  BY <1>1 DEF AdvanceSlot, Advance
<1>6. LET s == SlotOf(c, n)
      IN  /\ s \in Slots
          /\ Keeps(base, get_inode(c, n), Plus(t, s), [at EXCEPT ![s] = n], known, entries)
          /\ t[s] > 0 => at[s] = n
  BY <1>3, <1>4, KeepsGet
<1> QED
  BY <1>3, <1>5, <1>6

(* advance and put_inode change nothing that is known.                     *)
LEMMA KeepsLooked ==
  ASSUME NEW base, NEW c, NEW t, NEW at, NEW known, NEW entries,
         Keeps(base, c, t, at, known, entries), NEW d \in Slots, t[d] > 0, NEW name \in Names,
         CanAdvance(c, d, name) => known[Head(entries[at[d]][name])].nlinks # 0
  PROVE  Keeps(base, Looked(c, d, name), t, at, known, entries)
<1>1. CASE CanAdvance(c, d, name)
  <2> DEFINE s == AdvanceSlot(c, d, name)
             n == Head(entries[at[d]][name])
             e == Advance(c, d, name)
             put == [at EXCEPT ![s] = n]
  <2>1. /\ s \in Slots /\ n \in Inums /\ Keeps(base, e, Plus(t, s), put, known, entries)
        /\ t[s] > 0 => at[s] = n
    BY <1>1, KeepsAdvance
  <2>2. at \in [Slots -> Inums] /\ t \in Taken
    BY KeepsTypes
  <2>3. Looked(c, d, name) = put_inode(e, s)
    BY <1>1 DEF Looked
  <2> HIDE DEF e, s, n
  <2>4. \A r \in Slots : t[r] > 0 => at[r] = put[r]
    BY <2>1, <2>2
  <2> HIDE DEF put
  <2>5. Keeps(base, put_inode(e, s), t, put, known, entries)
    BY <2>1, <2>2, KeepsPut
  <2> QED
    BY <2>2, <2>3, <2>4, <2>5, KeepsAt
<1>2. CASE ~CanAdvance(c, d, name)
  BY <1>2 DEF Looked
<1> QED
  BY <1>1, <1>2

(* unlink_file: the name goes and one link of the inode with it.           *)
LEMMA KeepsUnlinkFile ==
  ASSUME NEW base, NEW c, NEW t, NEW at, NEW known, NEW entries,
         Keeps(base, c, t, at, known, entries), NEW d \in Slots, t[d] > 0,
         NEW s \in Slots, t[s] > 0, NEW name \in Names, Found(c, d, name),
         known[at[s]].nlinks # 0
  PROVE  Keeps(base, unlink_file(c, d, s, name), t, at,
               Fewer(known, at[s]), Drop(entries, at[d], name))
<1> DEFINE u == Plus(t, s)
           c1 == Dup(c, s)
           c2 == Deleted(c1, d, name)
           c3 == Unlink(c2, s)
           less == Drop(entries, at[d], name)
<1>1. t \in Taken /\ u[s] > 0 /\ u[d] > 0
  BY KeepsTypes, TakenPlus
<1>2. Keeps(base, c1, u, at, known, entries)
  BY KeepsDup
<1>3. unlink_file(c, d, s, name) = put_inode(c3, s)
  BY DEF unlink_file
<1> HIDE DEF c1
<1>4. Found(c1, d, name)
  <2> HIDE DEF u
  <2> QED
    BY <1>1, <1>2, KeepsSees
<1>5. Keeps(base, c2, u, at, known, less)
  <2> HIDE DEF u
  <2> QED
    BY <1>1, <1>2, <1>4, KeepsDeleted
<1> HIDE DEF c2, less
<1>6. Keeps(base, c3, u, at, Fewer(known, at[s]), less)
  <2> HIDE DEF u
  <2> QED
    BY <1>1, <1>5, KeepsUnlink
<1> HIDE DEF c3
<1>7. Keeps(base, put_inode(c3, s), t, at, Fewer(known, at[s]), less)
  BY <1>1, <1>6, KeepsPut
<1> QED
  BY <1>3, <1>7 DEF less

(* unlink_dot takes the inode itself.                                      *)
LEMMA KeepsUnlinkDot ==
  ASSUME NEW base, NEW c, NEW t, NEW at, NEW known, NEW entries,
         Keeps(base, c, t, at, known, entries), NEW d \in Slots, t[d] > 0,
         NEW name \in Names, CanAdvance(c, d, name),
         NEW n, n = Head(entries[at[d]][name]), known[n].nlinks # 0
  PROVE  Keeps(base, unlink_dot(c, d, name), t, at, Fewer(known, n), Drop(entries, at[d], name))
<1> DEFINE s == AdvanceSlot(c, d, name)
           u == Plus(t, s)
           c1 == Advance(c, d, name)
           c2 == Deleted(c1, d, name)
           c3 == Unlink(c2, s)
           less == Drop(entries, at[d], name)
           put == [at EXCEPT ![s] = n]
<1>1. /\ s \in Slots /\ n \in Inums /\ Keeps(base, c1, u, put, known, entries)
      /\ t[s] > 0 => at[s] = n
  BY KeepsAdvance
<1>2. unlink_dot(c, d, name) = put_inode(c3, s)
  BY DEF unlink_dot
<1>3. at \in [Slots -> Inums] /\ t \in Taken /\ Found(c, d, name)
  BY KeepsTypes DEF CanAdvance
<1> HIDE DEF s, c1
<1>4. u[s] > 0 /\ u[d] > 0
  BY <1>1, <1>3, TakenPlus
<1>5. put[s] = n /\ put[d] = at[d] /\ \A r \in Slots : t[r] > 0 => at[r] = put[r]
  BY <1>1, <1>3
<1> HIDE DEF put
<1>6. Found(c1, d, name)
  <2>1. known[at[d]].mode = I_DIRECTORY /\ entries[at[d]][name] # << >>
    BY <1>3, KeepsSees
  <2> HIDE DEF u
  <2> QED
    BY <1>1, <1>4, <1>5, <2>1, KeepsSees
<1>7. Keeps(base, c2, u, put, known, less)
  <2> HIDE DEF u
  <2> QED
    BY <1>1, <1>4, <1>5, <1>6, KeepsDeleted
<1> HIDE DEF c2, less
<1>8. Keeps(base, c3, u, put, Fewer(known, n), less)
  <2> HIDE DEF u
  <2> QED
    BY <1>1, <1>4, <1>5, <1>7, KeepsUnlink
<1> HIDE DEF c3
<1>9. Keeps(base, put_inode(c3, s), t, put, Fewer(known, n), less)
  BY <1>1, <1>3, <1>8, KeepsPut
<1> QED
  BY <1>2, <1>3, <1>5, <1>9, KeepsAt DEF less

-----------------------------------------------------------------------------
(* What changes and what does not.                                         *)
Entries == [Inums -> [Names -> Seq(Inums)]]
Inodes  == [Inums -> DiskInode]

(* A list of entries replaced: the others stay.                            *)
LEMMA EntryAt ==
  ASSUME NEW entries \in Entries, NEW d \in Inums, NEW name \in Names, NEW list \in Seq(Inums)
  PROVE  LET new == [entries EXCEPT ![d][name] = list]
         IN  /\ new \in Entries /\ new[d][name] = list
             /\ \A m \in Inums, x \in Names : m # d \/ x # name => new[m][x] = entries[m][x]
<1> DEFINE names == [entries[d] EXCEPT ![name] = list]
           new == [entries EXCEPT ![d] = names]
<1>1. entries[d] \in [Names -> Seq(Inums)]
  BY DEF Entries
<1>2. /\ names \in [Names -> Seq(Inums)] /\ names[name] = list
      /\ \A x \in Names : x # name => names[x] = entries[d][x]
  BY <1>1
<1>3. [entries EXCEPT ![d][name] = list] = new
  OBVIOUS
<1> HIDE DEF names
<1>4. new \in Entries /\ new[d] = names /\ \A m \in Inums : m # d => new[m] = entries[m]
  BY <1>2 DEF Entries
<1> HIDE DEF new
<1> QED
  BY <1>2, <1>3, <1>4

(* A name entered comes last of its list; the others stay.                 *)
LEMMA EnterAt ==
  ASSUME NEW entries \in Entries, NEW d \in Inums, NEW name \in Names, NEW n \in Inums
  PROVE  LET new == Enter(entries, d, name, n)
         IN  /\ new \in Entries /\ new[d][name] = Append(entries[d][name], n)
             /\ \A m \in Inums, x \in Names : m # d \/ x # name => new[m][x] = entries[m][x]
<1> DEFINE list == Append(entries[d][name], n)
<1>1. entries[d][name] \in Seq(Inums)
  BY DEF Entries
<1>2. list \in Seq(Inums)
  BY <1>1
<1>3. Enter(entries, d, name, n) = [entries EXCEPT ![d][name] = list]
  BY DEF Enter
<1> HIDE DEF list
<1>4. LET new == [entries EXCEPT ![d][name] = list]
      IN  /\ new \in Entries /\ new[d][name] = list
          /\ \A m \in Inums, x \in Names : m # d \/ x # name => new[m][x] = entries[m][x]
  BY <1>2, EntryAt
<1> QED
  BY <1>3, <1>4 DEF list

(* The other lists.                                                        *)
LEMMA EnterElsewhere ==
  ASSUME NEW entries \in Entries, NEW d \in Inums, NEW name \in Names, NEW n \in Inums,
         NEW m \in Inums, NEW x \in Names, m # d \/ x # name
  PROVE  Enter(entries, d, name, n)[m][x] = entries[m][x]
<1>1. \A p \in Inums, y \in Names : p # d \/ y # name
                                     => Enter(entries, d, name, n)[p][y] = entries[p][y]
  BY EnterAt
<1> QED
  BY <1>1

(* The first of a name's entries goes; the others stay.                    *)
LEMMA DropAt ==
  ASSUME NEW entries \in Entries, NEW d \in Inums, NEW name \in Names,
         entries[d][name] # << >>
  PROVE  LET new == Drop(entries, d, name)
         IN  /\ new \in Entries /\ new[d][name] = Tail(entries[d][name])
             /\ \A m \in Inums, x \in Names : m # d \/ x # name => new[m][x] = entries[m][x]
             /\ Head(entries[d][name]) \in Inums
<1> DEFINE list == Tail(entries[d][name])
<1>1. entries[d][name] \in Seq(Inums)
  BY DEF Entries
<1>2. list \in Seq(Inums) /\ Head(entries[d][name]) \in Inums
  BY <1>1
<1>3. Drop(entries, d, name) = [entries EXCEPT ![d][name] = list]
  BY DEF Drop
<1> HIDE DEF list
<1>4. LET new == [entries EXCEPT ![d][name] = list]
      IN  /\ new \in Entries /\ new[d][name] = list
          /\ \A m \in Inums, x \in Names : m # d \/ x # name => new[m][x] = entries[m][x]
  BY <1>2, EntryAt
<1> QED
  BY <1>2, <1>3, <1>4 DEF list

(* Entering a name and dropping another one may be done in either order.   *)
LEMMA EnterDrop ==
  ASSUME NEW entries \in Entries, NEW d \in Inums, NEW name \in Names, NEW n \in Inums,
         NEW o \in Inums, NEW old \in Names, entries[o][old] # << >>, o # d
  PROVE  Drop(Enter(entries, d, name, n), o, old) = Enter(Drop(entries, o, old), d, name, n)
<1> DEFINE e1 == Enter(entries, d, name, n)
           e2 == Drop(e1, o, old)
           f1 == Drop(entries, o, old)
           f2 == Enter(f1, d, name, n)
<1>1. /\ e1 \in Entries /\ e1[d][name] = Append(entries[d][name], n)
      /\ \A m \in Inums, x \in Names : m # d \/ x # name => e1[m][x] = entries[m][x]
  <2>1. e1 \in Entries
    BY EnterAt
  <2>2. e1[d][name] = Append(entries[d][name], n)
    BY EnterAt
  <2>3. \A m \in Inums, x \in Names : m # d \/ x # name => e1[m][x] = entries[m][x]
    BY EnterAt
  <2> QED
    BY <2>1, <2>2, <2>3
<1>2. /\ f1 \in Entries /\ f1[o][old] = Tail(entries[o][old])
      /\ \A m \in Inums, x \in Names : m # o \/ x # old => f1[m][x] = entries[m][x]
  BY DropAt
<1> HIDE DEF e1, f1
<1>3. /\ e2 \in Entries /\ e2[o][old] = Tail(e1[o][old])
      /\ \A m \in Inums, x \in Names : m # o \/ x # old => e2[m][x] = e1[m][x]
  BY <1>1, DropAt
<1>4. /\ f2 \in Entries /\ f2[d][name] = Append(f1[d][name], n)
      /\ \A m \in Inums, x \in Names : m # d \/ x # name => f2[m][x] = f1[m][x]
  <2>1. f2 \in Entries
    BY <1>2, EnterAt
  <2>2. f2[d][name] = Append(f1[d][name], n)
    BY <1>2, EnterAt
  <2>3. \A m \in Inums, x \in Names : m # d \/ x # name => f2[m][x] = f1[m][x]
    BY <1>2, EnterAt
  <2> QED
    BY <2>1, <2>2, <2>3
<1> HIDE DEF e2, f2
<1>5. \A m \in Inums, x \in Names : e2[m][x] = f2[m][x]
  <2>1. \A m \in Inums, x \in Names :
          /\ (m # d \/ x # name) /\ (m # o \/ x # old)
             => e2[m][x] = entries[m][x] /\ f2[m][x] = entries[m][x]
    BY <1>1, <1>2, <1>3, <1>4
  <2>2. e2[d][name] = f2[d][name]
    BY <1>1, <1>2, <1>3, <1>4
  <2>3. e2[o][old] = f2[o][old]
    BY <1>1, <1>2, <1>3, <1>4
  <2> QED
    BY <2>1, <2>2, <2>3
<1>6. \A m \in Inums : e2[m] = f2[m]
  BY <1>3, <1>4, <1>5 DEF Entries
<1>7. e2 = f2
  BY <1>3, <1>4, <1>6 DEF Entries
<1> QED
  BY <1>7 DEF e1, e2, f1, f2

(* A link count replaced: the other inodes stay, and the modes.            *)
LEMMA NlinksAt ==
  ASSUME NEW known \in Inodes, NEW n \in Inums, NEW k \in Links
  PROVE  LET new == [known EXCEPT ![n].nlinks = k]
         IN  /\ new \in Inodes /\ new[n].nlinks = k
             /\ \A m \in Inums : /\ m # n => new[m] = known[m]
                                 /\ new[m].mode = known[m].mode
                                 /\ known[m].nlinks \in Links
<1> DEFINE i == [known[n] EXCEPT !.nlinks = k]
           new == [known EXCEPT ![n] = i]
<1>1. \A m \in Inums : known[m] \in DiskInode
  BY DEF Inodes
<1>2. /\ i \in DiskInode /\ i.nlinks = k /\ i.mode = known[n].mode
      /\ \A m \in Inums : known[m].nlinks \in Links
  BY <1>1 DEF DiskInode
<1>3. [known EXCEPT ![n].nlinks = k] = new
  OBVIOUS
<1> HIDE DEF i
<1>4. new \in Inodes /\ new[n] = i /\ \A m \in Inums : m # n => new[m] = known[m]
  BY <1>2 DEF Inodes
<1> HIDE DEF new
<1> QED
  BY <1>2, <1>3, <1>4

(* A link more.                                                            *)
LEMMA MoreAt ==
  ASSUME NEW known \in Inodes, NEW n \in Inums, known[n].nlinks + 1 \in Links
  PROVE  LET new == More(known, n)
         IN  /\ new \in Inodes /\ new[n].nlinks = known[n].nlinks + 1
             /\ \A m \in Inums : /\ m # n => new[m] = known[m]
                                 /\ new[m].mode = known[m].mode
                                 /\ known[m].nlinks \in Links /\ new[m].nlinks \in Links
<1> DEFINE k == known[n].nlinks + 1
<1>1. More(known, n) = [known EXCEPT ![n].nlinks = k]
  BY DEF More
<1> HIDE DEF k
<1>2. k \in Links
  BY DEF k
<1>4. LET new == [known EXCEPT ![n].nlinks = k]
      IN  /\ new \in Inodes /\ new[n].nlinks = k
          /\ \A m \in Inums : /\ m # n => new[m] = known[m]
                              /\ new[m].mode = known[m].mode
                              /\ known[m].nlinks \in Links
  BY <1>2, NlinksAt
<1>5. \A m \in Inums : More(known, n)[m].nlinks \in Links
  BY <1>1, <1>2, <1>4
<1> QED
  BY <1>1, <1>4, <1>5 DEF k

(* A link less.                                                            *)
LEMMA FewerAt ==
  ASSUME NEW known \in Inodes, NEW n \in Inums, known[n].nlinks # 0
  PROVE  LET new == Fewer(known, n)
         IN  /\ new \in Inodes /\ new[n].nlinks = known[n].nlinks - 1
             /\ \A m \in Inums : /\ m # n => new[m] = known[m]
                                 /\ new[m].mode = known[m].mode
                                 /\ known[m].nlinks \in Links /\ new[m].nlinks \in Links
<1> DEFINE k == known[n].nlinks - 1
<1>1. Fewer(known, n) = [known EXCEPT ![n].nlinks = k]
  BY DEF Fewer
<1>2. known[n].nlinks \in Links
  BY DEF Inodes, DiskInode
<1>3. k \in Links
  BY <1>2, LinksFit
<1> HIDE DEF k
<1>4. LET new == [known EXCEPT ![n].nlinks = k]
      IN  /\ new \in Inodes /\ new[n].nlinks = k
          /\ \A m \in Inums : /\ m # n => new[m] = known[m]
                              /\ new[m].mode = known[m].mode
                              /\ known[m].nlinks \in Links
  BY <1>3, NlinksAt
<1>5. \A m \in Inums : Fewer(known, n)[m].nlinks \in Links
  BY <1>1, <1>3, <1>4
<1> QED
  BY <1>1, <1>4, <1>5 DEF k

-----------------------------------------------------------------------------
(* What rmdir and rename make of the directories and the link counts.      *)
RemovedKnown(known, d, n)         == Fewer(Fewer(Fewer(known, n), n), d)
RemovedEntries(entries, d, n, name) == Drop(Drop(Drop(entries, d, name), n, dot1), n, dot2)
MovedEntries(entries, o, on, i, d, nn) == Enter(Drop(entries, o, on), d, nn, i)
ReparentedKnown(known, o, d)      == More(Fewer(known, o), d)
ReparentedEntries(entries, i, d)  == Enter(Drop(entries, i, dot2), i, dot2, d)

(* remove_dir: the name goes, the dots go, and their three links.          *)
LEMMA KeepsRemoveDir ==
  ASSUME NEW base, NEW c, NEW t, NEW at, NEW known, NEW entries,
         Keeps(base, c, t, at, known, entries), NEW d \in Slots, t[d] > 0,
         NEW s \in Slots, t[s] > 0, NEW name \in FileNames, Found(c, d, name),
         known[at[s]].mode = I_DIRECTORY, known[at[s]].nlinks > 1, known[at[d]].nlinks # 0,
         at[d] # at[s], entries[at[s]][dot1] = <<at[s]>>, entries[at[s]][dot2] = <<at[d]>>
  PROVE  Keeps(base, remove_dir(c, d, s, name), t, at, RemovedKnown(known, at[d], at[s]),
               RemovedEntries(entries, at[d], at[s], name))
<1> DEFINE n  == at[s]
           up == at[d]
           c1 == unlink_file(c, d, s, name)
           c2 == unlink_dot(c1, s, dot1)
           k1 == Fewer(known, n)
           k2 == Fewer(k1, n)
           e1 == Drop(entries, up, name)
           e2 == Drop(e1, n, dot1)
<1>1. /\ n \in Inums /\ up \in Inums /\ n # up /\ entries \in Entries /\ known \in Inodes
      /\ entries[up][name] # << >>
      /\ name \in Names /\ dot1 \in Names /\ dot2 \in Names /\ name # dot1 /\ name # dot2
      /\ dot1 # dot2
  <2>1. /\ name \in Names /\ dot1 \in Names /\ dot2 \in Names
        /\ name # dot1 /\ name # dot2 /\ dot1 # dot2
    BY NameAssumption DEF Names
  <2>2. entries \in Entries /\ known \in Inodes
    BY KeepsTypes DEF Entries, Inodes
  <2>3. n \in Inums /\ up \in Inums /\ entries[up][name] # << >>
    BY KeepsSees
  <2> QED
    BY <2>1, <2>2, <2>3
<1>2. known[n].nlinks \in Links
  BY <1>1 DEF Inodes, DiskInode
<1>3. known[n].nlinks # 0 /\ known[n].nlinks - 1 # 0
  BY <1>2, TwoLinks
<1>4. Keeps(base, c1, t, at, k1, e1)
  BY <1>1, <1>3, KeepsUnlinkFile
<1>5. /\ k1 \in Inodes /\ k1[n].nlinks # 0 /\ k1[n].mode = I_DIRECTORY /\ k1[up] = known[up]
  BY <1>1, <1>3, FewerAt
<1>6. e1 \in Entries /\ e1[n] [dot1] = <<n>> /\ e1[n][dot2] = <<up>>
  BY <1>1, DropAt
<1> HIDE DEF c1, k1, e1, n, up
<1>7. /\ Head(<<n>>) = n /\ Tail(<<n>>) = << >> /\ <<n>> # << >>
      /\ Head(<<up>>) = up /\ <<up>> # << >>
  OBVIOUS
<1>8. CanAdvance(c1, s, dot1)
  <2>1. Found(c1, s, dot1) /\ LookUp(c1, s, dot1) = n
    BY <1>4, <1>5, <1>6, <1>7, KeepsSees DEF n
  <2>2. HasSlot(c1, n)
    BY <1>4, KeepsSees DEF n
  <2> QED
    BY <2>1, <2>2 DEF CanAdvance
<1>9. Keeps(base, c2, t, at, k2, e2)
  BY <1>1, <1>4, <1>5, <1>6, <1>7, <1>8, KeepsUnlinkDot DEF n
<1>10. k2 \in Inodes /\ k2[n].mode = I_DIRECTORY /\ k2[up] = known[up]
  BY <1>1, <1>5, FewerAt
<1>11. e2 \in Entries /\ e2[n][dot2] = <<up>>
  BY <1>1, <1>6, <1>7, DropAt
<1> HIDE DEF c2, k2, e2
<1>12. CanAdvance(c2, s, dot2)
  <2>1. Found(c2, s, dot2) /\ LookUp(c2, s, dot2) = up
    BY <1>7, <1>9, <1>10, <1>11, KeepsSees DEF n
  <2>2. HasSlot(c2, up)
    BY <1>9, KeepsSees DEF up
  <2> QED
    BY <2>1, <2>2 DEF CanAdvance
<1>13. k2[up].nlinks # 0 /\ up = Head(e2[n][dot2])
  BY <1>7, <1>10, <1>11 DEF up
<1>14. Keeps(base, unlink_dot(c2, s, dot2), t, at, Fewer(k2, up), Drop(e2, n, dot2))
  BY <1>1, <1>9, <1>12, <1>13, KeepsUnlinkDot DEF n
<1> QED
  BY <1>14 DEF remove_dir, RemovedKnown, RemovedEntries, c1, c2, k1, k2, e1, e2, n, up

(* Two slots the request has references to are the same if they hold the   *)
(* same inode.                                                             *)
LEMMA KeepsApart ==
  ASSUME NEW base, NEW c, NEW t, NEW at, NEW known, NEW entries,
         Keeps(base, c, t, at, known, entries), NEW r \in Slots, t[r] > 0,
         NEW s \in Slots, t[s] > 0
  PROVE  at[r] = at[s] <=> r = s
<1>1. /\ c.inode[r].num = at[r] /\ c.inode[s].num = at[s] /\ at[r] \in Inums
  BY KeepsSees
<1> QED
  BY <1>1 DEF Keeps, Tidy

(* The name of an inode goes from one directory to another.                *)
LEMMA KeepsMoved ==
  ASSUME NEW base, NEW c, NEW t, NEW at, NEW known, NEW entries,
         Keeps(base, c, t, at, known, entries),
         NEW o \in Slots, t[o] > 0, NEW i \in Slots, t[i] > 0, NEW d \in Slots, t[d] > 0,
         NEW on \in Names, NEW nn \in Names, Found(c, o, on)
  PROVE  Keeps(base, Moved(c, o, on, i, d, nn), t, at, known,
               MovedEntries(entries, at[o], on, at[i], at[d], nn))
<1>1. /\ at[o] \in Inums /\ at[d] \in Inums /\ at[i] \in Inums /\ entries \in Entries
      /\ entries[at[o]][on] # << >> /\ Num(c, i) = at[i] /\ known[at[o]].mode = I_DIRECTORY
  BY KeepsTypes, KeepsSees DEF Entries
<1>2. CASE o = d
  <2> DEFINE c1 == Deleted(c, o, on)
             e1 == Drop(entries, at[o], on)
  <2>1. Keeps(base, c1, t, at, known, e1)
    BY KeepsDeleted
  <2>2. Num(c, i) = Num(c1, i)
    BY <1>1, <2>1, KeepsSees
  <2>3. Moved(c, o, on, i, d, nn) = Entered(c1, d, nn, at[i])
    BY <1>1, <1>2 DEF Moved
  <2> HIDE DEF c1, e1
  <2>4. Keeps(base, Entered(c1, d, nn, at[i]), t, at, known, Enter(e1, at[d], nn, at[i]))
    BY <1>1, <2>1, KeepsEntered
  <2> QED
    BY <2>3, <2>4 DEF MovedEntries, e1
<1>3. CASE o # d
  <2> DEFINE c1 == Entered(c, d, nn, at[i])
             e1 == Enter(entries, at[d], nn, at[i])
  <2>1. Keeps(base, c1, t, at, known, e1)
    BY <1>1, KeepsEntered
  <2>2. Moved(c, o, on, i, d, nn) = Deleted(c1, o, on)
    BY <1>1, <1>3 DEF Moved
  <2>3. at[o] # at[d]
    BY <1>3, KeepsApart
  <2>4. e1[at[o]][on] = entries[at[o]][on]
    BY <1>1, <2>3, EnterElsewhere
  <2>5. Drop(e1, at[o], on) = MovedEntries(entries, at[o], on, at[i], at[d], nn)
    BY <1>1, <2>3, EnterDrop DEF MovedEntries
  <2> HIDE DEF c1, e1
  <2>6. Found(c1, o, on)
    BY <1>1, <2>1, <2>4, KeepsSees
  <2>7. Keeps(base, Deleted(c1, o, on), t, at, known, Drop(e1, at[o], on))
    BY <2>1, <2>6, KeepsDeleted
  <2> QED
    BY <2>2, <2>5, <2>7
<1> QED
  BY <1>2, <1>3

(* The directory that moves gets its new parent as "..".                   *)
LEMMA KeepsReparented ==
  ASSUME NEW base, NEW c, NEW t, NEW at, NEW known, NEW entries,
         Keeps(base, c, t, at, known, entries),
         NEW o \in Slots, t[o] > 0, NEW i \in Slots, t[i] > 0, NEW d \in Slots, t[d] > 0,
         known[at[i]].mode = I_DIRECTORY, entries[at[i]][dot2] = <<at[o]>>,
         known[at[o]].nlinks # 0, at[o] # at[d], known[at[d]].nlinks + 1 \in Links
  PROVE  Keeps(base, Reparented(c, i, d), t, at, ReparentedKnown(known, at[o], at[d]),
               ReparentedEntries(entries, at[i], at[d]))
<1> DEFINE c1 == unlink_dot(c, i, dot2)
           c2 == Entered(c1, i, dot2, at[d])
           k1 == Fewer(known, at[o])
           e1 == Drop(entries, at[i], dot2)
           e2 == Enter(e1, at[i], dot2, at[d])
<1>1. /\ at[o] \in Inums /\ at[d] \in Inums /\ at[i] \in Inums /\ known \in Inodes
      /\ dot2 \in Names /\ HasSlot(c, at[o]) /\ Num(c, d) = at[d]
  BY KeepsTypes, KeepsSees DEF Inodes, Names
<1>2. Head(<<at[o]>>) = at[o] /\ <<at[o]>> # << >>
  OBVIOUS
<1>3. CanAdvance(c, i, dot2)
  BY <1>1, <1>2, KeepsSees DEF CanAdvance
<1>4. Keeps(base, c1, t, at, k1, e1)
  BY <1>1, <1>2, <1>3, KeepsUnlinkDot
<1>5. k1[at[d]].nlinks + 1 \in Links
  BY <1>1, FewerAt
<1>6. Reparented(c, i, d) = Linked(c2, d)
  BY <1>1 DEF Reparented
<1> HIDE DEF c1, k1, e1
<1>7. Keeps(base, c2, t, at, k1, e2)
  BY <1>1, <1>4, KeepsEntered
<1> HIDE DEF c2, e2
<1>8. Keeps(base, Linked(c2, d), t, at, More(k1, at[d]), e2)
  BY <1>5, <1>7, KeepsLinked
<1> QED
  BY <1>6, <1>8 DEF ReparentedKnown, ReparentedEntries, e1, e2, k1

-----------------------------------------------------------------------------
(* The places where an inode is named.                                     *)
FilePlaces(entries, n) == {p \in NamesIn(entries, n) : p[2] \in FileNames}

IsPlace(entries, p, n) ==
  \E d \in Inums, name \in Names : \E k \in DOMAIN entries[d][name] :
    p = <<d, name, k>> /\ entries[d][name][k] = n

(* The set of names and the predicate are one.                             *)
LEMMA NamesInIs ==
  ASSUME NEW entries, NEW n
  PROVE  \A p : p \in NamesIn(entries, n) <=> IsPlace(entries, p, n)
<1>1. ASSUME NEW p, p \in NamesIn(entries, n) PROVE IsPlace(entries, p, n)
  <2>1. PICK d \in Inums, name \in Names :
          p \in {<<d, name, k>> : k \in {j \in DOMAIN entries[d][name] : entries[d][name][j] = n}}
    BY <1>1 DEF NamesIn
  <2> QED
    BY <2>1 DEF IsPlace
<1>2. ASSUME NEW p, IsPlace(entries, p, n) PROVE p \in NamesIn(entries, n)
  <2>1. PICK d \in Inums, name \in Names :
          \E k \in DOMAIN entries[d][name] : p = <<d, name, k>> /\ entries[d][name][k] = n
    BY <1>2 DEF IsPlace
  <2> DEFINE Here(dir, x) == {<<dir, x, k>> : k \in {j \in DOMAIN entries[dir][x] :
                                                      entries[dir][x][j] = n}}
             All == {Here(dir, x) : dir \in Inums, x \in Names}
  <2>2. p \in Here(d, name)
    BY <2>1
  <2>3. NamesIn(entries, n) = UNION All
    BY DEF NamesIn
  <2> HIDE DEF Here
  <2>4. Here(d, name) \in All
    OBVIOUS
  <2> QED
    BY <2>2, <2>3, <2>4
<1> QED
  BY <1>1, <1>2

(* The first entry of a name is one of the names of its inode.             *)
LEMMA FirstPlace ==
  ASSUME NEW entries \in Entries, NEW d \in Inums, NEW name \in Names,
         entries[d][name] # << >>
  PROVE  /\ <<d, name, 1>> \in NamesIn(entries, Head(entries[d][name]))
         /\ name \in FileNames => <<d, name, 1>> \in FilePlaces(entries, Head(entries[d][name]))
<1>1. entries[d][name] \in Seq(Inums)
  BY DEF Entries
<1>2. 1 \in DOMAIN entries[d][name] /\ entries[d][name][1] = Head(entries[d][name])
  BY <1>1
<1>3. IsPlace(entries, <<d, name, 1>>, Head(entries[d][name]))
  BY <1>2 DEF IsPlace
<1> QED
  BY <1>3, NamesInIs DEF FilePlaces

(* A name entered is one more for its inode and none for the others.       *)
LEMMA EnterPlaces ==
  ASSUME NEW entries \in Entries, NEW d \in Inums, NEW name \in Names, NEW n \in Inums,
         NEW m \in Inums
  PROVE  NamesIn(Enter(entries, d, name, n), m) =
           NamesIn(entries, m) \cup (IF m = n THEN {<<d, name, Len(entries[d][name]) + 1>>} ELSE {})
<1> DEFINE list == entries[d][name]
           more == Append(list, n)
           new == Enter(entries, d, name, n)
           at == Len(list) + 1
<1>1. list \in Seq(Inums)
  BY DEF Entries
<1>2. /\ Len(list) \in Nat /\ DOMAIN list = 1 .. Len(list) /\ DOMAIN more = 1 .. at
      /\ more[at] = n /\ \A k \in 1 .. Len(list) : more[k] = list[k]
  BY <1>1
<1>3. /\ at \in DOMAIN more /\ at \notin DOMAIN list
      /\ \A k : k \in DOMAIN more <=> k \in DOMAIN list \/ k = at
  BY <1>2
<1>4. \A k \in DOMAIN list : more[k] = list[k]
  BY <1>2
<1>5. new[d][name] = more
  BY EnterAt
<1>6. \A e \in Inums, x \in Names : e # d \/ x # name => new[e][x] = entries[e][x]
  BY EnterElsewhere
<1> HIDE DEF more, new, at
<1>7. ASSUME NEW p, IsPlace(entries, p, m) PROVE IsPlace(new, p, m)
  <2>1. PICK e \in Inums, x \in Names :
          \E k \in DOMAIN entries[e][x] : p = <<e, x, k>> /\ entries[e][x][k] = m
    BY <1>7 DEF IsPlace
  <2>2. PICK k \in DOMAIN entries[e][x] : p = <<e, x, k>> /\ entries[e][x][k] = m
    BY <2>1
  <2>3. CASE e = d /\ x = name
    <3>1. k \in DOMAIN new[e][x] /\ new[e][x][k] = m
      BY <1>3, <1>4, <1>5, <2>2, <2>3
    <3> QED
      BY <2>2, <3>1 DEF IsPlace
  <2>4. CASE e # d \/ x # name
    <3>1. k \in DOMAIN new[e][x] /\ new[e][x][k] = m
      BY <1>6, <2>2, <2>4
    <3> QED
      BY <2>2, <3>1 DEF IsPlace
  <2> QED
    BY <2>3, <2>4
<1>8. m = n => IsPlace(new, <<d, name, at>>, m)
  BY <1>2, <1>3, <1>5 DEF IsPlace, more, at
<1>9. ASSUME NEW p, IsPlace(new, p, m)
      PROVE  IsPlace(entries, p, m) \/ (m = n /\ p = <<d, name, at>>)
  <2>1. PICK e \in Inums, x \in Names :
          \E k \in DOMAIN new[e][x] : p = <<e, x, k>> /\ new[e][x][k] = m
    BY <1>9 DEF IsPlace
  <2>2. PICK k \in DOMAIN new[e][x] : p = <<e, x, k>> /\ new[e][x][k] = m
    BY <2>1
  <2>3. CASE e = d /\ x = name /\ k = at
    <3>1. new[e][x][k] = n
      BY <1>2, <1>5, <2>3 DEF more, at
    <3> QED
      BY <2>2, <2>3, <3>1
  <2>4. CASE e = d /\ x = name /\ k # at
    <3>1. k \in DOMAIN entries[e][x] /\ entries[e][x][k] = m
      BY <1>3, <1>4, <1>5, <2>2, <2>4
    <3> QED
      BY <2>2, <3>1 DEF IsPlace
  <2>5. CASE e # d \/ x # name
    <3>1. k \in DOMAIN entries[e][x] /\ entries[e][x][k] = m
      BY <1>6, <2>2, <2>5
    <3> QED
      BY <2>2, <3>1 DEF IsPlace
  <2> QED
    BY <2>3, <2>4, <2>5
<1>10. \A p : IsPlace(new, p, m) <=> IsPlace(entries, p, m) \/ (m = n /\ p = <<d, name, at>>)
  BY <1>7, <1>8, <1>9
<1>11. \A p : p \in NamesIn(new, m) <=> p \in NamesIn(entries, m) \/ (m = n /\ p = <<d, name, at>>)
  BY <1>10, NamesInIs
<1>12. <<d, name, at>> = <<d, name, Len(entries[d][name]) + 1>>
  BY DEF at
<1> HIDE DEF list
<1>13. NamesIn(new, m) = NamesIn(entries, m) \cup (IF m = n THEN {<<d, name, at>>} ELSE {})
  BY <1>11
<1> QED
  BY <1>12, <1>13 DEF new

(* A new name: one more for its inode.                                     *)
LEMMA EnterCounts ==
  ASSUME NEW entries \in Entries, NEW d \in Inums, NEW name \in Names, NEW n \in Inums,
         NEW m \in Inums, IsFiniteSet(NamesIn(entries, m))
  PROVE  LET new == Enter(entries, d, name, n)
         IN  /\ IsFiniteSet(NamesIn(new, m))
             /\ Cardinality(NamesIn(new, m)) =
                  Cardinality(NamesIn(entries, m)) + (IF m = n THEN 1 ELSE 0)
<1> DEFINE at == <<d, name, Len(entries[d][name]) + 1>>
           new == Enter(entries, d, name, n)
<1>1. at \notin NamesIn(entries, m)
  <2>1. SUFFICES ASSUME IsPlace(entries, at, m) PROVE FALSE
    BY NamesInIs
  <2>2. PICK e \in Inums, x \in Names : \E k \in DOMAIN entries[e][x] : at = <<e, x, k>>
    BY <2>1 DEF IsPlace
  <2>3. PICK k \in DOMAIN entries[e][x] : at = <<e, x, k>>
    BY <2>2
  <2>4. e = d /\ x = name /\ k = Len(entries[d][name]) + 1
    BY <2>3
  <2>5. entries[d][name] \in Seq(Inums)
    BY DEF Entries
  <2>6. k \in 1 .. Len(entries[d][name]) /\ Len(entries[d][name]) \in Nat
    BY <2>3, <2>4, <2>5
  <2> QED
    BY <2>4, <2>6
<1>2. NamesIn(new, m) = NamesIn(entries, m) \cup (IF m = n THEN {at} ELSE {})
  BY EnterPlaces
<1>3. Cardinality(NamesIn(entries, m)) \in Nat
  BY FS_CardinalityType
<1> HIDE DEF at, new
<1>4. CASE m = n
  <2>1. NamesIn(new, m) = NamesIn(entries, m) \cup {at}
    BY <1>2, <1>4
  <2>2. /\ IsFiniteSet(NamesIn(entries, m) \cup {at})
        /\ Cardinality(NamesIn(entries, m) \cup {at}) = Cardinality(NamesIn(entries, m)) + 1
    BY <1>1, FS_AddElement
  <2> QED
    BY <1>4, <2>1, <2>2 DEF new
<1>5. CASE m # n
  <2>1. NamesIn(new, m) = NamesIn(entries, m)
    BY <1>2, <1>5
  <2> QED
    BY <1>3, <1>5, <2>1 DEF new
<1> QED
  BY <1>4, <1>5

(* The same for names of files: "." and ".." do not count there.           *)
LEMMA EnterFiles ==
  ASSUME NEW entries \in Entries, NEW d \in Inums, NEW name \in Names, NEW n \in Inums,
         NEW m \in Inums
  PROVE  LET new == Enter(entries, d, name, n)
         IN  /\ m # n \/ name \notin FileNames => FilePlaces(new, m) = FilePlaces(entries, m)
             /\ name \in FileNames => \E p : /\ p[1] = d
                                             /\ FilePlaces(new, n) = FilePlaces(entries, n) \cup {p}
<1> DEFINE at == <<d, name, Len(entries[d][name]) + 1>>
           new == Enter(entries, d, name, n)
<1>1. at[1] = d /\ at[2] = name
  OBVIOUS
<1>2. /\ NamesIn(new, m) = NamesIn(entries, m) \cup (IF m = n THEN {at} ELSE {})
      /\ NamesIn(new, n) = NamesIn(entries, n) \cup (IF n = n THEN {at} ELSE {})
  BY EnterPlaces
<1> HIDE DEF at, new
<1>3. m # n \/ name \notin FileNames => FilePlaces(new, m) = FilePlaces(entries, m)
  BY <1>1, <1>2 DEF FilePlaces
<1>4. name \in FileNames => FilePlaces(new, n) = FilePlaces(entries, n) \cup {at}
  BY <1>1, <1>2 DEF FilePlaces
<1> QED
  BY <1>1, <1>3, <1>4 DEF new

(* Where a place is when the first of a name is gone.                      *)
Earlier(d, name, p) == IF p[1] = d /\ p[2] = name THEN <<d, name, p[3] - 1>> ELSE p

(* A name dropped: the ones behind it in the list come one forward.        *)
LEMMA DropPlaces ==
  ASSUME NEW entries \in Entries, NEW d \in Inums, NEW name \in Names,
         entries[d][name] # << >>, NEW m \in Inums
  PROVE  LET old == NamesIn(entries, m) \ {<<d, name, 1>>}
         IN  /\ <<d, name, 1>> \in NamesIn(entries, m) <=> m = Head(entries[d][name])
             /\ NamesIn(Drop(entries, d, name), m) = {Earlier(d, name, p) : p \in old}
             /\ \A p, q \in old : Earlier(d, name, p) = Earlier(d, name, q) => p = q
<1> DEFINE list == entries[d][name]
           less == Tail(list)
           new == Drop(entries, d, name)
           first == <<d, name, 1>>
           old == NamesIn(entries, m) \ {first}
           E(p) == Earlier(d, name, p)
<1>1. list \in Seq(Inums) /\ list # << >>
  BY DEF Entries
<1>2. /\ Len(list) \in Nat \ {0} /\ DOMAIN list = 1 .. Len(list)
      /\ DOMAIN less = 1 .. (Len(list) - 1) /\ \A k \in DOMAIN less : less[k] = list[k + 1]
  BY <1>1
<1>3. /\ \A k \in DOMAIN less : /\ k \in Nat /\ k + 1 \in DOMAIN list /\ k + 1 # 1
                                /\ less[k] = list[k + 1] /\ (k + 1) - 1 = k
      /\ \A k \in DOMAIN list : /\ k \in Nat
                                /\ k # 1 => /\ k - 1 \in DOMAIN less /\ less[k - 1] = list[k]
  <2>1. \A k \in DOMAIN list : /\ k \in Nat /\ (k - 1) + 1 = k
                               /\ k # 1 => k - 1 \in DOMAIN less
    BY <1>2
  <2> QED
    BY <1>2, <2>1
<1>4. new[d][name] = less
  BY DropAt
<1>5. \A e \in Inums, x \in Names : e # d \/ x # name => new[e][x] = entries[e][x]
  BY DropAt
<1>6. first \in NamesIn(entries, m) <=> m = Head(list)
  <2>1. Head(list) = list[1] /\ 1 \in DOMAIN list
    BY <1>1, <1>2
  <2>2. ASSUME IsPlace(entries, first, m) PROVE m = list[1]
    <3>1. PICK e \in Inums, x \in Names :
            \E k \in DOMAIN entries[e][x] : first = <<e, x, k>> /\ entries[e][x][k] = m
      BY <2>2 DEF IsPlace
    <3>2. PICK k \in DOMAIN entries[e][x] : first = <<e, x, k>> /\ entries[e][x][k] = m
      BY <3>1
    <3>3. e = d /\ x = name /\ k = 1
      BY <3>2
    <3> QED
      BY <3>2, <3>3
  <2>3. m = list[1] => IsPlace(entries, first, m)
    BY <2>1 DEF IsPlace
  <2> QED
    BY <2>1, <2>2, <2>3, NamesInIs
<1> HIDE DEF less, new
<1>7. \A p \in old : \E e \in Inums, x \in Names : \E k \in DOMAIN entries[e][x] :
        /\ p = <<e, x, k>> /\ entries[e][x][k] = m
        /\ (e = d /\ x = name) => k # 1
  <2>1. TAKE p \in old
  <2>2. IsPlace(entries, p, m) /\ p # first
    BY NamesInIs
  <2>3. PICK e \in Inums, x \in Names :
          \E k \in DOMAIN entries[e][x] : p = <<e, x, k>> /\ entries[e][x][k] = m
    BY <2>2 DEF IsPlace
  <2>4. PICK k \in DOMAIN entries[e][x] : p = <<e, x, k>> /\ entries[e][x][k] = m
    BY <2>3
  <2>5. (e = d /\ x = name) => k # 1
    BY <2>2, <2>4
  <2> QED
    BY <2>4, <2>5
<1>8. ASSUME NEW p \in old PROVE E(p) \in NamesIn(new, m)
  <2>1. PICK e \in Inums, x \in Names : \E k \in DOMAIN entries[e][x] :
          /\ p = <<e, x, k>> /\ entries[e][x][k] = m
          /\ (e = d /\ x = name) => k # 1
    BY <1>7
  <2>2. PICK k \in DOMAIN entries[e][x] :
          /\ p = <<e, x, k>> /\ entries[e][x][k] = m
          /\ (e = d /\ x = name) => k # 1
    BY <2>1
  <2>3. CASE e = d /\ x = name
    <3>1. E(p) = <<d, name, k - 1>>
      BY <2>2, <2>3 DEF Earlier
    <3>2. k - 1 \in DOMAIN new[d][name] /\ new[d][name][k - 1] = m
      BY <1>3, <1>4, <2>2, <2>3
    <3> QED
      BY <3>1, <3>2, NamesInIs DEF IsPlace
  <2>4. CASE e # d \/ x # name
    <3>1. E(p) = p
      BY <2>2, <2>4 DEF Earlier
    <3>2. k \in DOMAIN new[e][x] /\ new[e][x][k] = m
      BY <1>5, <2>2, <2>4
    <3> QED
      BY <2>2, <3>1, <3>2, NamesInIs DEF IsPlace
  <2> QED
    BY <2>3, <2>4
<1>9. ASSUME NEW q \in NamesIn(new, m) PROVE \E p \in old : q = E(p)
  <2>1. IsPlace(new, q, m)
    BY NamesInIs
  <2>2. PICK e \in Inums, x \in Names :
          \E k \in DOMAIN new[e][x] : q = <<e, x, k>> /\ new[e][x][k] = m
    BY <2>1 DEF IsPlace
  <2>3. PICK k \in DOMAIN new[e][x] : q = <<e, x, k>> /\ new[e][x][k] = m
    BY <2>2
  <2>4. CASE e = d /\ x = name
    <3> DEFINE p == <<d, name, k + 1>>
    <3>1. k + 1 \in DOMAIN entries[d][name] /\ entries[d][name][k + 1] = m /\ k + 1 # 1
      BY <1>3, <1>4, <2>3, <2>4
    <3>2. p \in NamesIn(entries, m) /\ p # first
      BY <3>1, NamesInIs DEF IsPlace
    <3>3. (k + 1) - 1 = k
      BY <1>3, <1>4, <2>3, <2>4
    <3>4. E(p) = q
      BY <2>3, <2>4, <3>3 DEF Earlier
    <3> QED
      BY <3>2, <3>4
  <2>5. CASE e # d \/ x # name
    <3>1. k \in DOMAIN entries[e][x] /\ entries[e][x][k] = m
      BY <1>5, <2>3, <2>5
    <3>2. q \in NamesIn(entries, m) /\ q # first /\ E(q) = q
      BY <2>3, <2>5, <3>1, NamesInIs DEF IsPlace, Earlier
    <3> QED
      BY <3>2
  <2> QED
    BY <2>4, <2>5
<1>10. NamesIn(new, m) = {E(p) : p \in old}
  BY <1>8, <1>9
<1>11. ASSUME NEW p \in old, NEW q \in old, E(p) = E(q) PROVE p = q
  <2>1. PICK e \in Inums, x \in Names : \E k \in DOMAIN entries[e][x] :
          /\ p = <<e, x, k>> /\ entries[e][x][k] = m
          /\ (e = d /\ x = name) => k # 1
    BY <1>7
  <2>2. PICK k \in DOMAIN entries[e][x] : p = <<e, x, k>>
    BY <2>1
  <2>3. PICK f \in Inums, y \in Names : \E j \in DOMAIN entries[f][y] :
          /\ q = <<f, y, j>> /\ entries[f][y][j] = m
          /\ (f = d /\ y = name) => j # 1
    BY <1>7
  <2>4. PICK j \in DOMAIN entries[f][y] : q = <<f, y, j>>
    BY <2>3
  <2>5. /\ E(p) = IF e = d /\ x = name THEN <<d, name, k - 1>> ELSE <<e, x, k>>
        /\ E(q) = IF f = d /\ y = name THEN <<d, name, j - 1>> ELSE <<f, y, j>>
    BY <2>2, <2>4 DEF Earlier
  <2> HIDE DEF E
  <2>6. CASE e = d /\ x = name
    <3>1. <<d, name, k - 1>> = E(q)
      BY <1>11, <2>5, <2>6
    <3>2. f = d /\ y = name
      <4>1. ASSUME ~(f = d /\ y = name) PROVE FALSE
        <5>1. <<d, name, k - 1>> = <<f, y, j>>
          BY <2>5, <3>1, <4>1
        <5> QED
          BY <4>1, <5>1
      <4> QED
        BY <4>1
    <3>3. k \in Nat /\ j \in Nat
      BY <1>3, <2>2, <2>4, <2>6, <3>2
    <3>4. <<d, name, k - 1>> = <<d, name, j - 1>>
      BY <2>5, <3>1, <3>2
    <3>5. k = j
      BY <3>3, <3>4
    <3> QED
      BY <2>2, <2>4, <2>6, <3>2, <3>5
  <2>7. CASE ~(e = d /\ x = name)
    <3>1. <<e, x, k>> = E(q)
      BY <1>11, <2>5, <2>7
    <3>2. ASSUME f = d /\ y = name PROVE FALSE
      <4>1. <<e, x, k>> = <<d, name, j - 1>>
        BY <2>5, <3>1, <3>2
      <4> QED
        BY <2>7, <4>1
    <3> QED
      BY <2>2, <2>4, <2>5, <3>1, <3>2
  <2> QED
    BY <2>6, <2>7
<1> QED
  BY <1>6, <1>10, <1>11 DEF new

(* The first name dropped: one less for its inode.                         *)
LEMMA DropCounts ==
  ASSUME NEW entries \in Entries, NEW d \in Inums, NEW name \in Names,
         entries[d][name] # << >>, NEW m \in Inums, IsFiniteSet(NamesIn(entries, m))
  PROVE  LET new == Drop(entries, d, name)
         IN  /\ IsFiniteSet(NamesIn(new, m))
             /\ Cardinality(NamesIn(new, m)) =
                  Cardinality(NamesIn(entries, m))
                    - (IF m = Head(entries[d][name]) THEN 1 ELSE 0)
<1> DEFINE first == <<d, name, 1>>
           all == NamesIn(entries, m)
           old == all \ {first}
           new == NamesIn(Drop(entries, d, name), m)
           E(p) == Earlier(d, name, p)
           f == [p \in old |-> E(p)]
<1>1. /\ first \in all <=> m = Head(entries[d][name])
      /\ new = {E(p) : p \in old}
      /\ \A p, q \in old : E(p) = E(q) => p = q
  BY DropPlaces
<1> HIDE DEF all, new, E
<1>2. f \in [old -> new]
  BY <1>1
<1>3. f \in Injection(old, new)
  BY <1>1, <1>2 DEF Injection, IsInjective
<1>4. f \in Surjection(old, new)
  BY <1>1, <1>2 DEF Surjection
<1>5. ExistsBijection(old, new)
  BY <1>3, <1>4 DEF ExistsBijection, Bijection
<1> HIDE DEF first
<1>6. /\ IsFiniteSet(old)
      /\ Cardinality(old) = IF first \in all THEN Cardinality(all) - 1 ELSE Cardinality(all)
  BY FS_RemoveElement DEF all
<1>7. IsFiniteSet(new) /\ Cardinality(new) = Cardinality(old)
  BY <1>5, <1>6, FS_Bijection
<1>8. Cardinality(all) \in Nat
  BY FS_CardinalityType DEF all
<1>9. Cardinality(new) = Cardinality(all) - (IF m = Head(entries[d][name]) THEN 1 ELSE 0)
  BY <1>1, <1>6, <1>7, <1>8
<1> QED
  BY <1>7, <1>9 DEF all, new

(* The same for names of files.                                            *)
LEMMA DropFiles ==
  ASSUME NEW entries \in Entries, NEW d \in Inums, NEW name \in Names,
         entries[d][name] # << >>, NEW m \in Inums
  PROVE  LET new == Drop(entries, d, name)
             n   == Head(entries[d][name])
         IN  /\ name \notin FileNames => FilePlaces(new, m) = FilePlaces(entries, m)
             /\ FilePlaces(entries, m) = {} => FilePlaces(new, m) = {}
             /\ \A p : FilePlaces(entries, m) = {p} /\ m # n
                         => \E q : FilePlaces(new, m) = {q} /\ q[1] = p[1]
             /\ \A p : FilePlaces(entries, m) = {p} /\ m = n /\ name \in FileNames
                         => FilePlaces(new, m) = {} /\ p[1] = d
<1> DEFINE first == <<d, name, 1>>
           all == NamesIn(entries, m)
           old == all \ {first}
           new == NamesIn(Drop(entries, d, name), m)
           E(p) == Earlier(d, name, p)
           files == FilePlaces(entries, m)
           after == FilePlaces(Drop(entries, d, name), m)
           n == Head(entries[d][name])
<1>1. /\ first \in all <=> m = n
      /\ new = {E(p) : p \in old}
  BY DropPlaces
<1>2. first[1] = d /\ first[2] = name
  OBVIOUS
<1>3. \A p : E(p)[1] = p[1] /\ E(p)[2] = p[2]
  <2>1. \A k : <<d, name, k>>[1] = d /\ <<d, name, k>>[2] = name
    OBVIOUS
  <2> QED
    BY <2>1 DEF Earlier
<1>4. \A p : name \notin FileNames /\ p[2] \in FileNames => E(p) = p
  BY DEF Earlier
<1> HIDE DEF all, new, E, first
<1>5. files = {p \in all : p[2] \in FileNames} /\ after = {p \in new : p[2] \in FileNames}
  BY DEF FilePlaces, all, new
<1> HIDE DEF files, after
<1>6. \A q : q \in after <=> \E p \in files \ {first} : q = E(p)
  BY <1>1, <1>3, <1>5
<1>7. name \notin FileNames => after = files
  <2>1. name \notin FileNames => first \notin files
    BY <1>2, <1>5
  <2> QED
    BY <1>4, <1>5, <1>6, <2>1
<1>8. files = {} => after = {}
  BY <1>6
<1>9. \A p : files = {p} /\ m # n => after = {E(p)} /\ E(p)[1] = p[1]
  <2>1. m # n => first \notin files
    BY <1>1, <1>5
  <2> QED
    BY <1>3, <1>6, <2>1
<1>10. \A p : files = {p} /\ m = n /\ name \in FileNames => after = {} /\ p[1] = d
  <2>1. m = n /\ name \in FileNames => first \in files
    BY <1>1, <1>2, <1>5
  <2> QED
    BY <1>2, <1>6, <2>1
<1> QED
  BY <1>7, <1>8, <1>9, <1>10 DEF files, after

(* Dropping a dot takes no name of a file away.                            *)
LEMMA DropDot ==
  ASSUME NEW entries \in Entries, NEW d \in Inums, NEW name \in Names, name \notin FileNames,
         entries[d][name] # << >>
  PROVE  \A m \in Inums : FilePlaces(Drop(entries, d, name), m) = FilePlaces(entries, m)
BY DropFiles

-----------------------------------------------------------------------------
(* The link counts are the numbers of names.                               *)
Tallied(known, entries) ==
  /\ known \in Inodes /\ entries \in Entries
  /\ \A n \in Inums : /\ IsFiniteSet(NamesIn(entries, n))
                      /\ known[n].nlinks = Cardinality(NamesIn(entries, n))

(* An inode has links if and only if it has a name.                        *)
LEMMA TalliedNames ==
  ASSUME NEW known, NEW entries, Tallied(known, entries), NEW n \in Inums
  PROVE  known[n].nlinks \in Nat /\ (known[n].nlinks # 0 <=> NamesIn(entries, n) # {})
BY FS_CardinalityType, FS_EmptySet DEF Tallied

(* Entering a name with its link, and dropping one.                        *)
LEMMA TalliedEnter ==
  ASSUME NEW known, NEW entries, Tallied(known, entries), NEW d \in Inums, NEW name \in Names,
         NEW n \in Inums, known[n].nlinks + 1 \in Links
  PROVE  Tallied(More(known, n), Enter(entries, d, name, n))
<1> DEFINE new == Enter(entries, d, name, n)
           more == More(known, n)
<1>1. known \in Inodes /\ entries \in Entries
  BY DEF Tallied
<1>2. new \in Entries
  BY <1>1, EnterAt
<1>3. /\ more \in Inodes /\ more[n].nlinks = known[n].nlinks + 1
      /\ \A m \in Inums : m # n => more[m] = known[m]
  BY <1>1, MoreAt
<1>4. ASSUME NEW m \in Inums
      PROVE  /\ IsFiniteSet(NamesIn(new, m))
             /\ Cardinality(NamesIn(new, m)) =
                  Cardinality(NamesIn(entries, m)) + (IF m = n THEN 1 ELSE 0)
  <2>1. IsFiniteSet(NamesIn(entries, m))
    BY DEF Tallied
  <2> QED
    BY <1>1, <2>1, EnterCounts
<1> HIDE DEF new, more
<1>5. ASSUME NEW m \in Inums PROVE more[m].nlinks = Cardinality(NamesIn(new, m))
  <2>1. known[m].nlinks = Cardinality(NamesIn(entries, m)) /\ known[m].nlinks \in Nat
    BY TalliedNames DEF Tallied
  <2>2. CASE m = n
    BY <1>3, <1>4, <2>1, <2>2
  <2>3. CASE m # n
    BY <1>3, <1>4, <2>1, <2>3
  <2> QED
    BY <2>2, <2>3
<1> QED
  BY <1>2, <1>3, <1>4, <1>5 DEF Tallied, new, more

(* A name goes with its link.                                              *)
LEMMA TalliedDrop ==
  ASSUME NEW known, NEW entries, Tallied(known, entries), NEW d \in Inums, NEW name \in Names,
         entries[d][name] # << >>, NEW n, n = Head(entries[d][name])
  PROVE  /\ n \in Inums /\ known[n].nlinks # 0
         /\ Tallied(Fewer(known, n), Drop(entries, d, name))
<1> DEFINE new == Drop(entries, d, name)
           less == Fewer(known, n)
<1>1. known \in Inodes /\ entries \in Entries
  BY DEF Tallied
<1>2. new \in Entries /\ n \in Inums
  BY <1>1, DropAt
<1>3. known[n].nlinks # 0
  BY <1>1, <1>2, FirstPlace, TalliedNames
<1>4. /\ less \in Inodes /\ less[n].nlinks = known[n].nlinks - 1
      /\ \A m \in Inums : m # n => less[m] = known[m]
  BY <1>1, <1>2, <1>3, FewerAt
<1>5. ASSUME NEW m \in Inums
      PROVE  /\ IsFiniteSet(NamesIn(new, m))
             /\ Cardinality(NamesIn(new, m)) =
                  Cardinality(NamesIn(entries, m)) - (IF m = n THEN 1 ELSE 0)
  <2>1. IsFiniteSet(NamesIn(entries, m))
    BY DEF Tallied
  <2> QED
    BY <1>1, <2>1, DropCounts
<1> HIDE DEF new, less
<1>6. ASSUME NEW m \in Inums PROVE less[m].nlinks = Cardinality(NamesIn(new, m))
  <2>1. known[m].nlinks = Cardinality(NamesIn(entries, m)) /\ known[m].nlinks \in Nat
    BY TalliedNames DEF Tallied
  <2>2. CASE m = n
    BY <1>4, <1>5, <2>1, <2>2
  <2>3. CASE m # n
    BY <1>4, <1>5, <2>1, <2>3
  <2> QED
    BY <2>2, <2>3
<1> QED
  BY <1>2, <1>3, <1>4, <1>5, <1>6 DEF Tallied, new, less

-----------------------------------------------------------------------------
(* The directories: each has its dots, every one but the root has one name *)
(* in the directory above, and the way up comes to an end.                 *)
Dirs(known)    == {n \in Inums : known[n].nlinks # 0 /\ known[n].mode = I_DIRECTORY}
Up(entries, n) == entries[n][dot2][1]

Shaped(known, entries) ==
  /\ \A n \in Inums \ Dirs(known), name \in Names : entries[n][name] = << >>
  /\ \A n \in Dirs(known) : /\ entries[n][dot1] = <<n>>
                            /\ entries[n][dot2] = <<Up(entries, n)>>
                            /\ Up(entries, n) \in Dirs(known)
  /\ \A n \in Dirs(known) \ {ROOT_INODE} :
       \E p : FilePlaces(entries, n) = {p} /\ p[1] = Up(entries, n)
  /\ ROOT_INODE \in Dirs(known)
  /\ FilePlaces(entries, ROOT_INODE) = {} /\ Up(entries, ROOT_INODE) = ROOT_INODE

IsRank(rank, known, entries) ==
  /\ rank \in [Inums -> Nat]
  /\ \A n \in Dirs(known) \ {ROOT_INODE} : rank[Up(entries, n)] < rank[n]

Good(known, entries) ==
  /\ Tallied(known, entries) /\ Shaped(known, entries)
  /\ \E rank : IsRank(rank, known, entries)

(* A name leads to an inode with links, and a directory has only one.      *)
LEMMA GoodName ==
  ASSUME NEW known, NEW entries, Good(known, entries), NEW d \in Inums, NEW name \in Names,
         entries[d][name] # << >>, NEW n, n = Head(entries[d][name])
  PROVE  /\ d \in Dirs(known) /\ n \in Inums /\ known[n].nlinks # 0
         /\ name \notin FileNames => known[n].mode = I_DIRECTORY
         /\ known[n].mode = I_DIRECTORY /\ name \in FileNames
              => /\ n \in Dirs(known) /\ n # ROOT_INODE /\ Up(entries, n) = d
                 /\ FilePlaces(entries, n) = {<<d, name, 1>>}
<1>1. d \in Dirs(known)
  BY DEF Good, Shaped
<1>2. n \in Inums /\ known[n].nlinks # 0 /\ entries \in Entries
  BY TalliedDrop DEF Good, Tallied
<1>3. name \notin FileNames => known[n].mode = I_DIRECTORY
  <2>1. SUFFICES ASSUME name \notin FileNames PROVE known[n].mode = I_DIRECTORY
    OBVIOUS
  <2>2. name = dot1 \/ name = dot2
    BY <2>1 DEF Names
  <2>3. entries[d][dot1] = <<d>> /\ entries[d][dot2] = <<Up(entries, d)>>
        /\ Up(entries, d) \in Dirs(known)
    BY <1>1 DEF Good, Shaped
  <2>4. Head(<<d>>) = d /\ Head(<<Up(entries, d)>>) = Up(entries, d)
    OBVIOUS
  <2> QED
    BY <1>1, <2>2, <2>3, <2>4 DEF Dirs
<1>4. ASSUME known[n].mode = I_DIRECTORY, name \in FileNames
      PROVE  /\ n \in Dirs(known) /\ n # ROOT_INODE /\ Up(entries, n) = d
             /\ FilePlaces(entries, n) = {<<d, name, 1>>}
  <2>1. n \in Dirs(known)
    BY <1>2, <1>4 DEF Dirs
  <2>2. <<d, name, 1>> \in FilePlaces(entries, n)
    BY <1>2, <1>4, FirstPlace
  <2>3. n # ROOT_INODE
    BY <2>2 DEF Good, Shaped
  <2>4. PICK p : FilePlaces(entries, n) = {p} /\ p[1] = Up(entries, n)
    BY <2>1, <2>3 DEF Good, Shaped
  <2>5. p = <<d, name, 1>>
    BY <2>2, <2>4
  <2>6. p[1] = d
    BY <2>5
  <2> QED
    BY <2>1, <2>3, <2>4, <2>5, <2>6
<1> QED
  BY <1>1, <1>2, <1>3, <1>4

(* The dots are not names of files.                                        *)
LEMMA DotNames ==
  /\ dot1 \in Names /\ dot2 \in Names /\ dot1 # dot2
  /\ dot1 \notin FileNames /\ dot2 \notin FileNames
  /\ \A name \in FileNames : name \in Names /\ name # dot1 /\ name # dot2
  /\ \A name \in Names : name \in FileNames \/ name = dot1 \/ name = dot2
BY NameAssumption DEF Names

(* Only names of files change, and no directory that stays is named anew.  *)
LEMMA ShapedSame ==
  ASSUME NEW known, NEW entries, Shaped(known, entries), NEW k, NEW e,
         Dirs(k) = Dirs(known),
         \A n \in Dirs(known) : e[n][dot1] = entries[n][dot1] /\ e[n][dot2] = entries[n][dot2],
         \A n \in Inums \ Dirs(known), name \in Names : e[n][name] = entries[n][name],
         \A n \in Dirs(known) : \A p : FilePlaces(entries, n) = {p}
           => \E q : FilePlaces(e, n) = {q} /\ q[1] = p[1],
         FilePlaces(e, ROOT_INODE) = {}
  PROVE  /\ Shaped(k, e)
         /\ \A rank : IsRank(rank, known, entries) => IsRank(rank, k, e)
<1>1. \A n \in Dirs(known) : Up(e, n) = Up(entries, n)
  BY DEF Up
<1>2. Shaped(k, e)
  BY <1>1 DEF Shaped
<1>3. \A rank : IsRank(rank, known, entries) => IsRank(rank, k, e)
  BY <1>1 DEF IsRank
<1> QED
  BY <1>2, <1>3

(* Neither link counts nor modes change.                                   *)
LEMMA GoodZones ==
  ASSUME NEW known, NEW entries, Good(known, entries), NEW k \in Inodes,
         \A n \in Inums : k[n].nlinks = known[n].nlinks /\ k[n].mode = known[n].mode
  PROVE  Good(k, entries)
<1>1. Dirs(k) = Dirs(known)
  BY DEF Dirs
<1>2. Tallied(k, entries)
  BY DEF Good, Tallied
<1>3. Shaped(k, entries) /\ \A rank : IsRank(rank, known, entries) => IsRank(rank, k, entries)
  BY <1>1 DEF Good, Shaped, IsRank
<1> QED
  BY <1>2, <1>3 DEF Good

(* link: a new name for an inode that is not a directory.                  *)
LEMMA GoodLinked ==
  ASSUME NEW known, NEW entries, Good(known, entries),
         NEW n \in Inums, known[n].mode # I_DIRECTORY, known[n].nlinks + 1 \in Links,
         NEW d \in Dirs(known), NEW name \in FileNames
  PROVE  Good(More(known, n), Enter(entries, d, name, n))
<1> DEFINE k == More(known, n)
           e == Enter(entries, d, name, n)
<1>1. known \in Inodes /\ entries \in Entries /\ d \in Inums /\ name \in Names
  BY DotNames DEF Good, Tallied, Dirs
<1>2. Tallied(k, e)
  BY <1>1, TalliedEnter DEF Good
<1>3. \A m \in Inums : (m # n => k[m] = known[m]) /\ k[m].mode = known[m].mode
  BY <1>1, MoreAt
<1>4. \A m \in Inums, x \in Names : m # d \/ x # name => e[m][x] = entries[m][x]
  BY <1>1, EnterElsewhere
<1>5. \A m \in Inums : m # n => FilePlaces(e, m) = FilePlaces(entries, m)
  BY <1>1, EnterFiles
<1> HIDE DEF k, e
<1>6. Dirs(k) = Dirs(known)
  BY <1>3 DEF Dirs
<1>7. \A m \in Dirs(known) : m \in Inums /\ m # n
  BY DEF Dirs
<1>8. FilePlaces(e, ROOT_INODE) = {}
  BY <1>5, <1>7 DEF Good, Shaped
<1>9. \A m \in Dirs(known) : \A p : FilePlaces(entries, m) = {p}
        => \E q : FilePlaces(e, m) = {q} /\ q[1] = p[1]
  BY <1>5, <1>7
<1>10. /\ \A m \in Dirs(known) : e[m][dot1] = entries[m][dot1] /\ e[m][dot2] = entries[m][dot2]
       /\ \A m \in Inums \ Dirs(known), x \in Names : e[m][x] = entries[m][x]
  BY <1>4, <1>7, DotNames
<1>11. Shaped(k, e) /\ \A rank : IsRank(rank, known, entries) => IsRank(rank, k, e)
  BY <1>6, <1>8, <1>9, <1>10, ShapedSame DEF Good
<1> QED
  BY <1>2, <1>11 DEF Good, k, e

(* unlink: a name less for an inode that is not a directory.               *)
LEMMA GoodUnlinked ==
  ASSUME NEW known, NEW entries, Good(known, entries), NEW d \in Inums,
         NEW name \in Names, entries[d][name] # << >>,
         NEW n, n = Head(entries[d][name]), known[n].mode # I_DIRECTORY
  PROVE  /\ Good(Fewer(known, n), Drop(entries, d, name))
         /\ Dirs(Fewer(known, n)) = Dirs(known) /\ name \in FileNames
<1> DEFINE k == Fewer(known, n)
           e == Drop(entries, d, name)
<1>1. known \in Inodes /\ entries \in Entries /\ name \in FileNames /\ n \in Inums
      /\ d \in Dirs(known) /\ known[n].nlinks # 0
  BY GoodName DEF Good, Tallied
<1>2. Tallied(k, e)
  BY <1>1, TalliedDrop DEF Good
<1>3. \A m \in Inums : (m # n => k[m] = known[m]) /\ k[m].mode = known[m].mode
  BY <1>1, FewerAt
<1>4. \A m \in Inums, x \in Names : m # d \/ x # name => e[m][x] = entries[m][x]
  BY <1>1, DropAt
<1>5. \A m \in Inums :
        /\ FilePlaces(entries, m) = {} => FilePlaces(e, m) = {}
        /\ \A p : FilePlaces(entries, m) = {p} /\ m # n
                    => \E q : FilePlaces(e, m) = {q} /\ q[1] = p[1]
  BY <1>1, DropFiles
<1> HIDE DEF k, e
<1>6. Dirs(k) = Dirs(known)
  BY <1>1, <1>3 DEF Dirs
<1>7. \A m \in Dirs(known) : m \in Inums /\ m # n
  BY DEF Dirs
<1>8. FilePlaces(e, ROOT_INODE) = {}
  BY <1>5, <1>7 DEF Good, Shaped
<1>9. \A m \in Dirs(known) : \A p : FilePlaces(entries, m) = {p}
        => \E q : FilePlaces(e, m) = {q} /\ q[1] = p[1]
  BY <1>5, <1>7
<1>10. /\ \A m \in Dirs(known) : e[m][dot1] = entries[m][dot1] /\ e[m][dot2] = entries[m][dot2]
       /\ \A m \in Inums \ Dirs(known), x \in Names : e[m][x] = entries[m][x]
  BY <1>1, <1>4, <1>7, DotNames
<1>11. Shaped(k, e) /\ \A rank : IsRank(rank, known, entries) => IsRank(rank, k, e)
  BY <1>6, <1>8, <1>9, <1>10, ShapedSame DEF Good
<1> QED
  BY <1>1, <1>2, <1>6, <1>11 DEF Good, k, e

Bare(entries, n) == \A x \in FileNames : entries[n][x] = << >>

(* Directory n in directory d, with no directory below it.                 *)
IsLeaf(known, entries, n, d) ==
  /\ n \in Dirs(known) /\ d \in Dirs(known) /\ n # d /\ n # ROOT_INODE
  /\ entries[n][dot1] = <<n>> /\ entries[n][dot2] = <<d>>
  /\ \A m \in Dirs(known) : Up(entries, m) # n
  /\ known[n].nlinks = 2 /\ known[d].nlinks # 0

(* A directory without names of files has two names: the one in the        *)
(* directory above and its own ".".                                        *)
LEMMA RemovableDirectory ==
  ASSUME NEW known, NEW entries, Good(known, entries), NEW d \in Inums, NEW name \in FileNames,
         entries[d][name] # << >>, NEW n, n = Head(entries[d][name]),
         known[n].mode = I_DIRECTORY, Bare(entries, n)
  PROVE  IsLeaf(known, entries, n, d)
<1>1. /\ n \in Dirs(known) /\ d \in Dirs(known) /\ n \in Inums /\ n # ROOT_INODE
      /\ Up(entries, n) = d /\ FilePlaces(entries, n) = {<<d, name, 1>>}
  BY GoodName, DotNames
<1>2. n # d
  <2>1. PICK rank : IsRank(rank, known, entries)
    BY DEF Good
  <2>2. rank[d] < rank[n] /\ rank[n] \in Nat
    BY <1>1, <2>1 DEF IsRank
  <2> QED
    BY <2>2
<1>3. entries[n][dot1] = <<n>> /\ entries[n][dot2] = <<d>>
  BY <1>1 DEF Good, Shaped
<1>4. ASSUME NEW m \in Dirs(known), Up(entries, m) = n PROVE FALSE
  <2>1. m # ROOT_INODE
    BY <1>1, <1>4 DEF Good, Shaped
  <2>2. PICK p : FilePlaces(entries, m) = {p} /\ p[1] = n
    BY <1>4, <2>1 DEF Good, Shaped
  <2>3. p \in NamesIn(entries, m) /\ p[2] \in FileNames
    BY <2>2 DEF FilePlaces
  <2>4. IsPlace(entries, p, m)
    BY <2>3, NamesInIs
  <2>5. PICK e \in Inums, x \in Names : \E k \in DOMAIN entries[e][x] : p = <<e, x, k>>
    BY <2>4 DEF IsPlace
  <2>6. PICK k \in DOMAIN entries[e][x] : p = <<e, x, k>>
    BY <2>5
  <2>7. p[1] = e /\ p[2] = x
    BY <2>6
  <2>8. entries[e][x] = << >>
    BY <2>2, <2>3, <2>7 DEF Bare
  <2>9. DOMAIN << >> = {}
    OBVIOUS
  <2> QED
    BY <2>6, <2>8, <2>9
<1>5. \A p : p \in NamesIn(entries, n) <=> p = <<d, name, 1>> \/ p = <<n, dot1, 1>>
  <2>1. <<d, name, 1>> \in NamesIn(entries, n)
    BY <1>1 DEF FilePlaces
  <2>2. <<n, dot1, 1>> \in NamesIn(entries, n)
    <3>1. 1 \in DOMAIN <<n>> /\ <<n>>[1] = n
      OBVIOUS
    <3>2. IsPlace(entries, <<n, dot1, 1>>, n)
      BY <1>1, <1>3, <3>1, DotNames DEF IsPlace
    <3> QED
      BY <3>2, NamesInIs
  <2>3. ASSUME NEW p \in NamesIn(entries, n), p # <<d, name, 1>> PROVE p = <<n, dot1, 1>>
    <3>1. IsPlace(entries, p, n)
      BY NamesInIs
    <3>2. PICK e \in Inums, x \in Names :
            \E k \in DOMAIN entries[e][x] : p = <<e, x, k>> /\ entries[e][x][k] = n
      BY <3>1 DEF IsPlace
    <3>3. PICK k \in DOMAIN entries[e][x] : p = <<e, x, k>> /\ entries[e][x][k] = n
      BY <3>2
    <3>4. p[2] = x
      BY <3>3
    <3>5. x \notin FileNames
      BY <1>1, <2>3, <3>4 DEF FilePlaces
    <3>6. e \in Dirs(known)
      <4>1. DOMAIN << >> = {}
        OBVIOUS
      <4> QED
        BY <3>3, <4>1 DEF Good, Shaped
    <3>7. entries[e][dot1] = <<e>> /\ entries[e][dot2] = <<Up(entries, e)>> /\ Up(entries, e) # n
      BY <1>4, <3>6 DEF Good, Shaped
    <3>8. \A y : DOMAIN <<y>> = {1} /\ <<y>>[1] = y
      OBVIOUS
    <3>9. x = dot1
      <4>1. x # dot2
        BY <3>3, <3>7, <3>8
      <4> QED
        BY <3>5, <4>1, DotNames
    <3>10. k = 1 /\ e = n
      BY <3>3, <3>7, <3>8, <3>9
    <3> QED
      BY <3>3, <3>9, <3>10
  <2> QED
    BY <2>1, <2>2, <2>3
<1>6. <<d, name, 1>> # <<n, dot1, 1>>
  BY <1>2
<1> DEFINE one == <<d, name, 1>>
           two == <<n, dot1, 1>>
<1>7. one # two /\ NamesIn(entries, n) = {one} \cup {two}
  BY <1>5, <1>6
<1> HIDE DEF one, two
<1>8. Cardinality({one}) = 1 /\ IsFiniteSet({one}) /\ two \notin {one}
  BY <1>7, FS_Singleton
<1>9. Cardinality({one} \cup {two}) = 1 + 1
  BY <1>8, FS_AddElement
<1>10. known[n].nlinks = 2
  <2>1. known[n].nlinks = Cardinality(NamesIn(entries, n))
    BY <1>1 DEF Good, Tallied
  <2>2. known[n].nlinks = 1 + 1
    BY <1>7, <1>9, <2>1, Zenon
  <2> QED
    BY <2>2
<1> QED
  BY <1>1, <1>2, <1>3, <1>4, <1>10 DEF IsLeaf, Dirs

(* rmdir: the directory is gone, and nothing of it is left.                *)
LEMMA GoodRemoved ==
  ASSUME NEW known, NEW entries, Good(known, entries), NEW d \in Inums, NEW name \in FileNames,
         entries[d][name] # << >>, NEW n, n = Head(entries[d][name]),
         known[n].mode = I_DIRECTORY, Bare(entries, n)
  PROVE  LET k == RemovedKnown(known, d, n)
             e == RemovedEntries(entries, d, n, name)
         IN  /\ Good(k, e) /\ Dirs(k) = Dirs(known) \ {n}
             /\ \A m \in Dirs(k) : Up(e, m) = Up(entries, m)
             /\ k[d].nlinks + 1 \in Links
<1> DEFINE k1 == Fewer(known, n)
           e1 == Drop(entries, d, name)
           k2 == Fewer(k1, n)
           e2 == Drop(e1, n, dot1)
           k == Fewer(k2, d)
           e == Drop(e2, n, dot2)
<1>1. /\ n \in Dirs(known) /\ d \in Dirs(known) /\ n # d /\ n # ROOT_INODE
      /\ entries[n][dot1] = <<n>> /\ entries[n][dot2] = <<d>>
      /\ \A m \in Dirs(known) : Up(entries, m) # n
      /\ known[n].nlinks = 2
  <2>1. IsLeaf(known, entries, n, d)
    BY RemovableDirectory
  <2> QED
    BY <2>1 DEF IsLeaf
<1>2. /\ n \in Inums /\ name \in Names /\ Tallied(known, entries) /\ Shaped(known, entries)
      /\ known \in Inodes /\ entries \in Entries
  BY <1>1, DotNames DEF Dirs, Good, Tallied
<1>3. \A y : <<y>> # << >> /\ Head(<<y>>) = y /\ Tail(<<y>>) = << >>
  OBVIOUS
<1>4. /\ Tallied(k1, e1) /\ e1 \in Entries /\ k1 \in Inodes
      /\ k1[n].nlinks = 1
      /\ \A m \in Inums : (m # n => k1[m] = known[m]) /\ k1[m].mode = known[m].mode
      /\ \A m \in Inums, x \in Names : m # d \/ x # name => e1[m][x] = entries[m][x]
  <2>1. Tallied(k1, e1)
    BY <1>2, TalliedDrop
  <2>2. k1 \in Inodes /\ k1[n].nlinks = 2 - 1
        /\ \A m \in Inums : (m # n => k1[m] = known[m]) /\ k1[m].mode = known[m].mode
    BY <1>1, <1>2, FewerAt
  <2>3. \A m \in Inums, x \in Names : m # d \/ x # name => e1[m][x] = entries[m][x]
    BY <1>2, DropAt
  <2> HIDE DEF k1, e1
  <2> QED
    BY <2>1, <2>2, <2>3 DEF Tallied
<1>5. ASSUME NEW m \in Inums
      PROVE  /\ FilePlaces(entries, m) = {} => FilePlaces(e1, m) = {}
             /\ \A p : FilePlaces(entries, m) = {p} /\ m # n
                         => \E q : FilePlaces(e1, m) = {q} /\ q[1] = p[1]
  BY <1>2, DropFiles
<1> HIDE DEF k1, e1
<1>6. e1[n][dot1] = <<n>> /\ e1[n][dot2] = <<d>>
  BY <1>1, <1>2, <1>4, DotNames
<1>7. /\ Tallied(k2, e2) /\ e2 \in Entries /\ k2 \in Inodes
      /\ k2[n].nlinks = 0 /\ e2[n][dot1] = << >>
      /\ \A m \in Inums : (m # n => k2[m] = known[m]) /\ k2[m].mode = known[m].mode
      /\ \A m \in Inums, x \in Names : m # n \/ x # dot1 => e2[m][x] = e1[m][x]
  <2>1. Tallied(k2, e2)
    BY <1>2, <1>3, <1>4, <1>6, DotNames, TalliedDrop
  <2>2. k2 \in Inodes /\ k2[n].nlinks = 1 - 1
        /\ \A m \in Inums : (m # n => k2[m] = k1[m]) /\ k2[m].mode = k1[m].mode
    BY <1>2, <1>4, FewerAt
  <2>3. /\ \A m \in Inums, x \in Names : m # n \/ x # dot1 => e2[m][x] = e1[m][x]
        /\ e2[n][dot1] = Tail(<<n>>)
    <3>1. e1[n][dot1] # << >> /\ dot1 \in Names /\ e1 \in Entries /\ n \in Inums
      BY <1>2, <1>3, <1>4, <1>6, DotNames
    <3>2. \A m \in Inums, x \in Names : m # n \/ x # dot1 => e2[m][x] = e1[m][x]
      BY <3>1, DropAt
    <3>3. e2[n][dot1] = Tail(e1[n][dot1])
      BY <3>1, DropAt
    <3> QED
      BY <1>6, <3>2, <3>3
  <2> HIDE DEF k2, e2
  <2> QED
    BY <1>3, <1>4, <2>1, <2>2, <2>3 DEF Tallied
<1>8. \A m \in Inums : FilePlaces(e2, m) = FilePlaces(e1, m)
  <2>1. e1[n][dot1] # << >> /\ e1 \in Entries
    BY <1>3, <1>4, <1>6
  <2> QED
    BY <1>2, <2>1, DotNames, DropDot
<1> HIDE DEF k2, e2
<1>9. e2[n][dot2] = <<d>>
  BY <1>2, <1>6, <1>7, DotNames
<1>10. /\ Tallied(k, e) /\ e \in Entries /\ k \in Inodes
       /\ k[n].nlinks = 0 /\ e[n][dot2] = << >>
       /\ k[d].nlinks + 1 = known[d].nlinks
       /\ \A m \in Inums : (m # n /\ m # d => k[m] = known[m]) /\ k[m].mode = known[m].mode
       /\ \A m \in Inums, x \in Names : m # n \/ x # dot2 => e[m][x] = e2[m][x]
  <2>1. Tallied(k, e) /\ k2[d].nlinks # 0
    BY <1>2, <1>3, <1>7, <1>9, DotNames, TalliedDrop
  <2>2. k \in Inodes /\ k[d].nlinks = k2[d].nlinks - 1
        /\ \A m \in Inums : (m # d => k[m] = k2[m]) /\ k[m].mode = k2[m].mode
    BY <1>7, <2>1, FewerAt
  <2>3. /\ \A m \in Inums, x \in Names : m # n \/ x # dot2 => e[m][x] = e2[m][x]
        /\ e[n][dot2] = Tail(<<d>>)
    <3>1. e2[n][dot2] # << >> /\ dot2 \in Names /\ e2 \in Entries /\ n \in Inums
      BY <1>2, <1>3, <1>7, <1>9, DotNames
    <3>2. \A m \in Inums, x \in Names : m # n \/ x # dot2 => e[m][x] = e2[m][x]
      BY <3>1, DropAt
    <3>3. e[n][dot2] = Tail(e2[n][dot2])
      BY <3>1, DropAt
    <3> QED
      BY <1>9, <3>2, <3>3
  <2> HIDE DEF k, e
  <2>4. k2[d].nlinks = known[d].nlinks /\ known[d].nlinks \in Nat
    <3>1. k2[d] = known[d]
      BY <1>1, <1>7
    <3> QED
      BY <1>2, <3>1, TalliedNames
  <2>5. k[d].nlinks + 1 = known[d].nlinks
    BY <2>2, <2>4
  <2>6. \A m \in Inums : (m # n /\ m # d => k[m] = known[m]) /\ k[m].mode = known[m].mode
    BY <1>7, <2>2
  <2>7. k[n].nlinks = 0 /\ e[n][dot2] = << >> /\ e \in Entries
    BY <1>1, <1>2, <1>3, <1>7, <2>1, <2>2, <2>3 DEF Tallied
  <2> QED
    BY <2>1, <2>2, <2>3, <2>5, <2>6, <2>7
<1>11. \A m \in Inums : FilePlaces(e, m) = FilePlaces(e2, m)
  <2>1. e2[n][dot2] # << >>
    BY <1>9
  <2> QED
    BY <1>2, <1>7, <2>1, DotNames, DropDot
<1> HIDE DEF k, e
<1>12. \A m \in Inums, x \in Names : (m # d \/ x # name) /\ m # n => e[m][x] = entries[m][x]
  BY <1>4, <1>7, <1>10
<1>13. \A x \in Names : e[n][x] = << >>
  <2>1. ASSUME NEW x \in FileNames PROVE e[n][x] = << >>
    <3>1. x \in Names /\ x # dot1 /\ x # dot2
      BY DotNames
    <3>2. e[n][x] = entries[n][x]
      BY <1>1, <1>2, <1>4, <1>7, <1>10, <3>1
    <3> QED
      BY <3>2 DEF Bare
  <2>2. e[n][dot1] = << >>
    BY <1>2, <1>7, <1>10, DotNames
  <2> QED
    BY <1>10, <2>1, <2>2, DotNames
<1>14. k[d].nlinks # 0
  <2>1. e[d][dot1] = <<d>>
    BY <1>1, <1>2, <1>12, DotNames DEF Shaped
  <2>2. <<d, dot1, 1>> \in NamesIn(e, d)
    BY <1>3, <1>10, <2>1, DotNames, FirstPlace
  <2> QED
    BY <1>10, <2>2, TalliedNames
<1>15. Dirs(k) = Dirs(known) \ {n}
  <2>1. n \notin Dirs(k)
    BY <1>10 DEF Dirs
  <2>2. ASSUME NEW m \in Inums, m # n PROVE m \in Dirs(k) <=> m \in Dirs(known)
    <3>1. CASE m = d
      BY <1>1, <1>10, <1>14, <3>1 DEF Dirs
    <3>2. CASE m # d
      BY <1>10, <2>2, <3>2 DEF Dirs
    <3> QED
      BY <3>1, <3>2
  <2> QED
    BY <2>1, <2>2 DEF Dirs
<1>16. \A m \in Dirs(k) : /\ m \in Inums /\ m # n /\ m \in Dirs(known)
                          /\ e[m][dot1] = entries[m][dot1] /\ e[m][dot2] = entries[m][dot2]
                          /\ Up(e, m) = Up(entries, m)
  <2>1. TAKE m \in Dirs(k)
  <2>2. m \in Inums /\ m # n /\ m \in Dirs(known)
    BY <1>15 DEF Dirs
  <2>3. e[m][dot1] = entries[m][dot1] /\ e[m][dot2] = entries[m][dot2]
    BY <1>12, <2>2, DotNames
  <2> QED
    BY <2>2, <2>3 DEF Up
<1>17. Shaped(k, e)
  <2>1. ASSUME NEW m \in Inums \ Dirs(k), NEW x \in Names PROVE e[m][x] = << >>
    <3>1. CASE m = n
      BY <1>13, <3>1
    <3>2. CASE m # n
      <4>1. m \notin Dirs(known) /\ m # d
        BY <1>1, <1>15, <3>2
      <4> QED
        BY <1>2, <1>12, <3>2, <4>1 DEF Shaped
    <3> QED
      BY <3>1, <3>2
  <2>2. ASSUME NEW m \in Dirs(k)
        PROVE  /\ e[m][dot1] = <<m>> /\ e[m][dot2] = <<Up(e, m)>> /\ Up(e, m) \in Dirs(k)
    BY <1>1, <1>2, <1>15, <1>16 DEF Shaped
  <2>3. ASSUME NEW m \in Dirs(k) \ {ROOT_INODE}
        PROVE  \E q : FilePlaces(e, m) = {q} /\ q[1] = Up(e, m)
    <3>1. PICK p : FilePlaces(entries, m) = {p} /\ p[1] = Up(entries, m)
      BY <1>2, <1>16 DEF Shaped
    <3> QED
      BY <1>5, <1>8, <1>11, <1>16, <3>1
  <2>4. /\ ROOT_INODE \in Dirs(k) /\ FilePlaces(e, ROOT_INODE) = {}
        /\ Up(e, ROOT_INODE) = ROOT_INODE
    <3>1. ROOT_INODE \in Dirs(k) /\ ROOT_INODE \in Inums
      BY <1>1, <1>2, <1>15, RootAssumption DEF Shaped
    <3> QED
      BY <1>2, <1>5, <1>8, <1>11, <1>16, <3>1 DEF Shaped
  <2> QED
    BY <2>1, <2>2, <2>3, <2>4 DEF Shaped
<1>18. \E rank : IsRank(rank, k, e)
  BY <1>15, <1>16 DEF Good, IsRank
<1>19. k[d].nlinks + 1 \in Links
  BY <1>2, <1>10, DotNames DEF Inodes, DiskInode
<1>20. k = RemovedKnown(known, d, n) /\ e = RemovedEntries(entries, d, n, name)
  BY DEF RemovedKnown, RemovedEntries, k, e, k1, e1, k2, e2
<1> QED
  BY <1>10, <1>15, <1>16, <1>17, <1>18, <1>19, <1>20 DEF Good

(* The list a name is entered in.                                          *)
LEMMA EnterThere ==
  ASSUME NEW entries \in Entries, NEW d \in Inums, NEW name \in Names, NEW n \in Inums
  PROVE  Enter(entries, d, name, n)[d][name] = Append(entries[d][name], n)
BY EnterAt

(* A link less and a link more is as before.                               *)
LEMMA MoreFewer ==
  ASSUME NEW known \in Inodes, NEW n \in Inums, known[n].nlinks # 0
  PROVE  Fewer(known, n)[n].nlinks + 1 \in Links /\ More(Fewer(known, n), n) = known
<1> DEFINE less == Fewer(known, n)
           i == known[n]
<1>1. i \in DiskInode /\ i.nlinks \in Links /\ i.nlinks \in Nat
  <2>1. i \in DiskInode
    BY DEF Inodes
  <2>2. i.nlinks \in Links
    BY <2>1 DEF DiskInode
  <2>3. \A k \in Links : k \in Nat
    BY DEF Links
  <2> QED
    BY <2>1, <2>2, <2>3
<1>2. less = [known EXCEPT ![n] = [i EXCEPT !.nlinks = i.nlinks - 1]]
  BY DEF Fewer
<1>3. (i.nlinks - 1) + 1 = i.nlinks
  BY <1>1
<1>4. less[n] = [i EXCEPT !.nlinks = i.nlinks - 1]
  BY <1>2 DEF Inodes
<1>5. [less[n] EXCEPT !.nlinks = less[n].nlinks + 1] = i /\ less[n].nlinks + 1 = i.nlinks
  BY <1>1, <1>3, <1>4 DEF DiskInode
<1>6. More(less, n) = [less EXCEPT ![n] = [less[n] EXCEPT !.nlinks = less[n].nlinks + 1]]
  BY DEF More
<1>7. More(less, n) = [known EXCEPT ![n] = i]
  <2> HIDE DEF i
  <2>1. More(less, n) = [less EXCEPT ![n] = i]
    BY <1>5, <1>6
  <2> QED
    BY <1>2, <2>1
<1>8. [known EXCEPT ![n] = i] = known
  BY DEF Inodes
<1> QED
  BY <1>1, <1>5, <1>7, <1>8

(* Only a name of inode i changes, from directory o to directory d.        *)
MovesName(known, entries, e, i, o, d) ==
  /\ \A m \in Inums, x \in Names : x \notin FileNames \/ m \notin Dirs(known)
       => e[m][x] = entries[m][x]
  /\ \A m \in Inums : m # i =>
       /\ FilePlaces(entries, m) = {} => FilePlaces(e, m) = {}
       /\ \A p : FilePlaces(entries, m) = {p}
            => \E q : FilePlaces(e, m) = {q} /\ q[1] = p[1]
  /\ \A p : FilePlaces(entries, i) = {p}
       => p[1] = o /\ \E q : FilePlaces(e, i) = {q} /\ q[1] = d

(* A name that moves: as many as before, in another directory.             *)
LEMMA MovedPlaces ==
  ASSUME NEW known, NEW entries, Good(known, entries),
         NEW o \in Inums, NEW on \in FileNames, entries[o][on] # << >>,
         NEW i, i = Head(entries[o][on]), NEW d \in Dirs(known), NEW nn \in FileNames
  PROVE  LET e == MovedEntries(entries, o, on, i, d, nn)
         IN  /\ i \in Inums /\ i # ROOT_INODE /\ o \in Dirs(known)
             /\ Tallied(known, e)
             /\ MovesName(known, entries, e, i, o, d)
<1> DEFINE e1 == Drop(entries, o, on)
           k1 == Fewer(known, i)
           e == Enter(e1, d, nn, i)
<1>1. /\ i \in Inums /\ known[i].nlinks # 0 /\ o \in Dirs(known) /\ d \in Inums
      /\ on \in Names /\ nn \in Names
      /\ known \in Inodes /\ entries \in Entries /\ Tallied(known, entries)
  BY GoodName, DotNames DEF Good, Tallied, Dirs
<1>2. i # ROOT_INODE
  <2>1. ASSUME i = ROOT_INODE PROVE FALSE
    <3>1. known[i].mode = I_DIRECTORY
      BY <2>1 DEF Good, Shaped, Dirs
    <3> QED
      BY <2>1, <3>1, GoodName, DotNames
  <2> QED
    BY <2>1
<1>3. Tallied(k1, e1) /\ e1 \in Entries
  <2>1. Tallied(k1, e1)
    BY <1>1, TalliedDrop
  <2> QED
    BY <2>1 DEF Tallied
<1>4. k1[i].nlinks + 1 \in Links /\ More(k1, i) = known
  BY <1>1, MoreFewer
<1>5. \A m \in Inums, x \in Names : m # o \/ x # on => e1[m][x] = entries[m][x]
  BY <1>1, DropAt
<1>6. ASSUME NEW m \in Inums
      PROVE  /\ FilePlaces(entries, m) = {} => FilePlaces(e1, m) = {}
             /\ \A p : FilePlaces(entries, m) = {p} /\ m # i
                         => \E q : FilePlaces(e1, m) = {q} /\ q[1] = p[1]
             /\ \A p : FilePlaces(entries, m) = {p} /\ m = i
                         => FilePlaces(e1, m) = {} /\ p[1] = o
  BY <1>1, DropFiles
<1> HIDE DEF e1, k1
<1>7. Tallied(known, e)
  <2>1. Tallied(More(k1, i), e)
    BY <1>1, <1>3, <1>4, TalliedEnter
  <2> HIDE DEF e
  <2> QED
    BY <1>4, <2>1
<1>8. \A m \in Inums, x \in Names : m # d \/ x # nn => e[m][x] = e1[m][x]
  BY <1>1, <1>3, EnterElsewhere
<1>9. \A m \in Inums : m # i => FilePlaces(e, m) = FilePlaces(e1, m)
  BY <1>1, <1>3, EnterFiles
<1>10. \E q : q[1] = d /\ FilePlaces(e, i) = FilePlaces(e1, i) \cup {q}
  BY <1>1, <1>3, EnterFiles
<1> HIDE DEF e
<1>11. \A m \in Inums, x \in Names : x \notin FileNames \/ m \notin Dirs(known)
         => e[m][x] = entries[m][x]
  BY <1>1, <1>5, <1>8
<1>12. ASSUME NEW m \in Inums, m # i
       PROVE  /\ FilePlaces(entries, m) = {} => FilePlaces(e, m) = {}
              /\ \A p : FilePlaces(entries, m) = {p}
                          => \E q : FilePlaces(e, m) = {q} /\ q[1] = p[1]
  BY <1>6, <1>9, <1>12
<1>13. ASSUME NEW p, FilePlaces(entries, i) = {p}
       PROVE  p[1] = o /\ \E q : FilePlaces(e, i) = {q} /\ q[1] = d
  <2>1. FilePlaces(e1, i) = {} /\ p[1] = o
    BY <1>1, <1>6, <1>13
  <2>2. PICK q : q[1] = d /\ FilePlaces(e, i) = FilePlaces(e1, i) \cup {q}
    BY <1>10
  <2>3. FilePlaces(e, i) = {q}
    BY <2>1, <2>2
  <2> QED
    BY <2>1, <2>2, <2>3
<1>14. e = MovedEntries(entries, o, on, i, d, nn)
  BY DEF e, e1, MovedEntries
<1> QED
  BY <1>1, <1>2, <1>7, <1>11, <1>12, <1>13, <1>14 DEF MovesName

(* rename within a directory, or of an inode that is not a directory.      *)
LEMMA GoodMoved ==
  ASSUME NEW known, NEW entries, Good(known, entries),
         NEW o \in Inums, NEW on \in FileNames, entries[o][on] # << >>,
         NEW i, i = Head(entries[o][on]), NEW d \in Dirs(known), NEW nn \in FileNames,
         known[i].mode # I_DIRECTORY \/ o = d
  PROVE  Good(known, MovedEntries(entries, o, on, i, d, nn))
<1> DEFINE e == MovedEntries(entries, o, on, i, d, nn)
<1>1. /\ i \in Inums /\ i # ROOT_INODE /\ o \in Dirs(known)
      /\ Tallied(known, e)
      /\ MovesName(known, entries, e, i, o, d)
  BY MovedPlaces
<1> HIDE DEF e
<1>2. Shaped(known, entries) /\ \A m \in Dirs(known) : m \in Inums
  BY DEF Good, Dirs
<1>3. ASSUME NEW m \in Dirs(known), NEW p, FilePlaces(entries, m) = {p}
      PROVE  \E q : FilePlaces(e, m) = {q} /\ q[1] = p[1]
  <2>1. CASE m # i
    BY <1>1, <1>2, <1>3, <2>1 DEF MovesName
  <2>2. CASE m = i
    <3>1. o = d
      BY <2>2 DEF Dirs
    <3> QED
      BY <1>1, <1>3, <2>2, <3>1 DEF MovesName
  <2> QED
    BY <2>1, <2>2
<1>4. FilePlaces(e, ROOT_INODE) = {}
  BY <1>1, <1>2, RootAssumption DEF Shaped, MovesName
<1>5. /\ \A m \in Dirs(known) : e[m][dot1] = entries[m][dot1] /\ e[m][dot2] = entries[m][dot2]
      /\ \A m \in Inums \ Dirs(known), x \in Names : e[m][x] = entries[m][x]
  BY <1>1, <1>2, DotNames DEF MovesName
<1>6. Shaped(known, e) /\ \A rank : IsRank(rank, known, entries) => IsRank(rank, known, e)
  BY <1>2, <1>3, <1>4, <1>5, ShapedSame
<1> QED
  BY <1>1, <1>6 DEF Good, e

(* The inodes below directory i: the fewest that have i, and each whose    *)
(* ".." they have.                                                         *)
Downward(known, entries, i, S) ==
  i \in S /\ \A m \in Dirs(known) \ {ROOT_INODE} : Up(entries, m) \in S => m \in S

Below(known, entries, i) ==
  {n \in Inums : \A S \in SUBSET Inums : Downward(known, entries, i, S) => n \in S}

(* A set of directories that only i joins to the others.                   *)
Parted(known, entries, i, D) ==
  /\ ROOT_INODE \notin D
  /\ \A m \in Dirs(known) \ {ROOT_INODE} : m # i => (m \in D <=> Up(entries, m) \in D)

Cut(known, entries, i, D) == i \in D /\ Parted(known, entries, i, D)

(* What is below a directory is a part to cut off.                         *)
LEMMA BelowCuts ==
  ASSUME NEW known, NEW entries, Good(known, entries), NEW i \in Dirs(known), i # ROOT_INODE
  PROVE  Cut(known, entries, i, Below(known, entries, i))
<1> DEFINE B == Below(known, entries, i)
           Down(S) == Downward(known, entries, i, S)
<1>1. i \in Inums /\ \A m \in Dirs(known) : m \in Inums
  BY DEF Dirs
<1>2. B \in SUBSET Inums /\ \A n \in Inums : n \in B <=> \A S \in SUBSET Inums : Down(S) => n \in S
  BY DEF Below
<1>3. Down(B)
  <2>1. i \in B
    BY <1>1, <1>2 DEF Downward
  <2>2. ASSUME NEW m \in Dirs(known) \ {ROOT_INODE}, Up(entries, m) \in B PROVE m \in B
    <3>1. ASSUME NEW S \in SUBSET Inums, Down(S) PROVE m \in S
      <4>1. Up(entries, m) \in S
        BY <1>2, <2>2, <3>1
      <4> QED
        BY <3>1, <4>1 DEF Downward
    <3> QED
      BY <1>1, <1>2, <3>1
  <2> HIDE DEF B
  <2> QED
    BY <2>1, <2>2 DEF Downward
<1> HIDE DEF B
<1>4. ASSUME NEW m \in Inums, m # i,
             \A n \in Dirs(known) \ {ROOT_INODE} : Up(entries, n) \in B \ {m} => n # m
      PROVE  m \notin B
  <2>1. Down(B \ {m})
    BY <1>3, <1>4 DEF Downward
  <2> QED
    BY <1>2, <2>1
<1>5. ROOT_INODE \notin B
  BY <1>4, RootAssumption
<1>6. ASSUME NEW m \in Dirs(known) \ {ROOT_INODE}, m # i
      PROVE  m \in B <=> Up(entries, m) \in B
  BY <1>1, <1>3, <1>4, <1>6 DEF Downward
<1> QED
  BY <1>3, <1>5, <1>6 DEF Cut, Parted, Downward, B

(* What is removed leaves the others where they are.                       *)
LEMMA CutStays ==
  ASSUME NEW known, NEW entries, NEW i, NEW D, Cut(known, entries, i, D), NEW k, NEW e,
         Dirs(k) \subseteq Dirs(known), \A m \in Dirs(k) : Up(e, m) = Up(entries, m)
  PROVE  Cut(k, e, i, D)
BY DEF Cut, Parted

(* rename of a directory to another one that is not below it.              *)
LEMMA GoodReparented ==
  ASSUME NEW known, NEW entries, Good(known, entries),
         NEW o \in Inums, NEW on \in FileNames, entries[o][on] # << >>,
         NEW i, i = Head(entries[o][on]), NEW d \in Dirs(known), NEW nn \in FileNames,
         known[i].mode = I_DIRECTORY, o # d, known[d].nlinks + 1 \in Links,
         NEW D, Cut(known, entries, i, D), d \notin D
  PROVE  LET m == MovedEntries(entries, o, on, i, d, nn)
         IN  /\ m[i][dot2] = <<o>> /\ known[o].nlinks # 0
             /\ Good(ReparentedKnown(known, o, d), ReparentedEntries(m, i, d))
<1> DEFINE e1 == MovedEntries(entries, o, on, i, d, nn)
           k2 == Fewer(known, o)
           e2 == Drop(e1, i, dot2)
           k == More(k2, d)
           e == Enter(e2, i, dot2, d)
<1>1. /\ i \in Inums /\ i # ROOT_INODE /\ o \in Dirs(known)
      /\ Tallied(known, e1)
      /\ MovesName(known, entries, e1, i, o, d)
  BY MovedPlaces
<1> HIDE DEF e1
<1>2. /\ Shaped(known, entries) /\ known \in Inodes /\ e1 \in Entries /\ d \in Inums
      /\ i \in Dirs(known) /\ Up(entries, i) = o
  <2>1. /\ Shaped(known, entries) /\ known \in Inodes /\ e1 \in Entries /\ d \in Inums
    BY <1>1 DEF Good, Tallied, Dirs
  <2>2. i \in Dirs(known) /\ Up(entries, i) = o
    BY DotNames, GoodName
  <2> QED
    BY <2>1, <2>2
<1>3. i # d /\ i # o
  <2>1. i # d
    BY DEF Cut, Parted
  <2>2. PICK rank : IsRank(rank, known, entries)
    BY DEF Good
  <2>3. rank[o] < rank[i] /\ rank[i] \in Nat
    BY <1>1, <1>2, <2>2 DEF IsRank
  <2> QED
    BY <2>1, <2>3
<1>4. \A y, z : <<y>> # << >> /\ Head(<<y>>) = y /\ Append(Tail(<<y>>), z) = <<z>>
  OBVIOUS
<1>5. e1[i][dot2] = <<o>> /\ dot2 \in Names
  BY <1>1, <1>2, DotNames DEF MovesName, Shaped
<1>6. /\ Tallied(k2, e2) /\ known[o].nlinks # 0 /\ e2 \in Entries
      /\ e2[i][dot2] = Tail(<<o>>)
      /\ \A m \in Inums, x \in Names : m # i \/ x # dot2 => e2[m][x] = e1[m][x]
  <2>1. e1[i][dot2] # << >> /\ o = Head(e1[i][dot2])
    BY <1>4, <1>5
  <2>2. Tallied(k2, e2) /\ known[o].nlinks # 0
    BY <1>1, <1>5, <2>1, TalliedDrop
  <2>3. /\ e2 \in Entries
        /\ \A m \in Inums, x \in Names : m # i \/ x # dot2 => e2[m][x] = e1[m][x]
    BY <1>1, <1>2, <1>5, <2>1, DropAt
  <2>4. e2[i][dot2] = Tail(e1[i][dot2])
    BY <1>1, <1>2, <1>5, <2>1, DropAt
  <2> QED
    BY <1>5, <2>2, <2>3, <2>4
<1>7. \A m \in Inums : FilePlaces(e2, m) = FilePlaces(e1, m)
  <2>1. e1[i][dot2] # << >>
    BY <1>4, <1>5
  <2> QED
    BY <1>1, <1>2, <1>5, <2>1, DotNames, DropDot
<1>8. /\ k2 \in Inodes /\ k2[d] = known[d]
      /\ \A m \in Inums : (m # o => k2[m] = known[m]) /\ k2[m].mode = known[m].mode
  <2>1. o \in Inums
    OBVIOUS
  <2>2. k2 \in Inodes
        /\ \A m \in Inums : (m # o => k2[m] = known[m]) /\ k2[m].mode = known[m].mode
    BY <1>2, <1>6, <2>1, FewerAt
  <2> HIDE DEF k2
  <2> QED
    BY <1>2, <2>2
<1> HIDE DEF k2, e2
<1>9. /\ Tallied(k, e)
      /\ \A m \in Inums : (m # d => k[m] = k2[m]) /\ k[m].mode = k2[m].mode
  <2>1. k2[d].nlinks + 1 \in Links
    BY <1>8
  <2>2. Tallied(k, e)
    BY <1>1, <1>2, <1>5, <1>6, <2>1, TalliedEnter
  <2>3. \A m \in Inums : (m # d => k[m] = k2[m]) /\ k[m].mode = k2[m].mode
    BY <1>2, <1>8, <2>1, MoreAt
  <2> QED
    BY <2>2, <2>3
<1>10. /\ e[i][dot2] = <<d>> /\ e \in Entries
       /\ \A m \in Inums, x \in Names : m # i \/ x # dot2 => e[m][x] = e2[m][x]
  <2>1. e[i][dot2] = Append(Tail(<<o>>), d)
    <3>1. e[i][dot2] = Append(e2[i][dot2], d)
      BY <1>1, <1>2, <1>5, <1>6, EnterThere
    <3> QED
      BY <1>6, <3>1
  <2>2. \A m \in Inums, x \in Names : m # i \/ x # dot2 => e[m][x] = e2[m][x]
    BY <1>1, <1>2, <1>5, <1>6, EnterElsewhere
  <2>3. e \in Entries
    BY <1>9 DEF Tallied
  <2> QED
    BY <1>4, <2>1, <2>2, <2>3
<1>11. \A m \in Inums : FilePlaces(e, m) = FilePlaces(e2, m)
  BY <1>1, <1>2, <1>5, <1>6, DotNames, EnterFiles
<1> HIDE DEF k, e
<1>12. /\ \A m \in Inums, x \in Names : m # i /\ (x \notin FileNames \/ m \notin Dirs(known))
             => e[m][x] = entries[m][x]
       /\ e[i][dot1] = entries[i][dot1]
  BY <1>1, <1>6, <1>10, DotNames DEF MovesName
<1>13. Up(e, i) = d /\ \A m \in Inums : m # i => Up(e, m) = Up(entries, m)
  <2>1. <<d>>[1] = d
    OBVIOUS
  <2> QED
    BY <1>10, <1>12, <2>1, DotNames DEF Up
<1>14. Dirs(k) = Dirs(known)
  <2>1. ASSUME NEW m \in Dirs(known) PROVE k[m].nlinks # 0
    <3>1. e[m][dot1] = <<m>> /\ m \in Inums
      BY <1>1, <1>2, <1>12, DotNames DEF Shaped, Dirs
    <3>2. <<m, dot1, 1>> \in NamesIn(e, m)
      BY <1>4, <1>10, <3>1, DotNames, FirstPlace
    <3> QED
      BY <1>9, <3>1, <3>2, TalliedNames
  <2>2. ASSUME NEW m \in Dirs(k) PROVE m \in Dirs(known)
    <3>1. m \in Inums /\ k[m].nlinks # 0 /\ k[m].mode = I_DIRECTORY
      BY DEF Dirs
    <3>2. CASE m = o \/ m = d
      BY <1>1, <3>2
    <3>3. CASE m # o /\ m # d
      BY <1>8, <1>9, <3>1, <3>3 DEF Dirs
    <3> QED
      BY <3>2, <3>3
  <2>3. \A m \in Dirs(known) : m \in Inums /\ known[m].mode = I_DIRECTORY
    BY DEF Dirs
  <2>4. \A m \in Dirs(known) : k[m].mode = I_DIRECTORY
    BY <1>8, <1>9, <2>3
  <2> QED
    BY <2>1, <2>2, <2>3, <2>4 DEF Dirs
<1>15. Shaped(k, e)
  <2>1. \A m \in Inums \ Dirs(k), x \in Names : e[m][x] = << >>
    BY <1>2, <1>12, <1>14 DEF Shaped
  <2>2. ASSUME NEW m \in Dirs(k)
        PROVE  /\ e[m][dot1] = <<m>> /\ e[m][dot2] = <<Up(e, m)>> /\ Up(e, m) \in Dirs(k)
    <3>1. CASE m = i
      BY <1>2, <1>10, <1>12, <1>13, <1>14, <3>1 DEF Shaped
    <3>2. CASE m # i
      <4>1. m \in Inums
        BY DEF Dirs
      <4> QED
        BY <1>2, <1>12, <1>13, <1>14, <3>2, <4>1, DotNames DEF Shaped
    <3> QED
      BY <3>1, <3>2
  <2>3. ASSUME NEW m \in Dirs(k) \ {ROOT_INODE}
        PROVE  \E q : FilePlaces(e, m) = {q} /\ q[1] = Up(e, m)
    <3>1. m \in Inums /\ FilePlaces(e, m) = FilePlaces(e1, m)
      BY <1>7, <1>11 DEF Dirs
    <3>2. PICK p : FilePlaces(entries, m) = {p} /\ p[1] = Up(entries, m)
      BY <1>2, <1>14 DEF Shaped
    <3>3. CASE m = i
      BY <1>1, <1>13, <3>1, <3>2, <3>3 DEF MovesName
    <3>4. CASE m # i
      BY <1>1, <1>13, <3>1, <3>2, <3>4 DEF MovesName
    <3> QED
      BY <3>3, <3>4
  <2>4. /\ ROOT_INODE \in Dirs(k) /\ Up(e, ROOT_INODE) = ROOT_INODE
        /\ FilePlaces(e, ROOT_INODE) = {}
    BY <1>1, <1>2, <1>7, <1>11, <1>13, <1>14, RootAssumption DEF MovesName, Shaped
  <2> QED
    BY <2>1, <2>2, <2>3, <2>4 DEF Shaped
<1>16. \E rank : IsRank(rank, k, e)
  <2>1. PICK rank : IsRank(rank, known, entries)
    BY DEF Good
  <2> DEFINE new == [n \in Inums |-> IF n \in D THEN rank[n] + rank[d] + 1 ELSE rank[n]]
  <2>2. rank \in [Inums -> Nat] /\ rank[d] \in Nat
    BY <1>2, <2>1 DEF IsRank
  <2>3. new \in [Inums -> Nat]
    BY <2>2
  <2>4. ASSUME NEW m \in Dirs(k) \ {ROOT_INODE} PROVE new[Up(e, m)] < new[m]
    <3>1. /\ m \in Inums /\ m \in Dirs(known) /\ Up(e, m) \in Inums
          /\ rank[m] \in Nat /\ rank[Up(e, m)] \in Nat
      BY <1>14, <1>15, <2>2 DEF Shaped, Dirs
    <3>2. CASE m = i
      <4>1. new[m] = rank[m] + rank[d] + 1 /\ new[Up(e, m)] = rank[d]
        BY <1>2, <1>13, <3>1, <3>2 DEF Cut, Parted
      <4> QED
        BY <2>2, <3>1, <4>1
    <3>3. CASE m # i
      <4>1. Up(e, m) = Up(entries, m) /\ rank[Up(e, m)] < rank[m]
        BY <1>13, <2>1, <3>1, <3>3 DEF IsRank
      <4>2. m \in D <=> Up(e, m) \in D
        BY <3>1, <3>3, <4>1 DEF Cut, Parted
      <4> QED
        BY <2>2, <3>1, <4>1, <4>2
    <3> QED
      BY <3>2, <3>3
  <2>5. IsRank(new, k, e)
    <3> HIDE DEF new
    <3> QED
      BY <2>3, <2>4 DEF IsRank
  <2> QED
    BY <2>5
<1>17. k = ReparentedKnown(known, o, d) /\ e = ReparentedEntries(e1, i, d)
  BY DEF k, k2, e, e2, ReparentedKnown, ReparentedEntries
<1> QED
  BY <1>5, <1>6, <1>9, <1>15, <1>16, <1>17 DEF Good, e1

(* The counts of new files and directories fit.                            *)
LEMMA SmallLinks ==
  0 \in Links /\ 1 \in Links /\ 2 \in Links
BY DEF Links

(* An inode without links is another one.                                  *)
LEMMA GoodReborn ==
  ASSUME NEW known, NEW entries, Good(known, entries),
         NEW b \in Inums, known[b].nlinks = 0, NEW i \in DiskInode, i.nlinks = 0
  PROVE  Good([known EXCEPT ![b] = i], entries)
<1> DEFINE k == [known EXCEPT ![b] = i]
<1>1. known \in Inodes /\ k \in Inodes /\ k[b] = i /\ \A m \in Inums : m # b => k[m] = known[m]
  BY DEF Good, Tallied, Inodes
<1> HIDE DEF k
<1>2. \A m \in Inums : k[m].nlinks = known[m].nlinks
  BY <1>1
<1>3. Dirs(k) = Dirs(known)
  BY <1>1, <1>2 DEF Dirs
<1>4. Tallied(k, entries)
  BY <1>1, <1>2 DEF Good, Tallied
<1>5. Shaped(k, entries) /\ \A rank : IsRank(rank, known, entries) => IsRank(rank, k, entries)
  BY <1>3 DEF Good, Shaped, IsRank
<1> QED
  BY <1>4, <1>5 DEF Good, k

(* An inode that had no links has its first.                               *)
LEMMA FirstLink ==
  ASSUME NEW known, NEW entries, Good(known, entries), NEW b \in Inums, known[b].nlinks = 0,
         NEW d \in Inums, NEW name \in FileNames,
         NEW k \in Inodes, k[b].nlinks = 1, \A m \in Inums : m # b => k[m] = known[m]
  PROVE  LET e == Enter(entries, d, name, b)
         IN  /\ Tallied(k, e)
             /\ \E q : FilePlaces(e, b) = {q} /\ q[1] = d
             /\ \A m \in Inums : m # b => FilePlaces(e, m) = FilePlaces(entries, m)
<1> DEFINE e == Enter(entries, d, name, b)
<1>1. /\ name \in Names /\ Tallied(known, entries) /\ entries \in Entries
      /\ \A m \in Inums : IsFiniteSet(NamesIn(entries, m))
  BY DotNames DEF Good, Tallied
<1>2. NamesIn(entries, b) = {} /\ FilePlaces(entries, b) = {}
  <2>1. NamesIn(entries, b) = {}
    BY <1>1, TalliedNames
  <2> QED
    BY <2>1 DEF FilePlaces
<1>3. ASSUME NEW m \in Inums
      PROVE  /\ IsFiniteSet(NamesIn(e, m))
             /\ Cardinality(NamesIn(e, m)) = Cardinality(NamesIn(entries, m)) + (IF m = b THEN 1 ELSE 0)
  BY <1>1, EnterCounts
<1>4. e \in Entries
  BY <1>1, EnterAt
<1>5. \A m \in Inums : m # b => FilePlaces(e, m) = FilePlaces(entries, m)
  BY <1>1, EnterFiles
<1>6. \E q : q[1] = d /\ FilePlaces(e, b) = FilePlaces(entries, b) \cup {q}
  BY <1>1, EnterFiles
<1> HIDE DEF e
<1>7. ASSUME NEW m \in Inums PROVE k[m].nlinks = Cardinality(NamesIn(e, m))
  <2>1. known[m].nlinks = Cardinality(NamesIn(entries, m)) /\ known[m].nlinks \in Nat
    BY <1>1, TalliedNames DEF Tallied
  <2>2. CASE m = b
    BY <1>3, <2>1, <2>2
  <2>3. CASE m # b
    BY <1>3, <2>1, <2>3
  <2> QED
    BY <2>2, <2>3
<1>8. Tallied(k, e)
  BY <1>3, <1>4, <1>7 DEF Tallied
<1>9. \E q : FilePlaces(e, b) = {q} /\ q[1] = d
  BY <1>2, <1>6
<1> QED
  BY <1>5, <1>8, <1>9 DEF e

(* The dots of a new directory, and the links they are.                    *)
LEMMA TwoDots ==
  ASSUME NEW entries \in Entries, NEW b \in Inums, NEW d \in Inums,
         \A name \in Names : entries[b][name] = << >>
  PROVE  [entries EXCEPT ![b] = Dots(b, d)] =
           Enter(Enter(entries, b, dot1, b), b, dot2, d)
<1> DEFINE e1 == Enter(entries, b, dot1, b)
           e == Enter(e1, b, dot2, d)
           dots == [entries EXCEPT ![b] = Dots(b, d)]
<1>1. \A y : Append(<< >>, y) = <<y>>
  OBVIOUS
<1>2. e1 \in Entries /\ e1[b][dot1] = <<b>>
      /\ \A m \in Inums, x \in Names : m # b \/ x # dot1 => e1[m][x] = entries[m][x]
  <2>1. e1 \in Entries
    BY DotNames, EnterAt
  <2>2. e1[b][dot1] = Append(entries[b][dot1], b)
    BY DotNames, EnterThere
  <2>3. \A m \in Inums, x \in Names : m # b \/ x # dot1 => e1[m][x] = entries[m][x]
    BY DotNames, EnterElsewhere
  <2>4. entries[b][dot1] = << >>
    BY DotNames
  <2> QED
    BY <1>1, <2>1, <2>2, <2>3, <2>4
<1> HIDE DEF e1
<1>3. e \in Entries /\ e[b][dot2] = <<d>>
      /\ \A m \in Inums, x \in Names : m # b \/ x # dot2 => e[m][x] = e1[m][x]
  <2>1. e \in Entries
    BY <1>2, DotNames, EnterAt
  <2>2. e[b][dot2] = Append(e1[b][dot2], d)
    BY <1>2, DotNames, EnterThere
  <2>3. \A m \in Inums, x \in Names : m # b \/ x # dot2 => e[m][x] = e1[m][x]
    BY <1>2, DotNames, EnterElsewhere
  <2>4. e1[b][dot2] = << >>
    BY <1>2, DotNames
  <2> QED
    BY <1>1, <2>1, <2>2, <2>3, <2>4
<1> HIDE DEF e
<1>4. /\ dots \in Entries
      /\ \A m \in Inums : m # b => dots[m] = entries[m]
      /\ dots[b] = Dots(b, d)
  BY DotsType DEF Entries
<1> HIDE DEF dots
<1>5. /\ Dots(b, d)[dot1] = <<b>> /\ Dots(b, d)[dot2] = <<d>>
      /\ \A x \in FileNames : Dots(b, d)[x] = << >>
  BY DotNames DEF Dots, NoNames
<1>6. ASSUME NEW m \in Inums, NEW x \in Names PROVE dots[m][x] = e[m][x]
  <2>1. CASE m # b
    BY <1>2, <1>3, <1>4, <2>1
  <2>2. CASE m = b
    BY <1>2, <1>3, <1>4, <1>5, <2>2, DotNames
  <2> QED
    BY <2>1, <2>2
<1>7. dots = e
  BY <1>3, <1>4, <1>6 DEF Entries
<1> QED
  BY <1>7 DEF dots, e, e1

(* mkdir: the new directory has its dots.                                  *)
LEMMA GoodCreated ==
  ASSUME NEW known, NEW entries, Good(known, entries), NEW b \in Inums, known[b].nlinks = 0,
         NEW d \in Dirs(known), NEW name \in FileNames, known[d].nlinks + 1 \in Links,
         NEW k1 \in Inodes, k1[b].nlinks = 1, k1[b].mode = I_DIRECTORY,
         \A m \in Inums : m # b => k1[m] = known[m]
  PROVE  Good(More(More(k1, b), d),
              [Enter(entries, d, name, b) EXCEPT ![b] = Dots(b, d)])
<1> DEFINE e1 == Enter(entries, d, name, b)
           k2 == More(k1, b)
           e2 == Enter(e1, b, dot1, b)
           k == More(k2, d)
           e == Enter(e2, b, dot2, d)
<1>1. /\ d \in Inums /\ Shaped(known, entries) /\ known \in Inodes /\ entries \in Entries
      /\ name \in Names /\ b # d /\ b \notin Dirs(known)
      /\ Tallied(known, entries)
  BY DotNames DEF Good, Tallied, Dirs
<1>2. /\ Tallied(k1, e1)
      /\ \E q : FilePlaces(e1, b) = {q} /\ q[1] = d
      /\ \A m \in Inums : m # b => FilePlaces(e1, m) = FilePlaces(entries, m)
  BY <1>1, FirstLink
<1>3. /\ e1 \in Entries
      /\ \A m \in Inums, x \in Names : m # d \/ x # name => e1[m][x] = entries[m][x]
  BY <1>1, <1>2, EnterElsewhere DEF Tallied
<1> HIDE DEF e1
<1>4. 1 + 1 \in Links
  BY SmallLinks
<1>5. /\ Tallied(k2, e2)
      /\ \A m \in Inums : (m # b => k2[m] = k1[m]) /\ k2[m].mode = k1[m].mode
  <2>1. k1[b].nlinks + 1 \in Links
    BY <1>4
  <2>2. Tallied(k2, e2)
    BY <1>2, <2>1, DotNames, TalliedEnter
  <2>3. \A m \in Inums : (m # b => k2[m] = k1[m]) /\ k2[m].mode = k1[m].mode
    BY <2>1, MoreAt
  <2> QED
    BY <2>2, <2>3
<1>6. /\ \A m \in Inums : FilePlaces(e2, m) = FilePlaces(e1, m)
      /\ e2 \in Entries
  BY <1>3, <1>5, DotNames, EnterFiles DEF Tallied
<1>7. e = [e1 EXCEPT ![b] = Dots(b, d)]
  <2>1. \A x \in Names : e1[b][x] = << >>
    BY <1>1, <1>3 DEF Shaped
  <2> QED
    BY <1>1, <1>3, <2>1, TwoDots
<1> HIDE DEF k2, e2
<1>8. /\ Tallied(k, e) /\ k \in Inodes /\ e \in Entries
      /\ \A m \in Inums : (m # d => k[m] = k2[m]) /\ k[m].mode = k2[m].mode
  <2>1. k2[d].nlinks + 1 \in Links /\ k2 \in Inodes
    BY <1>1, <1>5 DEF Tallied
  <2>2. Tallied(k, e)
    BY <1>1, <1>5, <2>1, DotNames, TalliedEnter
  <2>3. \A m \in Inums : (m # d => k[m] = k2[m]) /\ k[m].mode = k2[m].mode
    BY <1>1, <2>1, MoreAt
  <2> HIDE DEF k, e
  <2> QED
    BY <2>2, <2>3 DEF Tallied
<1>9. \A m \in Inums : FilePlaces(e, m) = FilePlaces(e1, m)
  BY <1>1, <1>6, DotNames, EnterFiles
<1> HIDE DEF k, e
<1>10. /\ e[b][dot1] = <<b>> /\ e[b][dot2] = <<d>>
       /\ \A m \in Inums, x \in Names : m # b => e[m][x] = e1[m][x]
  <2>1. Dots(b, d)[dot1] = <<b>> /\ Dots(b, d)[dot2] = <<d>>
    BY DotNames DEF Dots, NoNames
  <2> QED
    BY <1>3, <1>7, <2>1 DEF Entries
<1>11. \A m \in Inums, x \in Names : m # b /\ (x \notin FileNames \/ m # d)
         => e[m][x] = entries[m][x]
  BY <1>3, <1>10
<1>12. Up(e, b) = d /\ \A m \in Inums : m # b => Up(e, m) = Up(entries, m)
  <2>1. <<d>>[1] = d
    OBVIOUS
  <2> QED
    BY <1>10, <1>11, <2>1, DotNames DEF Up
<1>13. \A y : <<y>> # << >> /\ Head(<<y>>) = y
  OBVIOUS
<1>14. Dirs(k) = Dirs(known) \cup {b}
  <2>1. ASSUME NEW m \in Dirs(known) \cup {b} PROVE m \in Inums /\ k[m].nlinks # 0
    <3>1. e[m][dot1] = <<m>> /\ m \in Inums
      BY <1>1, <1>10, <1>11, DotNames DEF Shaped, Dirs
    <3>2. <<m, dot1, 1>> \in NamesIn(e, m)
      BY <1>8, <1>13, <3>1, DotNames, FirstPlace
    <3> QED
      BY <1>8, <3>1, <3>2, TalliedNames
  <2>2. ASSUME NEW m \in Dirs(k), m # b PROVE m \in Dirs(known)
    <3>1. m \in Inums /\ k[m].nlinks # 0 /\ k[m].mode = I_DIRECTORY
      BY DEF Dirs
    <3>2. CASE m = d
      BY <3>2
    <3>3. CASE m # d
      <4>1. k[m] = known[m]
        BY <1>5, <1>8, <2>2, <3>1, <3>3
      <4> QED
        BY <3>1, <4>1 DEF Dirs
    <3> QED
      BY <3>2, <3>3
  <2>3. ASSUME NEW m \in Dirs(known) \cup {b} PROVE k[m].mode = I_DIRECTORY
    <3>1. m \in Inums
      BY <2>1
    <3>2. k[m].mode = k1[m].mode
      BY <1>5, <1>8, <3>1
    <3> QED
      BY <1>1, <3>1, <3>2 DEF Dirs
  <2> QED
    BY <2>1, <2>2, <2>3 DEF Dirs
<1>15. Shaped(k, e)
  <2>1. \A m \in Inums \ Dirs(k), x \in Names : e[m][x] = << >>
    BY <1>1, <1>11, <1>14 DEF Shaped
  <2>2. ASSUME NEW m \in Dirs(k)
        PROVE  /\ e[m][dot1] = <<m>> /\ e[m][dot2] = <<Up(e, m)>> /\ Up(e, m) \in Dirs(k)
    <3>1. CASE m = b
      BY <1>10, <1>12, <1>14, <3>1
    <3>2. CASE m # b
      <4>1. m \in Inums /\ m \in Dirs(known)
        BY <1>14, <3>2 DEF Dirs
      <4> QED
        BY <1>1, <1>11, <1>12, <1>14, <3>2, <4>1, DotNames DEF Shaped
    <3> QED
      BY <3>1, <3>2
  <2>3. ASSUME NEW m \in Dirs(k) \ {ROOT_INODE}
        PROVE  \E q : FilePlaces(e, m) = {q} /\ q[1] = Up(e, m)
    <3>1. m \in Inums /\ FilePlaces(e, m) = FilePlaces(e1, m)
      BY <1>9 DEF Dirs
    <3>2. CASE m = b
      BY <1>2, <1>12, <3>1, <3>2
    <3>3. CASE m # b
      <4>1. \E p : FilePlaces(entries, m) = {p} /\ p[1] = Up(entries, m)
        BY <1>1, <1>14, <3>3 DEF Shaped
      <4> QED
        BY <1>2, <1>12, <3>1, <3>3, <4>1
    <3> QED
      BY <3>2, <3>3
  <2>4. /\ ROOT_INODE \in Dirs(k) /\ Up(e, ROOT_INODE) = ROOT_INODE
        /\ FilePlaces(e, ROOT_INODE) = {}
    <3>1. ROOT_INODE \in Inums /\ ROOT_INODE # b
      BY <1>1, RootAssumption DEF Shaped
    <3> QED
      BY <1>1, <1>2, <1>9, <1>12, <1>14, <3>1 DEF Shaped
  <2> QED
    BY <2>1, <2>2, <2>3, <2>4 DEF Shaped
<1>16. \E rank : IsRank(rank, k, e)
  <2>1. PICK rank : IsRank(rank, known, entries)
    BY DEF Good
  <2> DEFINE new == [n \in Inums |-> IF n = b THEN rank[d] + 1 ELSE rank[n]]
  <2>2. rank \in [Inums -> Nat] /\ rank[d] \in Nat
    BY <1>1, <2>1 DEF IsRank
  <2>3. new \in [Inums -> Nat]
    BY <2>2
  <2>4. ASSUME NEW m \in Dirs(k) \ {ROOT_INODE} PROVE new[Up(e, m)] < new[m]
    <3>1. CASE m = b
      <4>1. new[m] = rank[d] + 1 /\ new[Up(e, m)] = rank[d]
        BY <1>1, <1>12, <3>1
      <4> QED
        BY <2>2, <4>1
    <3>2. CASE m # b
      <4>1. m \in Inums /\ m \in Dirs(known) /\ Up(e, m) = Up(entries, m)
        BY <1>12, <1>14, <3>2 DEF Dirs
      <4>2. Up(e, m) \in Dirs(known)
        BY <1>1, <4>1 DEF Shaped
      <4>3. Up(e, m) # b /\ Up(e, m) \in Inums
        BY <1>1, <4>2 DEF Dirs
      <4>4. rank[Up(e, m)] < rank[m]
        BY <2>1, <4>1 DEF IsRank
      <4> QED
        BY <3>2, <4>1, <4>3, <4>4
    <3> QED
      BY <3>1, <3>2
  <2>5. IsRank(new, k, e)
    <3> HIDE DEF new
    <3> QED
      BY <2>3, <2>4 DEF IsRank
  <2> QED
    BY <2>5
<1> QED
  BY <1>7, <1>8, <1>15, <1>16 DEF Good, k, k2, e1

-----------------------------------------------------------------------------
(* The walk of fs_rename from directory dn, after k steps, with the        *)
(* directories B below the one that moves: where it is is below as dn is,  *)
(* and it has left k directories of higher rank behind.                    *)
Climbing(base, w, t, at, known, entries, B, dn, rank, k) ==
  /\ w = [c |-> w.c, at |-> w.at, result |-> w.result]
  /\ w.at \in Slots /\ w.result \in {"walking", "refused", "reached"}
  /\ w.result = "walking" =>
       \E a : /\ Keeps(base, w.c, Plus(t, w.at), a, known, entries)
              /\ \A s \in Slots : t[s] > 0 => a[s] = at[s]
              /\ a[w.at] \in Dirs(known)
              /\ a[w.at] \in B <=> dn \in B
              /\ \E V \in SUBSET Inums : /\ Cardinality(V) = k
                                         /\ \A v \in V : rank[a[w.at]] < rank[v]
  /\ w.result # "walking" => Keeps(base, w.c, t, at, known, entries)
  /\ w.result = "reached" => dn \notin B

(* A step of the walk: up one directory, and not into what is below.       *)
LEMMA ClimbKeeps ==
  ASSUME NEW base, NEW t \in Taken, NEW at \in [Slots -> Inums], NEW known, NEW entries,
         Good(known, entries), NEW B, NEW dn, NEW rank, IsRank(rank, known, entries),
         NEW k \in Nat, NEW w, Climbing(base, w, t, at, known, entries, B, dn, rank, k),
         w.result = "walking", NEW old \in Slots, t[old] > 0,
         Parted(known, entries, at[old], B)
  PROVE  Climbing(base, Climb(w, old), t, at, known, entries, B, dn, rank, k + 1)
<1> DEFINE c == w.c
           s == w.at
           u == Plus(t, s)
<1>1. PICK a : /\ Keeps(base, c, u, a, known, entries)
               /\ \A r \in Slots : t[r] > 0 => a[r] = at[r]
               /\ a[s] \in Dirs(known)
               /\ a[s] \in B <=> dn \in B
               /\ \E V \in SUBSET Inums : /\ Cardinality(V) = k
                                          /\ \A v \in V : rank[a[s]] < rank[v]
  BY DEF Climbing
<1>2. /\ s \in Slots /\ u \in Taken /\ u[s] > 0 /\ u[old] > 0
      /\ w = [c |-> c, at |-> s, result |-> "walking"] /\ dot2 \in Names
  BY TakenPlus, DotNames DEF Climbing
<1> DEFINE n == Up(entries, a[s])
<1>3. /\ a \in [Slots -> Inums] /\ a[s] \in Inums /\ n \in Dirs(known) /\ n \in Inums
      /\ entries[a[s]][dot2] = <<n>> /\ n = Head(entries[a[s]][dot2])
      /\ known[n].nlinks # 0
  <2>1. a \in [Slots -> Inums] /\ a[s] \in Inums
    BY <1>1, <1>2 DEF Keeps
  <2>2. n \in Dirs(known) /\ entries[a[s]][dot2] = <<n>>
    BY <1>1 DEF Good, Shaped
  <2>3. Head(<<n>>) = n
    OBVIOUS
  <2> QED
    BY <2>1, <2>2, <2>3 DEF Dirs
<1>4. CASE s = old \/ ~CanAdvance(c, s, dot2)
  <2>1. Climb(w, old) = [c |-> put_inode(c, s), at |-> s, result |-> "refused"]
    <3>1. Climb(w, old) = [w EXCEPT !.c = put_inode(@, s), !.result = "refused"]
      BY <1>4 DEF Climb
    <3> HIDE DEF c, s
    <3> QED
      BY <1>2, <3>1
  <2> HIDE DEF c, s
  <2>2. Keeps(base, put_inode(c, s), t, a, known, entries)
    BY <1>1, <1>2, KeepsPut
  <2>3. Keeps(base, put_inode(c, s), t, at, known, entries)
    BY <1>1, <2>2, KeepsAt
  <2> QED
    BY <1>2, <2>1, <2>3 DEF Climbing
<1>5. CASE ~(s = old \/ ~CanAdvance(c, s, dot2))
  <2> DEFINE next == AdvanceSlot(c, s, dot2)
             f == Advance(c, s, dot2)
             e == put_inode(f, s)
             b == [a EXCEPT ![next] = n]
             v == Plus(u, next)
  <2>1. Climb(w, old) = IF next = s
                        THEN [c |-> put_inode(e, s), at |-> s, result |-> "reached"]
                        ELSE [c |-> e, at |-> next, result |-> "walking"]
    <3>1. Climb(w, old) = IF next = s THEN [w EXCEPT !.c = put_inode(e, s), !.result = "reached"]
                          ELSE [w EXCEPT !.c = e, !.at = next]
      BY <1>5 DEF Climb
    <3> HIDE DEF c, s, e, next
    <3> QED
      BY <1>2, <3>1
  <2> HIDE DEF c, s
  <2>2. a[s] # at[old]
    <3>1. a[s] = a[old] <=> s = old
      <4> HIDE DEF u
      <4> QED
        BY <1>1, <1>2, KeepsApart
    <3> QED
      BY <1>1, <1>5, <3>1
  <2>3. /\ next \in Slots /\ Keeps(base, f, v, b, known, entries)
        /\ u[next] > 0 => a[next] = n
    <3> HIDE DEF u, n
    <3>1. /\ Keeps(base, c, u, a, known, entries) /\ s \in Slots /\ u[s] > 0 /\ dot2 \in Names
          /\ CanAdvance(c, s, dot2) /\ n = Head(entries[a[s]][dot2]) /\ known[n].nlinks # 0
      BY <1>1, <1>2, <1>3, <1>5
    <3> QED
      BY <3>1, KeepsAdvance
  <2> HIDE DEF next, f
  <2>4. /\ v = Plus(Plus(t, next), s) /\ Plus(t, next) \in Taken
        /\ t[next] > 0 => u[next] > 0
        /\ v \in Taken /\ v[s] > 0 /\ v[next] > 0
    <3>1. t[next] > 0 => u[next] > 0
      BY <1>2, <2>3, TakenPlus
    <3>2. v \in Taken /\ v[s] > 0 /\ v[next] > 0
      <4> HIDE DEF u
      <4> QED
        BY <1>2, <2>3, TakenPlus
    <3> QED
      BY <1>2, <2>3, <3>1, <3>2, TakenSwap, TakenPlus
  <2>5. Keeps(base, e, Plus(t, next), b, known, entries)
    <3> HIDE DEF v, b, n
    <3> QED
      BY <1>2, <2>3, <2>4, KeepsPut
  <2> HIDE DEF e
  <2>6. b[next] = n /\ \A r \in Slots : t[r] > 0 => b[r] = at[r]
    <3>1. b[next] = n /\ \A r \in Slots : r # next => b[r] = a[r]
      BY <1>3, <2>3
    <3> QED
      BY <1>1, <2>3, <2>4, <3>1
  <2>7. a[s] # ROOT_INODE => rank[n] < rank[a[s]]
    BY <1>1 DEF IsRank
  <2>8. rank[n] \in Nat /\ rank[a[s]] \in Nat
    BY <1>3 DEF IsRank
  <2>9. CASE next = s
    <3>1. n = a[s]
      BY <1>2, <2>3, <2>9
    <3>2. a[s] = ROOT_INODE
      <4> HIDE DEF n
      <4> QED
        BY <2>7, <2>8, <3>1
    <3>3. dn \notin B
      BY <1>1, <3>2 DEF Parted
    <3>4. Keeps(base, put_inode(e, s), t, b, known, entries)
      <4> HIDE DEF b
      <4> QED
        BY <1>2, <2>5, <2>9, KeepsPut
    <3>5. Keeps(base, put_inode(e, s), t, at, known, entries)
      <4> HIDE DEF b
      <4> QED
        BY <2>6, <3>4, KeepsAt
    <3> QED
      BY <1>2, <2>1, <2>9, <3>3, <3>5 DEF Climbing
  <2>10. CASE next # s
    <3>1. a[s] # ROOT_INODE
      <4>1. b[s] = a[s]
        BY <1>2, <1>3, <2>3, <2>10
      <4>2. b[s] = b[next] <=> s = next
        <5> HIDE DEF b, v
        <5> QED
          BY <1>2, <2>3, <2>4, KeepsApart
      <4>3. a[s] = ROOT_INODE => n = ROOT_INODE
        BY DEF Good, Shaped
      <4> QED
        BY <2>6, <2>10, <4>1, <4>2, <4>3
    <3>2. n \in B <=> dn \in B
      BY <1>1, <2>2, <3>1 DEF Parted
    <3>3. PICK V \in SUBSET Inums : /\ Cardinality(V) = k
                                    /\ \A x \in V : rank[a[s]] < rank[x]
      BY <1>1
    <3> HIDE DEF n
    <3>4. a[s] \notin V /\ V \cup {a[s]} \in SUBSET Inums
      BY <1>3, <2>8, <3>3
    <3>5. Cardinality(V \cup {a[s]}) = k + 1
      BY <3>3, <3>4, NoEntryAssumption, FS_Subset, FS_AddElement
    <3>6. \A x \in V \cup {a[s]} : rank[n] < rank[x]
      <4>1. \A x \in V : rank[x] \in Nat
        BY <3>3 DEF IsRank
      <4> QED
        BY <2>7, <2>8, <3>1, <3>3, <4>1
    <3>7. b[next] \in Dirs(known)
      BY <1>3, <2>6
    <3> HIDE DEF b
    <3> QED
      BY <2>1, <2>3, <2>5, <2>6, <2>10, <3>2, <3>4, <3>5, <3>6, <3>7 DEF Climbing
  <2> QED
    BY <2>9, <2>10
<1> QED
  BY <1>4, <1>5

(* The walk comes to an end, and one that reaches the root has not started *)
(* below the directory that moves.                                         *)
LEMMA WalkKeeps ==
  ASSUME NEW base, NEW c, NEW t, NEW at, NEW known, NEW entries,
         Keeps(base, c, t, at, known, entries), Good(known, entries),
         NEW new \in Slots, t[new] > 0, at[new] \in Dirs(known),
         NEW old \in Slots, t[old] > 0, at[old] \in Dirs(known)
  PROVE  LET w == Walk(c, old, new)
         IN  /\ w.result \in {"refused", "reached"}
             /\ Keeps(base, w.c, t, at, known, entries)
             /\ w.result = "reached" /\ at[old] # ROOT_INODE
                  => at[new] \notin Below(known, entries, at[old])
<1> DEFINE Steps == Cardinality(Inums) + 1
           start == [c |-> Dup(c, new), at |-> new, result |-> "walking"]
           walk == CHOOSE f : IsWalk(f, start, old, Steps)
           below == Below(known, entries, at[old])
           B == IF at[old] = ROOT_INODE THEN {} ELSE below
           dn == at[new]
<1>1. PICK rank : IsRank(rank, known, entries)
  BY DEF Good
<1> DEFINE OK(w, k) == Climbing(base, w, t, at, known, entries, B, dn, rank, k)
           S == {k \in Nat : k \in 0 .. Steps => OK(walk[k], k)}
<1>2. Steps \in Nat /\ Cardinality(Inums) \in Nat
  BY NoEntryAssumption, FS_CardinalityType
<1>3. Walk(c, old, new) = walk[Steps]
  BY DEF Walk, Step, IsWalk
<1>4. IsWalk(walk, start, old, Steps)
  <2> HIDE DEF start, Steps
  <2>1. \E f : IsWalk(f, start, old, Steps)
    BY <1>2, WalkExists
  <2> QED
    BY <2>1
<1> HIDE DEF walk
<1>5. /\ walk[0] = start
      /\ \A k \in Nat : k + 1 \in 0 .. Steps => walk[k + 1] = Step(walk[k], old)
  <2> HIDE DEF start
  <2>1. 0 \in 0 .. Steps /\ \A k \in Nat : k + 1 # 0 /\ (k + 1) - 1 = k
    BY <1>2
  <2>2. \A k \in 0 .. Steps : walk[k] = IF k = 0 THEN start ELSE Step(walk[k - 1], old)
    BY <1>4 DEF IsWalk
  <2> HIDE DEF Steps
  <2> QED
    BY <2>1, <2>2
<1>6. t \in Taken /\ at \in [Slots -> Inums]
  BY KeepsTypes
<1>7. OK(start, 0)
  <2>1. Keeps(base, Dup(c, new), Plus(t, new), at, known, entries)
    BY KeepsDup
  <2>2. \E V \in SUBSET Inums : /\ Cardinality(V) = 0
                                /\ \A v \in V : rank[at[new]] < rank[v]
    <3>1. {} \in SUBSET Inums /\ Cardinality({}) = 0
      BY FS_EmptySet
    <3> QED
      BY <3>1
  <2>3. /\ start.c = Dup(c, new) /\ start.at = new /\ start.result = "walking"
        /\ start = [c |-> start.c, at |-> start.at, result |-> start.result]
    OBVIOUS
  <2> HIDE DEF start, B
  <2> QED
    BY <2>1, <2>2, <2>3 DEF Climbing
<1>8. Parted(known, entries, at[old], B)
  <2>1. CASE at[old] = ROOT_INODE
    <3>1. Up(entries, ROOT_INODE) = ROOT_INODE /\ B = {}
      BY <2>1 DEF Good, Shaped
    <3> QED
      BY <3>1 DEF Parted
  <2>2. CASE at[old] # ROOT_INODE
    BY <2>2, BelowCuts DEF Cut
  <2> QED
    BY <2>1, <2>2
<1> HIDE DEF start, Steps, B, dn
<1>9. 0 \in S
  BY <1>5, <1>7
<1>10. ASSUME NEW k \in Nat, k \in S PROVE k + 1 \in S
  <2>1. SUFFICES ASSUME k + 1 \in 0 .. Steps PROVE OK(walk[k + 1], k + 1)
    OBVIOUS
  <2>2. OK(walk[k], k) /\ walk[k + 1] = Step(walk[k], old)
    BY <1>2, <1>5, <1>10, <2>1
  <2>3. CASE walk[k].result = "walking"
    BY <1>1, <1>6, <1>8, <2>2, <2>3, ClimbKeeps DEF Step
  <2>4. CASE walk[k].result # "walking"
    BY <2>2, <2>4 DEF Step, Climbing
  <2> QED
    BY <2>3, <2>4
<1> HIDE DEF S, OK
<1>11. Nat \subseteq S
  BY <1>9, <1>10, NumberInduction
<1>12. Steps \in 0 .. Steps
  BY <1>2
<1> DEFINE w == walk[Steps]
<1>13. OK(w, Steps)
  BY <1>2, <1>11, <1>12 DEF S
<1> HIDE DEF w
<1>14. w.result # "walking"
  <2>1. SUFFICES ASSUME w.result = "walking" PROVE FALSE
    OBVIOUS
  <2>2. PICK V \in SUBSET Inums : Cardinality(V) = Steps
    BY <1>13, <2>1 DEF OK, Climbing
  <2>3. Cardinality(V) <= Cardinality(Inums)
    BY NoEntryAssumption, FS_Subset
  <2> QED
    BY <1>2, <2>2, <2>3 DEF Steps
<1>15. /\ w.result \in {"refused", "reached"}
       /\ Keeps(base, w.c, t, at, known, entries)
       /\ w.result = "reached" => dn \notin B
  BY <1>13, <1>14 DEF OK, Climbing
<1> QED
  BY <1>3, <1>15 DEF w, dn, B

-----------------------------------------------------------------------------
(* What a request leaves behind with references t: a good state.           *)
Kept(base, c, t) ==
  \E at, known, entries : Keeps(base, c, t, at, known, entries) /\ Good(known, entries)

(* A reference given back.                                                 *)
LEMMA KeptPut ==
  ASSUME NEW base, NEW c, NEW t \in Taken, NEW s \in Slots, Kept(base, c, Plus(t, s))
  PROVE  Kept(base, put_inode(c, s), t)
BY KeepsPut DEF Kept

(* All the references of fs_rename given back.                             *)
LEMMA PutAllKept ==
  ASSUME NEW base, NEW c, NEW u \in Taken, NEW o \in Slots, NEW i \in Slots, NEW d \in Slots,
         NEW replaced, replaced # << >> => Head(replaced) \in Slots,
         Kept(base, c, RenameRefs(u, o, i, d, replaced))
  PROVE  Kept(base, PutAll(c, o, i, d, replaced), u)
<1> DEFINE v == IF replaced = << >> THEN u ELSE Plus(u, Head(replaced))
           rest == put_inode(put_inode(put_inode(c, o), i), d)
<1>1. v \in Taken
  BY TakenPlus
<1>2. RenameRefs(u, o, i, d, replaced) = RenameRefs(v, o, i, d, << >>)
  <2>1. CASE replaced = << >>
    BY <2>1
  <2>2. CASE replaced # << >>
    <3>1. RenameRefs(Plus(u, Head(replaced)), o, i, d, << >>)
            = Plus(RenameRefs(u, o, i, d, << >>), Head(replaced))
      BY <2>2, RenameRefsTaken
    <3>2. RenameRefs(u, o, i, d, replaced) = Plus(RenameRefs(u, o, i, d, << >>), Head(replaced))
      BY <2>2 DEF RenameRefs
    <3> QED
      BY <2>2, <3>1, <3>2
  <2> QED
    BY <2>1, <2>2
<1> HIDE DEF v
<1>3. RenameRefs(v, o, i, d, << >>) = Plus(Plus(Plus(v, d), i), o)
  <2>1. Plus(v, d) \in Taken /\ Plus(v, i) \in Taken /\ Plus(v, o) \in Taken
    BY <1>1, TakenPlus
  <2>2. Plus(Plus(Plus(v, o), i), d) = Plus(Plus(Plus(v, o), d), i)
    BY <2>1, TakenSwap
  <2>3. Plus(Plus(v, o), d) = Plus(Plus(v, d), o)
    BY <1>1, TakenSwap
  <2>4. Plus(Plus(Plus(v, d), o), i) = Plus(Plus(Plus(v, d), i), o)
    BY <2>1, TakenSwap
  <2> QED
    BY <2>2, <2>3, <2>4 DEF RenameRefs
<1>4. Plus(v, d) \in Taken /\ Plus(Plus(v, d), i) \in Taken
  BY <1>1, TakenPlus
<1>5. Kept(base, put_inode(c, o), Plus(Plus(v, d), i))
  BY <1>2, <1>3, <1>4, KeptPut
<1>6. Kept(base, put_inode(put_inode(c, o), i), Plus(v, d))
  BY <1>4, <1>5, KeptPut
<1>7. Kept(base, rest, v)
  BY <1>1, <1>6, KeptPut
<1>8. PutAll(c, o, i, d, replaced) = IF replaced = << >> THEN rest ELSE put_inode(rest, Head(replaced))
  BY DEF PutAll
<1> HIDE DEF rest
<1>9. CASE replaced = << >>
  BY <1>7, <1>8, <1>9 DEF v
<1>10. CASE replaced # << >>
  BY <1>7, <1>8, <1>10, KeptPut DEF v
<1> QED
  BY <1>9, <1>10

(* An inode somebody else uses stays in use.                               *)
LEMMA KeepsUsed ==
  ASSUME NEW base, NEW c, NEW t, NEW at, NEW known, NEW entries,
         Keeps(base, c, t, at, known, entries), NEW n \in Inums, UsedIn(base, n)
  PROVE  UsedIn(c, n) /\ HasSlot(c, n)
<1>1. Holding(base, c, t) /\ c \in State /\ base \in State /\ Lists(c)
  BY DEF Keeps, Holding
<1>2. PICK s \in Slots : base.inode[s].num = n /\ base.inode[s].count > 0
  BY DEF UsedIn
<1>3. c.inode[s].num = n /\ c.inode[s].count = base.inode[s].count + t[s] /\ t[s] \in Nat
  BY <1>1, <1>2 DEF Holding, Taken
<1>4. base.inode[s].count \in Nat
  BY <1>1, StateTypes
<1>5. c.inode[s].count > 0
  BY <1>2, <1>3, <1>4
<1>6. UsedIn(c, n)
  BY <1>3, <1>5 DEF UsedIn
<1>7. Cached(c, n)
  BY <1>1, <1>3, CachedSlot
<1> QED
  BY <1>6, <1>7 DEF HasSlot, Cached

-----------------------------------------------------------------------------
(* The parts of the requests: unlink, rmdir and the move of a name.        *)
LEMMA UnlinkFileGood ==
  ASSUME NEW base, NEW c, NEW t, NEW at, NEW known, NEW entries,
         Keeps(base, c, t, at, known, entries), Good(known, entries),
         NEW d \in Slots, t[d] > 0, NEW s \in Slots, t[s] > 0, NEW name \in Names,
         entries[at[d]][name] # << >>, at[s] = Head(entries[at[d]][name]), ~IsDir(c, s)
  PROVE  LET k == Fewer(known, at[s])
             e == Drop(entries, at[d], name)
         IN  /\ Keeps(base, unlink_file(c, d, s, name), t, at, k, e)
             /\ Good(k, e) /\ Dirs(k) = Dirs(known) /\ name \in FileNames
             /\ \A n \in Inums : k[n].mode = known[n].mode
<1>1. at[d] \in Inums /\ at[s] \in Inums /\ known[at[s]].mode # I_DIRECTORY
  BY KeepsSees
<1>2. at[d] \in Dirs(known) /\ known[at[s]].nlinks # 0
  BY <1>1, GoodName
<1>3. Found(c, d, name)
  BY <1>2, KeepsSees DEF Dirs
<1>4. known \in Inodes
  BY DEF Good, Tallied
<1>5. Keeps(base, unlink_file(c, d, s, name), t, at, Fewer(known, at[s]),
            Drop(entries, at[d], name))
  BY <1>2, <1>3, KeepsUnlinkFile
<1>6. /\ Good(Fewer(known, at[s]), Drop(entries, at[d], name))
      /\ Dirs(Fewer(known, at[s])) = Dirs(known) /\ name \in FileNames
  BY <1>1, GoodUnlinked
<1>7. \A n \in Inums : Fewer(known, at[s])[n].mode = known[n].mode
  BY <1>1, <1>2, <1>4, FewerAt
<1> QED
  BY <1>5, <1>6, <1>7

(* A directory that may be removed has two links, and its parent one.      *)
LEMMA RemovableName ==
  ASSUME NEW known, NEW entries, Good(known, entries), NEW d \in Inums, NEW name \in FileNames,
         entries[d][name] # << >>, NEW n, n = Head(entries[d][name]),
         known[n].mode = I_DIRECTORY, Bare(entries, n)
  PROVE  /\ n \in Dirs(known) /\ d \in Dirs(known) /\ n # d
         /\ known[n].nlinks = 2 /\ known[d].nlinks # 0
<1>1. IsLeaf(known, entries, n, d)
  BY RemovableDirectory
<1> QED
  BY <1>1 DEF IsLeaf

(* rmdir leaves a tree with right counts, one directory smaller.           *)
LEMMA RemoveDirGood ==
  ASSUME NEW base, NEW c, NEW t, NEW at, NEW known, NEW entries,
         Keeps(base, c, t, at, known, entries), Good(known, entries),
         NEW d \in Slots, t[d] > 0, NEW s \in Slots, t[s] > 0, NEW name \in Names,
         entries[at[d]][name] # << >>, at[s] = Head(entries[at[d]][name]),
         Removable(c, s, name)
  PROVE  LET k == RemovedKnown(known, at[d], at[s])
             e == RemovedEntries(entries, at[d], at[s], name)
         IN  /\ Keeps(base, remove_dir(c, d, s, name), t, at, k, e)
             /\ Good(k, e) /\ Dirs(k) = Dirs(known) \ {at[s]}
             /\ \A m \in Dirs(k) : Up(e, m) = Up(entries, m)
             /\ k[at[d]].nlinks + 1 \in Links
             /\ at[d] \in Dirs(k) /\ name \in FileNames
<1>1. /\ at[d] \in Inums /\ at[s] \in Inums /\ known[at[s]].mode = I_DIRECTORY
      /\ name \in FileNames /\ Num(c, s) = at[s] /\ c.entries = entries
  BY KeepsSees DEF Removable, IsEmpty, Keeps
<1>2. Bare(entries, at[s])
  BY <1>1 DEF Removable, IsEmpty, Bare
<1>3. /\ at[s] \in Dirs(known) /\ at[d] \in Dirs(known) /\ at[s] # at[d]
      /\ entries[at[s]][dot1] = <<at[s]>> /\ entries[at[s]][dot2] = <<at[d]>>
      /\ known[at[s]].nlinks = 2 /\ known[at[d]].nlinks # 0
  <2>1. /\ at[s] \in Dirs(known) /\ at[d] \in Dirs(known) /\ at[s] # at[d]
        /\ known[at[s]].nlinks = 2 /\ known[at[d]].nlinks # 0
    BY <1>1, <1>2, RemovableName
  <2>2. Up(entries, at[s]) = at[d]
    BY <1>1, GoodName
  <2> QED
    BY <2>1, <2>2 DEF Good, Shaped
<1>4. Found(c, d, name)
  <2>1. known[at[d]].mode = I_DIRECTORY
    BY <1>3 DEF Dirs
  <2> QED
    BY <2>1, KeepsSees
<1>5. 2 > 1
  OBVIOUS
<1>6. Keeps(base, remove_dir(c, d, s, name), t, at, RemovedKnown(known, at[d], at[s]),
            RemovedEntries(entries, at[d], at[s], name))
  BY <1>1, <1>3, <1>4, <1>5, KeepsRemoveDir
<1> DEFINE k == RemovedKnown(known, at[d], at[s])
           e == RemovedEntries(entries, at[d], at[s], name)
<1>7. /\ Good(k, e) /\ Dirs(k) = Dirs(known) \ {at[s]}
      /\ \A m \in Dirs(k) : Up(e, m) = Up(entries, m)
      /\ k[at[d]].nlinks + 1 \in Links
  BY <1>1, <1>2, GoodRemoved
<1>8. at[d] \in Dirs(k)
  <2> HIDE DEF k, e
  <2> QED
    BY <1>3, <1>7
<1> QED
  BY <1>1, <1>6, <1>7, <1>8

(* A directory may move where it does not get below itself.                *)
MayMove(known, entries, o, i, d) ==
  /\ known[i].mode = I_DIRECTORY /\ o # d /\ known[d].nlinks + 1 \in Links
  /\ \E D : Cut(known, entries, i, D) /\ d \notin D

(* So does the move of a name, with a new ".." for a directory.            *)
LEMMA MoveGood ==
  ASSUME NEW base, NEW c, NEW t, NEW at, NEW known, NEW entries,
         Keeps(base, c, t, at, known, entries), Good(known, entries),
         NEW o \in Slots, t[o] > 0, NEW i \in Slots, t[i] > 0, NEW d \in Slots, t[d] > 0,
         NEW on \in FileNames, NEW nn \in FileNames,
         entries[at[o]][on] # << >>, at[i] = Head(entries[at[o]][on]), at[d] \in Dirs(known),
         NEW moves \in BOOLEAN,
         moves => MayMove(known, entries, at[o], at[i], at[d]),
         ~moves => known[at[i]].mode # I_DIRECTORY \/ at[o] = at[d]
  PROVE  LET moved == Moved(c, o, on, i, d, nn)
         IN  Kept(base, IF moves THEN Reparented(moved, i, d) ELSE moved, t)
<1> DEFINE moved == Moved(c, o, on, i, d, nn)
           e == MovedEntries(entries, at[o], on, at[i], at[d], nn)
<1>1. /\ at[o] \in Inums /\ on \in Names /\ nn \in Names
      /\ at[o] \in Dirs(known)
  BY KeepsSees, DotNames, GoodName
<1>2. Found(c, o, on)
  BY <1>1, KeepsSees DEF Dirs
<1>3. Keeps(base, moved, t, at, known, e)
  BY <1>1, <1>2, KeepsMoved
<1>4. CASE ~moves
  <2>1. Good(known, e)
    BY <1>1, <1>4, GoodMoved
  <2> QED
    BY <1>3, <1>4, <2>1 DEF Kept
<1>5. CASE moves
  <2>1. /\ known[at[i]].mode = I_DIRECTORY /\ at[o] # at[d]
        /\ known[at[d]].nlinks + 1 \in Links
    BY <1>5 DEF MayMove
  <2>2. PICK D : Cut(known, entries, at[i], D) /\ at[d] \notin D
    BY <1>5 DEF MayMove
  <2>3. /\ e[at[i]][dot2] = <<at[o]>> /\ known[at[o]].nlinks # 0
        /\ Good(ReparentedKnown(known, at[o], at[d]), ReparentedEntries(e, at[i], at[d]))
    BY <1>1, <2>1, <2>2, GoodReparented
  <2> HIDE DEF moved, e
  <2>4. Keeps(base, Reparented(moved, i, d), t, at, ReparentedKnown(known, at[o], at[d]),
              ReparentedEntries(e, at[i], at[d]))
    BY <1>3, <2>1, <2>3, KeepsReparented
  <2> QED
    BY <1>5, <2>3, <2>4 DEF Kept, moved
<1> QED
  BY <1>4, <1>5

-----------------------------------------------------------------------------
(* What is left when the name that gives way to a new one is removed: the  *)
(* name on of directory o and the tree above d stay.                       *)
Without(known, entries, k, e, d, o, on) ==
  /\ Good(k, e) /\ Dirs(k) \subseteq Dirs(known) /\ d \in Dirs(k)
  /\ \A m \in Dirs(k) : Up(e, m) = Up(entries, m)
  /\ \A n \in Inums : k[n].mode = known[n].mode
  /\ e[o][on] = entries[o][on]

(* The other names stay when a directory is removed.                       *)
LEMMA RemovedElsewhere ==
  ASSUME NEW entries \in Entries, NEW d \in Inums, NEW n \in Inums, NEW name \in FileNames,
         entries[d][name] # << >>, entries[n][dot1] = <<n>>, entries[n][dot2] = <<d>>,
         NEW o \in Inums, NEW on \in FileNames, o # d \/ on # name
  PROVE  RemovedEntries(entries, d, n, name)[o][on] = entries[o][on]
<1> DEFINE e1 == Drop(entries, d, name)
           e2 == Drop(e1, n, dot1)
<1>1. /\ name \in Names /\ on \in Names /\ name # dot1 /\ name # dot2 /\ on # dot1 /\ on # dot2
      /\ dot1 \in Names /\ dot2 \in Names /\ dot1 # dot2
  BY DotNames
<1>2. /\ e1 \in Entries /\ e1[o][on] = entries[o][on] /\ e1[n][dot1] = entries[n][dot1]
      /\ e1[n][dot2] = entries[n][dot2]
  BY <1>1, DropAt
<1> HIDE DEF e1
<1>3. e1[n][dot1] # << >> /\ e1[n][dot2] # << >>
  BY <1>2
<1>4. /\ e2 \in Entries /\ e2[o][on] = e1[o][on] /\ e2[n][dot2] = e1[n][dot2]
  BY <1>1, <1>2, <1>3, DropAt
<1> HIDE DEF e2
<1>5. Drop(e2, n, dot2)[o][on] = e2[o][on]
  BY <1>1, <1>3, <1>4, DropAt
<1> QED
  BY <1>2, <1>4, <1>5 DEF RemovedEntries, e1, e2

(* The modes stay.                                                         *)
LEMMA RemovedModes ==
  ASSUME NEW known \in Inodes, NEW d \in Inums, NEW n \in Inums, n # d,
         known[n].nlinks = 2, known[d].nlinks # 0
  PROVE  \A m \in Inums : RemovedKnown(known, d, n)[m].mode = known[m].mode
<1> DEFINE k1 == Fewer(known, n)
           k2 == Fewer(k1, n)
<1>1. /\ k1 \in Inodes /\ k1[n].nlinks = known[n].nlinks - 1 /\ k1[d] = known[d]
      /\ \A m \in Inums : k1[m].mode = known[m].mode
  BY FewerAt
<1> HIDE DEF k1
<1>2. k1[n].nlinks # 0
  BY <1>1
<1>3. /\ k2 \in Inodes /\ k2[d] = k1[d]
      /\ \A m \in Inums : k2[m].mode = k1[m].mode
  BY <1>1, <1>2, FewerAt
<1> HIDE DEF k2
<1>4. \A m \in Inums : Fewer(k2, d)[m].mode = k2[m].mode
  BY <1>1, <1>3, FewerAt
<1> QED
  BY <1>1, <1>3, <1>4 DEF RemovedKnown, k1, k2

(* The file that gives way to a new name is removed.                       *)
LEMMA WithoutFile ==
  ASSUME NEW base, NEW c, NEW t, NEW at, NEW known, NEW entries,
         Keeps(base, c, t, at, known, entries), Good(known, entries),
         NEW d \in Slots, t[d] > 0, NEW s \in Slots, t[s] > 0, NEW name \in Names,
         entries[at[d]][name] # << >>, at[s] = Head(entries[at[d]][name]), ~IsDir(c, s),
         NEW o \in Inums, NEW on \in FileNames, o # at[d] \/ on # name
  PROVE  LET k == Fewer(known, at[s])
             e == Drop(entries, at[d], name)
         IN  /\ Keeps(base, unlink_file(c, d, s, name), t, at, k, e)
             /\ Without(known, entries, k, e, at[d], o, on)
<1> DEFINE k == Fewer(known, at[s])
           e == Drop(entries, at[d], name)
<1>1. at[d] \in Inums /\ entries \in Entries /\ at[d] \in Dirs(known)
  BY KeepsSees, GoodName DEF Good, Tallied
<1>2. /\ Keeps(base, unlink_file(c, d, s, name), t, at, k, e)
      /\ Good(k, e) /\ Dirs(k) = Dirs(known) /\ name \in FileNames
      /\ \A n \in Inums : k[n].mode = known[n].mode
  BY UnlinkFileGood
<1>3. e[o][on] = entries[o][on]
  BY <1>1, DropAt, DotNames
<1>4. ASSUME NEW m \in Dirs(k) PROVE Up(e, m) = Up(entries, m)
  <2>1. m \in Inums /\ dot2 \in Names /\ name # dot2
    BY <1>2, DotNames DEF Dirs
  <2>2. e[m][dot2] = entries[m][dot2]
    BY <1>1, <2>1, DropAt
  <2> QED
    BY <2>2 DEF Up
<1> HIDE DEF k, e
<1>5. Without(known, entries, k, e, at[d], o, on)
  BY <1>1, <1>2, <1>3, <1>4 DEF Without
<1> QED
  BY <1>2, <1>5 DEF k, e

(* The empty directory that gives way is removed.                          *)
LEMMA WithoutDir ==
  ASSUME NEW base, NEW c, NEW t, NEW at, NEW known, NEW entries,
         Keeps(base, c, t, at, known, entries), Good(known, entries),
         NEW d \in Slots, t[d] > 0, NEW s \in Slots, t[s] > 0, NEW name \in Names,
         entries[at[d]][name] # << >>, at[s] = Head(entries[at[d]][name]), Removable(c, s, name),
         NEW o \in Inums, NEW on \in FileNames, o # at[d] \/ on # name
  PROVE  LET k == RemovedKnown(known, at[d], at[s])
             e == RemovedEntries(entries, at[d], at[s], name)
         IN  /\ Keeps(base, remove_dir(c, d, s, name), t, at, k, e)
             /\ Without(known, entries, k, e, at[d], o, on)
             /\ k[at[d]].nlinks + 1 \in Links
<1> DEFINE k == RemovedKnown(known, at[d], at[s])
           e == RemovedEntries(entries, at[d], at[s], name)
<1>1. /\ at[d] \in Inums /\ at[s] \in Inums /\ entries \in Entries /\ known \in Inodes
      /\ known[at[s]].mode = I_DIRECTORY /\ name \in FileNames
      /\ Num(c, s) = at[s] /\ c.entries = entries
  BY KeepsSees DEF Good, Tallied, Removable, IsEmpty, Keeps
<1>2. /\ Keeps(base, remove_dir(c, d, s, name), t, at, k, e)
      /\ Good(k, e) /\ Dirs(k) = Dirs(known) \ {at[s]}
      /\ \A m \in Dirs(k) : Up(e, m) = Up(entries, m)
      /\ k[at[d]].nlinks + 1 \in Links
      /\ at[d] \in Dirs(k)
  BY RemoveDirGood
<1>3. Bare(entries, at[s])
  BY <1>1 DEF Removable, IsEmpty, Bare
<1>4. /\ at[s] \in Dirs(known) /\ at[d] \in Dirs(known) /\ at[s] # at[d]
      /\ known[at[s]].nlinks = 2 /\ known[at[d]].nlinks # 0
  BY <1>1, <1>3, RemovableName
<1>5. Up(entries, at[s]) = at[d]
  BY <1>1, GoodName
<1>6. entries[at[s]][dot1] = <<at[s]>> /\ entries[at[s]][dot2] = <<at[d]>>
  BY <1>4, <1>5 DEF Good, Shaped
<1>7. e[o][on] = entries[o][on]
  BY <1>1, <1>6, RemovedElsewhere
<1>8. \A n \in Inums : k[n].mode = known[n].mode
  BY <1>1, <1>4, RemovedModes
<1> HIDE DEF k, e
<1>9. Without(known, entries, k, e, at[d], o, on)
  BY <1>2, <1>7, <1>8 DEF Without
<1> QED
  BY <1>2, <1>9 DEF k, e

-----------------------------------------------------------------------------
(* The walk of a rename ends, and a directory it lets pass does not get    *)
(* below itself.                                                           *)
Clear(known, entries, i, d) == \E D : Cut(known, entries, i, D) /\ d \notin D

(* The walk ends; if it gets to the root it did not pass the directory.    *)
LEMMA RenameWalk ==
  ASSUME NEW base, NEW c, NEW t, NEW at, NEW known, NEW entries,
         Keeps(base, c, t, at, known, entries), Good(known, entries),
         NEW i \in Slots, t[i] > 0, NEW d \in Slots, t[d] > 0, at[d] \in Dirs(known),
         at[i] \in Dirs(known)
  PROVE  LET w == Walk(c, i, d)
         IN  /\ w.result \in {"refused", "reached"}
             /\ Keeps(base, w.c, t, at, known, entries)
             /\ w.result = "reached" /\ at[i] # ROOT_INODE => Clear(known, entries, at[i], at[d])
<1> DEFINE w == Walk(c, i, d)
           B == Below(known, entries, at[i])
<1>1. /\ w.result \in {"refused", "reached"}
      /\ Keeps(base, w.c, t, at, known, entries)
      /\ w.result = "reached" /\ at[i] # ROOT_INODE => at[d] \notin B
  BY WalkKeeps
<1>2. at[i] # ROOT_INODE => Cut(known, entries, at[i], B)
  BY BelowCuts
<1> HIDE DEF w, B
<1>3. w.result = "reached" /\ at[i] # ROOT_INODE => Clear(known, entries, at[i], at[d])
  BY <1>1, <1>2 DEF Clear
<1> QED
  BY <1>1, <1>3 DEF w

(* What is not below before the removal is not below after it.             *)
LEMMA ClearStays ==
  ASSUME NEW known, NEW entries, NEW k, NEW e, NEW d, NEW o, NEW on,
         Without(known, entries, k, e, d, o, on), NEW i, Clear(known, entries, i, d)
  PROVE  Clear(k, e, i, d)
<1>1. PICK D : Cut(known, entries, i, D) /\ d \notin D
  BY DEF Clear
<1>2. Dirs(k) \subseteq Dirs(known) /\ \A m \in Dirs(k) : Up(e, m) = Up(entries, m)
  BY DEF Without
<1>3. Cut(k, e, i, D)
  BY <1>1, <1>2, CutStays
<1> QED
  BY <1>1, <1>3 DEF Clear

(* The move itself, once the name that gives way is removed.               *)
LEMMA MoveDone ==
  ASSUME NEW base, NEW c, NEW t, NEW at, NEW known, NEW entries,
         Keeps(base, c, t, at, known, entries), Good(known, entries),
         NEW o \in Slots, t[o] > 0, NEW i \in Slots, t[i] > 0, NEW d \in Slots, t[d] > 0,
         NEW on \in FileNames, NEW nn \in FileNames,
         entries[at[o]][on] # << >>, at[i] = Head(entries[at[o]][on]), at[d] \in Dirs(known),
         NEW moves, moves <=> known[at[i]].mode = I_DIRECTORY /\ o # d,
         moves => Clear(known, entries, at[i], at[d]) /\ known[at[d]].nlinks + 1 \in Links
  PROVE  LET moved == Moved(c, o, on, i, d, nn)
         IN  Kept(base, IF moves THEN Reparented(moved, i, d) ELSE moved, t)
<1>1. at[o] = at[d] <=> o = d
  BY KeepsApart
<1>2. CASE moves
  <2>1. MayMove(known, entries, at[o], at[i], at[d])
    BY <1>1, <1>2 DEF MayMove, Clear
  <2> QED
    BY <1>2, <2>1, MoveGood
<1>3. CASE ~moves
  <2>1. known[at[i]].mode # I_DIRECTORY \/ at[o] = at[d]
    BY <1>1, <1>3
  <2> QED
    BY <1>3, <2>1, MoveGood
<1> QED
  BY <1>2, <1>3

(* The name that gives way is removed; what replaced lists, here the inode *)
(* in slot s, is checked before.                                           *)
Gone(c, d, nn, i, replaced) ==
  IF replaced = << >> THEN c
  ELSE IF IsDir(c, i) THEN remove_dir(c, d, Head(replaced), nn)
  ELSE unlink_file(c, d, Head(replaced), nn)

GivesWay(c, t, at, entries, d, i, s, nn) ==
  /\ t[s] > 0 /\ entries[at[d]][nn] # << >> /\ at[s] = Head(entries[at[d]][nn])
  /\ s # i /\ IsDir(c, s) = IsDir(c, i) /\ (IsDir(c, s) => Removable(c, s, nn))

(* Whichever of them gives way, the rest can go on.                        *)
LEMMA GoneKeeps ==
  ASSUME NEW base, NEW c, NEW t, NEW at, NEW known, NEW entries,
         Keeps(base, c, t, at, known, entries), Good(known, entries),
         NEW i \in Slots, t[i] > 0, NEW d \in Slots, t[d] > 0, at[d] \in Dirs(known),
         NEW o \in Inums, NEW on \in FileNames, NEW nn \in FileNames,
         entries[o][on] # << >>, at[i] = Head(entries[o][on]),
         NEW s \in Slots, GivesWay(c, t, at, entries, d, i, s, nn)
  PROVE  \E k, e : /\ Keeps(base, Gone(c, d, nn, i, <<s>>), t, at, k, e)
                   /\ Without(known, entries, k, e, at[d], o, on)
                   /\ IsDir(c, i) => k[at[d]].nlinks + 1 \in Links
<1>1. /\ t[s] > 0 /\ entries[at[d]][nn] # << >> /\ at[s] = Head(entries[at[d]][nn])
      /\ s # i /\ IsDir(c, s) = IsDir(c, i) /\ (IsDir(c, s) => Removable(c, s, nn))
  BY DEF GivesWay
<1>2. nn \in Names
  BY DotNames
<1>3. at[s] # at[i]
  BY <1>1, KeepsApart
<1>4. o # at[d] \/ on # nn
  BY <1>1, <1>3
<1>5. CASE IsDir(c, i)
  <2> DEFINE k == RemovedKnown(known, at[d], at[s])
             e == RemovedEntries(entries, at[d], at[s], nn)
  <2>1. /\ Keeps(base, remove_dir(c, d, s, nn), t, at, k, e)
        /\ Without(known, entries, k, e, at[d], o, on)
        /\ k[at[d]].nlinks + 1 \in Links
    BY <1>1, <1>2, <1>4, <1>5, WithoutDir
  <2>2. Gone(c, d, nn, i, <<s>>) = remove_dir(c, d, s, nn)
    BY <1>5 DEF Gone
  <2> HIDE DEF k, e
  <2> QED
    BY <2>1, <2>2
<1>6. CASE ~IsDir(c, i)
  <2> DEFINE k == Fewer(known, at[s])
             e == Drop(entries, at[d], nn)
  <2>1. /\ Keeps(base, unlink_file(c, d, s, nn), t, at, k, e)
        /\ Without(known, entries, k, e, at[d], o, on)
    BY <1>1, <1>2, <1>4, <1>6, WithoutFile
  <2>2. Gone(c, d, nn, i, <<s>>) = unlink_file(c, d, s, nn)
    BY <1>6 DEF Gone
  <2> HIDE DEF k, e
  <2> QED
    BY <1>6, <2>1, <2>2
<1> QED
  BY <1>5, <1>6

-----------------------------------------------------------------------------
(* A count below LINK_MAX has room for one link more.                      *)
LEMMA NextLinkFits ==
  ASSUME NEW n \in Links, ~(n >= LINK_MAX)
  PROVE  n + 1 \in Links
<1> DEFINE d == 65535
<1>1. d \in Int /\ Links = 0 .. d
  BY DEF Links
<1> HIDE DEF d
<1> QED
  BY <1>1, LinkMaxAssumption

(* The end of fs_rename, from what is left to the last put_inode.          *)
LEMMA RenamedKept ==
  ASSUME NEW base, NEW c, NEW u \in Taken, NEW o \in Slots, NEW i \in Slots, NEW d \in Slots,
         NEW on \in Names, NEW nn \in Names, NEW s \in Slots, NEW replaced, replaced \in {<< >>, <<s>>},
         NEW at, NEW known, NEW entries, Good(known, entries),
         Keeps(base, c, RenameRefs(u, o, i, d, replaced), at, known, entries),
         entries[at[o]][on] # << >>, at[i] = Head(entries[at[o]][on]), at[d] \in Dirs(known),
         replaced # << >> => entries[at[d]][nn] # << >> /\ at[s] = Head(entries[at[d]][nn]),
         Renamed(c, o, on, i, d, nn, replaced)
  PROVE  crashed' = FALSE /\ Kept(base, fs', u)
<1> DEFINE t == RenameRefs(u, o, i, d, replaced)
           moves == IsDir(c, i) /\ o # d
           w == IF moves THEN Walk(c, i, d) ELSE [c |-> c, at |-> d, result |-> "reached"]
           allowed == /\ w.result = "reached"
                      /\ {on, nn} \cap {dot1, dot2} = {}
                      /\ replaced = << >> => ~(moves /\ w.c.inode[d].nlinks >= LINK_MAX)
                      /\ \A r \in Range(replaced) :
                           /\ r # i
                           /\ IsDir(w.c, r) = IsDir(w.c, i)
                           /\ IsDir(w.c, r) => Removable(w.c, r, nn)
           without == Gone(w.c, d, nn, i, replaced)
           moved == Moved(without, o, on, i, d, nn)
           left == IF moves THEN Reparented(moved, i, d) ELSE moved
<1>1. /\ crashed' = (w.result = "walking")
      /\ \/ allowed /\ fs' = PutAll(left, o, i, d, replaced)
         \/ fs' = PutAll(w.c, o, i, d, replaced)
  BY DEF Renamed, Gone
<1>2. replaced # << >> => replaced = <<s>> /\ Head(replaced) = s /\ Head(replaced) \in Slots
  OBVIOUS
<1>3. /\ t \in Taken /\ t[o] > 0 /\ t[i] > 0 /\ t[d] > 0
      /\ replaced # << >> => t[s] > 0
  <2>1. /\ t \in Taken /\ t[o] > 0 /\ t[i] > 0 /\ t[d] > 0
        /\ replaced # << >> => t[Head(replaced)] > 0
        /\ \A a \in Slots : RenameRefs(Plus(u, a), o, i, d, replaced) = Plus(t, a)
    BY <1>2, RenameRefsTaken
  <2> HIDE DEF t
  <2> QED
    BY <1>2, <2>1
<1>4. Keeps(base, c, t, at, known, entries)
  OBVIOUS
<1> HIDE DEF t
<1>5. /\ at[o] \in Inums /\ at[i] \in Inums /\ at[d] \in Inums
      /\ known[at[i]].nlinks # 0 /\ (moves => at[i] \in Dirs(known))
  <2>1. /\ at[o] \in Inums /\ at[i] \in Inums /\ at[d] \in Inums
        /\ IsDir(c, i) <=> known[at[i]].mode = I_DIRECTORY
    BY <1>3, <1>4, KeepsSees
  <2>2. known[at[i]].nlinks # 0
    BY <2>1, GoodName
  <2> QED
    BY <2>1, <2>2 DEF Dirs
<1>6. /\ w.result \in {"refused", "reached"}
      /\ Keeps(base, w.c, t, at, known, entries)
      /\ moves /\ w.result = "reached" /\ at[i] # ROOT_INODE
           => Clear(known, entries, at[i], at[d])
  <2>1. CASE moves
    <3>1. w = Walk(c, i, d)
      BY <2>1
    <3>2. at[i] \in Dirs(known)
      BY <1>5, <2>1
    <3> QED
      BY <1>3, <1>4, <3>1, <3>2, RenameWalk
  <2>2. CASE ~moves
    BY <1>4, <2>2
  <2> QED
    BY <2>1, <2>2
<1>7. /\ IsDir(c, i) <=> known[at[i]].mode = I_DIRECTORY
      /\ IsDir(w.c, i) <=> known[at[i]].mode = I_DIRECTORY
      /\ w.c.inode[d].nlinks = known[at[d]].nlinks
  BY <1>3, <1>4, <1>6, KeepsSees
<1> HIDE DEF w
<1>8. ASSUME allowed PROVE Kept(base, left, t)
  <2>1. on \in FileNames /\ nn \in FileNames
    BY <1>8, DotNames
  <2>2. at[i] # ROOT_INODE \/ known[at[i]].mode # I_DIRECTORY
    BY <1>5, <2>1, GoodName
  <2>3. moves => Clear(known, entries, at[i], at[d])
    BY <1>6, <1>7, <1>8, <2>2
  <2>4. replaced = <<s>> => GivesWay(w.c, t, at, entries, d, i, s, nn)
    BY <1>2, <1>3, <1>8 DEF Range, GivesWay
  <2>5. PICK k, e : /\ Keeps(base, without, t, at, k, e)
                    /\ Without(known, entries, k, e, at[d], at[o], on)
                    /\ replaced # << >> /\ IsDir(w.c, i) => k[at[d]].nlinks + 1 \in Links
                    /\ replaced = << >> => k = known
    <3>1. CASE replaced = << >>
      <4>1. Without(known, entries, known, entries, at[d], at[o], on)
        BY DEF Without
      <4>2. without = w.c
        BY <3>1 DEF Gone
      <4> QED
        BY <1>6, <3>1, <4>1, <4>2
    <3>2. CASE replaced = <<s>>
      <4>1. /\ Keeps(base, w.c, t, at, known, entries) /\ t[i] > 0 /\ t[d] > 0
            /\ at[o] \in Inums /\ on \in FileNames /\ nn \in FileNames
            /\ GivesWay(w.c, t, at, entries, d, i, s, nn)
        BY <1>3, <1>5, <1>6, <2>1, <2>4, <3>2
      <4>2. PICK k, e : /\ Keeps(base, Gone(w.c, d, nn, i, <<s>>), t, at, k, e)
                        /\ Without(known, entries, k, e, at[d], at[o], on)
                        /\ IsDir(w.c, i) => k[at[d]].nlinks + 1 \in Links
        BY <4>1, GoneKeeps
      <4>3. without = Gone(w.c, d, nn, i, <<s>>)
        BY <3>2
      <4> QED
        BY <1>2, <3>2, <4>2, <4>3
    <3> QED
      BY <3>1, <3>2
  <2> HIDE DEF without
  <2>6. /\ Good(k, e) /\ e[at[o]][on] = entries[at[o]][on] /\ at[d] \in Dirs(k)
        /\ k[at[i]].mode = known[at[i]].mode
    BY <1>5, <2>5 DEF Without
  <2>7. moves => k[at[d]].nlinks + 1 \in Links
    <3>1. CASE replaced = << >>
      <4>1. moves => ~(known[at[d]].nlinks >= LINK_MAX)
        BY <1>7, <1>8, <3>1
      <4>2. known[at[d]].nlinks \in Links
        BY <1>5 DEF Good, Tallied, Inodes, DiskInode
      <4>3. moves => known[at[d]].nlinks + 1 \in Links
        BY <4>1, <4>2, NextLinkFits
      <4> QED
        BY <2>5, <3>1, <4>3
    <3>2. CASE replaced # << >>
      BY <1>7, <2>5, <3>2
    <3> QED
      BY <3>1, <3>2
  <2>8. moves => Clear(k, e, at[i], at[d])
    BY <2>3, <2>5, ClearStays
  <2>9. moves <=> k[at[i]].mode = I_DIRECTORY /\ o # d
    BY <1>7, <2>6
  <2> HIDE DEF moves
  <2> QED
    BY <1>3, <2>1, <2>5, <2>6, <2>7, <2>8, <2>9, MoveDone
<1> HIDE DEF left, allowed
<1>9. Kept(base, w.c, t)
  BY <1>6 DEF Kept
<1>10. Kept(base, PutAll(w.c, o, i, d, replaced), u)
  BY <1>2, <1>9, PutAllKept DEF t
<1>11. allowed => Kept(base, PutAll(left, o, i, d, replaced), u)
  BY <1>2, <1>8, PutAllKept DEF t
<1> QED
  BY <1>1, <1>6, <1>10, <1>11

-----------------------------------------------------------------------------
(* The requests.  Settled is what one finds and leaves, Refs what VFS has  *)
(* of it.                                                                  *)
Settled(c, known) == Sound(c) /\ Tidy(c, known) /\ Good(known, c.entries)

Refs(c, held) ==
  /\ \A s \in Slots : c.inode[s].count > 0 => c.inode[s].count = held[c.inode[s].num]
  /\ \A n \in Inums : held[n] > 0 => UsedIn(c, n)

AtRoot == [s \in Slots |-> ROOT_INODE]

(* Two references given back.                                              *)
LEMMA PutTwo ==
  ASSUME NEW base, NEW c, NEW u \in Taken, NEW a \in Slots, NEW b \in Slots,
         Kept(base, c, Plus(Plus(u, a), b))
  PROVE  Kept(base, put_inode(put_inode(c, a), b), u)
<1>1. Plus(Plus(u, a), b) = Plus(Plus(u, b), a) /\ Plus(u, b) \in Taken
  BY TakenSwap, TakenPlus
<1>2. Kept(base, put_inode(c, a), Plus(u, b))
  BY <1>1, KeptPut
<1> QED
  BY <1>2, KeptPut

(* A request begins in a settled state.                                    *)
LEMMA Start ==
  ASSUME NEW c, NEW known, Settled(c, known)
  PROVE  Keeps(c, c, Nothing, AtRoot, known, c.entries) /\ Nothing \in Taken
<1>1. AtRoot \in [Slots -> Inums]
  BY RootAssumption DEF AtRoot
<1> QED
  BY <1>1, KeepsStart DEF Settled, Taken, Nothing

(* The first inode of a request, which VFS holds.                          *)
LEMMA Opened ==
  ASSUME NEW c, NEW known, Settled(c, known), NEW n \in Inums, UsedIn(c, n), HasSlot(c, n)
  PROVE  LET s == SlotOf(c, n)
         IN  /\ s \in Slots /\ Plus(Nothing, s) \in Taken /\ Plus(Nothing, s)[s] > 0
             /\ Keeps(c, get_inode(c, n), Plus(Nothing, s), [AtRoot EXCEPT ![s] = n], known,
                      c.entries)
             /\ [AtRoot EXCEPT ![s] = n][s] = n
<1> DEFINE s == SlotOf(c, n)
<1>1. Keeps(c, c, Nothing, AtRoot, known, c.entries) /\ Nothing \in Taken
  BY Start
<1>2. /\ s \in Slots
      /\ Keeps(c, get_inode(c, n), Plus(Nothing, s), [AtRoot EXCEPT ![s] = n], known, c.entries)
  BY <1>1, KeepsGet
<1> HIDE DEF s
<1>3. Plus(Nothing, s) \in Taken /\ Plus(Nothing, s)[s] > 0
  BY <1>1, <1>2, TakenPlus
<1>4. [AtRoot EXCEPT ![s] = n][s] = n
  BY <1>2 DEF AtRoot
<1> QED
  BY <1>2, <1>3, <1>4 DEF s

(* Another one, found in the table or on the disk.                         *)
LEMMA OpenedNext ==
  ASSUME NEW base, NEW c, NEW t, NEW at, NEW known, NEW entries,
         Keeps(base, c, t, at, known, entries),
         NEW n \in Inums, HasSlot(c, n), known[n].nlinks # 0 \/ UsedIn(base, n)
  PROVE  LET s  == SlotOf(c, n)
             at2 == [at EXCEPT ![s] = n]
         IN  /\ s \in Slots /\ Plus(t, s) \in Taken /\ Plus(t, s)[s] > 0
             /\ Keeps(base, get_inode(c, n), Plus(t, s), at2, known, entries)
             /\ at2[s] = n
             /\ \A r \in Slots : t[r] > 0 => Plus(t, s)[r] > 0 /\ at2[r] = at[r]
<1> DEFINE s  == SlotOf(c, n)
           at2 == [at EXCEPT ![s] = n]
<1>1. known[n].nlinks # 0 \/ UsedIn(c, n)
  BY KeepsUsed
<1>2. t \in Taken /\ at \in [Slots -> Inums]
  BY KeepsTypes
<1>3. /\ s \in Slots /\ Keeps(base, get_inode(c, n), Plus(t, s), at2, known, entries)
      /\ t[s] > 0 => at[s] = n
  BY <1>1, KeepsGet
<1> HIDE DEF s
<1>4. /\ Plus(t, s) \in Taken /\ Plus(t, s)[s] > 0
      /\ \A r \in Slots : t[r] > 0 => Plus(t, s)[r] > 0
  BY <1>2, <1>3, TakenPlus
<1>5. at2[s] = n /\ \A r \in Slots : t[r] > 0 => at2[r] = at[r]
  BY <1>2, <1>3
<1> QED
  BY <1>3, <1>4, <1>5 DEF s

(* The directory VFS names is one, and is in the table.                    *)
LEMMA HeldDirectory ==
  ASSUME NEW known, Settled(fs, known), Refs(fs, vfs), NEW n \in Inums, HeldDir(n)
  PROVE  UsedIn(fs, n) /\ known[n].mode = I_DIRECTORY
<1>1. UsedIn(fs, n)
  BY DEF HeldDir, Held, Refs
<1>2. Cached(fs, n)
  <2>1. PICK s \in Slots : fs.inode[s].num = n
    BY <1>1 DEF UsedIn
  <2> QED
    BY <2>1, CachedSlot DEF Settled, Sound
<1>3. SlotOf(fs, n) \in Slots /\ fs.inode[SlotOf(fs, n)].num = n
  BY <1>2, CachedSlot DEF Settled, Sound
<1>4. OnDisk(fs.inode[SlotOf(fs, n)]) = known[n]
  BY <1>3 DEF Settled, Tidy
<1>5. fs.inode[SlotOf(fs, n)].mode = known[n].mode
  BY <1>4 DEF OnDisk
<1> QED
  BY <1>1, <1>5 DEF HeldDir, IsDir

(* A free name in a directory is no "." and no "..".                       *)
LEMMA FreeName ==
  ASSUME NEW known, NEW entries, Good(known, entries), NEW d \in Dirs(known),
         NEW name \in Names, entries[d][name] = << >>
  PROVE  name \in FileNames
<1>1. entries[d][dot1] = <<d>> /\ entries[d][dot2] = <<Up(entries, d)>>
  BY DEF Good, Shaped
<1>2. entries[d][dot1] # << >> /\ entries[d][dot2] # << >>
  BY <1>1
<1>3. name # dot1 /\ name # dot2
  BY <1>2
<1> QED
  BY <1>3, DotNames

(* A count below LINK_MAX has room for one link more.                      *)
LEMMA FewLinks ==
  ASSUME NEW n \in Links, n < LINK_MAX
  PROVE  n + 1 \in Links
<1>1. n \in Int /\ LINK_MAX \in Int
  BY LinkMaxAssumption, LinksAreNumbers
<1>2. ~(n >= LINK_MAX)
  BY <1>1
<1> QED
  BY <1>2, NextLinkFits

(* fs_link, on each of its paths.                                          *)
LEMMA LinkKept ==
  ASSUME NEW known, Settled(fs, known), Refs(fs, vfs),
         NEW n \in Inums, NEW dir \in Inums, NEW name \in Names, fs_link(n, dir, name)
  PROVE  Kept(fs, fs', Nothing)
<1> DEFINE s  == SlotOf(fs, n)
           c1 == get_inode(fs, n)
           d  == SlotOf(c1, dir)
           c2 == get_inode(c1, dir)
           c3 == IF c2.inode[d].nlinks = 0 THEN c2 ELSE Looked(c2, d, name)
           c4 == Linked(Entered(c3, d, name, n), s)
           linkable == c1.inode[s].nlinks < LINK_MAX /\ ~IsDir(c1, s)
           t1 == Plus(Nothing, s)
           at1 == [AtRoot EXCEPT ![s] = n]
           t2 == Plus(t1, d)
           at2 == [at1 EXCEPT ![d] = dir]
           entries == fs.entries
<1>1. /\ HasSlot(fs, n) /\ Held(n) /\ HeldDir(dir)
      /\ \/ fs' = put_inode(c1, s)
         \/ HasSlot(c1, dir) /\ fs' = put_inode(put_inode(c3, s), d)
         \/ /\ linkable /\ HasSlot(c1, dir) /\ c2.inode[d].nlinks # 0 /\ ~Found(c2, d, name)
            /\ fs' = put_inode(put_inode(c4, s), d)
  BY DEF fs_link
<1>2. /\ UsedIn(fs, n) /\ UsedIn(fs, dir) /\ known[dir].mode = I_DIRECTORY
      /\ Good(known, entries)
  BY <1>1, HeldDirectory DEF Refs, Held, Settled
<1>3. /\ s \in Slots /\ t1 \in Taken /\ t1[s] > 0 /\ Keeps(fs, c1, t1, at1, known, entries)
      /\ at1[s] = n
  BY <1>1, <1>2, Opened
<1>4. Nothing \in Taken
  BY Start
<1> HIDE DEF c1, s, at1
<1>5. CASE fs' = put_inode(c1, s)
  <2>1. Kept(fs, c1, Plus(Nothing, s))
    BY <1>2, <1>3 DEF Kept
  <2> QED
    BY <1>3, <1>4, <1>5, <2>1, KeptPut
<1>6. ASSUME HasSlot(c1, dir)
      PROVE  /\ d \in Slots /\ t2 \in Taken /\ t2[d] > 0 /\ t2[s] > 0
             /\ Keeps(fs, c2, t2, at2, known, entries)
             /\ at2[d] = dir /\ at2[s] = n
  <2> HIDE DEF t1
  <2> QED
    BY <1>2, <1>3, <1>6, OpenedNext
<1> HIDE DEF c2, d, at2
<1>7. ASSUME HasSlot(c1, dir), NEW c, Kept(fs, c, t2)
      PROVE  Kept(fs, put_inode(put_inode(c, s), d), Nothing)
  BY <1>3, <1>4, <1>6, <1>7, PutTwo
<1> HIDE DEF t2
<1>8. ASSUME HasSlot(c1, dir) PROVE Keeps(fs, c3, t2, at2, known, entries)
  <2>1. Keeps(fs, c2, t2, at2, known, entries) /\ d \in Slots /\ t2[d] > 0
    BY <1>6, <1>8
  <2>2. ASSUME CanAdvance(c2, d, name)
        PROVE  known[Head(entries[at2[d]][name])].nlinks # 0
    <3>1. entries[at2[d]][name] # << >> /\ at2[d] \in Inums
      BY <2>1, <2>2, KeepsSees DEF CanAdvance
    <3> QED
      BY <1>2, <3>1, GoodName
  <2>3. Keeps(fs, Looked(c2, d, name), t2, at2, known, entries)
    BY <2>1, <2>2, KeepsLooked
  <2> QED
    BY <2>1, <2>3
<1>9. CASE HasSlot(c1, dir) /\ fs' = put_inode(put_inode(c3, s), d)
  <2>1. Kept(fs, c3, t2)
    BY <1>2, <1>8, <1>9 DEF Kept
  <2> HIDE DEF c3
  <2> QED
    BY <1>7, <1>9, <2>1
<1>10. CASE /\ linkable /\ HasSlot(c1, dir) /\ c2.inode[d].nlinks # 0 /\ ~Found(c2, d, name)
            /\ fs' = put_inode(put_inode(c4, s), d)
  <2>1. /\ d \in Slots /\ t2 \in Taken /\ t2[d] > 0 /\ t2[s] > 0
        /\ Keeps(fs, c2, t2, at2, known, entries) /\ Keeps(fs, c3, t2, at2, known, entries)
        /\ at2[d] = dir /\ at2[s] = n
    BY <1>6, <1>8, <1>10
  <2>2. /\ known[dir].nlinks # 0 /\ entries[dir][name] = << >>
        /\ known[n].nlinks = c1.inode[s].nlinks /\ known[n].mode # I_DIRECTORY
    BY <1>2, <1>3, <1>10, <2>1, KeepsSees
  <2>3. dir \in Dirs(known)
    BY <1>2, <2>2 DEF Dirs
  <2>4. name \in FileNames
    BY <1>2, <2>2, <2>3, FreeName
  <2>5. known[n].nlinks \in Links
    BY <1>2 DEF Good, Tallied, Inodes, DiskInode
  <2>6. known[n].nlinks + 1 \in Links
    <3>1. c1.inode[s].nlinks < LINK_MAX
      BY <1>10
    <3>2. known[n].nlinks < LINK_MAX
      BY <2>2, <3>1
    <3> QED
      BY <2>5, <3>2, FewLinks
  <2>7. Good(More(known, n), Enter(entries, dir, name, n))
    BY <1>2, <2>2, <2>3, <2>4, <2>6, GoodLinked
  <2> HIDE DEF c3
  <2>8. Keeps(fs, Entered(c3, d, name, n), t2, at2, known, Enter(entries, dir, name, n))
    BY <2>1, KeepsEntered
  <2>9. Keeps(fs, c4, t2, at2, More(known, n), Enter(entries, dir, name, n))
    BY <1>3, <2>1, <2>6, <2>8, KeepsLinked
  <2>10. Kept(fs, c4, t2)
    BY <2>7, <2>9 DEF Kept
  <2> HIDE DEF c4
  <2> QED
    BY <1>7, <1>10, <2>10
<1> HIDE DEF c3, c4, linkable
<1> QED
  BY <1>1, <1>5, <1>9, <1>10

(* What holds after advance has found a name in the directory in slot d.   *)
Advanced(base, c, t, at, known, entries, d, name) ==
  LET s   == AdvanceSlot(c, d, name)
      n   == Head(entries[at[d]][name])
      at2 == [at EXCEPT ![s] = n]
  IN  /\ s \in Slots /\ Plus(t, s) \in Taken /\ Plus(t, s)[s] > 0
      /\ n \in Inums /\ entries[at[d]][name] # << >>
      /\ Keeps(base, Advance(c, d, name), Plus(t, s), at2, known, entries)
      /\ at2[s] = n
      /\ \A r \in Slots : t[r] > 0 => Plus(t, s)[r] > 0 /\ at2[r] = at[r]

(* advance: one reference more, to the inode that is named.                *)
LEMMA AdvancedNext ==
  ASSUME NEW base, NEW c, NEW t, NEW at, NEW known, NEW entries,
         Keeps(base, c, t, at, known, entries), Good(known, entries),
         NEW d \in Slots, t[d] > 0, NEW name \in Names, CanAdvance(c, d, name)
  PROVE  Advanced(base, c, t, at, known, entries, d, name)
<1> DEFINE s  == AdvanceSlot(c, d, name)
           n  == Head(entries[at[d]][name])
           at2 == [at EXCEPT ![s] = n]
<1>1. entries[at[d]][name] # << >> /\ at[d] \in Inums
  BY KeepsSees DEF CanAdvance
<1>2. n \in Inums /\ known[n].nlinks # 0
  BY <1>1, GoodName
<1>3. t \in Taken /\ at \in [Slots -> Inums]
  BY KeepsTypes
<1>4. /\ s \in Slots /\ Keeps(base, Advance(c, d, name), Plus(t, s), at2, known, entries)
      /\ t[s] > 0 => at[s] = n
  BY <1>2, KeepsAdvance
<1> HIDE DEF s, n
<1>5. /\ Plus(t, s) \in Taken /\ Plus(t, s)[s] > 0
      /\ \A r \in Slots : t[r] > 0 => Plus(t, s)[r] > 0
  BY <1>3, <1>4, TakenPlus
<1>6. at2[s] = n /\ \A r \in Slots : t[r] > 0 => at2[r] = at[r]
  BY <1>3, <1>4
<1> QED
  BY <1>1, <1>2, <1>4, <1>5, <1>6 DEF Advanced, s, n

(* fs_unlink: a file, an empty directory, or nothing.                      *)
LEMMA UnlinkKept ==
  ASSUME NEW known, Settled(fs, known), Refs(fs, vfs),
         NEW dir \in Inums, NEW name \in Names, NEW rmdir \in BOOLEAN,
         fs_unlink(dir, name, rmdir)
  PROVE  Kept(fs, fs', Nothing)
<1> DEFINE d  == SlotOf(fs, dir)
           c1 == get_inode(fs, dir)
           s  == AdvanceSlot(c1, d, name)
           c2 == Advance(c1, d, name)
           c3 == IF ~rmdir /\ ~IsDir(c2, s) THEN unlink_file(c2, d, s, name)
                 ELSE IF rmdir /\ Removable(c2, s, name) THEN remove_dir(c2, d, s, name)
                 ELSE c2
           t1 == Plus(Nothing, d)
           at1 == [AtRoot EXCEPT ![d] = dir]
           entries == fs.entries
           n  == Head(entries[at1[d]][name])
           t2 == Plus(t1, s)
           at2 == [at1 EXCEPT ![s] = n]
<1>1. /\ HasSlot(fs, dir) /\ HeldDir(dir)
      /\ fs' = IF CanAdvance(c1, d, name) THEN put_inode(put_inode(c3, s), d)
               ELSE put_inode(c1, d)
  BY DEF fs_unlink
<1>2. UsedIn(fs, dir) /\ Good(known, entries)
  BY <1>1, HeldDirectory DEF Settled
<1>3. /\ d \in Slots /\ t1 \in Taken /\ t1[d] > 0 /\ Keeps(fs, c1, t1, at1, known, entries)
      /\ at1[d] = dir
  BY <1>1, <1>2, Opened
<1>4. Nothing \in Taken
  BY Start
<1> HIDE DEF c1, d, at1
<1>5. CASE ~CanAdvance(c1, d, name)
  <2>1. Kept(fs, c1, Plus(Nothing, d))
    BY <1>2, <1>3 DEF Kept
  <2> QED
    BY <1>1, <1>3, <1>4, <1>5, <2>1, KeptPut
<1>6. CASE CanAdvance(c1, d, name)
  <2>1. /\ s \in Slots /\ t2 \in Taken /\ t2[s] > 0
        /\ n \in Inums /\ entries[at1[d]][name] # << >>
        /\ Keeps(fs, c2, t2, at2, known, entries)
        /\ at2[s] = n
        /\ \A r \in Slots : t1[r] > 0 => t2[r] > 0 /\ at2[r] = at1[r]
    <3> HIDE DEF t1
    <3>1. Advanced(fs, c1, t1, at1, known, entries, d, name)
      BY <1>2, <1>3, <1>6, AdvancedNext
    <3> QED
      BY <3>1 DEF Advanced
  <2>2. t2[d] > 0 /\ at2[d] = at1[d]
    BY <1>3, <2>1
  <2>3. entries[at2[d]][name] # << >> /\ at2[s] = Head(entries[at2[d]][name])
    BY <2>1, <2>2
  <2> HIDE DEF c2, s, n, at2
  <2>4. Kept(fs, c2, t2)
    BY <1>2, <2>1 DEF Kept
  <2> HIDE DEF t2
  <2>5. ASSUME ~rmdir /\ ~IsDir(c2, s) PROVE Kept(fs, c3, t2)
    <3> DEFINE k == Fewer(known, at2[s])
               e == Drop(entries, at2[d], name)
    <3>1. Keeps(fs, unlink_file(c2, d, s, name), t2, at2, k, e) /\ Good(k, e)
      BY <1>2, <1>3, <2>1, <2>2, <2>3, <2>5, UnlinkFileGood
    <3> HIDE DEF k, e
    <3> QED
      BY <2>5, <3>1 DEF Kept
  <2>6. ASSUME rmdir /\ Removable(c2, s, name) PROVE Kept(fs, c3, t2)
    <3> DEFINE k == RemovedKnown(known, at2[d], at2[s])
               e == RemovedEntries(entries, at2[d], at2[s], name)
    <3>1. Keeps(fs, remove_dir(c2, d, s, name), t2, at2, k, e) /\ Good(k, e)
      BY <1>2, <1>3, <2>1, <2>2, <2>3, <2>6, RemoveDirGood
    <3> HIDE DEF k, e
    <3> QED
      BY <2>6, <3>1 DEF Kept
  <2>7. Kept(fs, c3, t2)
    BY <2>4, <2>5, <2>6
  <2> HIDE DEF c3
  <2>8. Kept(fs, put_inode(c3, s), t1)
    BY <1>3, <2>1, <2>7, KeptPut DEF t2
  <2> QED
    BY <1>1, <1>3, <1>4, <1>6, <2>8, KeptPut
<1> QED
  BY <1>5, <1>6

(* fs_rename does not crash and leaves a good state.                       *)
LEMMA RenameKept ==
  ASSUME NEW known, Settled(fs, known), Refs(fs, vfs), crashed \in BOOLEAN,
         NEW od \in Inums, NEW on \in Names, NEW nd \in Inums, NEW nn \in Names,
         fs_rename(od, on, nd, nn)
  PROVE  crashed' = FALSE /\ Kept(fs, fs', Nothing)
<1> DEFINE o  == SlotOf(fs, od)
           c1 == get_inode(fs, od)
           i  == AdvanceSlot(c1, o, on)
           c2 == Advance(c1, o, on)
           d  == SlotOf(c2, nd)
           c3 == get_inode(c2, nd)
           s  == AdvanceSlot(c3, d, nn)
           c4 == Advance(c3, d, nn)
           entries == fs.entries
           t1 == Plus(Nothing, o)
           at1 == [AtRoot EXCEPT ![o] = od]
           n  == Head(entries[at1[o]][on])
           t2 == Plus(t1, i)
           at2 == [at1 EXCEPT ![i] = n]
           t3 == Plus(t2, d)
           at3 == [at2 EXCEPT ![d] = nd]
           m  == Head(entries[at3[d]][nn])
           t4 == Plus(t3, s)
           at4 == [at3 EXCEPT ![s] = m]
<1>1. /\ ~crashed /\ HasSlot(fs, od) /\ HeldDir(od) /\ HeldDir(nd)
      /\ \/ /\ ~(CanAdvance(c1, o, on) /\ HasSlot(c2, nd))
            /\ fs' = put_inode(IF CanAdvance(c1, o, on) THEN put_inode(c2, i) ELSE c1, o)
            /\ crashed' = crashed
         \/ /\ CanAdvance(c1, o, on) /\ HasSlot(c2, nd)
            /\ fs' = put_inode(put_inode(put_inode(c3, i), o), d)
            /\ crashed' = crashed
         \/ /\ CanAdvance(c1, o, on) /\ HasSlot(c2, nd)
            /\ c3.inode[d].nlinks # 0 /\ CanAdvance(c3, d, nn)
            /\ Renamed(c4, o, on, i, d, nn, <<s>>)
         \/ /\ CanAdvance(c1, o, on) /\ HasSlot(c2, nd)
            /\ c3.inode[d].nlinks # 0
            /\ Renamed(c3, o, on, i, d, nn, << >>)
  BY DEF fs_rename, Serving
<1>2. /\ UsedIn(fs, od) /\ UsedIn(fs, nd) /\ known[nd].mode = I_DIRECTORY
      /\ Good(known, entries)
  BY <1>1, HeldDirectory DEF Settled
<1>3. /\ o \in Slots /\ t1 \in Taken /\ t1[o] > 0 /\ Keeps(fs, c1, t1, at1, known, entries)
  BY <1>1, <1>2, Opened
<1>4. Nothing \in Taken
  BY Start
<1> HIDE DEF c1, o, at1
<1>5. ASSUME CanAdvance(c1, o, on)
      PROVE  /\ i \in Slots /\ t2 \in Taken /\ t2[i] > 0 /\ t2[o] > 0
             /\ n \in Inums /\ entries[at1[o]][on] # << >>
             /\ Keeps(fs, c2, t2, at2, known, entries)
             /\ at2[i] = n /\ at2[o] = at1[o]
  <2> HIDE DEF t1
  <2>1. /\ i \in Slots /\ t2 \in Taken /\ t2[i] > 0
        /\ n \in Inums /\ entries[at1[o]][on] # << >>
        /\ Keeps(fs, c2, t2, at2, known, entries)
        /\ at2[i] = n
        /\ \A r \in Slots : t1[r] > 0 => t2[r] > 0 /\ at2[r] = at1[r]
    <3>1. Advanced(fs, c1, t1, at1, known, entries, o, on)
      BY <1>2, <1>3, <1>5, AdvancedNext
    <3> QED
      BY <3>1 DEF Advanced
  <2> HIDE DEF c2, i, n, at2, t2
  <2> QED
    BY <1>3, <2>1
<1> HIDE DEF c2, i, n, at2
<1>6. ASSUME CanAdvance(c1, o, on), HasSlot(c2, nd)
      PROVE  /\ d \in Slots /\ t3 \in Taken /\ t3[d] > 0 /\ t3[i] > 0 /\ t3[o] > 0
             /\ Keeps(fs, c3, t3, at3, known, entries)
             /\ at3[d] = nd /\ at3[i] = n /\ at3[o] = at1[o]
  <2> HIDE DEF t2
  <2>1. /\ Keeps(fs, c2, t2, at2, known, entries) /\ HasSlot(c2, nd) /\ UsedIn(fs, nd)
        /\ i \in Slots /\ t2[i] > 0 /\ t2[o] > 0 /\ at2[i] = n /\ at2[o] = at1[o]
    BY <1>2, <1>5, <1>6
  <2>2. /\ d \in Slots /\ t3 \in Taken /\ t3[d] > 0
        /\ Keeps(fs, c3, t3, at3, known, entries)
        /\ at3[d] = nd
        /\ \A r \in Slots : t2[r] > 0 => t3[r] > 0 /\ at3[r] = at2[r]
    BY <2>1, OpenedNext
  <2> HIDE DEF c3, d, at3, t3
  <2> QED
    BY <1>3, <2>1, <2>2
<1> HIDE DEF c3, d, at3
<1>7. CASE /\ ~(CanAdvance(c1, o, on) /\ HasSlot(c2, nd))
           /\ fs' = put_inode(IF CanAdvance(c1, o, on) THEN put_inode(c2, i) ELSE c1, o)
           /\ crashed' = crashed
  <2>1. Kept(fs, c1, t1)
    BY <1>2, <1>3 DEF Kept
  <2>2. ASSUME CanAdvance(c1, o, on) PROVE Kept(fs, put_inode(c2, i), t1)
    <3>1. Kept(fs, c2, t2) /\ i \in Slots
      BY <1>2, <1>5, <2>2 DEF Kept
    <3> HIDE DEF t1
    <3> QED
      BY <1>3, <3>1, KeptPut
  <2>3. Kept(fs, fs', Nothing)
    BY <1>3, <1>4, <1>7, <2>1, <2>2, KeptPut
  <2> QED
    BY <1>1, <1>7, <2>3
<1>8. CASE /\ CanAdvance(c1, o, on) /\ HasSlot(c2, nd)
           /\ fs' = put_inode(put_inode(put_inode(c3, i), o), d)
           /\ crashed' = crashed
  <2>1. /\ i \in Slots /\ d \in Slots /\ Kept(fs, c3, t3)
        /\ Plus(Nothing, d) \in Taken /\ Plus(t1, d) \in Taken
    BY <1>2, <1>3, <1>4, <1>5, <1>6, <1>8, TakenPlus DEF Kept
  <2>2. t3 = Plus(Plus(t1, d), i) /\ Plus(t1, d) = Plus(Plus(Nothing, d), o)
    BY <1>3, <1>4, <2>1, TakenSwap
  <2>3. Kept(fs, put_inode(c3, i), Plus(t1, d))
    BY <2>1, <2>2, KeptPut
  <2>4. Kept(fs, put_inode(put_inode(c3, i), o), Plus(Nothing, d))
    BY <1>3, <2>1, <2>2, <2>3, KeptPut
  <2>5. Kept(fs, fs', Nothing)
    BY <1>4, <1>8, <2>1, <2>4, KeptPut
  <2> QED
    BY <1>1, <1>8, <2>5
<1>9. CASE /\ CanAdvance(c1, o, on) /\ HasSlot(c2, nd)
           /\ c3.inode[d].nlinks # 0 /\ CanAdvance(c3, d, nn)
           /\ Renamed(c4, o, on, i, d, nn, <<s>>)
  <2>1. /\ i \in Slots /\ d \in Slots /\ t3[d] > 0 /\ t3[i] > 0 /\ t3[o] > 0
        /\ Keeps(fs, c3, t3, at3, known, entries)
        /\ at3[d] = nd /\ at3[i] = n /\ at3[o] = at1[o]
    BY <1>5, <1>6, <1>9
  <2>2. nd \in Dirs(known)
    BY <1>2, <1>9, <2>1, KeepsSees DEF Dirs
  <2>3. RenameRefs(Nothing, o, i, d, <<s>>) = t4 /\ <<s>> \in {<< >>, <<s>>}
    BY DEF RenameRefs
  <2>4. /\ s \in Slots /\ m \in Inums /\ entries[at3[d]][nn] # << >>
        /\ Keeps(fs, c4, t4, at4, known, entries)
        /\ at4[s] = m
        /\ \A r \in Slots : t3[r] > 0 => t4[r] > 0 /\ at4[r] = at3[r]
    <3>1. /\ d \in Slots /\ t3[d] > 0 /\ CanAdvance(c3, d, nn)
          /\ Keeps(fs, c3, t3, at3, known, entries) /\ Good(known, entries)
      BY <1>2, <1>9, <2>1
    <3> HIDE DEF c3, t3, at3, d, entries
    <3>2. Advanced(fs, c3, t3, at3, known, entries, d, nn)
      BY <3>1, AdvancedNext
    <3> QED
      BY <3>2 DEF Advanced
  <2>5. at4[d] = nd /\ at4[i] = n /\ at4[o] = at1[o]
    BY <1>3, <2>1, <2>4
  <2>6. /\ entries[at4[o]][on] # << >> /\ at4[i] = Head(entries[at4[o]][on])
        /\ at4[d] \in Dirs(known)
        /\ entries[at4[d]][nn] # << >> /\ at4[s] = Head(entries[at4[d]][nn])
    BY <1>5, <1>9, <2>1, <2>2, <2>4, <2>5 DEF n
  <2> HIDE DEF c4, s, m, at4, t4
  <2>7. Keeps(fs, c4, RenameRefs(Nothing, o, i, d, <<s>>), at4, known, entries)
    BY <2>3, <2>4
  <2> QED
    BY <1>2, <1>3, <1>4, <1>9, <2>1, <2>3, <2>4, <2>6, <2>7, RenamedKept
<1>10. CASE /\ CanAdvance(c1, o, on) /\ HasSlot(c2, nd)
            /\ c3.inode[d].nlinks # 0
            /\ Renamed(c3, o, on, i, d, nn, << >>)
  <2>1. /\ i \in Slots /\ d \in Slots /\ t3[d] > 0
        /\ Keeps(fs, c3, t3, at3, known, entries)
        /\ at3[d] = nd /\ at3[i] = n /\ at3[o] = at1[o]
    BY <1>5, <1>6, <1>10
  <2>2. nd \in Dirs(known)
    BY <1>2, <1>10, <2>1, KeepsSees DEF Dirs
  <2>3. RenameRefs(Nothing, o, i, d, << >>) = t3 /\ << >> \in {<< >>, <<o>>}
    BY DEF RenameRefs
  <2>4. /\ entries[at3[o]][on] # << >> /\ at3[i] = Head(entries[at3[o]][on])
        /\ at3[d] \in Dirs(known)
    BY <1>5, <1>10, <2>1, <2>2 DEF n
  <2> HIDE DEF t3
  <2>5. Keeps(fs, c3, RenameRefs(Nothing, o, i, d, << >>), at3, known, entries)
    BY <2>1, <2>3
  <2> QED
    BY <1>2, <1>3, <1>4, <1>10, <2>1, <2>3, <2>4, <2>5, RenamedKept
<1> QED
  BY <1>1, <1>7, <1>8, <1>9, <1>10

-----------------------------------------------------------------------------
(* The references of VFS, when a request gives back what it takes and when *)
(* it leaves one of them to VFS.                                           *)
LEMMA UsedStays ==
  ASSUME NEW base, NEW c, NEW t, Holding(base, c, t), NEW n \in Inums, UsedIn(base, n)
  PROVE  UsedIn(c, n)
<1>1. PICK s \in Slots : base.inode[s].num = n /\ base.inode[s].count > 0
  BY DEF UsedIn
<1>2. /\ c.inode[s].num = n /\ c.inode[s].count = base.inode[s].count + t[s]
      /\ t[s] \in Nat /\ base.inode[s].count \in Nat
  BY <1>1, StateTypes DEF Holding, Taken
<1>3. c.inode[s].count > 0
  BY <1>1, <1>2
<1> QED
  BY <1>2, <1>3 DEF UsedIn

(* The counts stay VFS's when a request keeps nothing.                     *)
LEMMA RefsStay ==
  ASSUME NEW base, NEW c, Holding(base, c, Nothing), NEW held, Refs(base, held)
  PROVE  Refs(c, held)
<1>1. ASSUME NEW s \in Slots, c.inode[s].count > 0
      PROVE  c.inode[s].count = held[c.inode[s].num]
  <2>1. /\ c.inode[s].count = base.inode[s].count + 0 /\ base.inode[s].count \in Nat
        /\ base.inode[s].count > 0 => c.inode[s].num = base.inode[s].num
    BY StateTypes DEF Holding, Nothing
  <2>2. c.inode[s].count = base.inode[s].count
    BY <2>1
  <2> QED
    BY <1>1, <2>1, <2>2 DEF Refs
<1>2. \A n \in Inums : held[n] > 0 => UsedIn(c, n)
  BY UsedStays DEF Refs
<1> QED
  BY <1>1, <1>2 DEF Refs

(* One of its references is VFS's from then on.                            *)
LEMMA RefsTaken ==
  ASSUME NEW base, NEW c, NEW s \in Slots, NEW at, NEW known, NEW entries,
         Keeps(base, c, Plus(Nothing, s), at, known, entries),
         NEW held \in [Inums -> Nat], Refs(base, held)
  PROVE  Refs(c, [held EXCEPT ![at[s]] = @ + 1])
<1> DEFINE t == Plus(Nothing, s)
           n == at[s]
           new == [held EXCEPT ![n] = @ + 1]
<1>1. Nothing \in Taken
  BY DEF Nothing, Taken
<1>2. t[s] = 1 /\ t[s] > 0 /\ \A r \in Slots \ {s} : t[r] = 0
  <2>1. /\ Plus(Nothing, s)[s] > 0 /\ Plus(Nothing, s)[s] = Nothing[s] + 1
        /\ \A r \in Slots \ {s} : Plus(Nothing, s)[r] = Nothing[r]
    BY <1>1, TakenPlus
  <2>2. Nothing[s] + 1 = 1 /\ \A r \in Slots : Nothing[r] = 0
    BY DEF Nothing
  <2> QED
    BY <2>1, <2>2
<1>3. Holding(base, c, t) /\ Tidy(c, known)
  BY DEF Keeps
<1>4. n \in Inums /\ c.inode[s].num = n /\ c.inode[s].count > 0
  BY <1>2, KeepsSees
<1> HIDE DEF t
<1>5. \A r \in Slots : /\ c.inode[r].count = base.inode[r].count + t[r]
                       /\ base.inode[r].count \in Nat
                       /\ base.inode[r].count > 0 => c.inode[r].num = base.inode[r].num
  BY <1>3, StateTypes DEF Holding
<1>6. \A r \in Slots : c.inode[r].num = n => r = s
  BY <1>3, <1>4 DEF Tidy
<1> HIDE DEF n
<1>7. new[n] = held[n] + 1 /\ \A m \in Inums \ {n} : new[m] = held[m]
  BY <1>4
<1>8. c.inode[s].count = base.inode[s].count + 1
  BY <1>2, <1>5
<1>9. base.inode[s].count = held[n]
  <2>1. CASE base.inode[s].count > 0
    BY <1>4, <1>5, <2>1 DEF Refs
  <2>2. CASE base.inode[s].count = 0
    <3>1. ASSUME held[n] > 0 PROVE FALSE
      <4>1. PICK r \in Slots : base.inode[r].num = n /\ base.inode[r].count > 0
        BY <1>4, <3>1 DEF Refs, UsedIn
      <4>2. r = s
        BY <1>5, <1>6, <4>1
      <4> QED
        BY <2>2, <4>1, <4>2
    <3> QED
      BY <1>4, <2>2, <3>1
  <2> QED
    BY <1>5, <2>1, <2>2
<1>10. ASSUME NEW r \in Slots, c.inode[r].count > 0
       PROVE  c.inode[r].count = new[c.inode[r].num]
  <2>1. CASE r = s
    BY <1>4, <1>7, <1>8, <1>9, <2>1
  <2>2. CASE r # s
    <3>1. c.inode[r].count = base.inode[r].count
      BY <1>2, <1>5, <2>2
    <3>2. c.inode[r].num = base.inode[r].num /\ base.inode[r].count > 0
      BY <1>5, <1>10, <3>1
    <3>3. c.inode[r].num \in Inums \ {n}
      <4>1. c.inode[r].num \in Inums
        BY <1>3, <1>10 DEF Holding, Lists
      <4> QED
        BY <1>6, <2>2, <4>1
    <3> QED
      BY <1>7, <3>1, <3>2, <3>3 DEF Refs
  <2> QED
    BY <2>1, <2>2
<1>11. ASSUME NEW m \in Inums, new[m] > 0 PROVE UsedIn(c, m)
  <2>1. CASE m = n
    BY <1>4, <2>1 DEF UsedIn
  <2>2. CASE m # n
    BY <1>3, <1>7, <1>11, <2>2, UsedStays DEF Refs
  <2> QED
    BY <2>1, <2>2
<1> HIDE DEF new
<1>12. Refs(c, new)
  BY <1>10, <1>11 DEF Refs
<1> QED
  BY <1>12 DEF new, n

(* What a request leaves is settled.                                       *)
LEMMA KeepsSettled ==
  ASSUME NEW base, NEW c, NEW t, NEW at, NEW known, NEW entries,
         Keeps(base, c, t, at, known, entries), Good(known, entries)
  PROVE  Settled(c, known)
BY DEF Keeps, Holding, Settled, Sound

(* A request that keeps no reference.                                      *)
LEMMA KeptSettled ==
  ASSUME NEW base, NEW c, Kept(base, c, Nothing), NEW held, Refs(base, held)
  PROVE  (\E known : Settled(c, known)) /\ Refs(c, held)
<1>1. PICK at, known, entries : Keeps(base, c, Nothing, at, known, entries) /\ Good(known, entries)
  BY DEF Kept
<1>2. Settled(c, known) /\ Holding(base, c, Nothing)
  BY <1>1, KeepsSettled DEF Keeps
<1> QED
  BY <1>2, RefsStay

(* fs_lookup leaves VFS a reference to what it finds.                      *)
LEMMA LookupKept ==
  ASSUME NEW known, Settled(fs, known), vfs \in [Inums -> Nat], Refs(fs, vfs),
         NEW dir \in Inums, NEW name \in Names, fs_lookup(dir, name)
  PROVE  (\E k : Settled(fs', k)) /\ Refs(fs', vfs')
<1> DEFINE d  == SlotOf(fs, dir)
           c1 == get_inode(fs, dir)
           s  == AdvanceSlot(c1, d, name)
           t1 == Plus(Nothing, d)
           at1 == [AtRoot EXCEPT ![d] = dir]
           entries == fs.entries
           n  == Head(entries[at1[d]][name])
           t2 == Plus(t1, s)
           at2 == [at1 EXCEPT ![s] = n]
<1>1. /\ HasSlot(fs, dir) /\ HeldDir(dir) /\ CanAdvance(c1, d, name)
      /\ fs' = put_inode(Advance(c1, d, name), d)
      /\ vfs' = [vfs EXCEPT ![LookUp(c1, d, name)] = @ + 1]
  BY DEF fs_lookup
<1>2. UsedIn(fs, dir) /\ Good(known, entries)
  BY <1>1, HeldDirectory DEF Settled
<1>3. /\ d \in Slots /\ t1 \in Taken /\ t1[d] > 0 /\ Keeps(fs, c1, t1, at1, known, entries)
  BY <1>1, <1>2, Opened
<1>4. Nothing \in Taken
  BY Start
<1> HIDE DEF c1, d, at1
<1>5. LookUp(c1, d, name) = n
  <2> HIDE DEF t1
  <2> QED
    BY <1>3, KeepsSees
<1>6. /\ s \in Slots
      /\ Keeps(fs, Advance(c1, d, name), t2, at2, known, entries)
      /\ at2[s] = n
  <2> HIDE DEF t1
  <2>1. /\ s \in Slots /\ Plus(t1, s) \in Taken /\ Plus(t1, s)[s] > 0
        /\ n \in Inums /\ entries[at1[d]][name] # << >>
        /\ Keeps(fs, Advance(c1, d, name), t2, at2, known, entries)
        /\ at2[s] = n
        /\ \A r \in Slots : t1[r] > 0 => Plus(t1, s)[r] > 0 /\ at2[r] = at1[r]
    <3>1. Advanced(fs, c1, t1, at1, known, entries, d, name)
      BY <1>1, <1>2, <1>3, AdvancedNext
    <3> QED
      BY <3>1 DEF Advanced
  <2> QED
    BY <2>1
<1> HIDE DEF s, n, at2
<1>7. Plus(Nothing, s) \in Taken /\ t2 = Plus(Plus(Nothing, s), d)
  BY <1>3, <1>4, <1>6, TakenPlus, TakenSwap
<1>8. Keeps(fs, fs', Plus(Nothing, s), at2, known, entries)
  <2>1. Keeps(fs, Advance(c1, d, name), Plus(Plus(Nothing, s), d), at2, known, entries)
    BY <1>6, <1>7
  <2> QED
    BY <1>1, <1>3, <1>7, <2>1, KeepsPut
<1>9. Settled(fs', known)
  BY <1>2, <1>8, KeepsSettled
<1>10. Refs(fs', [vfs EXCEPT ![at2[s]] = @ + 1])
  BY <1>6, <1>8, RefsTaken
<1> QED
  BY <1>1, <1>5, <1>6, <1>9, <1>10

-----------------------------------------------------------------------------
(* A file gets zones or loses them.                                        *)
LEMMA ZonesSettled ==
  ASSUME NEW c, NEW known, Settled(c, known), NEW s \in Slots, c.inode[s].count > 0,
         NEW zones \in BOOLEAN, NEW e, e = Marked([c EXCEPT !.inode[s].zones = zones], s)
  PROVE  Holding(c, e, Nothing) /\ \E k : Settled(e, k)
<1> DEFINE i == [c.inode[s] EXCEPT !.zones = zones, !.dirty = TRUE]
           n == c.inode[s].num
           k == [known EXCEPT ![n] = OnDisk(i)]
<1>1. /\ c \in State /\ Tidy(c, known) /\ Good(known, c.entries)
      /\ c.inode[s] \in Inode /\ n \in Inums
  BY StateTypes DEF Settled, Sound, Lists
<1>2. Holding(c, e, Nothing)
  BY ZonesHold DEF Settled
<1>3. /\ i \in Inode /\ i.num = n /\ i.count > 0 /\ i.dirty
      /\ i.nlinks = c.inode[s].nlinks /\ i.mode = c.inode[s].mode
  BY <1>1 DEF Inode
<1>4. /\ e.inode = [c.inode EXCEPT ![s] = i] /\ e.disk = c.disk /\ e.imap = c.imap
      /\ e.entries = c.entries
  BY <1>1 DEF State, Marked
<1>5. e \in State /\ Sound(e)
  BY <1>2 DEF Holding, Sound
<1> HIDE DEF i
<1>6. Tidy(e, [known EXCEPT ![i.num] = OnDisk(i)])
  BY <1>1, <1>3, <1>4, <1>5, TidyChanged
<1>7. /\ known \in Inodes /\ OnDisk(i) \in DiskInode
      /\ known[n].nlinks = OnDisk(i).nlinks /\ known[n].mode = OnDisk(i).mode
  <2>1. OnDisk(c.inode[s]) = known[n]
    BY <1>1 DEF Tidy
  <2>2. /\ OnDisk(i) \in DiskInode /\ OnDisk(i).nlinks = i.nlinks /\ OnDisk(i).mode = i.mode
        /\ OnDisk(c.inode[s]).nlinks = c.inode[s].nlinks
        /\ OnDisk(c.inode[s]).mode = c.inode[s].mode
    BY <1>1, <1>3, OnDiskType
  <2> QED
    BY <1>1, <1>3, <2>1, <2>2 DEF Good, Tallied
<1>8. k \in Inodes /\ \A m \in Inums : k[m].nlinks = known[m].nlinks /\ k[m].mode = known[m].mode
  BY <1>1, <1>7 DEF Inodes
<1> HIDE DEF n
<1>9. Good(k, c.entries)
  BY <1>1, <1>8, GoodZones
<1>10. Settled(e, k)
  BY <1>3, <1>4, <1>5, <1>6, <1>9 DEF Settled
<1> QED
  BY <1>2, <1>10

(* fs_ftrunc.                                                              *)
LEMMA TruncSettled ==
  ASSUME NEW known, Settled(fs, known), Refs(fs, vfs), NEW n \in Inums, fs_ftrunc(n)
  PROVE  (\E k : Settled(fs', k)) /\ Refs(fs', vfs')
<1>1. /\ find_inode(fs, n) \in Slots /\ fs.inode[find_inode(fs, n)].count > 0
      /\ fs' = Marked([fs EXCEPT !.inode[find_inode(fs, n)].zones = FALSE], find_inode(fs, n))
      /\ vfs' = vfs
  BY FindInode DEF fs_ftrunc, Settled
<1>2. Holding(fs, fs', Nothing) /\ \E k : Settled(fs', k)
  BY <1>1, ZonesSettled
<1> QED
  BY <1>1, <1>2, RefsStay

(* A write.                                                                *)
LEMMA WriteSettled ==
  ASSUME NEW known, Settled(fs, known), Refs(fs, vfs), NEW n \in Inums, fs_write(n)
  PROVE  (\E k : Settled(fs', k)) /\ Refs(fs', vfs')
<1>1. /\ find_inode(fs, n) \in Slots /\ fs.inode[find_inode(fs, n)].count > 0
      /\ fs' = Marked([fs EXCEPT !.inode[find_inode(fs, n)].zones = TRUE], find_inode(fs, n))
      /\ vfs' = vfs
  BY FindInode DEF fs_write, Settled
<1>2. Holding(fs, fs', Nothing) /\ \E k : Settled(fs', k)
  BY <1>1, ZonesSettled
<1> QED
  BY <1>1, <1>2, RefsStay

-----------------------------------------------------------------------------
(* VFS gives references back.  The state lowered has one reference more    *)
(* than the request leaves, for put_inode.                                 *)
LEMMA Recounted ==
  ASSUME NEW c, Sound(c), NEW s \in Slots, c.inode[s].count > 0,
         NEW less \in Inode, less.num = c.inode[s].num,
         NEW e, e.inode = [c.inode EXCEPT ![s] = less],
         e.unused = c.unused, e.hashed = c.hashed, e = [c EXCEPT !.inode = e.inode]
  PROVE  e \in State /\ (less.count > 0 => Lists(e))
<1>1. c \in State /\ Lists(c) /\ c.inode[s] \in Inode
  BY StateTypes DEF Sound
<1>2. c.inode \in [Slots -> Inode]
  BY <1>1, StateTypes
<1>3. /\ e.inode \in [Slots -> Inode] /\ e.inode[s] = less
      /\ \A r \in Slots \ {s} : e.inode[r] = c.inode[r]
  <2> HIDE DEF Inode
  <2> QED
    BY <1>2
<1>4. e \in State
  BY <1>1, <1>3 DEF State
<1>5. ASSUME less.count > 0 PROVE Lists(e)
  <2>1. \A r \in Slots : e.inode[r].num = c.inode[r].num
    BY <1>3
  <2>2. \A r \in Slots : e.inode[r].count = 0 <=> c.inode[r].count = 0
    BY <1>3, <1>5
  <2>3. /\ Idle(e) = Idle(c) /\ Free(e) = Free(c)
        /\ \A m \in Inums : Holders(e, m) = Holders(c, m)
    BY <2>1, <2>2 DEF Idle, Free, Holders
  <2>4. \A r \in Slots : e.inode[r].count > 0 => e.inode[r].num \in Inums
    BY <1>1, <1>3 DEF Lists
  <2> QED
    BY <1>1, <2>3, <2>4 DEF Lists
<1> QED
  BY <1>4, <1>5

(* Slot s with another count.                                              *)
Counted(c, s, k) == [c EXCEPT !.inode[s].count = k]

Recount(c, e, s, less) ==
  /\ less \in Inode /\ less.num = c.inode[s].num
  /\ OnDisk(less) = OnDisk(c.inode[s]) /\ less.dirty = c.inode[s].dirty
  /\ e.inode = [c.inode EXCEPT ![s] = less]
  /\ e.disk = c.disk /\ e.imap = c.imap /\ e.entries = c.entries
  /\ e \in State /\ (less.count > 0 => Lists(e))
  /\ e.inode[s] = less /\ \A r \in Slots \ {s} : e.inode[r] = c.inode[r]

(* Only the count of one slot changes.                                     *)
LEMMA CountedInode ==
  ASSUME NEW c, Sound(c), NEW s \in Slots, c.inode[s].count > 0, NEW k \in Nat
  PROVE  \E less : less.count = k /\ Recount(c, Counted(c, s, k), s, less)
<1> DEFINE e    == Counted(c, s, k)
           less == [c.inode[s] EXCEPT !.count = k]
<1>1. c \in State /\ Lists(c) /\ c.inode[s] \in Inode /\ c.inode \in [Slots -> Inode]
  BY StateTypes DEF Sound
<1>2. /\ e.inode = [c.inode EXCEPT ![s] = less]
      /\ e.unused = c.unused /\ e.hashed = c.hashed
      /\ e.disk = c.disk /\ e.imap = c.imap /\ e.entries = c.entries
      /\ e = [c EXCEPT !.inode = e.inode]
  BY <1>1 DEF State, Counted
<1>3. less \in Inode /\ less.count = k /\ less.num = c.inode[s].num
  BY <1>1, CountSet
<1>4. OnDisk(less) = OnDisk(c.inode[s]) /\ less.dirty = c.inode[s].dirty
  BY <1>1 DEF OnDisk, Inode
<1> HIDE DEF e, less
<1>5. e \in State /\ (less.count > 0 => Lists(e))
  BY <1>1, <1>2, <1>3, Recounted
<1>6. e.inode[s] = less /\ \A r \in Slots \ {s} : e.inode[r] = c.inode[r]
  BY <1>1, <1>2, <1>3
<1> QED
  <2>1. Recount(c, e, s, less)
    BY <1>2, <1>3, <1>4, <1>5, <1>6 DEF Recount
  <2> QED
    BY <1>3, <2>1 DEF e

(* VFS has less references when fs_putnode has taken them off.             *)
LEMMA RefsLess ==
  ASSUME NEW c, NEW known, Settled(c, known), NEW held \in [Inums -> Nat], Refs(c, held),
         NEW s \in Slots, NEW n \in Inums, c.inode[s].num = n, c.inode[s].count > 0,
         NEW k \in Nat
  PROVE  Refs(Counted(c, s, k), [held EXCEPT ![n] = k])
<1> DEFINE e    == Counted(c, s, k)
           new  == [held EXCEPT ![n] = k]
<1>1. PICK less : less.count = k /\ Recount(c, e, s, less)
  BY CountedInode DEF Settled
<1>2. new[n] = k /\ \A m \in Inums \ {n} : new[m] = held[m]
  OBVIOUS
<1> HIDE DEF e, new
<1>3. \A r \in Slots : c.inode[r].num = n => r = s
  BY DEF Settled, Tidy
<1>4. ASSUME NEW r \in Slots, e.inode[r].count > 0
      PROVE  e.inode[r].count = new[e.inode[r].num]
  <2>1. CASE r = s
    BY <1>1, <1>2, <2>1 DEF Recount
  <2>2. CASE r # s
    <3>1. e.inode[r] = c.inode[r] /\ c.inode[r].num # n
      BY <1>1, <1>3, <2>2 DEF Recount
    <3>2. c.inode[r].num \in Inums
      BY <1>4, <3>1 DEF Settled, Sound, Lists
    <3> QED
      BY <1>2, <1>4, <3>1, <3>2 DEF Refs
  <2> QED
    BY <2>1, <2>2
<1>5. ASSUME NEW m \in Inums, new[m] > 0 PROVE UsedIn(e, m)
  <2>1. CASE m = n
    BY <1>1, <1>2, <1>5, <2>1 DEF UsedIn, Recount
  <2>2. CASE m # n
    <3>1. PICK r \in Slots : c.inode[r].num = m /\ c.inode[r].count > 0
      BY <1>2, <1>5, <2>2 DEF Refs, UsedIn
    <3>2. e.inode[r] = c.inode[r]
      BY <1>1, <2>2, <3>1 DEF Recount
    <3> QED
      BY <3>1, <3>2 DEF UsedIn
  <2> QED
    BY <2>1, <2>2
<1>6. Refs(e, new)
  BY <1>4, <1>5 DEF Refs
<1> QED
  BY <1>6 DEF e, new

(* The counts of a slot in use do not matter while it is in use.           *)
LEMMA CountedTidy ==
  ASSUME NEW c, NEW known, Settled(c, known),
         NEW s \in Slots, NEW n \in Inums, c.inode[s].num = n, c.inode[s].count > 0,
         NEW k \in Nat, k > 0
  PROVE  /\ Tidy(Counted(c, s, k), known)
         /\ Holding(Counted(c, s, k - 1), Counted(c, s, k), Plus(Nothing, s))
<1> DEFINE e    == Counted(c, s, k)
           b    == Counted(c, s, k - 1)
<1>1. c \in State /\ Tidy(c, known) /\ Sound(c)
  BY DEF Settled, Sound
<1>2. k - 1 \in Nat
  OBVIOUS
<1>3. PICK less : less.count = k /\ Recount(c, e, s, less)
  BY <1>1, CountedInode
<1>4. PICK none : none.count = k - 1 /\ Recount(c, b, s, none)
  BY <1>1, <1>2, CountedInode
<1> HIDE DEF e, b
<1>5. OnDisk(less) = known[n] /\ (less.dirty \/ c.disk[n] = OnDisk(less))
  BY <1>1, <1>3 DEF Tidy, Behind, Recount
<1>6. Tidy(e, [known EXCEPT ![n] = OnDisk(less)])
  BY <1>1, <1>3, <1>5, TidyChanged DEF Recount
<1>7. known \in [Inums -> DiskInode]
  BY <1>1 DEF Tidy
<1>8. [known EXCEPT ![n] = OnDisk(less)] = known
  BY <1>5, <1>7, KnownSame
<1>9. Plus(Nothing, s) \in Taken /\ Plus(Nothing, s)[s] = 0 + 1
      /\ \A r \in Slots \ {s} : Plus(Nothing, s)[r] = 0
  <2>1. Nothing \in Taken
    BY Start DEF Settled
  <2> QED
    BY <2>1, TakenPlus DEF Nothing
<1>10. ASSUME NEW r \in Slots
       PROVE  /\ e.inode[r].count = b.inode[r].count + Plus(Nothing, s)[r]
              /\ b.inode[r].count > 0 => e.inode[r].num = b.inode[r].num
  <2>1. CASE r = s
    BY <1>2, <1>3, <1>4, <1>9, <2>1 DEF Recount
  <2>2. CASE r # s
    <3>1. e.inode[r] = c.inode[r] /\ b.inode[r] = c.inode[r] /\ c.inode[r].count \in Nat
      BY <1>1, <1>3, <1>4, <2>2, StateTypes DEF Recount
    <3> QED
      BY <1>9, <2>2, <3>1
  <2> QED
    BY <2>1, <2>2
<1>11. Holding(b, e, Plus(Nothing, s))
  BY <1>3, <1>4, <1>9, <1>10 DEF Holding, Recount
<1> QED
  BY <1>6, <1>8, <1>11 DEF e, b

(* fs_putnode takes off all but one, and put_inode the last.               *)
LEMMA PutnodeSettled ==
  ASSUME NEW known, Settled(fs, known), vfs \in [Inums -> Nat], Refs(fs, vfs),
         NEW n \in Inums, NEW count \in Nat, count > 0, fs_putnode(n, count)
  PROVE  crashed' = crashed /\ (\E k : Settled(fs', k)) /\ Refs(fs', vfs')
<1> DEFINE s == find_inode(fs, n)
           k == vfs[n] - count
           at == [AtRoot EXCEPT ![s] = n]
           b == Counted(fs, s, k)
           e == Counted(fs, s, k + 1)
<1>1. vfs[n] \in Nat /\ count <= vfs[n]
  BY DEF fs_putnode
<1>2. vfs[n] > 0 /\ k \in Nat /\ k + 1 \in Nat /\ k + 1 > 0 /\ (k + 1) - 1 = k
      /\ vfs[n] - (count - 1) = k + 1
  BY <1>1
<1>3. UsedIn(fs, n)
  BY <1>2 DEF Refs
<1>4. InUse(fs, n)
  BY <1>3, CachedSlot DEF Settled, Sound
<1>5. s \in Slots /\ fs.inode[s].count > 0 /\ fs.inode[s].num = n
  BY <1>4, FindInode DEF Settled
<1>6. fs.inode[s].count = vfs[n]
  BY <1>5 DEF Refs
<1>7. /\ fs' = put_inode([fs EXCEPT !.inode[s].count = @ - (count - 1)], s)
      /\ vfs' = [vfs EXCEPT ![n] = @ - count] /\ crashed' = crashed
  BY <1>1, <1>4, <1>6 DEF fs_putnode
<1>8. vfs' = [vfs EXCEPT ![n] = k]
  BY <1>7
<1>9. [fs EXCEPT !.inode[s].count = @ - (count - 1)] = e
  <2>1. fs \in State /\ fs.inode[s] \in Inode
    BY <1>5, StateTypes DEF Settled, Sound
  <2>2. [fs EXCEPT !.inode[s].count = @ - (count - 1)]
          = [fs EXCEPT !.inode[s].count = fs.inode[s].count - (count - 1)]
    OBVIOUS
  <2> QED
    BY <1>2, <1>6, <2>2 DEF Counted
<1> HIDE DEF s, k, b, e
<1>10. Tidy(e, known) /\ Holding(b, e, Plus(Nothing, s))
  BY <1>2, <1>5, CountedTidy DEF b, e
<1>11. Refs(b, vfs')
  BY <1>2, <1>5, <1>8, RefsLess DEF b
<1>12. e.inode[s].num = n /\ e.entries = fs.entries
  <2>1. PICK less : less.count = k + 1 /\ Recount(fs, e, s, less)
    BY <1>2, <1>5, CountedInode DEF e, Settled
  <2> QED
    BY <1>5, <2>1 DEF Recount
<1>13. Nothing \in Taken /\ AtRoot \in [Slots -> Inums]
  BY Start, RootAssumption DEF AtRoot
<1>14. Keeps(b, e, Plus(Nothing, s), at, known, fs.entries)
  <2>1. at \in [Slots -> Inums] /\ at[s] = n
    BY <1>5, <1>13
  <2>2. \A r \in Slots : Plus(Nothing, s)[r] > 0 => r = s
    BY <1>5, <1>13, TakenPlus DEF Nothing
  <2> HIDE DEF at
  <2> QED
    BY <1>10, <1>12, <2>1, <2>2 DEF Keeps
<1> HIDE DEF at
<1>15. Keeps(b, fs', Nothing, at, known, fs.entries)
  <2>1. Keeps(b, put_inode(e, s), Nothing, at, known, fs.entries)
    BY <1>5, <1>13, <1>14, KeepsPut
  <2> QED
    BY <1>7, <1>9, <2>1
<1>16. Settled(fs', known)
  BY <1>15, KeepsSettled DEF Settled
<1>17. Refs(fs', vfs')
  BY <1>11, <1>15, RefsStay DEF Keeps
<1> QED
  BY <1>7, <1>16, <1>17

-----------------------------------------------------------------------------
(* A new inode.  Its number is nobody's: it has no names, no directory has *)
(* it, and no slot caches it.                                              *)
NewInode(b, mode) ==
  [num |-> b, count |-> 1, nlinks |-> 0, mode |-> mode, zones |-> FALSE, dirty |-> TRUE]

(* get_inode allocates no number.                                          *)
LEMMA GetImap ==
  ASSUME NEW c \in State, NEW n
  PROVE  get_inode(c, n).imap = c.imap
<1>1. CASE Cached(c, n)
  BY <1>1 DEF get_inode, Dup, State
<1>2. CASE ~Cached(c, n)
  BY <1>2 DEF get_inode, Load, State
<1> QED
  BY <1>1, <1>2

(* A number that is not allocated has no names and is in no slot.          *)
LEMMA FreeNumber ==
  ASSUME NEW c, NEW known, Sound(c), Tidy(c, known), Good(known, c.entries),
         NEW b \in Inums \ c.imap
  PROVE  /\ known[b].nlinks = 0 /\ \A r \in Slots : c.inode[r].num # b
         /\ [name \in DOMAIN c.entries[b] |-> << >>] = c.entries[b]
<1>1. known[b].nlinks = 0 /\ ~UsedIn(c, b)
  BY DEF Tidy
<1>2. ASSUME NEW r \in Slots, c.inode[r].num = b PROVE FALSE
  <2>1. c.inode[r].count \in Nat /\ ~(c.inode[r].count > 0)
    BY <1>1, <1>2, StateTypes DEF UsedIn, Sound
  <2>2. c.inode[r].count = 0
    BY <2>1
  <2> QED
    BY <1>1, <1>2, <2>2 DEF Tidy
<1>3. b \notin Dirs(known)
  BY <1>1 DEF Dirs
<1>4. c.entries[b] \in [Names -> Seq(Inums)]
  BY StateTypes DEF Sound
<1>5. \A name \in Names : c.entries[b][name] = << >>
  BY <1>3 DEF Good, Shaped
<1>6. [name \in DOMAIN c.entries[b] |-> << >>] = c.entries[b]
  BY <1>4, <1>5
<1> QED
  BY <1>1, <1>2, <1>6

(* alloc_inode marks the number and loads a new inode.                     *)
LEMMA AllocLoads ==
  ASSUME NEW c \in State, NEW b \in Inums, NEW mode,
         [name \in DOMAIN c.entries[b] |-> << >>] = c.entries[b]
  PROVE  /\ alloc_inode(c, b, mode) = Load([c EXCEPT !.imap = c.imap \cup {b}], NewInode(b, mode))
         /\ Same(c, [c EXCEPT !.imap = c.imap \cup {b}])
<1> DEFINE e == [c EXCEPT !.imap = c.imap \cup {b}]
<1>1. c.imap \cup {b} \in SUBSET Inums /\ c.entries \in Entries
  BY StateTypes DEF Entries
<1>2. [c EXCEPT !.imap = @ \cup {b}, !.entries[b] = [name \in DOMAIN @ |-> << >>]]
        = [c EXCEPT !.imap = c.imap \cup {b}, !.entries = [c.entries EXCEPT ![b] = c.entries[b]]]
  BY DEF State
<1>3. [c.entries EXCEPT ![b] = c.entries[b]] = c.entries
  BY <1>1 DEF Entries
<1>4. [c EXCEPT !.imap = c.imap \cup {b}, !.entries = c.entries] = e
  BY DEF State
<1>5. alloc_inode(c, b, mode) = Load(e, NewInode(b, mode))
  BY <1>2, <1>3, <1>4 DEF alloc_inode, NewInode
<1> QED
  BY <1>1, <1>5, ImapSame

(* A new inode is known from then on.                                      *)
LEMMA KeepsAlloc ==
  ASSUME NEW base, NEW c, NEW t, NEW at, NEW known, NEW entries,
         Keeps(base, c, t, at, known, entries), Good(known, entries), c.unused # << >>,
         NEW b \in Inums \ c.imap, NEW mode \in Modes
  PROVE  LET s == Head(c.unused)
             i == NewInode(b, mode)
         IN  /\ s \in Slots /\ t[s] = 0 /\ Plus(t, s) \in Taken
             /\ Keeps(base, alloc_inode(c, b, mode), Plus(t, s), [at EXCEPT ![s] = b],
                      [known EXCEPT ![b] = OnDisk(i)], entries)
             /\ alloc_inode(c, b, mode).inode[s] = i
<1> DEFINE s   == Head(c.unused)
           i   == NewInode(b, mode)
           cb  == [c EXCEPT !.imap = c.imap \cup {b}]
           e   == Load(cb, i)
           at2 == [at EXCEPT ![s] = b]
<1>1. /\ Holding(base, c, t) /\ Tidy(c, known) /\ c \in State /\ Lists(c) /\ t \in Taken
      /\ at \in [Slots -> Inums] /\ c.entries = entries
  BY KeepsTypes DEF Keeps
<1>2. /\ known[b].nlinks = 0 /\ \A r \in Slots : c.inode[r].num # b
      /\ [name \in DOMAIN c.entries[b] |-> << >>] = c.entries[b]
  BY <1>1, FreeNumber DEF Sound
<1>3. alloc_inode(c, b, mode) = e /\ Same(c, cb)
  BY <1>1, <1>2, AllocLoads
<1>4. /\ cb.inode = c.inode /\ cb.disk = c.disk /\ cb.imap = c.imap \cup {b}
      /\ cb.unused = c.unused /\ cb.entries = entries /\ cb \in State
  BY <1>1, <1>3 DEF State, Same
<1> HIDE DEF cb
<1>5. /\ i \in Inode /\ i.num = b /\ i.count = 1 /\ i.dirty
  BY SmallLinks DEF Inode, NewInode
<1> HIDE DEF i
<1>6. Holding(base, cb, t)
  BY <1>1, <1>3, HoldingSame
<1>7. s \in Slots /\ Holding(base, e, Plus(t, s))
  BY <1>4, <1>5, <1>6, HoldingLoad
<1>8. c.inode[s].count = 0
  <2>1. IsListOf(c.unused, Idle(c))
    BY <1>1 DEF Lists
  <2>2. s \in Idle(c)
    BY <2>1, TailList
  <2> QED
    BY <2>2 DEF Idle
<1>9. /\ e.inode = [cb.inode EXCEPT ![s] = i] /\ e.disk = cb.disk /\ e.imap = cb.imap
      /\ e.entries = cb.entries
  BY <1>4 DEF Load, State
<1>10. /\ e.inode = [c.inode EXCEPT ![s] = i] /\ e.disk = c.disk /\ e.imap = c.imap \cup {i.num}
       /\ e.entries = entries
  BY <1>4, <1>5, <1>9
<1>11. e \in State
  BY <1>7 DEF Holding
<1> HIDE DEF e, s
<1>12. Tidy(e, [known EXCEPT ![i.num] = OnDisk(i)])
  <2>1. i.dirty \/ c.disk[i.num] = OnDisk(i)
    BY <1>5
  <2>2. \A r \in Slots : c.inode[r].num # i.num
    BY <1>2, <1>5
  <2>3. i.num \in Inums /\ i.count > 0
    BY <1>5
  <2>4. e.inode = [c.inode EXCEPT ![s] = i] /\ e.disk = c.disk /\ e.imap = c.imap \cup {i.num}
    BY <1>10
  <2> QED
    BY <1>1, <1>5, <1>7, <1>8, <1>11, <2>1, <2>2, <2>3, <2>4, TidyLoaded
<1>13. t[s] = 0
  <2>1. 0 = base.inode[s].count + t[s] /\ base.inode[s].count \in Nat /\ t[s] \in Nat
    <3>1. base \in State /\ c.inode[s].count = base.inode[s].count + t[s]
      BY <1>1, <1>7 DEF Holding
    <3> QED
      BY <1>1, <1>7, <1>8, <3>1, StateTypes DEF Taken
  <2> QED
    BY <2>1
<1>14. Plus(t, s) \in Taken /\ \A r \in Slots \ {s} : Plus(t, s)[r] = t[r]
  BY <1>1, <1>7, TakenPlus
<1>15. c.inode \in [Slots -> Inode]
  BY <1>1, StateTypes
<1>16. /\ e.inode[s] = i /\ \A r \in Slots \ {s} : e.inode[r] = c.inode[r]
       /\ at2 \in [Slots -> Inums] /\ at2[s] = b /\ \A r \in Slots \ {s} : at2[r] = at[r]
  BY <1>1, <1>7, <1>10, <1>15
<1> HIDE DEF at2
<1>17. \A r \in Slots : Plus(t, s)[r] > 0 => e.inode[r].num = at2[r]
  BY <1>5, <1>14, <1>16 DEF Keeps
<1>18. Keeps(base, e, Plus(t, s), at2, [known EXCEPT ![b] = OnDisk(i)], entries)
  BY <1>5, <1>7, <1>10, <1>12, <1>16, <1>17 DEF Keeps
<1> QED
  BY <1>3, <1>7, <1>13, <1>14, <1>16, <1>18 DEF s, i, at2

(* rw_inode within a request.                                              *)
LEMMA KeepsWritten ==
  ASSUME NEW base, NEW c, NEW t, NEW at, NEW known, NEW entries,
         Keeps(base, c, t, at, known, entries), NEW s \in Slots, t[s] > 0
  PROVE  Keeps(base, Written(c, s), t, at, known, entries)
<1> DEFINE e == Written(c, s)
<1>1. c \in State /\ Tidy(c, known) /\ c.inode[s].num \in Inums /\ c.inode[s].count > 0
  BY KeepsTypes, KeepsSees DEF Keeps
<1>2. Tidy(e, known)
  BY <1>1, WrittenTidy
<1>3. Same(c, e)
  BY <1>1, WrittenSame
<1>4. Holding(base, e, t)
  BY <1>3, HoldingSame DEF Keeps
<1>5. e.entries = entries
  BY <1>1 DEF Written, State, Keeps
<1> HIDE DEF e
<1>6. \A r \in Slots : t[r] > 0 => e.inode[r].num = at[r]
  BY <1>3 DEF Same, Keeps
<1>7. Keeps(base, e, t, at, known, entries)
  BY <1>2, <1>4, <1>5, <1>6 DEF Keeps
<1> QED
  BY <1>7 DEF e

(* The entries of a whole directory replaced.                              *)
LEMMA KeepsDirectory ==
  ASSUME NEW base, NEW c, NEW t, NEW at, NEW known, NEW entries,
         Keeps(base, c, t, at, known, entries),
         NEW n \in Inums, NEW names \in [Names -> Seq(Inums)]
  PROVE  Keeps(base, [c EXCEPT !.entries[n] = names], t, at, known,
               [entries EXCEPT ![n] = names])
<1> DEFINE e == [c EXCEPT !.entries[n] = names]
<1>1. c \in State
  BY KeepsTypes
<1>2. Same(c, e)
  BY <1>1, DirectorySame
<1>3. Holding(base, e, t)
  BY <1>2, HoldingSame DEF Keeps
<1>4. /\ e.inode = c.inode /\ e.disk = c.disk /\ e.imap = c.imap
      /\ e.entries = [entries EXCEPT ![n] = names]
  BY <1>1 DEF State, Keeps
<1> HIDE DEF e
<1>5. Tidy(e, known)
  BY <1>4, TidySame DEF Keeps
<1>6. Keeps(base, e, t, at, known, [entries EXCEPT ![n] = names])
  BY <1>3, <1>4, <1>5 DEF Keeps
<1> QED
  BY <1>6 DEF e

Born(known, b, nlinks, mode, zones) ==
  [known EXCEPT ![b] = [nlinks |-> nlinks, mode |-> mode, zones |-> zones]]

(* The new inode in slot s gets its first name, in directory d.            *)
LEMMA KeepsNew ==
  ASSUME NEW base, NEW c, NEW t, NEW at, NEW known, NEW entries,
         Keeps(base, c, t, at, known, entries), Good(known, entries), c.unused # << >>,
         NEW b \in Inums \ c.imap, NEW mode \in Modes,
         NEW d \in Slots, t[d] > 0, NEW name \in Names
  PROVE  LET s   == Head(c.unused)
             new == [alloc_inode(c, b, mode) EXCEPT !.inode[s].nlinks = 1]
         IN  /\ s \in Slots /\ s # d
             /\ Keeps(base, Entered(Written(new, s), d, name, b),
                      Plus(t, s), [at EXCEPT ![s] = b],
                      Born(known, b, 1, mode, FALSE), Enter(entries, at[d], name, b))
<1> DEFINE s   == Head(c.unused)
           i   == NewInode(b, mode)
           a   == alloc_inode(c, b, mode)
           one == [i EXCEPT !.nlinks = 1]
           new == [a EXCEPT !.inode[s].nlinks = 1]
           t2  == Plus(t, s)
           at2 == [at EXCEPT ![s] = b]
           k   == [known EXCEPT ![b] = OnDisk(i)]
           k1  == Born(known, b, 1, mode, FALSE)
<1>1. /\ s \in Slots /\ t[s] = 0 /\ t2 \in Taken
      /\ Keeps(base, a, t2, at2, k, entries)
      /\ a.inode[s] = i
  BY KeepsAlloc
<1>2. /\ i.num = b /\ i.count = 1 /\ i.dirty /\ one \in Inode /\ one.num = b /\ one.count = 1
      /\ one.dirty /\ OnDisk(one) = [nlinks |-> 1, mode |-> mode, zones |-> FALSE]
  BY SmallLinks DEF NewInode, Inode, OnDisk
<1>3. s # d
  BY <1>1
<1>4. t2[s] > 0 /\ t2[d] > 0
  <2>1. t \in Taken
    BY KeepsTypes
  <2> QED
    BY <1>1, <2>1, TakenPlus
<1>5. new = [a EXCEPT !.inode[s] = one]
  <2>1. a \in State
    BY <1>1, KeepsTypes
  <2> QED
    BY <1>1, <2>1
<1>6. at2[s] = b /\ at2[d] = at[d]
  BY <1>1, <1>3, KeepsTypes
<1>7. [k EXCEPT ![b] = OnDisk(one)] = k1
  <2>1. known \in [Inums -> DiskInode]
    BY KeepsTypes
  <2> QED
    BY <1>2, <2>1 DEF Born
<1> HIDE DEF i, a, one, t2, at2, k, k1, s, new
<1>8. Keeps(base, new, t2, at2, k1, entries)
  <2>1. Keeps(base, [a EXCEPT !.inode[s] = one], t2, at2, [k EXCEPT ![at2[s]] = OnDisk(one)],
              entries)
    BY <1>1, <1>2, <1>4, KeepsSet
  <2> QED
    BY <1>5, <1>6, <1>7, <2>1
<1>9. Keeps(base, Written(new, s), t2, at2, k1, entries)
  BY <1>1, <1>4, <1>8, KeepsWritten
<1>10. Keeps(base, Entered(Written(new, s), d, name, b), t2, at2, k1,
             Enter(entries, at2[d], name, b))
  BY <1>4, <1>9, KeepsEntered
<1> QED
  BY <1>1, <1>3, <1>6, <1>10 DEF s, a, new, t2, at2, k1

(* A file with its name: counts and tree are right.                        *)
LEMMA GoodNewFile ==
  ASSUME NEW known, NEW entries, Good(known, entries), NEW b \in Inums, known[b].nlinks = 0,
         NEW dir \in Dirs(known), NEW name \in FileNames
  PROVE  Good(Born(known, b, 1, I_REGULAR, FALSE), Enter(entries, dir, name, b))
<1> DEFINE i  == [nlinks |-> 0, mode |-> I_REGULAR, zones |-> FALSE]
           k0 == [known EXCEPT ![b] = i]
<1>1. i \in DiskInode /\ i.nlinks = 0 /\ i.mode # I_DIRECTORY
  BY SmallLinks, ModesAssumption DEF DiskInode, Modes
<1>2. known \in Inodes
  BY DEF Good, Tallied
<1>3. /\ k0[b] = i /\ dir \in Dirs(k0)
      /\ More(k0, b) = Born(known, b, 1, I_REGULAR, FALSE)
  BY <1>2 DEF Inodes, Dirs, More, Born
<1> HIDE DEF i
<1>4. Good(k0, entries)
  BY <1>1, GoodReborn
<1>5. k0[b].nlinks + 1 \in Links
  BY <1>1, <1>3, SmallLinks
<1> HIDE DEF k0
<1>6. Good(More(k0, b), Enter(entries, dir, name, b))
  BY <1>1, <1>3, <1>4, <1>5, GoodLinked
<1> QED
  BY <1>3, <1>6

(* The second link of a new directory.                                     *)
LEMMA OneMore ==
  ASSUME NEW mode, NEW zones, NEW i, i = [nlinks |-> 1, mode |-> mode, zones |-> zones]
  PROVE  [i EXCEPT !.nlinks = @ + 1] = [nlinks |-> 2, mode |-> mode, zones |-> zones]
OBVIOUS

(* A directory with its name, its dots and its parent's link.              *)
LEMMA GoodNewDirectory ==
  ASSUME NEW known, NEW entries, Good(known, entries), NEW b \in Inums, known[b].nlinks = 0,
         NEW dir \in Dirs(known), known[dir].nlinks + 1 \in Links, NEW name \in FileNames,
         NEW zones \in BOOLEAN
  PROVE  LET k2 == Born(known, b, 2, I_DIRECTORY, zones)
         IN  /\ Good(More(k2, dir), [Enter(entries, dir, name, b) EXCEPT ![b] = Dots(b, dir)])
             /\ k2[dir] = known[dir]
<1> DEFINE i  == [nlinks |-> 1, mode |-> I_DIRECTORY, zones |-> zones]
           k1 == [known EXCEPT ![b] = i]
           k2 == Born(known, b, 2, I_DIRECTORY, zones)
<1>1. i \in DiskInode /\ i.nlinks = 1 /\ i.mode = I_DIRECTORY
  BY SmallLinks DEF DiskInode, Modes
<1>2. known \in Inodes
  BY DEF Good, Tallied
<1>3. /\ k1 \in Inodes /\ k1[b] = i /\ \A m \in Inums : m # b => k1[m] = known[m]
  BY <1>1, <1>2 DEF Inodes
<1>4. More(k1, b) = k2
  <2>1. [i EXCEPT !.nlinks = @ + 1] = [nlinks |-> 2, mode |-> I_DIRECTORY, zones |-> zones]
    BY OneMore
  <2> HIDE DEF i
  <2> QED
    BY <1>2, <2>1 DEF Inodes, More, Born
<1>5. dir # b /\ k2[dir] = known[dir]
  BY <1>2 DEF Dirs, Born, Inodes
<1> HIDE DEF i, k1, k2
<1>6. Good(More(More(k1, b), dir), [Enter(entries, dir, name, b) EXCEPT ![b] = Dots(b, dir)])
  BY <1>1, <1>3, GoodCreated
<1> QED
  BY <1>4, <1>5, <1>6 DEF k2

(* The inode of a new directory: its zones and its second link.            *)
LEMMA KeepsDots ==
  ASSUME NEW base, NEW c, NEW t, NEW at, NEW known, NEW entries,
         NEW b \in Inums, NEW up \in Inums, NEW s \in Slots, t[s] > 0, at[s] = b,
         Keeps(base, c, t, at, Born(known, b, 1, I_DIRECTORY, FALSE), entries),
         known \in Inodes
  PROVE  Keeps(base, Linked([c EXCEPT !.entries[b] = Dots(b, up), !.inode[s].zones = TRUE], s),
               t, at, Born(known, b, 2, I_DIRECTORY, TRUE), [entries EXCEPT ![b] = Dots(b, up)])
<1> DEFINE k1  == Born(known, b, 1, I_DIRECTORY, FALSE)
           e   == [c EXCEPT !.entries[b] = Dots(b, up)]
           i   == [e.inode[s] EXCEPT !.zones = TRUE, !.nlinks = 2, !.dirty = TRUE]
           new == [entries EXCEPT ![b] = Dots(b, up)]
<1>1. Keeps(base, e, t, at, k1, new)
  BY DotsType, KeepsDirectory
<1>2. /\ e \in State /\ e.inode[s] \in Inode /\ OnDisk(e.inode[s]) = k1[b]
      /\ c \in State /\ e.inode[s].num = b
  <2> HIDE DEF e, k1, new
  <2>1. c \in State
    BY KeepsTypes DEF k1
  <2>2. e \in State
    BY <1>1, KeepsTypes
  <2>3. e.inode[s] \in Inode /\ OnDisk(e.inode[s]) = k1[at[s]] /\ e.inode[s].num = at[s]
    BY <1>1, KeepsSees
  <2> QED
    BY <2>1, <2>2, <2>3
<1>3. k1[b] = [nlinks |-> 1, mode |-> I_DIRECTORY, zones |-> FALSE]
  BY DEF Born, Inodes
<1>4. e.inode[s].nlinks = 1 /\ e.inode[s].mode = I_DIRECTORY
  <2> HIDE DEF e, k1
  <2> QED
    BY <1>2, <1>3, OnDiskType
<1>5. U16(e.inode[s].nlinks + 1) = 2
  BY <1>4 DEF U16
<1>6. Linked([c EXCEPT !.entries[b] = Dots(b, up), !.inode[s].zones = TRUE], s)
        = [e EXCEPT !.inode[s] = i]
  <2>1. [c EXCEPT !.entries[b] = Dots(b, up), !.inode[s].zones = TRUE]
          = [e EXCEPT !.inode[s].zones = TRUE]
    OBVIOUS
  <2>2. Linked([e EXCEPT !.inode[s].zones = TRUE], s) = [e EXCEPT !.inode[s] = i]
    <3> HIDE DEF e
    <3>1. [e EXCEPT !.inode[s].zones = TRUE].inode[s].nlinks = e.inode[s].nlinks
      BY <1>2 DEF State, Inode
    <3> QED
      BY <1>2, <1>5, <3>1 DEF Linked, Marked, State, Inode
  <2> QED
    BY <2>1, <2>2
<1>7. /\ i \in Inode /\ i.num = e.inode[s].num /\ i.count = e.inode[s].count /\ i.dirty
      /\ OnDisk(i) = [nlinks |-> 2, mode |-> I_DIRECTORY, zones |-> TRUE]
  <2> HIDE DEF e
  <2> QED
    BY <1>2, <1>4, SmallLinks DEF Inode, OnDisk
<1>8. [k1 EXCEPT ![b] = [nlinks |-> 2, mode |-> I_DIRECTORY, zones |-> TRUE]]
        = Born(known, b, 2, I_DIRECTORY, TRUE)
  BY DEF Born, Inodes
<1> HIDE DEF k1, e, i, new
<1>9. Keeps(base, [e EXCEPT !.inode[s] = i], t, at, [k1 EXCEPT ![at[s]] = OnDisk(i)], new)
  BY <1>1, <1>7, KeepsSet
<1> QED
  BY <1>6, <1>7, <1>8, <1>9 DEF new

(* What fs_create and fs_mkdir have in common: the inode, then its name.   *)
LEMMA CreateOpens ==
  ASSUME NEW known, Settled(fs, known), Refs(fs, vfs), NEW dir \in Inums,
         NEW name \in FileNames, NEW mode \in Modes,
         HasSlot(fs, dir), HeldDir(dir), fs.inode[SlotOf(fs, dir)].nlinks # 0,
         NEW b \in Inums \ fs.imap,
         get_inode(fs, dir).unused # << >>
  PROVE  LET d  == SlotOf(fs, dir)
             c1 == get_inode(fs, dir)
             s  == Head(c1.unused)
             c2 == alloc_inode(c1, b, mode)
             c3 == Entered(Written([c2 EXCEPT !.inode[s].nlinks = 1], s), d, name, b)
         IN  /\ d \in Slots /\ s \in Slots /\ dir \in Dirs(known) /\ known[b].nlinks = 0
             /\ fs.inode[d].nlinks = known[dir].nlinks
             /\ \E at : /\ at[s] = b /\ at[d] = dir
                        /\ Keeps(fs, c3, Plus(Plus(Nothing, s), d), at,
                                 Born(known, b, 1, mode, FALSE), Enter(fs.entries, dir, name, b))
<1> DEFINE d   == SlotOf(fs, dir)
           c1  == get_inode(fs, dir)
           s   == Head(c1.unused)
           c2  == alloc_inode(c1, b, mode)
           new == [c2 EXCEPT !.inode[s].nlinks = 1]
           c3  == Entered(Written(new, s), d, name, b)
           t1  == Plus(Nothing, d)
           at1 == [AtRoot EXCEPT ![d] = dir]
           at2 == [at1 EXCEPT ![s] = b]
           entries == fs.entries
<1>1. UsedIn(fs, dir) /\ known[dir].mode = I_DIRECTORY
  BY HeldDirectory
<1>2. fs \in State /\ Lists(fs) /\ Tidy(fs, known) /\ Good(known, entries)
  BY DEF Settled, Sound
<1>3. /\ d \in Slots /\ t1 \in Taken /\ t1[d] > 0 /\ Keeps(fs, c1, t1, at1, known, entries)
      /\ at1[d] = dir
  BY <1>1, Opened
<1>4. fs.inode[d].num = dir
  <2>1. Cached(fs, dir)
    BY <1>1, <1>2, CachedSlot DEF UsedIn
  <2> QED
    BY <1>2, <2>1, CachedSlot
<1>5. fs.inode[d].nlinks = known[dir].nlinks
  <2>1. OnDisk(fs.inode[d]) = known[dir] /\ fs.inode[d] \in Inode
    BY <1>2, <1>3, <1>4, StateTypes DEF Tidy
  <2> QED
    BY <2>1, OnDiskType
<1>6. dir \in Dirs(known)
  BY <1>1, <1>5 DEF Dirs
<1>7. known[b].nlinks = 0
  BY <1>2 DEF Tidy
<1>8. b \in Inums \ c1.imap /\ name \in Names
  BY <1>2, GetImap, DotNames
<1>9. Nothing \in Taken
  BY Start
<1> HIDE DEF d, c1, at1, t1, entries
<1>10. /\ s \in Slots /\ s # d
       /\ Keeps(fs, c3, Plus(t1, s), at2, Born(known, b, 1, mode, FALSE),
                Enter(entries, at1[d], name, b))
  BY <1>2, <1>3, <1>8, KeepsNew DEF c1
<1>11. at2[s] = b /\ at2[d] = dir
  <2>1. at1 \in [Slots -> Inums]
    BY <1>3, KeepsTypes
  <2> QED
    BY <1>3, <1>10, <2>1
<1> HIDE DEF s, at2, c3
<1>12. Plus(t1, s) = Plus(Plus(Nothing, s), d)
  BY <1>3, <1>9, <1>10, TakenSwap DEF t1
<1>13. Keeps(fs, c3, Plus(Plus(Nothing, s), d), at2,
             Born(known, b, 1, mode, FALSE), Enter(entries, dir, name, b))
  BY <1>3, <1>10, <1>12
<1> QED
  BY <1>3, <1>5, <1>6, <1>7, <1>10, <1>11, <1>13 DEF s, d, c1, c3, entries

(* fs_create leaves the reference to VFS.                                  *)
LEMMA CreateFile ==
  ASSUME NEW known, Good(known, fs.entries), vfs \in [Inums -> Nat], Refs(fs, vfs),
         NEW dir \in Dirs(known), NEW name \in FileNames,
         NEW b \in Inums, known[b].nlinks = 0,
         NEW c, NEW s \in Slots, NEW d \in Slots, NEW at, at[s] = b,
         Keeps(fs, c, Plus(Plus(Nothing, s), d), at, Born(known, b, 1, I_REGULAR, FALSE),
               Enter(fs.entries, dir, name, b))
  PROVE  /\ \E k : Settled(put_inode(c, d), k)
         /\ Refs(put_inode(c, d), [vfs EXCEPT ![b] = @ + 1])
<1> DEFINE k1 == Born(known, b, 1, I_REGULAR, FALSE)
           e1 == Enter(fs.entries, dir, name, b)
           p  == put_inode(c, d)
<1>1. Plus(Nothing, s) \in Taken
  <2>1. Nothing \in Taken
    BY DEF Nothing, Taken
  <2> QED
    BY <2>1, TakenPlus
<1>2. Good(k1, e1)
  BY GoodNewFile
<1>3. Keeps(fs, p, Plus(Nothing, s), at, k1, e1)
  BY <1>1, KeepsPut
<1> HIDE DEF k1, e1, p
<1>4. Settled(p, k1)
  BY <1>2, <1>3, KeepsSettled
<1>5. Refs(p, [vfs EXCEPT ![at[s]] = @ + 1])
  BY <1>3, RefsTaken
<1> QED
  BY <1>4, <1>5 DEF p

(* fs_mkdir enters the dots and gives the reference back.                  *)
LEMMA CreateDirectory ==
  ASSUME NEW known, Good(known, fs.entries), Refs(fs, vfs),
         NEW dir \in Dirs(known), known[dir].nlinks + 1 \in Links, NEW name \in FileNames,
         NEW b \in Inums, known[b].nlinks = 0,
         NEW c, NEW s \in Slots, NEW d \in Slots, NEW at, at[s] = b, at[d] = dir,
         Keeps(fs, c, Plus(Plus(Nothing, s), d), at, Born(known, b, 1, I_DIRECTORY, FALSE),
               Enter(fs.entries, dir, name, b)),
         NEW e,
         e = Linked(Linked([c EXCEPT !.entries[b] = Dots(b, dir), !.inode[s].zones = TRUE], s), d)
  PROVE  /\ \E k : Settled(put_inode(put_inode(e, s), d), k)
         /\ Refs(put_inode(put_inode(e, s), d), vfs)
<1> DEFINE zones == TRUE
           k2 == Born(known, b, 2, I_DIRECTORY, zones)
           e1 == Enter(fs.entries, dir, name, b)
           e2 == [e1 EXCEPT ![b] = Dots(b, dir)]
           cl == Linked([c EXCEPT !.entries[b] = Dots(b, dir), !.inode[s].zones = TRUE], s)
           t  == Plus(Plus(Nothing, s), d)
<1>1. Nothing \in Taken /\ t \in Taken /\ t[s] > 0 /\ t[d] > 0 /\ dir \in Inums
  <2>1. Nothing \in Taken
    BY DEF Nothing, Taken
  <2>2. Plus(Nothing, s) \in Taken /\ Plus(Nothing, s)[s] > 0
    BY <2>1, TakenPlus
  <2> QED
    BY <2>1, <2>2, TakenPlus DEF Dirs
<1>2. known \in Inodes
  BY DEF Good, Tallied
<1> HIDE DEF t, e1
<1>3. Keeps(fs, cl, t, at, k2, e2)
  BY <1>1, <1>2, KeepsDots DEF t, e1
<1>4. zones \in BOOLEAN
  OBVIOUS
<1> HIDE DEF zones, k2, cl, e2
<1>5. Good(More(k2, dir), e2) /\ k2[dir] = known[dir]
  BY <1>4, GoodNewDirectory DEF k2, e2, e1
<1>6. Keeps(fs, Linked(cl, d), t, at, More(k2, at[d]), e2)
  BY <1>1, <1>3, <1>5, KeepsLinked
<1>7. e = Linked(cl, d)
  BY DEF cl
<1>8. Kept(fs, e, t)
  BY <1>5, <1>6, <1>7 DEF Kept
<1>9. Kept(fs, put_inode(put_inode(e, s), d), Nothing)
  BY <1>1, <1>8, PutTwo DEF t
<1> QED
  BY <1>9, KeptSettled

(* fs_create and fs_mkdir, on each of their paths.                         *)
LEMMA CreateSettled ==
  ASSUME NEW known, Settled(fs, known), vfs \in [Inums -> Nat], Refs(fs, vfs),
         NEW dir \in Inums, NEW name \in FileNames, NEW mode \in Modes,
         fs_create(dir, name, mode)
  PROVE  (\E k : Settled(fs', k)) /\ Refs(fs', vfs')
<1> DEFINE d  == SlotOf(fs, dir)
           c1 == get_inode(fs, dir)
           s  == Head(c1.unused)
<1>1. PICK b \in Inums \ fs.imap :
        LET c2 == alloc_inode(c1, b, mode)
            c3 == Entered(Written([c2 EXCEPT !.inode[s].nlinks = 1], s), d, name, b)
            c4 == Linked(Linked([c3 EXCEPT !.entries[b] = Dots(b, dir),
                                           !.inode[s].zones = TRUE], s), d)
        IN  /\ HasSlot(fs, dir) /\ HeldDir(dir) /\ fs.inode[d].nlinks # 0
            /\ c1.unused # << >>
            /\ \/ /\ mode = I_REGULAR
                  /\ fs' = put_inode(c3, d)
                  /\ vfs' = [vfs EXCEPT ![b] = @ + 1]
               \/ /\ mode = I_DIRECTORY /\ fs.inode[d].nlinks < LINK_MAX
                  /\ fs' = put_inode(put_inode(c4, s), d)
                  /\ vfs' = vfs
  BY DEF fs_create
<1> DEFINE c3 == Entered(Written([alloc_inode(c1, b, mode) EXCEPT !.inode[s].nlinks = 1], s),
                         d, name, b)
           c4 == Linked(Linked([c3 EXCEPT !.entries[b] = Dots(b, dir),
                                          !.inode[s].zones = TRUE], s), d)
<1>2. /\ d \in Slots /\ s \in Slots /\ dir \in Dirs(known) /\ known[b].nlinks = 0
      /\ fs.inode[d].nlinks = known[dir].nlinks
      /\ \E at : /\ at[s] = b /\ at[d] = dir
                 /\ Keeps(fs, c3, Plus(Plus(Nothing, s), d), at,
                          Born(known, b, 1, mode, FALSE), Enter(fs.entries, dir, name, b))
  BY <1>1, CreateOpens
<1>3. /\ \/ /\ mode = I_REGULAR
            /\ fs' = put_inode(c3, d)
            /\ vfs' = [vfs EXCEPT ![b] = @ + 1]
         \/ /\ mode = I_DIRECTORY /\ fs.inode[d].nlinks < LINK_MAX
            /\ fs' = put_inode(put_inode(c4, s), d)
            /\ vfs' = vfs
      /\ b \in Inums
  BY <1>1
<1> HIDE DEF c3, s, d
<1>4. PICK at : /\ at[s] = b /\ at[d] = dir
                /\ Keeps(fs, c3, Plus(Plus(Nothing, s), d), at,
                         Born(known, b, 1, mode, FALSE), Enter(fs.entries, dir, name, b))
  BY <1>2
<1>5. Good(known, fs.entries)
  BY DEF Settled
<1>6. CASE mode = I_REGULAR /\ fs' = put_inode(c3, d) /\ vfs' = [vfs EXCEPT ![b] = @ + 1]
  <2>1. Keeps(fs, c3, Plus(Plus(Nothing, s), d), at, Born(known, b, 1, I_REGULAR, FALSE),
              Enter(fs.entries, dir, name, b))
    BY <1>4, <1>6
  <2>2. /\ \E k : Settled(put_inode(c3, d), k)
        /\ Refs(put_inode(c3, d), [vfs EXCEPT ![b] = @ + 1])
    BY <1>2, <1>3, <1>4, <1>5, <2>1, CreateFile
  <2> QED
    BY <1>6, <2>2
<1>7. CASE /\ mode = I_DIRECTORY /\ fs.inode[d].nlinks < LINK_MAX
           /\ fs' = put_inode(put_inode(c4, s), d) /\ vfs' = vfs
  <2>1. known[dir].nlinks + 1 \in Links
    <3>1. known[dir].nlinks \in Links
      BY <1>2, <1>5 DEF Good, Tallied, Inodes, DiskInode, Dirs
    <3> QED
      BY <1>2, <1>7, <3>1, FewLinks
  <2>2. Keeps(fs, c3, Plus(Plus(Nothing, s), d), at, Born(known, b, 1, I_DIRECTORY, FALSE),
              Enter(fs.entries, dir, name, b))
    BY <1>4, <1>7
  <2>3. c4 = Linked(Linked([c3 EXCEPT !.entries[b] = Dots(b, dir), !.inode[s].zones = TRUE], s), d)
    OBVIOUS
  <2> HIDE DEF c4
  <2>4. /\ \E k : Settled(put_inode(put_inode(c4, s), d), k)
        /\ Refs(put_inode(put_inode(c4, s), d), vfs)
    BY <1>2, <1>3, <1>4, <1>5, <2>1, <2>2, <2>3, CreateDirectory
  <2> QED
    BY <1>7, <2>4
<1> QED
  BY <1>3, <1>6, <1>7

-----------------------------------------------------------------------------
(* The beginning: the root directory with its dots, and VFS's reference.   *)

(* What mkfs leaves: the root directory, named by its dots.                *)
LEMMA RootTypes ==
  /\ RootOnly \in Inodes /\ RootDots \in Entries
  /\ RootOnly[ROOT_INODE].nlinks = 2 /\ RootOnly[ROOT_INODE].mode = I_DIRECTORY
  /\ \A n \in Inums \ {ROOT_INODE} : RootOnly[n].nlinks = 0
  /\ RootDots[ROOT_INODE][dot1] = <<ROOT_INODE>> /\ RootDots[ROOT_INODE][dot2] = <<ROOT_INODE>>
  /\ \A name \in FileNames : RootDots[ROOT_INODE][name] = << >>
  /\ \A n \in Inums \ {ROOT_INODE}, name \in Names : RootDots[n][name] = << >>
<1>1. RootOnly \in Inodes
  <2> DEFINE root == [nlinks |-> 2, mode |-> I_DIRECTORY, zones |-> TRUE]
             none == [nlinks |-> 0, mode |-> I_REGULAR, zones |-> FALSE]
  <2>1. root \in DiskInode /\ none \in DiskInode
    BY SmallLinks DEF DiskInode, Modes
  <2>2. RootOnly = [n \in Inums |-> IF n = ROOT_INODE THEN root ELSE none]
    BY DEF RootOnly
  <2> HIDE DEF root, none
  <2> QED
    BY <2>1, <2>2 DEF Inodes
<1>2. RootDots \in Entries
  BY DotsType DEF RootDots, Entries
<1>3. /\ RootOnly[ROOT_INODE].nlinks = 2 /\ RootOnly[ROOT_INODE].mode = I_DIRECTORY
      /\ \A n \in Inums \ {ROOT_INODE} : RootOnly[n].nlinks = 0
  BY RootAssumption DEF RootOnly
<1>4. /\ RootDots[ROOT_INODE] = Dots(ROOT_INODE, ROOT_INODE)
      /\ \A n \in Inums \ {ROOT_INODE} : RootDots[n] = NoNames
  BY RootAssumption DEF RootDots
<1>5. /\ Dots(ROOT_INODE, ROOT_INODE)[dot1] = <<ROOT_INODE>>
      /\ Dots(ROOT_INODE, ROOT_INODE)[dot2] = <<ROOT_INODE>>
      /\ \A name \in FileNames : Dots(ROOT_INODE, ROOT_INODE)[name] = << >>
      /\ \A name \in Names : NoNames[name] = << >>
  BY DotNames DEF Dots, NoNames
<1> QED
  BY <1>1, <1>2, <1>3, <1>4, <1>5

(* It has two links and two names.                                         *)
LEMMA RootTallied ==
  Tallied(RootOnly, RootDots)
<1> DEFINE none == [n \in Inums |-> NoNames]
           i    == [nlinks |-> 0, mode |-> I_DIRECTORY, zones |-> TRUE]
           k0   == [RootOnly EXCEPT ![ROOT_INODE] = i]
           e1   == Enter(none, ROOT_INODE, dot1, ROOT_INODE)
           e2   == Enter(e1, ROOT_INODE, dot2, ROOT_INODE)
<1>1. ROOT_INODE \in Inums
  BY RootAssumption
<1>2. /\ none \in Entries /\ \A n \in Inums, name \in Names : none[n][name] = << >>
  BY DotsType DEF Entries, NoNames
<1>3. i \in DiskInode /\ i.nlinks = 0
  BY SmallLinks DEF DiskInode, Modes
<1> HIDE DEF i
<1>4. /\ k0 \in Inodes /\ \A n \in Inums : k0[n].nlinks = 0
      /\ k0[ROOT_INODE] = i
  BY <1>1, <1>3, RootTypes DEF Inodes
<1>5. e2 = RootDots
  <2>1. [none EXCEPT ![ROOT_INODE] = Dots(ROOT_INODE, ROOT_INODE)] = e2
    <3>1. \A name \in Names : none[ROOT_INODE][name] = << >>
      BY <1>1, <1>2
    <3> HIDE DEF none
    <3> QED
      BY <1>1, <1>2, <3>1, TwoDots
  <2>2. [none EXCEPT ![ROOT_INODE] = Dots(ROOT_INODE, ROOT_INODE)] = RootDots
    BY <1>1 DEF RootDots
  <2> QED
    BY <2>1, <2>2
<1> HIDE DEF none
<1>6. Tallied(k0, none)
  <2>1. \A n \in Inums : NamesIn(none, n) = {}
    BY <1>2, NamesInIs DEF IsPlace
  <2>2. \A n \in Inums : IsFiniteSet(NamesIn(none, n)) /\ Cardinality(NamesIn(none, n)) = 0
    BY <2>1, FS_EmptySet
  <2> QED
    BY <1>2, <1>4, <2>2 DEF Tallied
<1> HIDE DEF k0
<1> DEFINE k1 == More(k0, ROOT_INODE)
           k2 == More(k1, ROOT_INODE)
<1>7. 0 + 1 \in Links /\ 1 + 1 \in Links
  BY SmallLinks
<1>8. /\ k1 \in Inodes /\ k1[ROOT_INODE].nlinks = k0[ROOT_INODE].nlinks + 1
      /\ Tallied(k1, e1)
  <2>1. k0[ROOT_INODE].nlinks + 1 \in Links
    BY <1>1, <1>4, <1>7
  <2> QED
    BY <1>1, <1>4, <1>6, <2>1, MoreAt, TalliedEnter, DotNames
<1>9. k1[ROOT_INODE].nlinks = 1
  BY <1>1, <1>4, <1>8
<1>10. k2 = RootOnly
  <2>1. k2 = [RootOnly EXCEPT ![ROOT_INODE] = [[i EXCEPT !.nlinks = @ + 1] EXCEPT !.nlinks = @ + 1]]
    BY <1>1, RootTypes DEF k0, More, Inodes
  <2>2. [[i EXCEPT !.nlinks = @ + 1] EXCEPT !.nlinks = @ + 1] = RootOnly[ROOT_INODE]
    <3> DEFINE zones == TRUE
               r == [nlinks |-> 2, mode |-> I_DIRECTORY, zones |-> zones]
    <3>1. RootOnly[ROOT_INODE] = r
      BY <1>1 DEF RootOnly
    <3>2. i = [nlinks |-> 0, mode |-> I_DIRECTORY, zones |-> zones]
      BY DEF i
    <3> HIDE DEF zones
    <3>3. [i EXCEPT !.nlinks = @ + 1] = [nlinks |-> 1, mode |-> I_DIRECTORY, zones |-> zones]
      BY <3>2
    <3>4. [[i EXCEPT !.nlinks = @ + 1] EXCEPT !.nlinks = @ + 1] = r
      BY <3>3, OneMore
    <3> QED
      BY <3>1, <3>4
  <2> QED
    BY <1>1, <2>1, <2>2, RootTypes DEF Inodes
<1>11. Tallied(k2, e2)
  <2>1. k1[ROOT_INODE].nlinks + 1 \in Links
    BY <1>7, <1>9
  <2> HIDE DEF k1, e1
  <2> QED
    BY <1>1, <1>8, <2>1, TalliedEnter, DotNames
<1> QED
  BY <1>5, <1>10, <1>11

(* And it is the tree.                                                     *)
LEMMA RootGood ==
  Good(RootOnly, RootDots)
<1>1. ROOT_INODE \in Inums
  BY RootAssumption
<1>2. Dirs(RootOnly) = {ROOT_INODE}
  BY <1>1, RootTypes DEF Dirs
<1>3. FilePlaces(RootDots, ROOT_INODE) = {}
  <2>1. ASSUME NEW p \in FilePlaces(RootDots, ROOT_INODE) PROVE FALSE
    <3>1. IsPlace(RootDots, p, ROOT_INODE) /\ p[2] \in FileNames
      BY NamesInIs DEF FilePlaces
    <3>2. PICK d \in Inums, name \in Names :
            \E k \in DOMAIN RootDots[d][name] : p = <<d, name, k>>
      BY <3>1 DEF IsPlace
    <3>3. p[2] = name /\ RootDots[d][name] # << >>
      BY <3>2
    <3> QED
      BY <3>1, <3>3, RootTypes
  <2> QED
    BY <2>1
<1>4. Shaped(RootOnly, RootDots)
  <2>1. Up(RootDots, ROOT_INODE) = ROOT_INODE
    BY RootTypes DEF Up
  <2> QED
    BY <1>1, <1>2, <1>3, <2>1, RootTypes DEF Shaped
<1>5. IsRank([n \in Inums |-> 0], RootOnly, RootDots)
  BY <1>2 DEF IsRank
<1> QED
  BY <1>4, <1>5, RootTallied DEF Good

(* The first state is settled.                                             *)
LEMMA InitSettled ==
  ASSUME Init
  PROVE  (\E k : Settled(fs, k)) /\ Refs(fs, vfs) /\ ~crashed
<1> DEFINE zero == [n \in Inums |-> 0]
<1>1. PICK c : Fresh(c) /\ fs = get_inode(c, ROOT_INODE)
  BY InitFresh
<1>2. vfs = [n \in Inums |-> IF n = ROOT_INODE THEN 1 ELSE 0] /\ crashed = FALSE
  BY Zenon DEF Init
<1>3. ROOT_INODE \in Inums
  BY RootAssumption
<1>4. \A s \in Slots : c.inode[s].num \notin Inums /\ c.inode[s].count = 0
  BY <1>1, NoEntryAssumption DEF Fresh, FreeSlot
<1>5. Tidy(c, RootOnly)
  <2>1. \A n \in Inums : n \in c.imap <=> RootOnly[n].nlinks # 0
    BY <1>1, <1>3, RootTypes DEF Fresh
  <2> QED
    BY <1>1, <1>4, <2>1, RootTypes DEF Tidy, UsedIn, Inodes, Fresh
<1>6. Settled(c, RootOnly)
  BY <1>1, <1>5, RootGood DEF Settled, Fresh, Sound
<1> DEFINE s == SlotOf(c, ROOT_INODE)
           at == [AtRoot EXCEPT ![s] = ROOT_INODE]
<1>7. /\ s \in Slots /\ Keeps(c, fs, Plus(Nothing, s), at, RootOnly, c.entries)
      /\ at[s] = ROOT_INODE
  <2>1. Keeps(c, c, Nothing, AtRoot, RootOnly, c.entries) /\ Nothing \in Taken
    BY <1>6, Start
  <2>2. HasSlot(c, ROOT_INODE) /\ RootOnly[ROOT_INODE].nlinks # 0
    BY <1>1, RootTypes DEF HasSlot, Fresh
  <2>3. /\ s \in Slots /\ Plus(Nothing, s) \in Taken /\ Plus(Nothing, s)[s] > 0
        /\ Keeps(c, get_inode(c, ROOT_INODE), Plus(Nothing, s), at, RootOnly, c.entries)
        /\ at[s] = ROOT_INODE
        /\ \A r \in Slots : Nothing[r] > 0 => Plus(Nothing, s)[r] > 0 /\ at[r] = AtRoot[r]
    BY <1>3, <2>1, <2>2, OpenedNext
  <2> QED
    BY <1>1, <2>3
<1> HIDE DEF s, at
<1>8. Settled(fs, RootOnly)
  BY <1>6, <1>7, KeepsSettled DEF Settled
<1>9. Refs(c, zero) /\ zero \in [Inums -> Nat]
  BY <1>4 DEF Refs
<1>10. [zero EXCEPT ![ROOT_INODE] = @ + 1] = vfs
  BY <1>2, <1>3
<1> HIDE DEF zero
<1>11. Refs(fs, [zero EXCEPT ![at[s]] = @ + 1])
  BY <1>7, <1>9, RefsTaken
<1> QED
  BY <1>2, <1>7, <1>8, <1>10, <1>11

(* Every request but fs_recover.                                           *)
LEMMA StepSettles ==
  ASSUME NEW known, Settled(fs, known), Refs(fs, vfs), ~crashed,
         vfs \in [Inums -> Nat], crashed \in BOOLEAN, recovers \in Nat, Next, recovers' = 0
  PROVE  (\E k : Settled(fs', k)) /\ Refs(fs', vfs') /\ ~crashed'
<1> DEFINE Fine == (\E k : Settled(fs', k)) /\ Refs(fs', vfs') /\ ~crashed'
<1>1. ASSUME NEW n \in Inums, NEW dir \in Inums, NEW name \in Names, fs_link(n, dir, name)
      PROVE  Fine
  <2>1. Kept(fs, fs', Nothing)
    BY <1>1, LinkKept
  <2>2. vfs' = vfs /\ crashed' = crashed
    BY <1>1 DEF fs_link
  <2> QED
    BY <2>1, <2>2, KeptSettled
<1>2. ASSUME NEW dir \in Inums, NEW name \in Names, NEW rmdir \in BOOLEAN,
             fs_unlink(dir, name, rmdir)
      PROVE  Fine
  <2>1. Kept(fs, fs', Nothing)
    BY <1>2, UnlinkKept
  <2>2. vfs' = vfs /\ crashed' = crashed
    BY <1>2 DEF fs_unlink
  <2> QED
    BY <2>1, <2>2, KeptSettled
<1>3. ASSUME NEW od \in Inums, NEW on \in Names, NEW nd \in Inums, NEW nn \in Names,
             fs_rename(od, on, nd, nn)
      PROVE  Fine
  <2>1. crashed' = FALSE /\ Kept(fs, fs', Nothing)
    BY <1>3, RenameKept
  <2>2. vfs' = vfs
    BY <1>3 DEF fs_rename
  <2> QED
    BY <2>1, <2>2, KeptSettled
<1>4. ASSUME NEW n \in Inums, fs_ftrunc(n)
      PROVE  Fine
  <2>1. crashed' = crashed
    BY <1>4 DEF fs_ftrunc
  <2> QED
    BY <1>4, <2>1, TruncSettled
<1>5. ASSUME NEW n \in Inums, NEW count \in 1 .. MaxRefs, fs_putnode(n, count)
      PROVE  Fine
  <2>1. count \in Nat /\ count > 0
    OBVIOUS
  <2> QED
    BY <1>5, <2>1, PutnodeSettled
<1>6. ASSUME NEW n \in Inums, NEW dir \in Inums, fs_recover(n, dir)
      PROVE  FALSE
  <2>1. recovers' = recovers + 1
    BY <1>6 DEF fs_recover
  <2> QED
    BY <2>1
<1>7. ASSUME NEW dir \in Inums, NEW name \in Names, fs_lookup(dir, name)
      PROVE  Fine
  <2>1. crashed' = crashed
    BY <1>7 DEF fs_lookup
  <2> QED
    BY <1>7, <2>1, LookupKept
<1>8. ASSUME NEW dir \in Inums, NEW name \in FileNames, NEW mode \in Modes,
             fs_create(dir, name, mode)
      PROVE  Fine
  <2>1. crashed' = crashed
    BY <1>8 DEF fs_create
  <2> QED
    BY <1>8, <2>1, CreateSettled
<1>9. ASSUME NEW n \in Inums, fs_write(n)
      PROVE  Fine
  <2>1. crashed' = crashed
    BY <1>9 DEF fs_write
  <2> QED
    BY <1>9, <2>1, WriteSettled
<1> HIDE DEF Fine
<1>10. Fine
  BY <1>1, <1>2, <1>3, <1>4, <1>5, <1>6, <1>7, <1>8, <1>9 DEF Next
<1> QED
  BY <1>10 DEF Fine

(* Only fs_recover counts, up to the bound.                                *)
LEMMA RecoversCount ==
  ASSUME Next
  PROVE  \/ recovers' = recovers
         \/ recovers < MaxRecovers /\ recovers' = recovers + 1
<1>1. \A n, dir, name : fs_link(n, dir, name) => recovers' = recovers
  BY DEF fs_link
<1>2. \A dir, name, rmdir : fs_unlink(dir, name, rmdir) => recovers' = recovers
  BY DEF fs_unlink
<1>3. \A od, on, nd, nn : fs_rename(od, on, nd, nn) => recovers' = recovers
  BY DEF fs_rename
<1>4. \A n : (fs_ftrunc(n) => recovers' = recovers) /\ (fs_write(n) => recovers' = recovers)
  BY DEF fs_ftrunc, fs_write
<1>5. \A n, count : fs_putnode(n, count) => recovers' = recovers
  BY DEF fs_putnode
<1>6. \A n, dir : fs_recover(n, dir) => recovers < MaxRecovers /\ recovers' = recovers + 1
  BY DEF fs_recover
<1>7. \A dir, name : fs_lookup(dir, name) => recovers' = recovers
  BY DEF fs_lookup
<1>8. \A dir, name, mode : fs_create(dir, name, mode) => recovers' = recovers
  BY DEF fs_create
<1> QED
  BY <1>1, <1>2, <1>3, <1>4, <1>5, <1>6, <1>7, <1>8 DEF Next

-----------------------------------------------------------------------------
(* The invariant, as long as nobody undeletes: what MFS knows of the       *)
(* inodes fits the directories, the disk, the bit map and VFS.             *)
Orderly == recovers = 0 => (\E known : Settled(fs, known)) /\ Refs(fs, vfs) /\ ~crashed

(* Every request but fs_recover keeps the invariant.                       *)
THEOREM StaysOrderly == Spec => []Orderly
<1>1. Init => Orderly
  BY InitSettled DEF Orderly
<1>2. IInv /\ Orderly /\ [Next]_vars => Orderly'
  <2>1. SUFFICES ASSUME IInv, Orderly, [Next]_vars, recovers' = 0
                 PROVE  (\E known : Settled(fs', known)) /\ Refs(fs', vfs') /\ ~crashed'
    BY DEF Orderly
  <2>2. vfs \in [Inums -> Nat] /\ crashed \in BOOLEAN /\ recovers \in Nat
    BY <2>1 DEF IInv, TypeOK
  <2>3. CASE UNCHANGED vars
    BY <2>1, <2>3 DEF Orderly, vars
  <2>4. CASE Next
    <3>1. recovers = 0
      <4>1. recovers' = recovers \/ recovers' = recovers + 1
        BY <2>4, RecoversCount
      <4> QED
        BY <2>1, <2>2, <4>1
    <3>2. PICK known : Settled(fs, known)
      BY <2>1, <3>1 DEF Orderly
    <3> QED
      BY <2>1, <2>2, <2>4, <3>1, <3>2, StepSettles DEF Orderly
  <2> QED
    BY <2>1, <2>3, <2>4
<1> QED
  BY <1>1, <1>2, Inductive, PTL DEF Spec

-----------------------------------------------------------------------------
(* What MFS knows is the known of the invariant.                           *)
LEMMA KnownIs ==
  ASSUME NEW known, Settled(fs, known), NEW n \in Inums
  PROVE  Known(n) = known[n]
<1>1. Tidy(fs, known) /\ Lists(fs)
  BY DEF Settled, Sound
<1>2. CASE Cached(fs, n)
  BY <1>1, <1>2, CachedSlot DEF Known, Tidy
<1>3. CASE ~Cached(fs, n)
  <2>1. \A s \in Slots : fs.inode[s].num # n
    BY <1>1, <1>3, CachedSlot
  <2>2. fs.disk[n] = known[n]
    BY <1>1, <2>1 DEF Tidy, Behind
  <2> QED
    BY <1>3, <2>2 DEF Known
<1> QED
  BY <1>2, <1>3

(* An inode's count is the number of its names.                            *)
LEMMA LinksOf ==
  ASSUME NEW known, Settled(fs, known), NEW n \in Inums
  PROVE  /\ known[n].nlinks \in Nat /\ known[n].nlinks = Cardinality(NamesOf(n))
         /\ known[n].nlinks > 0 <=> known[n].nlinks # 0
<1>1. Tallied(known, fs.entries)
  BY DEF Settled, Good
<1>2. known[n].nlinks \in Nat
  BY <1>1, TalliedNames
<1> QED
  BY <1>1, <1>2 DEF Tallied, NamesOf

(* The invariant gives each of the properties: one slot for an inode,      *)
LEMMA SettledOneSlot ==
  ASSUME NEW known, Settled(fs, known)
  PROVE  OneSlotPerInode
<1>1. SUFFICES ASSUME NEW n \in Inums, ~(Len(fs.hashed[n]) <= 1) PROVE FALSE
  BY DEF OneSlotPerInode
<1> DEFINE list == fs.hashed[n]
<1>2. IsListOf(list, Holders(fs, n))
  BY DEF Settled, Sound, Lists
<1>3. list \in Seq(Slots) /\ Len(list) \in Nat /\ DOMAIN list = 1 .. Len(list)
  BY <1>2 DEF IsListOf
<1> HIDE DEF list
<1>4. 1 \in DOMAIN list /\ 2 \in DOMAIN list
  BY <1>1, <1>3 DEF list
<1>5. list[1] \in Holders(fs, n) /\ list[2] \in Holders(fs, n)
  BY <1>2, <1>4 DEF IsListOf, Range
<1>6. list[1] = list[2]
  BY <1>5 DEF Holders, Settled, Tidy
<1> QED
  BY <1>2, <1>4, <1>6 DEF IsListOf, IsInjective

(* counts that are VFS's references,                                       *)
LEMMA SettledReferences ==
  ASSUME NEW known, Settled(fs, known), Refs(fs, vfs)
  PROVE  ReferencesMatchVFS
<1>1. \A n \in Inums : Held(n) => InUse(fs, n)
  BY CachedSlot DEF Settled, Sound, Refs, Held
<1> QED
  BY <1>1 DEF ReferencesMatchVFS, Refs, Num

(* link counts that are the number of names,                               *)
LEMMA SettledLinks ==
  ASSUME NEW known, Settled(fs, known)
  PROVE  LinkCountsMatch
BY KnownIs, LinksOf DEF LinkCountsMatch

(* a bit map that is exact,                                                *)
LEMMA SettledAllocated ==
  ASSUME NEW known, Settled(fs, known), Refs(fs, vfs)
  PROVE  AllocatedExactly
<1>1. SUFFICES ASSUME NEW n \in Inums
               PROVE  n \in fs.imap <=> known[n].nlinks > 0 \/ Held(n)
  BY KnownIs DEF AllocatedExactly
<1>2. n \in fs.imap <=> known[n].nlinks # 0 \/ UsedIn(fs, n)
  BY DEF Settled, Tidy
<1>3. UsedIn(fs, n) <=> Held(n)
  <2>1. ASSUME UsedIn(fs, n) PROVE vfs[n] > 0
    BY <2>1 DEF UsedIn, Refs
  <2> QED
    BY <2>1 DEF Refs, Held
<1> QED
  BY <1>2, <1>3, LinksOf

(* and a disk that is behind only where a slot is dirty.                   *)
LEMMA SettledClean ==
  ASSUME NEW known, Settled(fs, known)
  PROVE  CleanMatchesDisk
<1>1. SUFFICES ASSUME NEW s \in Slots, Num(fs, s) # NO_ENTRY, ~fs.inode[s].dirty
               PROVE  fs.disk[Num(fs, s)] = OnDisk(fs.inode[s])
  BY DEF CleanMatchesDisk
<1>2. Num(fs, s) = fs.inode[s].num /\ fs.inode[s].num \in Inums
  BY <1>1, StateTypes DEF Num, Settled, Sound
<1>3. Tidy(fs, known)
  BY DEF Settled
<1>4. ~Behind(fs, fs.inode[s].num)
  BY <1>1, <1>2, <1>3 DEF Tidy, Behind
<1> QED
  BY <1>2, <1>3, <1>4 DEF Tidy

-----------------------------------------------------------------------------
(* The ".." chains.                                                        *)
IsChain(f, n, m) == f = [k \in 0 .. m |-> IF k = 0 THEN n ELSE Parent(f[k - 1])]

(* A chain of any length.                                                  *)
LEMMA ChainExists ==
  ASSUME NEW n, NEW m \in Nat
  PROVE  \E f : IsChain(f, n, m)
<1> DEFINE S == {i \in Nat : \E f : IsChain(f, n, i)}
<1>1. 0 \in S
  <2> DEFINE f == [k \in 0 .. 0 |-> n]
  <2>1. IsChain(f, n, 0)
    BY DEF IsChain
  <2> HIDE DEF f
  <2> QED
    BY <2>1
<1>2. ASSUME NEW i \in Nat, i \in S PROVE i + 1 \in S
  <2>1. PICK f : IsChain(f, n, i)
    BY <1>2
  <2> DEFINE g == [k \in 0 .. i + 1 |-> IF k = i + 1 THEN Parent(f[i]) ELSE f[k]]
  <2>2. \A k \in 0 .. i : f[k] = IF k = 0 THEN n ELSE Parent(f[k - 1])
    BY <2>1 DEF IsChain
  <2>3. ASSUME NEW k \in 0 .. i + 1
        PROVE  g[k] = IF k = 0 THEN n ELSE Parent(g[k - 1])
    <3>1. CASE k = i + 1
      <4>1. k # 0 /\ k - 1 = i /\ i \in 0 .. i + 1 /\ i # i + 1
        BY <3>1
      <4>2. g[k - 1] = f[i] /\ g[k] = Parent(f[i])
        BY <3>1, <4>1
      <4> HIDE DEF g
      <4> QED
        BY <4>1, <4>2
    <3>2. CASE k # i + 1
      <4>1. k \in 0 .. i
        BY <3>2
      <4>2. k # 0 => k - 1 \in 0 .. i + 1 /\ k - 1 # i + 1
        BY <4>1
      <4>3. g[k] = f[k] /\ (k # 0 => g[k - 1] = f[k - 1])
        BY <3>2, <4>2
      <4> HIDE DEF g
      <4> QED
        BY <2>2, <4>1, <4>3
    <3> QED
      BY <3>1, <3>2
  <2>4. DOMAIN g = 0 .. i + 1 /\ g = [k \in 0 .. i + 1 |-> g[k]]
    OBVIOUS
  <2>5. IsChain(g, n, i + 1)
    <3> HIDE DEF g
    <3> QED
      BY <2>3, <2>4 DEF IsChain
  <2> HIDE DEF g
  <2> QED
    BY <2>5
<1> HIDE DEF S
<1>3. Nat \subseteq S
  BY <1>1, <1>2, NumberInduction
<1> QED
  BY <1>3 DEF S

(* Each step of a chain that is not at the root yet leaves one more        *)
(* directory of higher rank behind, and there are no more than Inums.      *)
LEMMA SettledAncestors ==
  ASSUME NEW known, Settled(fs, known), NEW n \in Dirs(known)
  PROVE  Ancestor(n) = ROOT_INODE
<1> DEFINE steps == Cardinality(Inums)
           up == CHOOSE f : IsChain(f, n, steps)
<1>1. steps \in Nat
  BY NoEntryAssumption, FS_CardinalityType
<1>2. Ancestor(n) = up[steps]
  BY DEF Ancestor, IsChain
<1>3. IsChain(up, n, steps)
  <2> HIDE DEF steps
  <2>1. \E f : IsChain(f, n, steps)
    BY <1>1, ChainExists
  <2> QED
    BY <2>1
<1> HIDE DEF up
<1>4. up[0] = n /\ \A k \in Nat : k + 1 \in 0 .. steps => up[k + 1] = Parent(up[k])
  <2>1. 0 \in 0 .. steps /\ \A k \in Nat : k + 1 # 0 /\ (k + 1) - 1 = k
    BY <1>1
  <2>2. \A k \in 0 .. steps : up[k] = IF k = 0 THEN n ELSE Parent(up[k - 1])
    BY <1>3 DEF IsChain
  <2> HIDE DEF steps
  <2> QED
    BY <2>1, <2>2
<1>5. PICK rank : IsRank(rank, known, fs.entries)
  BY DEF Settled, Good
<1>6. /\ \A m \in Dirs(known) : m \in Inums /\ Parent(m) \in Dirs(known)
      /\ \A m \in Dirs(known) \ {ROOT_INODE} : rank[Parent(m)] < rank[m]
      /\ \A m \in Dirs(known) : rank[m] \in Nat
      /\ Parent(ROOT_INODE) = ROOT_INODE
  BY <1>5 DEF Settled, Good, Shaped, Dirs, IsRank, Up, Parent
<1> DEFINE Left(m, k) == \E V \in SUBSET Inums : /\ Cardinality(V) = k
                                                /\ \A v \in V : rank[v] \in Nat /\ rank[m] < rank[v]
           S == {k \in Nat : k \in 0 .. steps =>
                   up[k] \in Dirs(known) /\ (up[k] = ROOT_INODE \/ Left(up[k], k))}
<1> HIDE DEF steps
<1>7. ASSUME NEW m \in Dirs(known), NEW k \in Nat, m # ROOT_INODE, Left(m, k)
      PROVE  Left(Parent(m), k + 1)
  <2>1. PICK V \in SUBSET Inums : /\ Cardinality(V) = k
                                  /\ \A v \in V : rank[v] \in Nat /\ rank[m] < rank[v]
    BY <1>7
  <2> DEFINE W == V \cup {m}
  <2>2. m \notin V
    BY <1>6, <2>1
  <2>3. IsFiniteSet(V)
    BY NoEntryAssumption, FS_Subset
  <2>4. Cardinality(W) = k + 1
    BY <2>1, <2>2, <2>3, FS_AddElement
  <2>5. rank[Parent(m)] \in Nat /\ rank[m] \in Nat /\ rank[Parent(m)] < rank[m] /\ m \in Inums
    BY <1>6, <1>7
  <2>6. W \in SUBSET Inums /\ \A v \in W : rank[v] \in Nat /\ rank[Parent(m)] < rank[v]
    BY <2>1, <2>5
  <2> HIDE DEF W
  <2> QED
    BY <2>4, <2>6
<1>8. 0 \in S
  <2>1. Left(n, 0)
    <3>1. {} \in SUBSET Inums /\ Cardinality({}) = 0
      BY FS_EmptySet
    <3> QED
      BY <3>1
  <2> QED
    BY <1>4, <2>1
<1>9. ASSUME NEW k \in Nat, k \in S PROVE k + 1 \in S
  <2>1. SUFFICES ASSUME k + 1 \in 0 .. steps
                 PROVE  /\ up[k + 1] \in Dirs(known)
                        /\ up[k + 1] = ROOT_INODE \/ Left(up[k + 1], k + 1)
    BY <1>9
  <2>2. k \in 0 .. steps /\ up[k + 1] = Parent(up[k])
    BY <1>1, <1>4, <2>1
  <2>3. up[k] \in Dirs(known) /\ (up[k] = ROOT_INODE \/ Left(up[k], k))
    BY <1>9, <2>2
  <2>4. CASE up[k] = ROOT_INODE
    BY <1>6, <2>2, <2>3, <2>4
  <2>5. CASE up[k] # ROOT_INODE
    <3> HIDE DEF Left
    <3>1. Left(Parent(up[k]), k + 1)
      BY <1>7, <2>3, <2>5
    <3> QED
      BY <1>6, <2>2, <2>3, <3>1
  <2> QED
    BY <2>4, <2>5
<1> HIDE DEF S
<1>10. Nat \subseteq S
  BY <1>8, <1>9, NumberInduction
<1>11. up[steps] \in Dirs(known) /\ (up[steps] = ROOT_INODE \/ Left(up[steps], steps))
  <2>1. steps \in 0 .. steps
    BY <1>1
  <2> QED
    BY <1>1, <1>10, <2>1 DEF S
<1>12. ASSUME up[steps] # ROOT_INODE PROVE FALSE
  <2>1. Left(Parent(up[steps]), steps + 1)
    <3> HIDE DEF Left
    <3> QED
      BY <1>1, <1>7, <1>11, <1>12
  <2>2. PICK V \in SUBSET Inums : Cardinality(V) = steps + 1
    BY <2>1
  <2>3. Cardinality(V) <= Cardinality(Inums)
    BY NoEntryAssumption, FS_Subset
  <2> QED
    BY <1>1, <2>2, <2>3 DEF steps
<1> QED
  BY <1>2, <1>12

(* The directories, as the property has them.                              *)
LEMMA SettledDirectories ==
  ASSUME NEW known, Settled(fs, known)
  PROVE  Directories = Dirs(known)
<1>1. \A n \in Inums : Known(n).nlinks > 0 /\ Known(n).mode = I_DIRECTORY
                         <=> known[n].nlinks # 0 /\ known[n].mode = I_DIRECTORY
  BY KnownIs, LinksOf
<1> QED
  BY <1>1 DEF Directories, Dirs

(* They are a tree under the root.                                         *)
LEMMA SettledTree ==
  ASSUME NEW known, Settled(fs, known)
  PROVE  IsTree
<1>1. Shaped(known, fs.entries)
  BY DEF Settled, Good
<1>2. Directories = Dirs(known)
  BY SettledDirectories
<1>3. \A n \in Directories : Ancestor(n) = ROOT_INODE
  BY <1>2, SettledAncestors
<1>4. \A n : Up(fs.entries, n) = Parent(n)
  BY DEF Up, Parent
<1>5. ASSUME NEW n \in Directories
      PROVE  /\ fs.entries[n][dot1] = <<n>>
             /\ Len(fs.entries[n][dot2]) = 1
             /\ Parent(n) \in Directories
             /\ n # ROOT_INODE =>
                  \A entry \in NamesOf(n) : entry[2] \in FileNames => entry[1] = Parent(n)
  <2>1. /\ fs.entries[n][dot1] = <<n>> /\ fs.entries[n][dot2] = <<Parent(n)>>
        /\ Parent(n) \in Directories
    BY <1>1, <1>2, <1>4 DEF Shaped
  <2>2. Len(fs.entries[n][dot2]) = 1
    BY <2>1
  <2>3. ASSUME n # ROOT_INODE, NEW entry \in NamesOf(n), entry[2] \in FileNames
        PROVE  entry[1] = Parent(n)
    <3>1. PICK p : FilePlaces(fs.entries, n) = {p} /\ p[1] = Parent(n)
      BY <1>1, <1>2, <1>4, <2>3 DEF Shaped
    <3>2. entry \in FilePlaces(fs.entries, n)
      BY <2>3 DEF FilePlaces, NamesOf
    <3> QED
      BY <3>1, <3>2
  <2> QED
    BY <2>1, <2>2, <2>3
<1> QED
  BY <1>3, <1>5 DEF IsTree

-----------------------------------------------------------------------------
(* What the runs check, as long as nobody undeletes.                       *)

(* No inode is in two slots: get_inode finds it before it loads it again,  *)
(* and alloc_inode's number is in no slot.                                 *)
THEOREM NoSecondSlot == Spec => [](recovers = 0 => OneSlotPerInode)
<1>1. Orderly => (recovers = 0 => OneSlotPerInode)
  BY SettledOneSlot DEF Orderly
<1> QED
  BY <1>1, StaysOrderly, PTL

(* Every request gives back what it takes, on every path: the count of an  *)
(* inode between requests is what VFS holds.                               *)
THEOREM ReferencesAreVFSs == Spec => [](recovers = 0 => ReferencesMatchVFS)
<1>1. Orderly => (recovers = 0 => ReferencesMatchVFS)
  BY SettledReferences DEF Orderly
<1> QED
  BY <1>1, StaysOrderly, PTL

(* An inode has as many links as names, after any mix of link, unlink,     *)
(* rmdir, rename, create and mkdir and wherever each of them gave up.      *)
THEOREM LinksAreNames == Spec => [](recovers = 0 => LinkCountsMatch)
<1>1. Orderly => (recovers = 0 => LinkCountsMatch)
  BY SettledLinks DEF Orderly
<1> QED
  BY <1>1, StaysOrderly, PTL

(* The bit map has the inodes with a name and the ones VFS holds.          *)
THEOREM BitMapIsExact == Spec => [](recovers = 0 => AllocatedExactly)
<1>1. Orderly => (recovers = 0 => AllocatedExactly)
  BY SettledAllocated DEF Orderly
<1> QED
  BY <1>1, StaysOrderly, PTL

(* An inode in the table that is not marked dirty is on disk as it is.     *)
THEOREM CleanIsWritten == Spec => [](recovers = 0 => CleanMatchesDisk)
<1>1. Orderly => (recovers = 0 => CleanMatchesDisk)
  BY SettledClean DEF Orderly
<1> QED
  BY <1>1, StaysOrderly, PTL

(* The directories are a tree under the root, whatever fs_rename moves.    *)
THEOREM StaysTree == Spec => [](recovers = 0 => IsTree)
<1>1. Orderly => (recovers = 0 => IsTree)
  BY SettledTree DEF Orderly
<1> QED
  BY <1>1, StaysOrderly, PTL

(* No request panics, and the walk of fs_rename comes to an end.           *)
THEOREM DoesNotCrash == Spec => [](recovers = 0 => NeverCrashes)
<1>1. Orderly => (recovers = 0 => NeverCrashes)
  BY DEF Orderly, NeverCrashes
<1> QED
  BY <1>1, StaysOrderly, PTL

(* Without fs_recover, which is how the run MFS sets MaxRecovers, all of   *)
(* it holds in every state.                                                *)
THEOREM WithoutUndelete ==
  ASSUME MaxRecovers = 0
  PROVE  Spec => [](/\ OneSlotPerInode /\ ReferencesMatchVFS /\ LinkCountsMatch
                    /\ AllocatedExactly /\ CleanMatchesDisk /\ IsTree /\ NeverCrashes)
<1> DEFINE None == recovers = 0
<1>1. Init => None
  BY DEF Init
<1>2. None /\ [Next]_vars => None'
  <2>1. ASSUME None, Next PROVE None'
    BY <2>1, RecoversCount
  <2> QED
    BY <2>1 DEF vars
<1>3. Spec => []None
  BY <1>1, <1>2, PTL DEF Spec
<1> HIDE DEF None
<1> QED
  BY <1>3, NoSecondSlot, ReferencesAreVFSs, LinksAreNames, BitMapIsExact, CleanIsWritten,
     StaysTree, DoesNotCrash, PTL DEF None
=============================================================================
