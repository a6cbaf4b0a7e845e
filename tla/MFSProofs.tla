------------------------------ MODULE MFSProofs ------------------------------
(***************************************************************************)
(* Proofs about MFS, for any number of slots, inodes, names and            *)
(* references, and any tree of directories.                                *)
(*                                                                         *)
(* A request takes references and gives them back.  taken[s] counts those  *)
(* it has to slot s at some moment, beyond the ones of the state base in   *)
(* which it came; the lemmas say how each routine changes taken, and that  *)
(* the lists stay as they should be and no slot of base in use changes its *)
(* inode.                                                                  *)
(***************************************************************************)
EXTENDS InodeCacheProofs

Taken      == [Slots -> Nat]
Nothing    == [s \in Slots |-> 0]
Plus(t, s)  == [t EXCEPT ![s] = @ + 1]
Minus(t, s) == [t EXCEPT ![s] = @ - 1]

Holding(base, c, taken) ==
  /\ base \in State /\ c \in State /\ taken \in Taken
  /\ Lists(c)
  /\ \A s \in Slots : /\ c.inode[s].count = base.inode[s].count + taken[s]
                      /\ base.inode[s].count > 0 => c.inode[s].num = base.inode[s].num

(* One reference more in a request's account.                              *)
LEMMA TakenPlus ==
  ASSUME NEW t \in Taken, NEW a \in Slots
  PROVE  /\ Plus(t, a) \in Taken /\ Plus(t, a)[a] > 0
         /\ Plus(t, a)[a] = t[a] + 1 /\ \A r \in Slots \ {a} : Plus(t, a)[r] = t[r]
         /\ \A r \in Slots : t[r] > 0 => Plus(t, a)[r] > 0
         /\ Minus(Plus(t, a), a) = t
<1>1. /\ Plus(t, a) \in Taken /\ Plus(t, a)[a] = t[a] + 1
      /\ \A r \in Slots \ {a} : Plus(t, a)[r] = t[r]
  BY DEF Taken, Plus
<1>2. t[a] \in Nat /\ \A r \in Slots : t[r] \in Nat
  BY DEF Taken
<1>3. Minus(Plus(t, a), a) = t
  <2>1. (t[a] + 1) - 1 = t[a]
    BY <1>2
  <2> QED
    BY <2>1 DEF Taken, Plus, Minus
<1> QED
  BY <1>1, <1>2, <1>3

(* One reference less.                                                     *)
LEMMA TakenMinus ==
  ASSUME NEW t \in Taken, NEW a \in Slots, t[a] > 0
  PROVE  /\ Minus(t, a) \in Taken /\ Minus(t, a)[a] = t[a] - 1
         /\ \A r \in Slots \ {a} : Minus(t, a)[r] = t[r]
<1>1. t[a] - 1 \in Nat
  BY DEF Taken
<1> QED
  BY <1>1 DEF Taken, Minus

(* The order in which references were taken does not matter.               *)
LEMMA TakenSwap ==
  ASSUME NEW t \in Taken, NEW a \in Slots, NEW b \in Slots
  PROVE  Plus(Plus(t, a), b) = Plus(Plus(t, b), a)
<1> DEFINE ab == Plus(Plus(t, a), b)
           ba == Plus(Plus(t, b), a)
<1>1. ab \in Taken /\ ba \in Taken
  BY TakenPlus
<1>2. ASSUME NEW r \in Slots PROVE ab[r] = ba[r]
  BY DEF Plus, Taken
<1> HIDE DEF ab, ba
<1>3. ab = ba
  BY <1>1, <1>2 DEF Taken
<1> QED
  BY <1>3 DEF ab, ba

(* A request begins without references.                                    *)
LEMMA NothingTaken ==
  ASSUME NEW c \in State, Lists(c)
  PROVE  Nothing \in Taken /\ Holding(c, c, Nothing)
<1>1. \A s \in Slots : c.inode[s].count + 0 = c.inode[s].count
  BY StateTypes
<1> QED
  BY <1>1 DEF Nothing, Taken, Holding

(* Changes that leave counts and lists alone leave the account right.      *)
LEMMA HoldingSame ==
  ASSUME NEW base, NEW c, NEW e, NEW t, Holding(base, c, t), Same(c, e)
  PROVE  Holding(base, e, t)
BY SameLists DEF Holding, Same

(* A slot the request has a reference to holds an inode.                   *)
LEMMA HoldingInode ==
  ASSUME NEW base, NEW c, NEW t, Holding(base, c, t), NEW s \in Slots, t[s] > 0
  PROVE  /\ c.inode[s].count > 0 /\ c.inode[s].num \in Inums
         /\ c.inode[s].count = base.inode[s].count + t[s]
<1>1. base.inode[s].count \in Nat /\ t[s] \in Nat
  BY StateTypes DEF Holding, Taken
<1> QED
  BY <1>1 DEF Holding, Lists

(* get_inode takes one reference to the inode's slot.                      *)
LEMMA HoldingGet ==
  ASSUME NEW base, NEW c, NEW t, Holding(base, c, t), NEW n \in Inums, HasSlot(c, n)
  PROVE  /\ SlotOf(c, n) \in Slots
         /\ Holding(base, get_inode(c, n), Plus(t, SlotOf(c, n)))
         /\ get_inode(c, n).inode[SlotOf(c, n)].num = n
<1> DEFINE s == SlotOf(c, n)
           e == get_inode(c, n)
<1>1. /\ s \in Slots /\ e \in State /\ Lists(e) /\ Others(c, e, s)
      /\ c.inode[s].count > 0 => c.inode[s].num = n
      /\ e.inode[s].num = n /\ e.inode[s].count = c.inode[s].count + 1
  BY GetOne DEF Holding
<1> HIDE DEF s, e
<1>2. /\ base.inode[s].count \in Nat /\ t[s] \in Nat
      /\ c.inode[s].count = base.inode[s].count + t[s]
      /\ base.inode[s].count > 0 => c.inode[s].num = base.inode[s].num
  BY <1>1, StateTypes DEF Holding, Taken
<1>3. /\ e.inode[s].count = base.inode[s].count + Plus(t, s)[s]
      /\ base.inode[s].count > 0 => e.inode[s].num = base.inode[s].num
  <2>1. Plus(t, s)[s] = t[s] + 1
    BY <1>1, TakenPlus DEF Holding
  <2> QED
    BY <1>1, <1>2, <2>1
<1>4. \A r \in Slots \ {s} : /\ e.inode[r].count = base.inode[r].count + Plus(t, s)[r]
                             /\ base.inode[r].count > 0 => e.inode[r].num = base.inode[r].num
  <2>1. \A r \in Slots \ {s} : Plus(t, s)[r] = t[r]
    BY <1>1, TakenPlus DEF Holding
  <2> QED
    BY <1>1, <2>1 DEF Holding, Others
<1>5. Plus(t, s) \in Taken
  BY <1>1, TakenPlus DEF Holding
<1>6. Holding(base, e, Plus(t, s))
  BY <1>1, <1>3, <1>4, <1>5 DEF Holding
<1> QED
  BY <1>1, <1>6 DEF s, e

(* dup_inode takes one more.                                               *)
LEMMA HoldingDup ==
  ASSUME NEW base, NEW c, NEW t, Holding(base, c, t), NEW s \in Slots, t[s] > 0
  PROVE  Holding(base, Dup(c, s), Plus(t, s))
<1> DEFINE e == Dup(c, s)
<1>1. /\ e \in State /\ Lists(e) /\ Others(c, e, s)
      /\ e.inode[s].num = c.inode[s].num /\ e.inode[s].count = c.inode[s].count + 1
  BY HoldingInode, DupOne DEF Holding
<1> HIDE DEF e
<1>2. base.inode[s].count \in Nat /\ t[s] \in Nat
  BY StateTypes DEF Holding, Taken
<1>3. /\ Plus(t, s) \in Taken /\ Plus(t, s)[s] = t[s] + 1
      /\ \A r \in Slots \ {s} : Plus(t, s)[r] = t[r]
  BY TakenPlus DEF Holding
<1>4. /\ e.inode[s].count = base.inode[s].count + Plus(t, s)[s]
      /\ base.inode[s].count > 0 => e.inode[s].num = base.inode[s].num
  <2>1. c.inode[s].count = base.inode[s].count + t[s]
    BY DEF Holding
  <2>2. e.inode[s].count = base.inode[s].count + Plus(t, s)[s]
    BY <1>1, <1>2, <1>3, <2>1
  <2> QED
    BY <1>1, <2>2 DEF Holding
<1>5. \A r \in Slots \ {s} : /\ e.inode[r].count = base.inode[r].count + Plus(t, s)[r]
                             /\ base.inode[r].count > 0 => e.inode[r].num = base.inode[r].num
  BY <1>1, <1>3 DEF Holding, Others
<1>6. Holding(base, e, Plus(t, s))
  BY <1>1, <1>3, <1>4, <1>5 DEF Holding
<1> QED
  BY <1>6 DEF e

(* A reference that was taken is given back.                               *)
LEMMA HoldingPut ==
  ASSUME NEW base, NEW c, NEW t \in Taken, NEW s \in Slots, Holding(base, c, Plus(t, s))
  PROVE  Holding(base, put_inode(c, s), t)
<1> DEFINE e == put_inode(c, s)
<1>1. /\ Plus(t, s)[s] = t[s] + 1 /\ Plus(t, s)[s] > 0
      /\ \A r \in Slots \ {s} : Plus(t, s)[r] = t[r]
  BY TakenPlus
<1>2. /\ base.inode[s].count \in Nat /\ t[s] \in Nat
      /\ c.inode[s].count = base.inode[s].count + Plus(t, s)[s]
  BY StateTypes DEF Holding, Taken
<1>3. c.inode[s].count = base.inode[s].count + t[s] + 1 /\ c.inode[s].count > 0
  BY <1>1, <1>2
<1>4. /\ e \in State /\ Lists(e) /\ Others(c, e, s)
      /\ e.inode[s].count = c.inode[s].count - 1
      /\ c.inode[s].count > 1 => e.inode[s].num = c.inode[s].num
  BY <1>3, PutOne DEF Holding
<1> HIDE DEF e
<1>5. /\ e.inode[s].count = base.inode[s].count + t[s]
      /\ base.inode[s].count > 0 => c.inode[s].count > 1
  BY <1>2, <1>3, <1>4
<1>6. base.inode[s].count > 0 => e.inode[s].num = base.inode[s].num
  BY <1>4, <1>5 DEF Holding
<1>7. \A r \in Slots \ {s} : /\ e.inode[r].count = base.inode[r].count + t[r]
                             /\ base.inode[r].count > 0 => e.inode[r].num = base.inode[r].num
  BY <1>1, <1>4 DEF Holding, Others
<1>8. Holding(base, e, t)
  BY <1>4, <1>5, <1>6, <1>7 DEF Holding
<1> QED
  BY <1>8 DEF e

-----------------------------------------------------------------------------
(* Directory entries and link counts.                                      *)
LEMMA LinksWrap ==
  ASSUME NEW n \in Links
  PROVE  U16(n + 1) \in Links /\ U16(n - 1) \in Links
<1> DEFINE d == 65536
<1>1. d \in Nat \ {0} /\ Links = 0 .. d - 1
  BY SMT DEF Links
<1>2. U16(n + 1) = (n + 1) % d /\ U16(n - 1) = (n - 1) % d
  BY DEF U16
<1> HIDE DEF d
<1>3. n + 1 \in Int /\ n - 1 \in Int
  BY <1>1
<1>4. (n + 1) % d \in 0 .. d - 1 /\ (n - 1) % d \in 0 .. d - 1
  BY <1>1, <1>3, ModuloRange
<1> QED
  BY <1>1, <1>2, <1>4

(* Directory entries are no part of the table.                             *)
LEMMA EntrySame ==
  ASSUME NEW c \in State, NEW n \in Inums, NEW name \in Names, NEW list \in Seq(Inums)
  PROVE  Same(c, [c EXCEPT !.entries[n][name] = list])
<1> DEFINE names == [c.entries[n] EXCEPT ![name] = list]
           entries == [c.entries EXCEPT ![n] = names]
<1>1. c.entries[n] \in [Names -> Seq(Inums)]
  BY StateTypes
<1>2. names \in [Names -> Seq(Inums)]
  BY <1>1
<1>3. entries \in [Inums -> [Names -> Seq(Inums)]]
  <2> HIDE DEF names
  <2> QED
    BY <1>2, StateTypes
<1>4. [c EXCEPT !.entries[n][name] = list] = [c EXCEPT !.entries = entries]
  BY DEF State
<1> HIDE DEF entries
<1>5. Same(c, [c EXCEPT !.entries = entries])
  BY <1>3 DEF State, Same
<1> QED
  BY <1>4, <1>5

(* Nor are link counts of its lists.                                       *)
LEMMA NlinksSame ==
  ASSUME NEW c \in State, NEW s \in Slots, NEW k \in Links
  PROVE  Same(c, [c EXCEPT !.inode[s].nlinks = k])
<1> DEFINE i == [c.inode[s] EXCEPT !.nlinks = k]
<1>1. c.inode[s] \in Inode
  BY StateTypes
<1>2. i \in Inode /\ i.num = c.inode[s].num /\ i.count = c.inode[s].count
  BY <1>1 DEF Inode
<1>3. [c EXCEPT !.inode[s].nlinks = k] = [c EXCEPT !.inode[s] = i]
  OBVIOUS
<1> HIDE DEF i
<1> QED
  BY <1>2, <1>3, InodeSame

(* A link more or less leaves counts and lists alone.                      *)
LEMMA LinkedSame ==
  ASSUME NEW c \in State, NEW s \in Slots
  PROVE  Same(c, Linked(c, s)) /\ Same(c, Unlink(c, s))
<1>1. c.inode[s].nlinks \in Links
  BY StateTypes
<1>2. ASSUME NEW k \in Links PROVE Same(c, Marked([c EXCEPT !.inode[s].nlinks = k], s))
  <2> DEFINE d == [c EXCEPT !.inode[s].nlinks = k]
  <2>1. Same(c, d)
    BY NlinksSame
  <2> HIDE DEF d
  <2>2. Same(d, Marked(d, s))
    BY <2>1, MarkedSame DEF Same
  <2>3. Same(c, Marked(d, s))
    BY <2>1, <2>2, SameTransitive
  <2> QED
    BY <2>3 DEF d
<1>3. /\ Linked(c, s) = Marked([c EXCEPT !.inode[s].nlinks = U16(c.inode[s].nlinks + 1)], s)
      /\ Unlink(c, s) = Marked([c EXCEPT !.inode[s].nlinks = U16(c.inode[s].nlinks - 1)], s)
  BY DEF Linked, Unlink
<1> QED
  BY <1>1, <1>2, <1>3, LinksWrap

(* So the account of a request stays right.                                *)
LEMMA LinkedHolds ==
  ASSUME NEW base, NEW c, NEW t, Holding(base, c, t), NEW s \in Slots
  PROVE  Holding(base, Linked(c, s), t) /\ Holding(base, Unlink(c, s), t)
BY LinkedSame, HoldingSame DEF Holding

(* search_dir with ENTER takes no reference.                               *)
LEMMA EnteredHolds ==
  ASSUME NEW base, NEW c, NEW t, Holding(base, c, t), NEW d \in Slots, t[d] > 0,
         NEW name \in Names, NEW n \in Inums
  PROVE  Holding(base, Entered(c, d, name, n), t)
<1> DEFINE list == Append(c.entries[Num(c, d)][name], n)
           e == [c EXCEPT !.entries[Num(c, d)][name] = list]
<1>1. c \in State /\ Num(c, d) \in Inums
  BY HoldingInode DEF Holding, Num
<1>2. c.entries[Num(c, d)][name] \in Seq(Inums)
  BY <1>1, StateTypes
<1>3. list \in Seq(Inums)
  BY <1>2
<1> HIDE DEF list
<1>4. Same(c, e)
  BY <1>1, <1>3, EntrySame
<1>5. Entered(c, d, name, n) = Marked(e, d)
  BY DEF Entered, list
<1> HIDE DEF e
<1>6. Same(e, Marked(e, d))
  BY <1>4, MarkedSame DEF Same
<1> QED
  BY <1>4, <1>5, <1>6, HoldingSame, SameTransitive

(* search_dir with DELETE takes none.                                      *)
LEMMA DeletedHolds ==
  ASSUME NEW base, NEW c, NEW t, Holding(base, c, t), NEW d \in Slots, t[d] > 0,
         NEW name \in Names
  PROVE  Holding(base, Deleted(c, d, name), t)
<1>1. CASE ~Found(c, d, name)
  BY <1>1 DEF Deleted
<1>2. CASE Found(c, d, name)
  <2> DEFINE list == Tail(c.entries[Num(c, d)][name])
             e == [c EXCEPT !.entries[Num(c, d)][name] = list]
  <2>1. c \in State /\ Num(c, d) \in Inums
    BY HoldingInode DEF Holding, Num
  <2>2. c.entries[Num(c, d)][name] \in Seq(Inums) /\ c.entries[Num(c, d)][name] # << >>
    BY <1>2, <2>1, StateTypes DEF Found
  <2>3. list \in Seq(Inums)
    BY <2>2
  <2> HIDE DEF list
  <2>4. Same(c, e)
    BY <2>1, <2>3, EntrySame
  <2>5. Deleted(c, d, name) = Marked(e, d)
    BY <1>2 DEF Deleted, list
  <2> HIDE DEF e
  <2>6. Same(e, Marked(e, d))
    BY <2>4, MarkedSame DEF Same
  <2> QED
    BY <2>4, <2>5, <2>6, HoldingSame, SameTransitive
<1> QED
  BY <1>1, <1>2

(* advance takes one reference to the inode it finds.                      *)
LEMMA HoldingAdvance ==
  ASSUME NEW base, NEW c, NEW t, Holding(base, c, t), NEW d \in Slots, t[d] > 0,
         NEW name \in Names, CanAdvance(c, d, name)
  PROVE  /\ AdvanceSlot(c, d, name) \in Slots
         /\ Holding(base, Advance(c, d, name), Plus(t, AdvanceSlot(c, d, name)))
<1>1. c \in State /\ Num(c, d) \in Inums
  BY HoldingInode DEF Holding, Num
<1>2. c.entries[Num(c, d)][name] \in Seq(Inums) /\ c.entries[Num(c, d)][name] # << >>
  BY <1>1, StateTypes DEF CanAdvance, Found
<1>3. LookUp(c, d, name) \in Inums
  BY <1>2 DEF LookUp
<1> QED
  BY <1>3, HoldingGet DEF CanAdvance, AdvanceSlot, Advance

(* advance and put_inode give back what they take.                         *)
LEMMA LookedHolds ==
  ASSUME NEW base, NEW c, NEW t, Holding(base, c, t), NEW d \in Slots, t[d] > 0,
         NEW name \in Names
  PROVE  Holding(base, Looked(c, d, name), t)
<1>1. t \in Taken
  BY DEF Holding
<1> QED
  BY <1>1, HoldingAdvance, HoldingPut DEF Looked

-----------------------------------------------------------------------------
(* unlink_file, with and without the inode, and remove_dir.                *)
LEMMA UnlinkFileHolds ==
  ASSUME NEW base, NEW c, NEW t, Holding(base, c, t), NEW d \in Slots, t[d] > 0,
         NEW s \in Slots, t[s] > 0, NEW name \in Names
  PROVE  Holding(base, unlink_file(c, d, s, name), t)
<1>1. t \in Taken /\ Plus(t, s)[d] > 0
  BY TakenPlus DEF Holding
<1>2. Holding(base, Dup(c, s), Plus(t, s))
  BY HoldingDup
<1>3. Holding(base, Deleted(Dup(c, s), d, name), Plus(t, s))
  BY <1>1, <1>2, DeletedHolds
<1>4. Holding(base, Unlink(Deleted(Dup(c, s), d, name), s), Plus(t, s))
  BY <1>3, LinkedHolds
<1>5. Holding(base, put_inode(Unlink(Deleted(Dup(c, s), d, name), s), s), t)
  BY <1>1, <1>4, HoldingPut
<1> QED
  BY <1>5 DEF unlink_file

(* unlink_file without an inode gives back the one it looks up.            *)
LEMMA UnlinkDotHolds ==
  ASSUME NEW base, NEW c, NEW t, Holding(base, c, t), NEW d \in Slots, t[d] > 0,
         NEW name \in Names
  PROVE  Holding(base, unlink_dot(c, d, name), t)
<1>1. CASE ~CanAdvance(c, d, name)
  BY <1>1 DEF unlink_dot
<1>2. CASE CanAdvance(c, d, name)
  <2> DEFINE s == AdvanceSlot(c, d, name)
             e == Advance(c, d, name)
  <2>1. s \in Slots /\ Holding(base, e, Plus(t, s))
    BY <1>2, HoldingAdvance
  <2>2. unlink_dot(c, d, name) = put_inode(Unlink(Deleted(e, d, name), s), s)
    BY <1>2 DEF unlink_dot
  <2> HIDE DEF s, e
  <2>3. t \in Taken /\ Plus(t, s)[d] > 0
    BY <2>1, TakenPlus DEF Holding
  <2>4. Holding(base, Deleted(e, d, name), Plus(t, s))
    BY <2>1, <2>3, DeletedHolds
  <2>5. Holding(base, Unlink(Deleted(e, d, name), s), Plus(t, s))
    BY <2>1, <2>4, LinkedHolds
  <2> QED
    BY <2>1, <2>2, <2>3, <2>5, HoldingPut
<1> QED
  BY <1>1, <1>2

(* remove_dir gives back what it takes.                                    *)
LEMMA RemoveDirHolds ==
  ASSUME NEW base, NEW c, NEW t, Holding(base, c, t), NEW d \in Slots, t[d] > 0,
         NEW s \in Slots, t[s] > 0, NEW name \in Names
  PROVE  Holding(base, remove_dir(c, d, s, name), t)
<1>1. dot1 \in Names /\ dot2 \in Names
  BY DEF Names
<1>2. Holding(base, unlink_file(c, d, s, name), t)
  BY UnlinkFileHolds
<1>3. Holding(base, unlink_dot(unlink_file(c, d, s, name), s, dot1), t)
  BY <1>1, <1>2, UnlinkDotHolds
<1>4. Holding(base, unlink_dot(unlink_dot(unlink_file(c, d, s, name), s, dot1), s, dot2), t)
  BY <1>1, <1>3, UnlinkDotHolds
<1> QED
  BY <1>4 DEF remove_dir

-----------------------------------------------------------------------------
(* The parts of fs_rename.                                                 *)
LEMMA MovedHolds ==
  ASSUME NEW base, NEW c, NEW t, Holding(base, c, t),
         NEW o \in Slots, t[o] > 0, NEW i \in Slots, t[i] > 0, NEW d \in Slots, t[d] > 0,
         NEW on \in Names, NEW nn \in Names
  PROVE  Holding(base, Moved(c, o, on, i, d, nn), t)
<1>1. Num(c, i) \in Inums
  BY HoldingInode DEF Num
<1>2. CASE o = d
  <2>1. Holding(base, Entered(Deleted(c, o, on), d, nn, Num(c, i)), t)
    BY <1>1, DeletedHolds, EnteredHolds
  <2> QED
    BY <1>2, <2>1 DEF Moved
<1>3. CASE o # d
  <2>1. Holding(base, Entered(c, d, nn, Num(c, i)), t)
    BY <1>1, EnteredHolds
  <2>2. Holding(base, Deleted(Entered(c, d, nn, Num(c, i)), o, on), t)
    BY <2>1, DeletedHolds
  <2> QED
    BY <1>3, <2>2 DEF Moved
<1> QED
  BY <1>2, <1>3

(* So does the change of a directory's "..".                               *)
LEMMA ReparentedHolds ==
  ASSUME NEW base, NEW c, NEW t, Holding(base, c, t),
         NEW i \in Slots, t[i] > 0, NEW d \in Slots, t[d] > 0
  PROVE  Holding(base, Reparented(c, i, d), t)
<1>1. Num(c, d) \in Inums /\ dot2 \in Names
  BY HoldingInode DEF Num, Names
<1>2. Holding(base, unlink_dot(c, i, dot2), t)
  BY <1>1, UnlinkDotHolds
<1>3. Holding(base, Entered(unlink_dot(c, i, dot2), i, dot2, Num(c, d)), t)
  BY <1>1, <1>2, EnteredHolds
<1> QED
  BY <1>3, LinkedHolds DEF Reparented

(* A walk holds the directory where it is; when it has ended it holds none.*)
Walking(base, w, t) ==
  /\ w = [c |-> w.c, at |-> w.at, result |-> w.result]
  /\ w.at \in Slots /\ w.result \in {"walking", "refused", "reached"}
  /\ Holding(base, w.c, IF w.result = "walking" THEN Plus(t, w.at) ELSE t)

(* A step of fs_rename's walk gives back the directory it leaves.          *)
LEMMA ClimbHolds ==
  ASSUME NEW base, NEW t \in Taken, NEW w, Walking(base, w, t), w.result = "walking", NEW old
  PROVE  Walking(base, Climb(w, old), t)
<1> DEFINE c == w.c
           at == w.at
<1>1. /\ at \in Slots /\ Holding(base, c, Plus(t, at)) /\ Plus(t, at)[at] > 0
      /\ w = [c |-> c, at |-> at, result |-> "walking"] /\ dot2 \in Names
  BY TakenPlus DEF Walking, Names
<1>2. CASE at = old \/ ~CanAdvance(c, at, dot2)
  <2>1. Climb(w, old) = [c |-> put_inode(c, at), at |-> at, result |-> "refused"]
    <3>1. Climb(w, old) = [w EXCEPT !.c = put_inode(@, at), !.result = "refused"]
      BY <1>2 DEF Climb
    <3> HIDE DEF c, at
    <3> QED
      BY <1>1, <3>1
  <2> HIDE DEF c, at
  <2> QED
    BY <1>1, <2>1, HoldingPut DEF Walking
<1>3. CASE ~(at = old \/ ~CanAdvance(c, at, dot2))
  <2> DEFINE next == AdvanceSlot(c, at, dot2)
             e == put_inode(Advance(c, at, dot2), at)
  <2>1. Climb(w, old) = IF next = at
                        THEN [c |-> put_inode(e, at), at |-> at, result |-> "reached"]
                        ELSE [c |-> e, at |-> next, result |-> "walking"]
    <3>1. Climb(w, old) = IF next = at THEN [w EXCEPT !.c = put_inode(e, at), !.result = "reached"]
                          ELSE [w EXCEPT !.c = e, !.at = next]
      BY <1>3 DEF Climb
    <3> HIDE DEF c, at, e, next
    <3> QED
      BY <1>1, <3>1
  <2> HIDE DEF c, at
  <2>2. next \in Slots /\ Holding(base, Advance(c, at, dot2), Plus(Plus(t, at), next))
    BY <1>1, <1>3, HoldingAdvance
  <2>3. Plus(Plus(t, at), next) = Plus(Plus(t, next), at) /\ Plus(t, next) \in Taken
    BY <1>1, <2>2, TakenSwap, TakenPlus
  <2>4. Holding(base, e, Plus(t, next))
    BY <1>1, <2>2, <2>3, HoldingPut
  <2> HIDE DEF e, next
  <2>5. CASE next = at
    BY <1>1, <2>1, <2>4, <2>5, HoldingPut DEF Walking
  <2>6. CASE next # at
    BY <2>1, <2>2, <2>4, <2>6 DEF Walking
  <2> QED
    BY <2>5, <2>6
<1> QED
  BY <1>2, <1>3

(* The walk is a recursive function, which is there for any number of      *)
(* steps.                                                                  *)
Step(w, old) == IF w.result = "walking" THEN Climb(w, old) ELSE w

IsWalk(f, start, old, n) == f = [k \in 0 .. n |-> IF k = 0 THEN start ELSE Step(f[k - 1], old)]

(* The walk is defined for every number of steps.                          *)
LEMMA WalkExists ==
  ASSUME NEW start, NEW old, NEW n \in Nat
  PROVE  \E f : IsWalk(f, start, old, n)
<1> DEFINE S == {m \in Nat : \E f : IsWalk(f, start, old, m)}
<1>1. 0 \in S
  <2> DEFINE f == [k \in 0 .. 0 |-> start]
  <2>1. IsWalk(f, start, old, 0)
    BY DEF IsWalk
  <2> HIDE DEF f
  <2> QED
    BY <2>1
<1>2. ASSUME NEW m \in Nat, m \in S PROVE m + 1 \in S
  <2>1. PICK f : IsWalk(f, start, old, m)
    BY <1>2
  <2> DEFINE g == [k \in 0 .. m + 1 |-> IF k = m + 1 THEN Step(f[m], old) ELSE f[k]]
  <2>2. \A k \in 0 .. m : f[k] = IF k = 0 THEN start ELSE Step(f[k - 1], old)
    BY <2>1 DEF IsWalk
  <2>3. ASSUME NEW k \in 0 .. m + 1
        PROVE  g[k] = IF k = 0 THEN start ELSE Step(g[k - 1], old)
    <3>1. CASE k = m + 1
      <4>1. k # 0 /\ k - 1 = m /\ m \in 0 .. m + 1 /\ m # m + 1
        BY <3>1
      <4>2. g[k - 1] = f[m] /\ g[k] = Step(f[m], old)
        BY <3>1, <4>1
      <4> QED
        BY <4>1, <4>2
    <3>2. CASE k # m + 1
      <4>1. k \in 0 .. m
        BY <3>2
      <4>2. k # 0 => k - 1 \in 0 .. m + 1 /\ k - 1 # m + 1
        BY <4>1
      <4>3. g[k] = f[k] /\ (k # 0 => g[k - 1] = f[k - 1])
        BY <3>2, <4>2
      <4> HIDE DEF g
      <4> QED
        BY <2>2, <4>1, <4>3
    <3> QED
      BY <3>1, <3>2
  <2>4. DOMAIN g = 0 .. m + 1 /\ g = [k \in 0 .. m + 1 |-> g[k]]
    OBVIOUS
  <2>5. IsWalk(g, start, old, m + 1)
    <3> HIDE DEF g
    <3> QED
      BY <2>3, <2>4 DEF IsWalk
  <2> HIDE DEF g
  <2> QED
    BY <2>5
<1> HIDE DEF S
<1>3. Nat \subseteq S
  BY <1>1, <1>2, NumberInduction
<1> QED
  BY <1>3 DEF S

(* It holds what it should after every step.                               *)
LEMMA WalkHolds ==
  ASSUME NEW base, NEW c, NEW t, Holding(base, c, t), NEW new \in Slots, t[new] > 0, NEW old
  PROVE  Walking(base, Walk(c, old, new), t)
<1> DEFINE Steps == Cardinality(Inums) + 1
           start == [c |-> Dup(c, new), at |-> new, result |-> "walking"]
           walk == CHOOSE f : IsWalk(f, start, old, Steps)
           S == {k \in Nat : k \in 0 .. Steps => Walking(base, walk[k], t)}
<1>1. Steps \in Nat
  BY NoEntryAssumption, FS_CardinalityType
<1>2. Walk(c, old, new) = walk[Steps]
  BY DEF Walk, Step, IsWalk
<1>3. IsWalk(walk, start, old, Steps)
  <2> HIDE DEF start, Steps
  <2>1. \E f : IsWalk(f, start, old, Steps)
    BY <1>1, WalkExists
  <2> QED
    BY <2>1
<1> HIDE DEF walk
<1>4. /\ walk[0] = start
      /\ \A k \in Nat : k + 1 \in 0 .. Steps => walk[k + 1] = Step(walk[k], old)
  <2> HIDE DEF start
  <2>1. 0 \in 0 .. Steps /\ \A k \in Nat : k + 1 # 0 /\ (k + 1) - 1 = k
    BY <1>1
  <2>2. \A k \in 0 .. Steps : walk[k] = IF k = 0 THEN start ELSE Step(walk[k - 1], old)
    BY <1>3 DEF IsWalk
  <2> HIDE DEF Steps
  <2> QED
    BY <2>1, <2>2
<1>5. Walking(base, start, t)
  BY HoldingDup DEF Walking
<1>6. t \in Taken
  BY DEF Holding
<1> HIDE DEF start, Steps
<1>7. 0 \in S
  BY <1>4, <1>5
<1>8. ASSUME NEW k \in Nat, k \in S PROVE k + 1 \in S
  <2>1. SUFFICES ASSUME k + 1 \in 0 .. Steps PROVE Walking(base, walk[k + 1], t)
    OBVIOUS
  <2>2. Walking(base, walk[k], t) /\ walk[k + 1] = Step(walk[k], old)
    BY <1>1, <1>4, <1>8, <2>1
  <2> QED
    BY <1>6, <2>2, ClimbHolds DEF Step
<1> HIDE DEF S
<1>9. Nat \subseteq S
  BY <1>7, <1>8, NumberInduction
<1>10. Steps \in 0 .. Steps
  BY <1>1
<1> QED
  BY <1>1, <1>2, <1>9, <1>10 DEF S

(* The references fs_rename has besides u once it has looked up its names; *)
(* replaced is a list of none or one.                                      *)
RenameRefs(u, o, i, d, replaced) ==
  LET three == Plus(Plus(Plus(u, o), i), d)
  IN  IF replaced = << >> THEN three ELSE Plus(three, Head(replaced))

(* What fs_rename holds at its end.                                        *)
LEMMA RenameRefsTaken ==
  ASSUME NEW u \in Taken, NEW o \in Slots, NEW i \in Slots, NEW d \in Slots,
         NEW replaced, replaced # << >> => Head(replaced) \in Slots
  PROVE  LET t == RenameRefs(u, o, i, d, replaced)
         IN  /\ t \in Taken /\ t[o] > 0 /\ t[i] > 0 /\ t[d] > 0
             /\ replaced # << >> => t[Head(replaced)] > 0
             /\ \A a \in Slots : RenameRefs(Plus(u, a), o, i, d, replaced) = Plus(t, a)
<1> DEFINE t1 == Plus(u, o)
           t2 == Plus(t1, i)
           t3 == Plus(t2, d)
           t == RenameRefs(u, o, i, d, replaced)
<1>1. t1 \in Taken /\ t1[o] > 0
  BY TakenPlus
<1>2. t2 \in Taken /\ t2[o] > 0 /\ t2[i] > 0
  <2> HIDE DEF t1
  <2> QED
    BY <1>1, TakenPlus
<1>3. t3 \in Taken /\ t3[o] > 0 /\ t3[i] > 0 /\ t3[d] > 0
  <2> HIDE DEF t2
  <2> QED
    BY <1>2, TakenPlus
<1>4. t = IF replaced = << >> THEN t3 ELSE Plus(t3, Head(replaced))
  BY DEF RenameRefs
<1>5. /\ t \in Taken /\ t[o] > 0 /\ t[i] > 0 /\ t[d] > 0
      /\ replaced # << >> => t[Head(replaced)] > 0
  <2> HIDE DEF t3, t
  <2> QED
    BY <1>3, <1>4, TakenPlus
<1>6. ASSUME NEW a \in Slots PROVE RenameRefs(Plus(u, a), o, i, d, replaced) = Plus(t, a)
  <2>1. Plus(Plus(u, a), o) = Plus(t1, a)
    BY TakenSwap
  <2>2. Plus(Plus(t1, a), i) = Plus(t2, a)
    <3> HIDE DEF t1
    <3> QED
      BY <1>1, TakenSwap
  <2>3. Plus(Plus(t2, a), d) = Plus(t3, a)
    <3> HIDE DEF t2
    <3> QED
      BY <1>2, TakenSwap
  <2>4. replaced # << >> => Plus(Plus(t3, a), Head(replaced)) = Plus(Plus(t3, Head(replaced)), a)
    <3> HIDE DEF t3
    <3> QED
      BY <1>3, TakenSwap
  <2>5. RenameRefs(Plus(u, a), o, i, d, replaced)
          = IF replaced = << >> THEN Plus(t3, a) ELSE Plus(Plus(t3, a), Head(replaced))
    BY <2>1, <2>2, <2>3 DEF RenameRefs
  <2> HIDE DEF t, t3
  <2> QED
    BY <1>4, <2>4, <2>5
<1> QED
  BY <1>5, <1>6

(* It gives all of it back.                                                *)
LEMMA PutAllHolds ==
  ASSUME NEW base, NEW c, NEW u \in Taken, NEW o \in Slots, NEW i \in Slots, NEW d \in Slots,
         NEW replaced, replaced # << >> => Head(replaced) \in Slots,
         Holding(base, c, RenameRefs(u, o, i, d, replaced))
  PROVE  Holding(base, PutAll(c, o, i, d, replaced), u)
<1> DEFINE v == IF replaced = << >> THEN u ELSE Plus(u, Head(replaced))
           rest == put_inode(put_inode(put_inode(c, o), i), d)
<1>1. v \in Taken
  BY TakenPlus
<1>2. RenameRefs(u, o, i, d, replaced) = RenameRefs(v, o, i, d, << >>)
  <2>1. CASE replaced = << >>
    BY <2>1
  <2>2. CASE replaced # << >>
    <3>1. RenameRefs(Plus(u, Head(replaced)), o, i, d, << >>)
            = Plus(RenameRefs(u, o, i, d, << >>), Head(replaced))
      BY <2>2, RenameRefsTaken
    <3>2. RenameRefs(u, o, i, d, replaced) = Plus(RenameRefs(u, o, i, d, << >>), Head(replaced))
      BY <2>2 DEF RenameRefs
    <3> QED
      BY <2>2, <3>1, <3>2
  <2> QED
    BY <2>1, <2>2
<1> HIDE DEF v
<1>3. RenameRefs(v, o, i, d, << >>) = Plus(Plus(Plus(v, d), i), o)
  <2>1. Plus(v, d) \in Taken /\ Plus(v, i) \in Taken /\ Plus(v, o) \in Taken
    BY <1>1, TakenPlus
  <2>2. Plus(Plus(Plus(v, o), i), d) = Plus(Plus(Plus(v, o), d), i)
    BY <2>1, TakenSwap
  <2>3. Plus(Plus(v, o), d) = Plus(Plus(v, d), o)
    BY <1>1, TakenSwap
  <2>4. Plus(Plus(Plus(v, d), o), i) = Plus(Plus(Plus(v, d), i), o)
    BY <2>1, TakenSwap
  <2> QED
    BY <2>2, <2>3, <2>4 DEF RenameRefs
<1>4. Plus(v, d) \in Taken /\ Plus(Plus(v, d), i) \in Taken
  BY <1>1, TakenPlus
<1>5. Holding(base, put_inode(c, o), Plus(Plus(v, d), i))
  BY <1>2, <1>3, <1>4, HoldingPut
<1>6. Holding(base, put_inode(put_inode(c, o), i), Plus(v, d))
  BY <1>4, <1>5, HoldingPut
<1>7. Holding(base, rest, v)
  BY <1>1, <1>6, HoldingPut
<1>8. PutAll(c, o, i, d, replaced) = IF replaced = << >> THEN rest ELSE put_inode(rest, Head(replaced))
  BY DEF PutAll
<1> HIDE DEF rest
<1>9. CASE replaced = << >>
  BY <1>7, <1>8, <1>9 DEF v
<1>10. CASE replaced # << >>
  BY <1>7, <1>8, <1>10, HoldingPut DEF v
<1> QED
  BY <1>9, <1>10

(* The end of fs_rename gives everything back, unless it walks for ever.   *)
LEMMA RenamedHolds ==
  ASSUME NEW base, NEW c, NEW u \in Taken, NEW o \in Slots, NEW i \in Slots, NEW d \in Slots,
         NEW on \in Names, NEW nn \in Names,
         NEW replaced, replaced # << >> => Head(replaced) \in Slots,
         Holding(base, c, RenameRefs(u, o, i, d, replaced)),
         Renamed(c, o, on, i, d, nn, replaced)
  PROVE  /\ crashed' \in BOOLEAN
         /\ ~crashed' => Holding(base, fs', u)
         /\ \E v \in Taken : Holding(base, fs', v)
<1> DEFINE t == RenameRefs(u, o, i, d, replaced)
           moves == IsDir(c, i) /\ o # d
           w == IF moves THEN Walk(c, i, d) ELSE [c |-> c, at |-> d, result |-> "reached"]
           without == IF replaced = << >> THEN w.c
                      ELSE IF IsDir(w.c, i) THEN remove_dir(w.c, d, Head(replaced), nn)
                      ELSE unlink_file(w.c, d, Head(replaced), nn)
           moved == Moved(without, o, on, i, d, nn)
           left == IF moves THEN Reparented(moved, i, d) ELSE moved
<1>1. /\ crashed' = (w.result = "walking")
      /\ \/ w.result = "reached" /\ fs' = PutAll(left, o, i, d, replaced)
         \/ fs' = PutAll(w.c, o, i, d, replaced)
  BY DEF Renamed
<1>2. /\ t \in Taken /\ t[o] > 0 /\ t[i] > 0 /\ t[d] > 0
      /\ replaced # << >> => t[Head(replaced)] > 0
      /\ \A a \in Slots : RenameRefs(Plus(u, a), o, i, d, replaced) = Plus(t, a)
  BY RenameRefsTaken
<1>3. Walking(base, w, t)
  <2>1. Walking(base, [c |-> c, at |-> d, result |-> "reached"], t)
    BY DEF Walking
  <2>2. Walking(base, Walk(c, i, d), t)
    <3> HIDE DEF t
    <3> QED
      BY <1>2, WalkHolds DEF t
  <2> HIDE DEF t
  <2> QED
    BY <2>1, <2>2
<1> HIDE DEF w
<1>4. ASSUME w.result = "reached" PROVE Holding(base, left, t)
  <2>1. Holding(base, w.c, t)
    BY <1>3, <1>4 DEF Walking
  <2> HIDE DEF t
  <2>2. Holding(base, without, t)
    <3>1. CASE replaced = << >>
      BY <2>1, <3>1
    <3>2. CASE replaced # << >>
      BY <1>2, <2>1, <3>2, RemoveDirHolds, UnlinkFileHolds
    <3> QED
      BY <3>1, <3>2
  <2> HIDE DEF without
  <2>3. Holding(base, moved, t)
    BY <1>2, <2>2, MovedHolds
  <2> HIDE DEF moved
  <2>4. Holding(base, Reparented(moved, i, d), t)
    BY <1>2, <2>3, ReparentedHolds
  <2> QED
    BY <2>3, <2>4
<1> HIDE DEF left, without, moved
<1>5. CASE w.result = "walking"
  <2>1. w.at \in Slots /\ Plus(u, w.at) \in Taken
    BY <1>3, TakenPlus DEF Walking
  <2>2. Holding(base, w.c, RenameRefs(Plus(u, w.at), o, i, d, replaced))
    BY <1>2, <1>3, <1>5, <2>1 DEF Walking
  <2>3. Holding(base, PutAll(w.c, o, i, d, replaced), Plus(u, w.at))
    BY <2>1, <2>2, PutAllHolds
  <2> QED
    BY <1>1, <1>5, <2>1, <2>3
<1>6. CASE w.result # "walking"
  <2>1. Holding(base, w.c, t)
    BY <1>3, <1>6 DEF Walking
  <2>2. Holding(base, PutAll(w.c, o, i, d, replaced), u)
    BY <2>1, PutAllHolds
  <2>3. w.result = "reached" => Holding(base, PutAll(left, o, i, d, replaced), u)
    BY <1>4, PutAllHolds
  <2>4. Holding(base, fs', u)
    BY <1>1, <2>2, <2>3
  <2> QED
    BY <1>1, <1>6, <2>4
<1> QED
  BY <1>5, <1>6

-----------------------------------------------------------------------------
(* The requests.  Sound is what they preserve, After what they promise.    *)
Sound(c) == c \in State /\ Lists(c)

After(c, e) ==
  /\ Sound(e)
  /\ \A s \in Slots : c.inode[s].count > 0 /\ e.inode[s].count > 0
                        => e.inode[s].num = c.inode[s].num

(* Nothing a request does gives a held slot to another inode.              *)
LEMMA HoldingAfter ==
  ASSUME NEW base, NEW c, NEW t, Holding(base, c, t)
  PROVE  After(base, c)
BY DEF Holding, After, Sound

(* A request begins with an account of nothing.                            *)
LEMMA SoundStart ==
  ASSUME NEW c, Sound(c)
  PROVE  Nothing \in Taken /\ Holding(c, c, Nothing)
BY NothingTaken DEF Sound

(* fs_link gives back every reference it takes, on each path.              *)
LEMMA LinkStep ==
  ASSUME Sound(fs), NEW n \in Inums, NEW dir \in Inums, NEW name \in Names,
         fs_link(n, dir, name)
  PROVE  Holding(fs, fs', Nothing)
<1> DEFINE s  == SlotOf(fs, n)
           c1 == get_inode(fs, n)
           d  == SlotOf(c1, dir)
           c2 == get_inode(c1, dir)
           c3 == IF c2.inode[d].nlinks = 0 THEN c2 ELSE Looked(c2, d, name)
           c4 == Linked(Entered(c3, d, name, n), s)
           t1 == Plus(Nothing, s)
           t2 == Plus(t1, d)
<1>1. /\ HasSlot(fs, n)
      /\ \/ fs' = put_inode(c1, s)
         \/ HasSlot(c1, dir) /\ fs' = put_inode(put_inode(c3, s), d)
         \/ HasSlot(c1, dir) /\ fs' = put_inode(put_inode(c4, s), d)
  BY DEF fs_link
<1>2. Nothing \in Taken /\ s \in Slots /\ Holding(fs, c1, t1)
  BY <1>1, SoundStart, HoldingGet
<1>3. t1 \in Taken
  BY <1>2, TakenPlus
<1> HIDE DEF c1, s
<1>4. CASE fs' = put_inode(c1, s)
  BY <1>2, <1>4, HoldingPut
<1>5. ASSUME HasSlot(c1, dir), NEW c, Holding(fs, c, t2), fs' = put_inode(put_inode(c, s), d)
      PROVE  Holding(fs, fs', Nothing)
  <2>1. d \in Slots /\ Plus(Nothing, d) \in Taken
    BY <1>2, <1>5, HoldingGet, TakenPlus
  <2>2. t2 = Plus(Plus(Nothing, d), s)
    BY <1>2, <2>1, TakenSwap
  <2>3. Holding(fs, put_inode(c, s), Plus(Nothing, d))
    BY <1>2, <1>5, <2>1, <2>2, HoldingPut
  <2> QED
    BY <1>2, <1>5, <2>1, <2>3, HoldingPut
<1>6. ASSUME HasSlot(c1, dir) PROVE Holding(fs, c3, t2) /\ Holding(fs, c4, t2)
  <2>1. d \in Slots /\ Holding(fs, c2, t2)
    BY <1>2, <1>6, HoldingGet
  <2>2. t2[d] > 0
    BY <1>3, <2>1, TakenPlus
  <2> HIDE DEF c2, d, t2
  <2>3. Holding(fs, c3, t2)
    BY <2>1, <2>2, LookedHolds
  <2> HIDE DEF c3
  <2>4. Holding(fs, Entered(c3, d, name, n), t2)
    BY <2>1, <2>2, <2>3, EnteredHolds
  <2> QED
    BY <1>2, <2>3, <2>4, LinkedHolds
<1> QED
  BY <1>1, <1>4, <1>5, <1>6

(* fs_unlink, for files and for directories.                               *)
LEMMA UnlinkStep ==
  ASSUME Sound(fs), NEW dir \in Inums, NEW name \in Names, NEW rmdir \in BOOLEAN,
         fs_unlink(dir, name, rmdir)
  PROVE  Holding(fs, fs', Nothing)
<1> DEFINE d  == SlotOf(fs, dir)
           c1 == get_inode(fs, dir)
           s  == AdvanceSlot(c1, d, name)
           c2 == Advance(c1, d, name)
           c3 == IF ~rmdir /\ ~IsDir(c2, s) THEN unlink_file(c2, d, s, name)
                 ELSE IF rmdir /\ Removable(c2, s, name) THEN remove_dir(c2, d, s, name)
                 ELSE c2
           t1 == Plus(Nothing, d)
           t2 == Plus(t1, s)
<1>1. /\ HasSlot(fs, dir)
      /\ fs' = IF CanAdvance(c1, d, name) THEN put_inode(put_inode(c3, s), d)
               ELSE put_inode(c1, d)
  BY DEF fs_unlink
<1>2. Nothing \in Taken /\ d \in Slots /\ Holding(fs, c1, t1)
  BY <1>1, SoundStart, HoldingGet
<1>3. t1 \in Taken /\ t1[d] > 0
  BY <1>2, TakenPlus
<1> HIDE DEF c1, d
<1>4. CASE ~CanAdvance(c1, d, name)
  BY <1>1, <1>2, <1>4, HoldingPut
<1>5. CASE CanAdvance(c1, d, name)
  <2> HIDE DEF t1
  <2>1. s \in Slots /\ Holding(fs, c2, t2)
    BY <1>2, <1>3, <1>5, HoldingAdvance
  <2> HIDE DEF c2, s
  <2>2. t2[d] > 0 /\ t2[s] > 0
    BY <1>2, <1>3, <2>1, TakenPlus
  <2>3. Holding(fs, c3, t2)
    <3> HIDE DEF t2
    <3> QED
      BY <1>2, <2>1, <2>2, UnlinkFileHolds, RemoveDirHolds
  <2> HIDE DEF c3
  <2>4. Holding(fs, put_inode(c3, s), t1)
    BY <1>3, <2>1, <2>3, HoldingPut
  <2>5. Holding(fs, put_inode(put_inode(c3, s), d), Nothing)
    BY <1>2, <2>4, HoldingPut DEF t1
  <2> QED
    BY <1>1, <1>5, <2>5
<1> QED
  BY <1>4, <1>5

(* fs_rename, unless it crashes.                                           *)
LEMMA RenameStep ==
  ASSUME Sound(fs), crashed \in BOOLEAN, NEW od \in Inums, NEW on \in Names,
         NEW nd \in Inums, NEW nn \in Names, fs_rename(od, on, nd, nn)
  PROVE  /\ crashed' \in BOOLEAN /\ After(fs, fs')
         /\ ~crashed' => Holding(fs, fs', Nothing)
<1> DEFINE o  == SlotOf(fs, od)
           c1 == get_inode(fs, od)
           i  == AdvanceSlot(c1, o, on)
           c2 == Advance(c1, o, on)
           d  == SlotOf(c2, nd)
           c3 == get_inode(c2, nd)
           s  == AdvanceSlot(c3, d, nn)
           t1 == Plus(Nothing, o)
           t2 == Plus(t1, i)
           t3 == Plus(t2, d)
<1>1. /\ HasSlot(fs, od)
      /\ \/ /\ ~(CanAdvance(c1, o, on) /\ HasSlot(c2, nd))
            /\ fs' = put_inode(IF CanAdvance(c1, o, on) THEN put_inode(c2, i) ELSE c1, o)
            /\ crashed' = crashed
         \/ /\ CanAdvance(c1, o, on) /\ HasSlot(c2, nd)
            /\ fs' = put_inode(put_inode(put_inode(c3, i), o), d)
            /\ crashed' = crashed
         \/ /\ CanAdvance(c1, o, on) /\ HasSlot(c2, nd)
            /\ CanAdvance(c3, d, nn)
            /\ Renamed(Advance(c3, d, nn), o, on, i, d, nn, <<s>>)
         \/ /\ CanAdvance(c1, o, on) /\ HasSlot(c2, nd)
            /\ Renamed(c3, o, on, i, d, nn, << >>)
  BY DEF fs_rename
<1>2. Nothing \in Taken /\ o \in Slots /\ Holding(fs, c1, t1)
  BY <1>1, SoundStart, HoldingGet
<1>3. t1 \in Taken /\ t1[o] > 0
  BY <1>2, TakenPlus
<1> HIDE DEF c1, o
<1>4. ASSUME CanAdvance(c1, o, on)
      PROVE  i \in Slots /\ Holding(fs, c2, t2) /\ t2 \in Taken
  <2> HIDE DEF t1
  <2> QED
    BY <1>2, <1>3, <1>4, HoldingAdvance, TakenPlus
<1> HIDE DEF c2, i
<1>5. ASSUME CanAdvance(c1, o, on), HasSlot(c2, nd)
      PROVE  d \in Slots /\ Holding(fs, c3, t3) /\ t3 \in Taken /\ t3[d] > 0
  <2> HIDE DEF t2
  <2> QED
    BY <1>4, <1>5, HoldingGet, TakenPlus
<1> HIDE DEF c3, d
<1>6. CASE /\ ~(CanAdvance(c1, o, on) /\ HasSlot(c2, nd))
           /\ fs' = put_inode(IF CanAdvance(c1, o, on) THEN put_inode(c2, i) ELSE c1, o)
           /\ crashed' = crashed
  <2>1. Holding(fs, IF CanAdvance(c1, o, on) THEN put_inode(c2, i) ELSE c1, t1)
    <3> HIDE DEF t1
    <3> QED
      BY <1>2, <1>3, <1>4, HoldingPut
  <2>2. Holding(fs, fs', Nothing)
    BY <1>2, <1>6, <2>1, HoldingPut
  <2> QED
    BY <1>6, <2>2, HoldingAfter
<1>7. CASE /\ CanAdvance(c1, o, on) /\ HasSlot(c2, nd)
           /\ fs' = put_inode(put_inode(put_inode(c3, i), o), d)
           /\ crashed' = crashed
  <2>1. /\ i \in Slots /\ d \in Slots /\ Holding(fs, c3, t3)
        /\ Plus(Nothing, d) \in Taken /\ Plus(t1, d) \in Taken
    BY <1>2, <1>3, <1>4, <1>5, <1>7, TakenPlus
  <2>2. t3 = Plus(Plus(t1, d), i) /\ Plus(t1, d) = Plus(Plus(Nothing, d), o)
    BY <1>2, <1>3, <2>1, TakenSwap
  <2>3. Holding(fs, put_inode(c3, i), Plus(t1, d))
    BY <2>1, <2>2, HoldingPut
  <2>4. Holding(fs, put_inode(put_inode(c3, i), o), Plus(Nothing, d))
    BY <1>2, <2>1, <2>2, <2>3, HoldingPut
  <2>5. Holding(fs, fs', Nothing)
    BY <1>2, <1>7, <2>1, <2>4, HoldingPut
  <2> QED
    BY <1>7, <2>5, HoldingAfter
<1>8. CASE /\ CanAdvance(c1, o, on) /\ HasSlot(c2, nd)
           /\ CanAdvance(c3, d, nn)
           /\ Renamed(Advance(c3, d, nn), o, on, i, d, nn, <<s>>)
  <2>1. i \in Slots /\ d \in Slots /\ Holding(fs, c3, t3) /\ t3[d] > 0
    BY <1>4, <1>5, <1>8
  <2>2. s \in Slots /\ Holding(fs, Advance(c3, d, nn), Plus(t3, s))
    <3> HIDE DEF t3
    <3> QED
      BY <1>8, <2>1, HoldingAdvance
  <2>3. <<s>> # << >> /\ Head(<<s>>) = s /\ RenameRefs(Nothing, o, i, d, <<s>>) = Plus(t3, s)
    BY DEF RenameRefs
  <2> HIDE DEF s, t3
  <2>4. /\ crashed' \in BOOLEAN
        /\ ~crashed' => Holding(fs, fs', Nothing)
        /\ \E v \in Taken : Holding(fs, fs', v)
    BY <1>2, <1>8, <2>1, <2>2, <2>3, RenamedHolds
  <2> QED
    BY <2>4, HoldingAfter
<1>9. CASE /\ CanAdvance(c1, o, on) /\ HasSlot(c2, nd)
           /\ Renamed(c3, o, on, i, d, nn, << >>)
  <2>1. i \in Slots /\ d \in Slots /\ Holding(fs, c3, t3)
    BY <1>4, <1>5, <1>9
  <2>2. RenameRefs(Nothing, o, i, d, << >>) = t3
    BY DEF RenameRefs
  <2> HIDE DEF t3
  <2>3. /\ crashed' \in BOOLEAN
        /\ ~crashed' => Holding(fs, fs', Nothing)
        /\ \E v \in Taken : Holding(fs, fs', v)
    BY <1>2, <1>9, <2>1, <2>2, RenamedHolds
  <2> QED
    BY <2>3, HoldingAfter
<1> QED
  BY <1>1, <1>6, <1>7, <1>8, <1>9

(* find_inode finds a slot somebody uses, and that holds the inode.        *)
LEMMA FindInode ==
  ASSUME NEW c, Sound(c), NEW n \in Inums, InUse(c, n)
  PROVE  /\ find_inode(c, n) \in Slots
         /\ c.inode[find_inode(c, n)].count > 0 /\ c.inode[find_inode(c, n)].num = n
<1> DEFINE list == c.hashed[n]
           K == {k \in DOMAIN list : c.inode[list[k]].count > 0}
<1>1. list \in Seq(Slots) /\ Range(list) = Holders(c, n)
  BY DEF Sound, Lists, IsListOf
<1>2. DOMAIN list = 1 .. Len(list) /\ Len(list) \in Nat
      /\ \A k \in DOMAIN list : list[k] \in Holders(c, n)
  BY <1>1 DEF Range
<1>3. K \in SUBSET Nat /\ K # {}
  BY <1>2 DEF InUse
<1>4. find_inode(c, n) = list[Min(K)]
  BY DEF find_inode
<1> HIDE DEF K
<1>5. Min(K) \in K
  <2>1. \E k \in K : \A m \in K : k =< m
    BY <1>3, LeastNumber
  <2> QED
    BY <2>1 DEF Min
<1>6. list[Min(K)] \in Holders(c, n) /\ c.inode[list[Min(K)]].count > 0
  BY <1>2, <1>5 DEF K
<1> QED
  BY <1>4, <1>6 DEF Holders

(* The zones of an inode are no part of the table's lists.                 *)
LEMMA ZonesSame ==
  ASSUME NEW c \in State, NEW s \in Slots, NEW zones \in BOOLEAN
  PROVE  Same(c, [c EXCEPT !.inode[s].zones = zones])
<1> DEFINE i == [c.inode[s] EXCEPT !.zones = zones]
<1>1. c.inode[s] \in Inode
  BY StateTypes
<1>2. i \in Inode /\ i.num = c.inode[s].num /\ i.count = c.inode[s].count
  BY <1>1 DEF Inode
<1>3. [c EXCEPT !.inode[s].zones = zones] = [c EXCEPT !.inode[s] = i]
  OBVIOUS
<1> HIDE DEF i
<1> QED
  BY <1>2, <1>3, InodeSame

(* A file that gets or loses its zones.                                    *)
LEMMA ZonesHold ==
  ASSUME NEW c, Sound(c), NEW s \in Slots, NEW zones \in BOOLEAN
  PROVE  Holding(c, Marked([c EXCEPT !.inode[s].zones = zones], s), Nothing)
<1> DEFINE d == [c EXCEPT !.inode[s].zones = zones]
<1>1. Same(c, d)
  BY ZonesSame DEF Sound
<1> HIDE DEF d
<1>2. Same(d, Marked(d, s))
  BY <1>1, MarkedSame DEF Same
<1>3. Holding(c, Marked(d, s), Nothing)
  BY <1>1, <1>2, SoundStart, HoldingSame, SameTransitive
<1> QED
  BY <1>3 DEF d

(* fs_ftrunc gives back the reference it takes.                            *)
LEMMA TruncStep ==
  ASSUME Sound(fs), NEW n \in Inums, fs_ftrunc(n)
  PROVE  Holding(fs, fs', Nothing)
BY FindInode, ZonesHold DEF fs_ftrunc

(* A write takes no reference in the end.                                  *)
LEMMA WriteStep ==
  ASSUME Sound(fs), NEW n \in Inums, fs_write(n)
  PROVE  Holding(fs, fs', Nothing)
BY FindInode, ZonesHold DEF fs_write

(* fs_putnode gives back as many references as VFS says.                   *)
LEMMA PutnodeStep ==
  ASSUME Sound(fs), vfs \in [Inums -> Nat], NEW n \in Inums, NEW count \in Nat, count > 0,
         fs_putnode(n, count)
  PROVE  /\ After(fs, fs') /\ vfs' \in [Inums -> Nat]
         /\ crashed' \in {TRUE, crashed}
<1>1. CASE crashed' = TRUE /\ fs' = fs /\ vfs' = vfs
  BY <1>1 DEF After
<1>2. CASE /\ InUse(fs, n) /\ count <= vfs[n]
           /\ count <= fs.inode[find_inode(fs, n)].count
           /\ fs' = put_inode([fs EXCEPT !.inode[find_inode(fs, n)].count = @ - (count - 1)],
                              find_inode(fs, n))
           /\ vfs' = [vfs EXCEPT ![n] = @ - count]
           /\ crashed' = crashed
  <2> DEFINE s == find_inode(fs, n)
             k == fs.inode[s].count - (count - 1)
             less == [fs.inode[s] EXCEPT !.count = k]
             base == [fs EXCEPT !.inode[s].count = @ - (count - 1)]
  <2>1. s \in Slots /\ fs.inode[s].num = n
    BY <1>2, FindInode
  <2>2. fs \in State /\ Lists(fs)
    BY DEF Sound
  <2>3. fs' = put_inode(base, s) /\ count <= fs.inode[s].count
    BY <1>2
  <2>4. /\ base.inode = [fs.inode EXCEPT ![s] = less]
        /\ base.unused = fs.unused /\ base.hashed = fs.hashed
        /\ base = [fs EXCEPT !.inode = base.inode]
    BY <2>2 DEF State
  <2> HIDE DEF s
  <2>5. fs.inode[s] \in Inode /\ fs.inode[s].count \in Nat
    BY <2>1, <2>2, StateTypes
  <2>6. k \in Nat /\ k > 0 /\ fs.inode[s].count > 0
    BY <2>3, <2>5
  <2> HIDE DEF k, base
  <2>7. less \in Inode /\ less.count = k /\ less.num = fs.inode[s].num
    BY <2>5, <2>6, CountSet
  <2> HIDE DEF less
  <2>8. /\ base.inode \in [Slots -> Inode] /\ base.inode[s] = less
        /\ \A r \in Slots \ {s} : base.inode[r] = fs.inode[r]
    BY <2>1, <2>2, <2>4, <2>7, StateTypes
  <2>9. base \in State
    BY <2>2, <2>4, <2>8 DEF State
  <2>10. /\ Idle(base) = Idle(fs) /\ Free(base) = Free(fs)
         /\ \A m \in Inums : Holders(base, m) = Holders(fs, m)
    <3>1. \A r \in Slots : base.inode[r].num = fs.inode[r].num
      BY <2>7, <2>8
    <3>2. \A r \in Slots : base.inode[r].count = 0 <=> fs.inode[r].count = 0
      BY <2>6, <2>7, <2>8
    <3> QED
      BY <3>1, <3>2 DEF Idle, Free, Holders
  <2>11. Lists(base)
    <3>1. \A r \in Slots : base.inode[r].count > 0 => base.inode[r].num \in Inums
      BY <2>1, <2>2, <2>7, <2>8 DEF Lists
    <3> QED
      BY <2>2, <2>4, <2>10, <3>1 DEF Lists
  <2>12. /\ fs' \in State /\ Lists(fs') /\ Others(base, fs', s)
         /\ fs'.inode[s].count = k - 1
         /\ k > 1 => fs'.inode[s].num = n
    <3>1. base.inode[s].count = k /\ base.inode[s].num = n
      BY <2>1, <2>7, <2>8
    <3> QED
      BY <2>1, <2>3, <2>6, <2>9, <2>11, <3>1, PutOne
  <2>13. fs'.inode[s].count > 0 => fs'.inode[s].num = fs.inode[s].num
    BY <2>1, <2>6, <2>12
  <2>14. \A r \in Slots \ {s} : fs'.inode[r].num = fs.inode[r].num
    BY <2>8, <2>12 DEF Others
  <2>15. After(fs, fs')
    BY <2>12, <2>13, <2>14 DEF After, Sound
  <2>16. vfs' \in [Inums -> Nat]
    <3>1. vfs[n] - count \in Nat
      BY <1>2
    <3> QED
      BY <1>2, <3>1
  <2> QED
    BY <1>2, <2>15, <2>16
<1> QED
  BY <1>1, <1>2 DEF fs_putnode

(* Changes of the bit map and of a whole directory.                        *)
LEMMA ImapSame ==
  ASSUME NEW c \in State, NEW imap \in SUBSET Inums
  PROVE  Same(c, [c EXCEPT !.imap = imap])
<1> DEFINE e == [c EXCEPT !.imap = imap]
<1>1. e.unused = c.unused /\ e.hashed = c.hashed /\ e.inode = c.inode
  BY DEF State
<1>2. e \in State
  BY DEF State
<1> HIDE DEF e
<1>3. Same(c, e)
  BY <1>1, <1>2 DEF Same
<1> QED
  BY <1>3 DEF e

(* Nor are the entries of a whole directory.                               *)
LEMMA DirectorySame ==
  ASSUME NEW c \in State, NEW n \in Inums, NEW names \in [Names -> Seq(Inums)]
  PROVE  Same(c, [c EXCEPT !.entries[n] = names])
<1> DEFINE entries == [c.entries EXCEPT ![n] = names]
           e == [c EXCEPT !.entries = entries]
<1>1. [c EXCEPT !.entries[n] = names] = e
  OBVIOUS
<1>2. entries \in [Inums -> [Names -> Seq(Inums)]]
  BY StateTypes
<1> HIDE DEF entries
<1>3. e.unused = c.unused /\ e.hashed = c.hashed /\ e.inode = c.inode
  BY DEF State
<1>4. e \in State
  BY <1>2 DEF State
<1> HIDE DEF e
<1> QED
  BY <1>1, <1>3, <1>4 DEF Same

(* fs_recover keeps the lists, whatever else it does.                      *)
LEMMA RecoverStep ==
  ASSUME Sound(fs), crashed \in BOOLEAN, NEW n \in Inums, NEW dir \in Inums,
         fs_recover(n, dir)
  PROVE  After(fs, fs') /\ crashed' \in BOOLEAN
<1>1. PICK allocated \in IF fs.imap = Inums THEN {{}} ELSE {{b} : b \in Inums \ fs.imap} :
         LET d  == SlotOf(fs, dir)
             c1 == get_inode(fs, dir)
             s  == SlotOf(c1, n)
             c2 == retrieve_inode(c1, n, allocated)
             c3 == [c2 EXCEPT !.inode[s].nlinks = U16(@ + 1), !.inode[s].dirty = FALSE]
         IN  \/ UNCHANGED <<fs, crashed>>
             \/ /\ HasSlot(fs, dir)
                /\ fs' = [c1 EXCEPT !.imap = (@ \cup allocated) \ {n}] /\ crashed' = TRUE
             \/ /\ HasSlot(fs, dir) /\ HasSlot(c1, n)
                /\ fs' = c3 \/ fs' = Entered(c3, d, RecoverName, n)
                /\ crashed' = crashed
  BY DEF fs_recover
<1> DEFINE d  == SlotOf(fs, dir)
           c1 == get_inode(fs, dir)
           s  == SlotOf(c1, n)
           c0 == [c1 EXCEPT !.imap = c1.imap \cup allocated]
           c2 == retrieve_inode(c1, n, allocated)
           i  == [c2.inode[s] EXCEPT !.nlinks = U16(c2.inode[s].nlinks + 1), !.dirty = FALSE]
           c3 == [c2 EXCEPT !.inode[s].nlinks = U16(@ + 1), !.inode[s].dirty = FALSE]
           t1 == Plus(Nothing, d)
           t2 == Plus(t1, s)
<1>2. allocated \in SUBSET Inums
  BY <1>1
<1>3. CASE UNCHANGED <<fs, crashed>>
  BY <1>3 DEF After
<1>4. ASSUME HasSlot(fs, dir)
      PROVE  /\ d \in Slots /\ Holding(fs, c1, t1) /\ t1 \in Taken /\ t1[d] > 0
             /\ c1 \in State /\ c1.imap \in SUBSET Inums
  <2>1. Nothing \in Taken /\ d \in Slots /\ Holding(fs, c1, t1)
    BY <1>4, SoundStart, HoldingGet
  <2>2. t1 \in Taken /\ t1[d] > 0
    BY <2>1, TakenPlus
  <2> HIDE DEF c1, t1
  <2>3. c1 \in State /\ c1.imap \in SUBSET Inums
    BY <2>1, StateTypes DEF Holding
  <2> QED
    BY <2>1, <2>2, <2>3
<1> HIDE DEF c1
<1>5. CASE /\ HasSlot(fs, dir)
           /\ fs' = [c1 EXCEPT !.imap = (@ \cup allocated) \ {n}] /\ crashed' = TRUE
  <2>1. (c1.imap \cup allocated) \ {n} \in SUBSET Inums
    BY <1>2, <1>4, <1>5
  <2>2. Same(c1, fs')
    BY <1>4, <1>5, <2>1, ImapSame
  <2>3. Holding(fs, fs', t1)
    BY <1>4, <1>5, <2>2, HoldingSame
  <2> QED
    BY <1>5, <2>3, HoldingAfter
<1>6. CASE /\ HasSlot(fs, dir) /\ HasSlot(c1, n)
           /\ fs' = c3 \/ fs' = Entered(c3, d, RecoverName, n)
           /\ crashed' = crashed
  <2>1. c1.imap \cup allocated \in SUBSET Inums
    BY <1>2, <1>4, <1>6
  <2>2. Same(c1, c0)
    BY <1>4, <1>6, <2>1, ImapSame
  <2>3. HasSlot(c0, n) /\ SlotOf(c0, n) = s /\ c2 = get_inode(c0, n)
    <3>1. c0.hashed = c1.hashed /\ c0.unused = c1.unused
      BY <2>2 DEF Same
    <3>2. c2 = get_inode(c0, n)
      BY DEF retrieve_inode
    <3> HIDE DEF c0
    <3> QED
      BY <1>6, <3>1, <3>2 DEF HasSlot, SlotOf, Cached
  <2> HIDE DEF c0
  <2>4. Holding(fs, c0, t1)
    BY <1>4, <1>6, <2>2, HoldingSame
  <2>5. s \in Slots /\ Holding(fs, c2, t2)
    <3> HIDE DEF t1
    <3> QED
      BY <2>3, <2>4, HoldingGet
  <2>6. t2 \in Taken /\ t2[d] > 0
    <3> HIDE DEF t1
    <3> QED
      BY <1>4, <1>6, <2>5, TakenPlus
  <2> HIDE DEF c2, s, t2
  <2>7. c2 \in State /\ c2.inode[s] \in Inode /\ c2.inode[s].nlinks \in Links
    BY <2>5, StateTypes DEF Holding
  <2>8. U16(c2.inode[s].nlinks + 1) \in Links
    BY <2>7, LinksWrap
  <2>9. i \in Inode /\ i.num = c2.inode[s].num /\ i.count = c2.inode[s].count
    BY <2>7, <2>8 DEF Inode
  <2>10. c3 = [c2 EXCEPT !.inode[s] = i]
    BY <2>5, <2>7, StateTypes DEF State
  <2> HIDE DEF i, c3
  <2>11. Holding(fs, c3, t2)
    BY <2>5, <2>7, <2>9, <2>10, InodeSame, HoldingSame
  <2>12. RecoverName \in Names
    BY NameAssumption DEF Names
  <2>13. Holding(fs, fs', t2)
    BY <1>4, <1>6, <2>6, <2>11, <2>12, EnteredHolds
  <2> QED
    BY <1>6, <2>13, HoldingAfter
<1> QED
  BY <1>1, <1>3, <1>5, <1>6 DEF c1

(* fs_lookup leaves one reference to VFS.                                  *)
LEMMA LookupStep ==
  ASSUME Sound(fs), vfs \in [Inums -> Nat], NEW dir \in Inums, NEW name \in Names,
         fs_lookup(dir, name)
  PROVE  After(fs, fs') /\ vfs' \in [Inums -> Nat]
<1> DEFINE d  == SlotOf(fs, dir)
           c1 == get_inode(fs, dir)
           n  == LookUp(c1, d, name)
           s  == AdvanceSlot(c1, d, name)
           t1 == Plus(Nothing, d)
<1>1. /\ HasSlot(fs, dir) /\ CanAdvance(c1, d, name)
      /\ fs' = put_inode(Advance(c1, d, name), d)
      /\ vfs' = [vfs EXCEPT ![n] = @ + 1]
  BY DEF fs_lookup
<1>2. Nothing \in Taken /\ d \in Slots /\ Holding(fs, c1, t1)
  BY <1>1, SoundStart, HoldingGet
<1>3. t1 \in Taken /\ t1[d] > 0
  BY <1>2, TakenPlus
<1> HIDE DEF c1, d
<1>4. s \in Slots /\ Holding(fs, Advance(c1, d, name), Plus(t1, s))
  <2> HIDE DEF t1
  <2> QED
    BY <1>1, <1>2, <1>3, HoldingAdvance
<1> HIDE DEF s
<1>5. Plus(Nothing, s) \in Taken /\ Plus(t1, s) = Plus(Plus(Nothing, s), d)
  BY <1>2, <1>4, TakenPlus, TakenSwap
<1>6. Holding(fs, fs', Plus(Nothing, s))
  BY <1>1, <1>2, <1>4, <1>5, HoldingPut
<1> HIDE DEF n
<1>7. vfs' \in [Inums -> Nat]
  <2>1. \A m \in Inums : vfs[m] + 1 \in Nat
    OBVIOUS
  <2> QED
    BY <1>1, <2>1
<1> QED
  BY <1>6, <1>7, HoldingAfter

(* A new inode in the first slot of the unused list.                       *)
LEMMA HoldingLoad ==
  ASSUME NEW base, NEW c, NEW t, Holding(base, c, t), c.unused # << >>,
         NEW i \in Inode, i.num \in Inums, i.count = 1
  PROVE  /\ Head(c.unused) \in Slots
         /\ Holding(base, Load(c, i), Plus(t, Head(c.unused)))
<1> DEFINE s == Head(c.unused)
           e == Load(c, i)
<1>1. /\ s \in Slots /\ c.inode[s].count = 0
      /\ e \in State /\ Lists(e) /\ Others(c, e, s) /\ e.inode[s] = i
  BY LoadOne DEF Holding
<1> HIDE DEF s, e
<1>2. /\ base.inode[s].count \in Nat /\ t[s] \in Nat
      /\ c.inode[s].count = base.inode[s].count + t[s]
  BY <1>1, StateTypes DEF Holding, Taken
<1>3. /\ Plus(t, s) \in Taken /\ Plus(t, s)[s] = t[s] + 1
      /\ \A r \in Slots \ {s} : Plus(t, s)[r] = t[r]
  BY <1>1, TakenPlus DEF Holding
<1>4. e.inode[s].count = base.inode[s].count + Plus(t, s)[s] /\ ~(base.inode[s].count > 0)
  <2>1. e.inode[s].count = 1
    BY <1>1
  <2>2. base.inode[s].count = 0 /\ t[s] = 0
    BY <1>1, <1>2
  <2> QED
    BY <1>3, <2>1, <2>2
<1>5. \A r \in Slots \ {s} : /\ e.inode[r].count = base.inode[r].count + Plus(t, s)[r]
                             /\ base.inode[r].count > 0 => e.inode[r].num = base.inode[r].num
  BY <1>1, <1>3 DEF Holding, Others
<1>6. Holding(base, e, Plus(t, s))
  BY <1>1, <1>3, <1>4, <1>5 DEF Holding
<1> QED
  BY <1>1, <1>6 DEF s, e

(* The entries of a new directory.                                         *)
LEMMA DotsType ==
  ASSUME NEW n \in Inums, NEW up \in Inums
  PROVE  NoNames \in [Names -> Seq(Inums)] /\ Dots(n, up) \in [Names -> Seq(Inums)]
<1>1. << >> \in Seq(Inums) /\ <<n>> \in Seq(Inums) /\ <<up>> \in Seq(Inums)
  OBVIOUS
<1>2. NoNames \in [Names -> Seq(Inums)]
  BY <1>1 DEF NoNames
<1> QED
  BY <1>1, <1>2 DEF Dots

(* fs_create leaves one reference to VFS, fs_mkdir none.                   *)
LEMMA CreateStep ==
  ASSUME Sound(fs), vfs \in [Inums -> Nat], NEW dir \in Inums, NEW name \in FileNames,
         NEW mode \in Modes, fs_create(dir, name, mode)
  PROVE  After(fs, fs') /\ vfs' \in [Inums -> Nat]
<1>1. PICK b \in Inums \ fs.imap :
         LET d  == SlotOf(fs, dir)
             c1 == get_inode(fs, dir)
             s  == Head(c1.unused)
             c2 == alloc_inode(c1, b, mode)
             c3 == Entered(Written([c2 EXCEPT !.inode[s].nlinks = 1], s), d, name, b)
             c4 == Linked(Linked([c3 EXCEPT !.entries[b] = Dots(b, dir),
                                            !.inode[s].zones = TRUE], s), d)
         IN  /\ HasSlot(fs, dir) /\ c1.unused # << >>
             /\ \/ fs' = put_inode(c3, d) /\ vfs' = [vfs EXCEPT ![b] = @ + 1]
                \/ fs' = put_inode(put_inode(c4, s), d) /\ vfs' = vfs
  BY DEF fs_create
<1> DEFINE d  == SlotOf(fs, dir)
           c1 == get_inode(fs, dir)
           s  == Head(c1.unused)
           imap == c1.imap \cup {b}
           ca == [c1 EXCEPT !.imap = imap]
           none == [entry \in DOMAIN c1.entries[b] |-> << >>]
           cb == [ca EXCEPT !.entries[b] = none]
           i == [num |-> b, count |-> 1, nlinks |-> 0, mode |-> mode, zones |-> FALSE,
                 dirty |-> TRUE]
           c2 == alloc_inode(c1, b, mode)
           cc == [c2 EXCEPT !.inode[s].nlinks = 1]
           cd == Written(cc, s)
           c3 == Entered(cd, d, name, b)
           ce == [c3 EXCEPT !.entries[b] = Dots(b, dir)]
           cf == [ce EXCEPT !.inode[s].zones = TRUE]
           cg == [c3 EXCEPT !.entries[b] = Dots(b, dir), !.inode[s].zones = TRUE]
           c4 == Linked(Linked(cg, s), d)
           t1 == Plus(Nothing, d)
           t2 == Plus(t1, s)
<1>2. /\ HasSlot(fs, dir) /\ c1.unused # << >>
      /\ \/ fs' = put_inode(c3, d) /\ vfs' = [vfs EXCEPT ![b] = @ + 1]
         \/ fs' = put_inode(put_inode(c4, s), d) /\ vfs' = vfs
  BY <1>1
<1>3. Nothing \in Taken /\ d \in Slots /\ Holding(fs, c1, t1)
  BY <1>2, SoundStart, HoldingGet
<1>4. t1 \in Taken /\ t1[d] > 0
  BY <1>3, TakenPlus
<1>5. b \in Inums /\ name \in Names
  BY DEF Names
<1> HIDE DEF c1, d
<1>6. /\ c1 \in State /\ imap \in SUBSET Inums
      /\ none \in [Names -> Seq(Inums)]
  <2>1. c1 \in State
    BY <1>3 DEF Holding
  <2>2. c1.imap \in SUBSET Inums /\ c1.entries[b] \in [Names -> Seq(Inums)]
    BY <1>5, <2>1, StateTypes
  <2> QED
    BY <1>5, <2>1, <2>2
<1>7. c2 = Load(cb, i)
  <2>1. ca.entries = c1.entries
    BY <1>6 DEF State
  <2>2. [c1 EXCEPT !.imap = @ \cup {b}, !.entries[b] = [entry \in DOMAIN @ |-> << >>]] = cb
    OBVIOUS
  <2> QED
    BY <2>2 DEF alloc_inode
<1> HIDE DEF imap, none, c2
<1>8. Same(c1, ca)
  BY <1>6, ImapSame
<1> HIDE DEF ca
<1>9. Same(ca, cb)
  BY <1>5, <1>6, <1>8, DirectorySame DEF Same
<1> HIDE DEF cb
<1>10. Holding(fs, cb, t1) /\ cb.unused = c1.unused
  BY <1>3, <1>8, <1>9, HoldingSame DEF Same
<1>11. i \in Inode /\ i.num = b /\ i.count = 1
  BY <1>5 DEF Inode, Links
<1> HIDE DEF i
<1>12. s \in Slots /\ Holding(fs, c2, t2)
  <2> HIDE DEF t1
  <2> QED
    BY <1>2, <1>5, <1>7, <1>10, <1>11, HoldingLoad
<1> HIDE DEF s
<1>13. t2 \in Taken /\ t2[d] > 0
  <2> HIDE DEF t1
  <2> QED
    BY <1>3, <1>4, <1>12, TakenPlus
<1>14. Holding(fs, cc, t2)
  <2>1. 1 \in Links
    BY DEF Links
  <2>2. Same(c2, cc)
    BY <1>12, <2>1, NlinksSame DEF Holding
  <2> HIDE DEF cc
  <2> QED
    BY <1>12, <2>2, HoldingSame
<1> HIDE DEF cc
<1>15. Holding(fs, cd, t2)
  BY <1>12, <1>14, WrittenSame, HoldingSame DEF Holding
<1> HIDE DEF cd
<1>16. Holding(fs, c3, t2)
  BY <1>3, <1>5, <1>13, <1>15, EnteredHolds
<1> HIDE DEF c3
<1>17. Holding(fs, ce, t2)
  <2>1. Same(c3, ce)
    BY <1>5, <1>16, DotsType, DirectorySame DEF Holding
  <2> HIDE DEF ce
  <2> QED
    BY <1>16, <2>1, HoldingSame
<1>18. cg = cf
  OBVIOUS
<1> HIDE DEF ce, cg
<1>19. Holding(fs, cg, t2)
  <2>1. Same(ce, cf)
    BY <1>12, <1>17, ZonesSame DEF Holding
  <2> HIDE DEF cf
  <2> QED
    BY <1>17, <1>18, <2>1, HoldingSame
<1> HIDE DEF cf
<1>20. Holding(fs, c4, t2)
  BY <1>3, <1>12, <1>19, LinkedHolds
<1> HIDE DEF c4
<1>21. t2 = Plus(Plus(Nothing, s), d) /\ Plus(Nothing, s) \in Taken
  BY <1>3, <1>12, TakenSwap, TakenPlus
<1>22. CASE fs' = put_inode(c3, d) /\ vfs' = [vfs EXCEPT ![b] = @ + 1]
  <2>1. Holding(fs, fs', Plus(Nothing, s))
    BY <1>3, <1>16, <1>21, <1>22, HoldingPut
  <2>2. vfs[b] + 1 \in Nat
    BY <1>5
  <2> QED
    BY <1>22, <2>1, <2>2, HoldingAfter
<1>23. CASE fs' = put_inode(put_inode(c4, s), d) /\ vfs' = vfs
  <2>1. Holding(fs, put_inode(c4, s), t1)
    BY <1>4, <1>12, <1>20, HoldingPut
  <2>2. Holding(fs, fs', Nothing)
    BY <1>3, <1>23, <2>1, HoldingPut
  <2> QED
    BY <1>23, <2>2, HoldingAfter
<1> QED
  BY <1>2, <1>22, <1>23

-----------------------------------------------------------------------------
(* The initial state: one list of all slots, and the root in the first.    *)
LEMMA AllSlots ==
  ASSUME NEW slots \in SetToSeqs(Slots)
  PROVE  IsListOf(slots, Slots) /\ slots # << >>
<1> DEFINE n == Cardinality(Slots)
           D == 1 .. n
<1>1. n \in Nat /\ n # 0 /\ IsFiniteSet(D) /\ Cardinality(D) = n
  <2>1. n \in Nat /\ n # 0
    BY SlotsAssumption, FS_CardinalityType, FS_EmptySet
  <2> HIDE DEF n
  <2>2. IsFiniteSet(D) /\ Cardinality(D) = IF 1 > n THEN 0 ELSE n - 1 + 1
    BY <2>1, FS_Interval
  <2> QED
    BY <2>1, <2>2
<1>2. slots \in [D -> Slots] /\ \A i, j \in D : i # j => slots[i] # slots[j]
  BY DEF SetToSeqs
<1>3. slots \in Injection(D, Slots)
  BY <1>2 DEF Injection, IsInjective
<1>4. slots \in Surjection(D, Slots)
  BY <1>1, <1>3, SlotsAssumption, FS_Injection
<1>5. \A s \in Slots : \E i \in D : slots[i] = s
  BY <1>4 DEF Surjection
<1> HIDE DEF n
<1>6. slots \in Seq(Slots) /\ DOMAIN slots = D /\ 1 \in D
  BY <1>1, <1>2
<1>7. slots # << >>
  <2>1. DOMAIN slots # DOMAIN << >>
    BY <1>6
  <2> QED
    BY <2>1
<1>8. Range(slots) = Slots
  BY <1>2, <1>5, <1>6 DEF Range
<1>9. IsInjective(slots)
  BY <1>2, <1>6 DEF IsInjective
<1> QED
  BY <1>6, <1>7, <1>8, <1>9 DEF IsListOf

RootOnly == [n \in Inums |-> IF n = ROOT_INODE
                             THEN [nlinks |-> 2, mode |-> I_DIRECTORY, zones |-> TRUE]
                             ELSE [nlinks |-> 0, mode |-> I_REGULAR, zones |-> FALSE]]
RootDots == [n \in Inums |-> IF n = ROOT_INODE THEN Dots(n, n) ELSE NoNames]

Fresh(c) ==
  /\ c \in State /\ Lists(c) /\ c.unused # << >>
  /\ \A s \in Slots : c.inode[s] = FreeSlot
  /\ \A n \in Inums : c.hashed[n] = << >>
  /\ c.imap = {ROOT_INODE} /\ c.disk = RootOnly /\ c.entries = RootDots

(* The first state: the root directory got in an empty table.              *)
LEMMA InitFresh ==
  ASSUME Init
  PROVE  \E c : Fresh(c) /\ fs = get_inode(c, ROOT_INODE)
<1>1. PICK slots \in SetToSeqs(Slots) :
         LET root == [nlinks |-> 2, mode |-> I_DIRECTORY, zones |-> TRUE]
             none == [nlinks |-> 0, mode |-> I_REGULAR, zones |-> FALSE]
             fresh == [inode   |-> [s \in Slots |-> FreeSlot],
                       unused  |-> slots,
                       hashed  |-> [n \in Inums |-> << >>],
                       imap    |-> {ROOT_INODE},
                       disk    |-> [n \in Inums |-> IF n = ROOT_INODE THEN root ELSE none],
                       entries |-> [n \in Inums |-> IF n = ROOT_INODE THEN Dots(n, n)
                                                    ELSE NoNames]]
         IN  fs = get_inode(fresh, ROOT_INODE)
  BY DEF Init
<1> DEFINE root == [nlinks |-> 2, mode |-> I_DIRECTORY, zones |-> TRUE]
           none == [nlinks |-> 0, mode |-> I_REGULAR, zones |-> FALSE]
           inode == [s \in Slots |-> FreeSlot]
           hashed == [n \in Inums |-> << >>]
           disk == [n \in Inums |-> IF n = ROOT_INODE THEN root ELSE none]
           entries == [n \in Inums |-> IF n = ROOT_INODE THEN Dots(n, n) ELSE NoNames]
           fresh == [inode |-> inode, unused |-> slots, hashed |-> hashed,
                     imap |-> {ROOT_INODE}, disk |-> disk, entries |-> entries]
<1>2. fs = get_inode(fresh, ROOT_INODE)
  BY <1>1
<1>3. FreeSlot \in Inode /\ root \in DiskInode /\ none \in DiskInode
  <2>1. 0 \in Links /\ 2 \in Links
    BY DEF Links
  <2> QED
    BY <2>1 DEF FreeSlot, Inode, DiskInode, Modes
<1>4. disk \in [Inums -> DiskInode]
  <2> HIDE DEF root, none
  <2> QED
    BY <1>3
<1>5. entries \in [Inums -> [Names -> Seq(Inums)]]
  BY DotsType
<1>6. IsListOf(slots, Slots) /\ slots # << >>
  BY AllSlots
<1>7. inode \in [Slots -> Inode] /\ hashed \in [Inums -> Seq(Slots)]
  BY <1>3
<1>8. {ROOT_INODE} \in SUBSET Inums
  BY RootAssumption
<1>9. \A s \in Slots : inode[s] = FreeSlot /\ inode[s].num = NO_ENTRY /\ inode[s].count = 0
  BY DEF FreeSlot
<1>10. \A n \in Inums : hashed[n] = << >> /\ IsListOf(hashed[n], {})
  <2>1. << >> \in Seq(Slots) /\ Range(<< >>) = {} /\ IsInjective(<< >>)
    BY DEF Range, IsInjective
  <2> QED
    BY <2>1 DEF IsListOf
<1> HIDE DEF inode, hashed, disk, entries
<1>11. /\ fresh.inode = inode /\ fresh.unused = slots /\ fresh.hashed = hashed
       /\ fresh.imap = {ROOT_INODE} /\ fresh.disk = disk /\ fresh.entries = entries
       /\ fresh \in State
  BY <1>4, <1>5, <1>6, <1>7, <1>8 DEF State, IsListOf
<1> HIDE DEF fresh
<1>12. /\ Idle(fresh) = Slots /\ Free(fresh) = Slots
       /\ \A n \in Inums : Holders(fresh, n) = {}
  BY <1>9, <1>11, NoEntryAssumption DEF Idle, Free, Holders
<1>13. Lists(fresh)
  <2>1. FreeFirst(slots, Slots)
    BY <1>6 DEF IsListOf, FreeFirst, Range
  <2>2. \A s \in Slots : ~(fresh.inode[s].count > 0)
    BY <1>9, <1>11
  <2> QED
    BY <1>6, <1>10, <1>11, <1>12, <2>1, <2>2 DEF Lists
<1>14. Fresh(fresh)
  <2>1. disk = RootOnly /\ entries = RootDots
    BY DEF disk, entries, root, none, RootOnly, RootDots
  <2> QED
    BY <1>6, <1>9, <1>10, <1>11, <1>13, <2>1 DEF Fresh
<1> QED
  BY <1>2, <1>14 DEF fresh

(* The lists of the first state are exact.                                 *)
LEMMA InitSound ==
  ASSUME Init
  PROVE  Sound(fs)
<1>1. PICK c : Fresh(c) /\ fs = get_inode(c, ROOT_INODE)
  BY InitFresh
<1>2. HasSlot(c, ROOT_INODE)
  BY <1>1 DEF HasSlot, Fresh
<1> QED
  BY <1>1, <1>2, RootAssumption, GetOne DEF Fresh, Sound

-----------------------------------------------------------------------------
(* The inductive invariant: the types, and Lists of the state of MFS.      *)
IInv == TypeOK /\ Lists(fs)

(* The invariant's parts, put together.                                    *)
LEMMA TypeOKIsSound ==
  ASSUME Sound(fs), vfs \in [Inums -> Nat], crashed \in BOOLEAN, recovers \in Nat
  PROVE  IInv
BY DEF Sound, State, IInv, TypeOK

(* Every request keeps the invariant and the slots in use.                 *)
LEMMA StepHolds ==
  ASSUME IInv, Next
  PROVE  IInv' /\ After(fs, fs')
<1>1. /\ Sound(fs) /\ vfs \in [Inums -> Nat] /\ crashed \in BOOLEAN /\ recovers \in Nat
  BY DEF IInv, TypeOK, Sound, State
<1>2. SUFFICES /\ After(fs, fs') /\ vfs' \in [Inums -> Nat] /\ crashed' \in BOOLEAN
               /\ recovers' \in Nat
  BY DEF After, Sound, State, IInv, TypeOK
<1> DEFINE Good == /\ After(fs, fs') /\ vfs' \in [Inums -> Nat] /\ crashed' \in BOOLEAN
                   /\ recovers' \in Nat
<1>3. ASSUME NEW n \in Inums, NEW dir \in Inums, NEW name \in Names, fs_link(n, dir, name)
      PROVE  Good
  <2>1. Holding(fs, fs', Nothing)
    BY <1>1, <1>3, LinkStep
  <2> QED
    BY <1>1, <1>3, <2>1, HoldingAfter DEF fs_link
<1>4. ASSUME NEW dir \in Inums, NEW name \in Names, NEW rmdir \in BOOLEAN,
             fs_unlink(dir, name, rmdir)
      PROVE  Good
  <2>1. Holding(fs, fs', Nothing)
    BY <1>1, <1>4, UnlinkStep
  <2> QED
    BY <1>1, <1>4, <2>1, HoldingAfter DEF fs_unlink
<1>5. ASSUME NEW od \in Inums, NEW on \in Names, NEW nd \in Inums, NEW nn \in Names,
             fs_rename(od, on, nd, nn)
      PROVE  Good
  <2>1. After(fs, fs') /\ crashed' \in BOOLEAN
    BY <1>1, <1>5, RenameStep
  <2> QED
    BY <1>1, <1>5, <2>1 DEF fs_rename
<1>6. ASSUME NEW n \in Inums, fs_ftrunc(n)
      PROVE  Good
  BY <1>1, <1>6, TruncStep, HoldingAfter DEF fs_ftrunc
<1>7. ASSUME NEW n \in Inums, NEW count \in 1 .. MaxRefs, fs_putnode(n, count)
      PROVE  Good
  <2>1. count \in Nat /\ count > 0
    OBVIOUS
  <2>2. After(fs, fs') /\ vfs' \in [Inums -> Nat] /\ crashed' \in {TRUE, crashed}
    BY <1>1, <1>7, <2>1, PutnodeStep
  <2> QED
    BY <1>1, <1>7, <2>2 DEF fs_putnode
<1>8. ASSUME NEW n \in Inums, NEW dir \in Inums, fs_recover(n, dir)
      PROVE  Good
  <2>1. After(fs, fs') /\ crashed' \in BOOLEAN
    BY <1>1, <1>8, RecoverStep
  <2>2. vfs' = vfs /\ recovers' = recovers + 1
    BY <1>8 DEF fs_recover
  <2> QED
    BY <1>1, <2>1, <2>2
<1>9. ASSUME NEW dir \in Inums, NEW name \in Names, fs_lookup(dir, name)
      PROVE  Good
  <2>1. After(fs, fs') /\ vfs' \in [Inums -> Nat]
    BY <1>1, <1>9, LookupStep
  <2> QED
    BY <1>1, <1>9, <2>1 DEF fs_lookup
<1>10. ASSUME NEW dir \in Inums, NEW name \in FileNames, NEW mode \in Modes,
              fs_create(dir, name, mode)
       PROVE  Good
  <2>1. After(fs, fs') /\ vfs' \in [Inums -> Nat]
    BY <1>1, <1>10, CreateStep
  <2>2. crashed' = crashed /\ recovers' = recovers
    BY <1>10 DEF fs_create
  <2> QED
    BY <1>1, <2>1, <2>2
<1>11. ASSUME NEW n \in Inums, fs_write(n)
       PROVE  Good
  BY <1>1, <1>11, WriteStep, HoldingAfter DEF fs_write
<1> HIDE DEF Good
<1>12. Good
  BY <1>3, <1>4, <1>5, <1>6, <1>7, <1>8, <1>9, <1>10, <1>11 DEF Next
<1> QED
  BY <1>12 DEF Good

(* The invariant holds in every state MFS can be in.                       *)
THEOREM Inductive == Spec => []IInv
<1>1. Init => IInv
  <2>1. SUFFICES ASSUME Init PROVE IInv
    OBVIOUS
  <2>2. Sound(fs)
    BY <2>1, InitSound
  <2>3. vfs = [n \in Inums |-> IF n = ROOT_INODE THEN 1 ELSE 0] /\ crashed = FALSE /\ recovers = 0
    BY <2>1, Zenon DEF Init
  <2> QED
    BY <2>2, <2>3, TypeOKIsSound
<1>2. IInv /\ [Next]_vars => IInv'
  <2>1. SUFFICES ASSUME IInv, [Next]_vars PROVE IInv'
    OBVIOUS
  <2>2. CASE Next
    BY <2>1, <2>2, StepHolds
  <2>3. CASE UNCHANGED vars
    BY <2>1, <2>3 DEF IInv, TypeOK, Lists, Idle, Free, Holders, vars
  <2> QED
    BY <2>1, <2>2, <2>3
<1> QED
  BY <1>1, <1>2, PTL DEF Spec

(* No routine of the inode table writes a value that its field cannot      *)
(* have; in particular put_inode never finds a count below 1.              *)
THEOREM TypesHold == Spec => []TypeOK
<1>1. IInv => TypeOK
  BY DEF IInv
<1> QED
  BY <1>1, Inductive, PTL

(* The unused list has the slots nobody refers to, each once.              *)
THEOREM UnusedListIsExact == Spec => []UnusedExact
<1>1. IInv => UnusedExact
  BY DEF IInv, Lists, IsListOf, Idle, UnusedExact
<1> QED
  BY <1>1, Inductive, PTL

(* Slots that hold no inode are taken before inodes that may be asked for  *)
(* again.                                                                  *)
THEOREM CachedInodesLast == Spec => []FreeSlotsFirst
<1>1. IInv => FreeSlotsFirst
  <2>1. SUFFICES ASSUME IInv PROVE FreeSlotsFirst
    OBVIOUS
  <2>2. \A k \in DOMAIN fs.unused : fs.unused[k] \in Slots
    BY <2>1 DEF IInv, Lists, IsListOf
  <2> QED
    BY <2>1, <2>2 DEF IInv, Lists, FreeFirst, Free, FreeSlotsFirst, Num
<1> QED
  BY <1>1, Inductive, PTL

(* The hash lists have the slots that hold an inode, each once.            *)
THEOREM HashListsAreExact == Spec => []HashedExact
<1>1. IInv => HashedExact
  BY DEF IInv, Lists, IsListOf, Holders, HashedExact, Num
<1> QED
  BY <1>1, Inductive, PTL

(* No request gives a slot that somebody uses to another inode.            *)
THEOREM SlotsInUseStay == Spec => KeepsItsInode
<1>1. IInv /\ [Next]_vars =>
        [\A s \in Slots : fs.inode[s].count > 0 /\ fs'.inode[s].count > 0
                            => fs'.inode[s].num = fs.inode[s].num]_vars
  BY StepHolds DEF After
<1> QED
  BY <1>1, Inductive, PTL DEF Spec, KeepsItsInode
=============================================================================
