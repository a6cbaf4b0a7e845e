-------------------------- MODULE InodeCacheProofs --------------------------
(***************************************************************************)
(* Lemmas about the routines of InodeCache, for any table, device and      *)
(* names: what each leaves of the unused list, of the hash lists and of    *)
(* the reference counts.  MFSProofs puts them together to requests.        *)
(***************************************************************************)
EXTENDS MFS, NumberLemmas, SequenceTheorems, TLAPS

State == [inode   : [Slots -> Inode],
          unused  : Seq(Slots),
          hashed  : [Inums -> Seq(Slots)],
          imap    : SUBSET Inums,
          disk    : [Inums -> DiskInode],
          entries : [Inums -> [Names -> Seq(Inums)]]]

-----------------------------------------------------------------------------
(* Lists without repetition.                                               *)
IsListOf(list, S) == list \in Seq(Slots) /\ IsInjective(list) /\ Range(list) = S

(* The slots of F come first.                                              *)
FreeFirst(list, F) == \A j, k \in DOMAIN list : j < k /\ list[k] \in F => list[j] \in F

(* A slot taken out of a list; the free slots stay first.                  *)
LEMMA UnlinkedList ==
  ASSUME NEW S, NEW list, IsListOf(list, S), NEW e \in S
  PROVE  /\ IsListOf(Unlinked(list, e), S \ {e})
         /\ \A F : FreeFirst(list, F) => FreeFirst(Unlinked(list, e), F)
<1> DEFINE at == CHOOSE k \in DOMAIN list : list[k] = e
           n == Len(list)
           less == Unlinked(list, e)
<1>1. list \in Seq(Slots) /\ n \in Nat /\ DOMAIN list = 1 .. n
  BY DEF IsListOf
<1>2. at \in 1 .. n /\ list[at] = e
  BY <1>1 DEF IsListOf, Range
<1>3. less = SubSeq(list, 1, at - 1) \o SubSeq(list, at + 1, n)
  BY DEF Unlinked, RemoveAt
<1> HIDE DEF at, n, less
<1>4. /\ SubSeq(list, 1, at - 1) \in Seq(Slots) /\ Len(SubSeq(list, 1, at - 1)) = at - 1
      /\ \A i \in 1 .. at - 1 : SubSeq(list, 1, at - 1)[i] = list[i]
  BY <1>1, <1>2
<1>5. /\ SubSeq(list, at + 1, n) \in Seq(Slots) /\ Len(SubSeq(list, at + 1, n)) = n - at
      /\ \A i \in 1 .. n - at : SubSeq(list, at + 1, n)[i] = list[at + i]
  BY <1>1, <1>2
<1>6. /\ less \in Seq(Slots) /\ Len(less) = n - 1
      /\ \A i \in 1 .. n - 1 : less[i] = IF i <= at - 1 THEN SubSeq(list, 1, at - 1)[i]
                                         ELSE SubSeq(list, at + 1, n)[i - (at - 1)]
  <2> DEFINE left  == SubSeq(list, 1, at - 1)
             right == SubSeq(list, at + 1, n)
  <2>1. /\ left \in Seq(Slots) /\ right \in Seq(Slots)
        /\ Len(left) = at - 1 /\ Len(right) = n - at
    BY <1>4, <1>5
  <2>2. less = left \o right
    BY <1>3
  <2> HIDE DEF left, right
  <2>3. /\ less \in Seq(Slots) /\ Len(less) = Len(left) + Len(right)
        /\ \A i \in 1 .. Len(left) + Len(right) :
             less[i] = IF i <= Len(left) THEN left[i] ELSE right[i - Len(left)]
    BY <2>1, <2>2, ConcatProperties
  <2>4. Len(left) + Len(right) = n - 1
    BY <1>1, <1>2, <2>1
  <2> QED
    BY <2>1, <2>3, <2>4 DEF left, right
<1>7. DOMAIN less = 1 .. n - 1
  BY <1>6
<1>8. \A i \in 1 .. n - 1 : less[i] = IF i < at THEN list[i] ELSE list[i + 1]
  <2> TAKE i \in 1 .. n - 1
  <2>1. CASE i < at
    BY <1>1, <1>2, <1>4, <1>6, <2>1
  <2>2. CASE i >= at
    <3>1. i - (at - 1) \in 1 .. n - at /\ at + (i - (at - 1)) = i + 1
      BY <1>1, <1>2, <2>2
    <3> QED
      BY <1>1, <1>2, <1>5, <1>6, <2>2, <3>1
  <2> QED
    BY <1>1, <1>2, <2>1, <2>2
<1> DEFINE old == [i \in 1 .. n - 1 |-> IF i < at THEN i ELSE i + 1]
<1>9. /\ \A i \in 1 .. n - 1 : old[i] \in 1 .. n /\ old[i] # at /\ less[i] = list[old[i]]
      /\ \A i, j \in 1 .. n - 1 : i < j => old[i] < old[j]
  BY <1>1, <1>2, <1>8
<1>10. \A k \in 1 .. n : k # at => \E i \in 1 .. n - 1 : old[i] = k
  <2> TAKE k \in 1 .. n
  <2>1. CASE k < at
    <3>1. k \in 1 .. n - 1 /\ old[k] = k
      BY <1>1, <1>2, <2>1
    <3> QED
      BY <3>1
  <2>2. CASE k > at
    <3>1. k - 1 \in 1 .. n - 1 /\ old[k - 1] = k
      BY <1>1, <1>2, <2>2
    <3> QED
      BY <3>1
  <2> QED
    BY <1>1, <1>2, <2>1, <2>2
<1> HIDE DEF old
<1>11. IsInjective(less)
  <2> SUFFICES ASSUME NEW i \in 1 .. n - 1, NEW j \in 1 .. n - 1, less[i] = less[j] PROVE i = j
    BY <1>7 DEF IsInjective
  <2>1. old[i] = old[j]
    BY <1>1, <1>9 DEF IsListOf, IsInjective
  <2> QED
    BY <1>1, <1>9, <2>1
<1>12. Range(less) = S \ {e}
  <2>1. ASSUME NEW i \in 1 .. n - 1 PROVE less[i] \in S \ {e}
    <3>1. list[old[i]] # e
      BY <1>1, <1>2, <1>9 DEF IsListOf, IsInjective
    <3> QED
      BY <1>1, <1>9, <3>1 DEF IsListOf, Range
  <2>2. ASSUME NEW s \in S \ {e} PROVE \E i \in 1 .. n - 1 : less[i] = s
    <3>1. PICK k \in 1 .. n : list[k] = s
      BY <1>1 DEF IsListOf, Range
    <3>2. k # at
      BY <1>2, <3>1
    <3> QED
      BY <1>9, <1>10, <3>1, <3>2
  <2> QED
    BY <1>7, <2>1, <2>2 DEF Range
<1>13. ASSUME NEW F, FreeFirst(list, F) PROVE FreeFirst(less, F)
  BY <1>1, <1>7, <1>9, <1>13 DEF FreeFirst
<1> QED
  BY <1>6, <1>11, <1>12, <1>13 DEF IsListOf, less

(* The first slot of the unused list is taken.                             *)
LEMMA TailList ==
  ASSUME NEW S, NEW list, IsListOf(list, S), list # << >>
  PROVE  /\ Head(list) \in S
         /\ IsListOf(Tail(list), S \ {Head(list)})
         /\ \A F : FreeFirst(list, F) => FreeFirst(Tail(list), F)
<1> DEFINE n == Len(list)
<1>1. /\ list \in Seq(Slots) /\ n \in Nat \ {0} /\ DOMAIN list = 1 .. n /\ Head(list) = list[1]
      /\ Tail(list) \in Seq(Slots) /\ DOMAIN Tail(list) = 1 .. n - 1
      /\ \A i \in 1 .. n - 1 : Tail(list)[i] = list[i + 1]
  BY DEF IsListOf
<1> HIDE DEF n
<1>2. \A i \in 1 .. n - 1 : i + 1 \in 1 .. n /\ i + 1 # 1
  BY <1>1
<1>3. \A k \in 1 .. n : k # 1 => k - 1 \in 1 .. n - 1 /\ (k - 1) + 1 = k
  BY <1>1
<1>4. \A j, k \in 1 .. n : list[j] = list[k] => j = k
  BY <1>1 DEF IsListOf, IsInjective
<1>5. IsInjective(Tail(list))
  <2> SUFFICES ASSUME NEW i \in 1 .. n - 1, NEW j \in 1 .. n - 1, Tail(list)[i] = Tail(list)[j]
               PROVE  i = j
    BY <1>1 DEF IsInjective
  <2>1. i + 1 = j + 1
    BY <1>1, <1>2, <1>4
  <2> QED
    BY <1>1, <2>1
<1>6. Head(list) \in S
  BY <1>1 DEF IsListOf, Range
<1>7. Range(Tail(list)) = S \ {Head(list)}
  <2>1. ASSUME NEW i \in 1 .. n - 1 PROVE Tail(list)[i] \in S \ {Head(list)}
    <3>1. 1 \in 1 .. n /\ list[i + 1] # list[1]
      BY <1>1, <1>2, <1>4
    <3> QED
      BY <1>1, <1>2, <3>1 DEF IsListOf, Range
  <2>2. ASSUME NEW s \in S \ {Head(list)} PROVE \E i \in 1 .. n - 1 : Tail(list)[i] = s
    <3>1. PICK k \in 1 .. n : list[k] = s
      BY <1>1 DEF IsListOf, Range
    <3>2. k # 1
      BY <1>1, <3>1
    <3> QED
      BY <1>1, <1>3, <3>1, <3>2
  <2>3. DOMAIN Tail(list) = 1 .. n - 1
    BY <1>1
  <2> QED
    BY <2>1, <2>2, <2>3 DEF Range
<1>8. ASSUME NEW F, FreeFirst(list, F) PROVE FreeFirst(Tail(list), F)
  BY <1>1, <1>2, <1>8 DEF FreeFirst
<1> QED
  BY <1>1, <1>5, <1>6, <1>7, <1>8 DEF IsListOf

(* Put at the front, where free slots go.                                  *)
LEMMA ConsList ==
  ASSUME NEW S, NEW list, IsListOf(list, S), NEW e \in Slots \ S
  PROVE  /\ IsListOf(Cons(e, list), S \cup {e})
         /\ \A F : FreeFirst(list, F) /\ e \in F => FreeFirst(Cons(e, list), F)
<1> DEFINE n == Len(list)
           more == Cons(e, list)
<1>1. list \in Seq(Slots) /\ n \in Nat /\ DOMAIN list = 1 .. n
  BY DEF IsListOf
<1>2. /\ <<e>> \in Seq(Slots) /\ Len(<<e>>) = 1 /\ <<e>>[1] = e
      /\ more = <<e>> \o list
  BY DEF Cons
<1>3. /\ more \in Seq(Slots) /\ Len(more) = 1 + n
      /\ \A i \in 1 .. 1 + n : more[i] = IF i <= 1 THEN <<e>>[i] ELSE list[i - 1]
  <2> HIDE DEF more
  <2> QED
    BY <1>1, <1>2, ConcatProperties
<1> HIDE DEF more, n
<1>4. DOMAIN more = 1 .. n + 1 /\ more[1] = e
  BY <1>1, <1>2, <1>3
<1>5. \A i \in 1 .. n + 1 : i # 1 => i - 1 \in 1 .. n /\ more[i] = list[i - 1] /\ more[i] \in S
  <2> TAKE i \in 1 .. n + 1
  <2> SUFFICES ASSUME i # 1 PROVE i - 1 \in 1 .. n /\ more[i] = list[i - 1] /\ more[i] \in S
    OBVIOUS
  <2>1. i - 1 \in 1 .. n /\ more[i] = list[i - 1]
    BY <1>1, <1>3
  <2> QED
    BY <1>1, <2>1 DEF IsListOf, Range
<1>6. IsInjective(more)
  <2> SUFFICES ASSUME NEW i \in 1 .. n + 1, NEW j \in 1 .. n + 1, more[i] = more[j] PROVE i = j
    BY <1>4 DEF IsInjective
  <2>1. CASE i = 1 \/ j = 1
    BY <1>4, <1>5, <2>1
  <2>2. CASE i # 1 /\ j # 1
    <3>1. i - 1 = j - 1
      BY <1>1, <1>5, <2>2 DEF IsListOf, IsInjective
    <3> QED
      BY <1>1, <3>1
  <2> QED
    BY <2>1, <2>2
<1>7. Range(more) = S \cup {e}
  <2>1. ASSUME NEW s \in S PROVE \E i \in 1 .. n + 1 : more[i] = s
    <3>1. PICK k \in 1 .. n : list[k] = s
      BY <1>1 DEF IsListOf, Range
    <3>2. k + 1 \in 1 .. n + 1 /\ k + 1 # 1 /\ (k + 1) - 1 = k
      BY <1>1
    <3> QED
      BY <1>5, <3>1, <3>2
  <2>2. 1 \in 1 .. n + 1
    BY <1>1
  <2> QED
    BY <1>4, <1>5, <2>1, <2>2 DEF Range
<1>8. ASSUME NEW F, FreeFirst(list, F), e \in F PROVE FreeFirst(more, F)
  <2> SUFFICES ASSUME NEW j \in 1 .. n + 1, NEW k \in 1 .. n + 1, j < k, more[k] \in F
               PROVE  more[j] \in F
    BY <1>4 DEF FreeFirst
  <2>1. k # 1
    BY <1>1
  <2>2. CASE j = 1
    BY <1>4, <1>8, <2>2
  <2>3. CASE j # 1
    <3>1. j - 1 \in 1 .. n /\ k - 1 \in 1 .. n /\ j - 1 < k - 1 /\ list[k - 1] \in F
      BY <1>1, <1>5, <2>1, <2>3
    <3> QED
      BY <1>1, <1>5, <1>8, <2>3, <3>1 DEF FreeFirst
  <2> QED
    BY <2>2, <2>3
<1> QED
  BY <1>3, <1>6, <1>7, <1>8 DEF IsListOf, more

(* Put at the end, where slots go that keep an inode.                      *)
LEMMA AppendList ==
  ASSUME NEW S, NEW list, IsListOf(list, S), NEW e \in Slots \ S
  PROVE  /\ IsListOf(Append(list, e), S \cup {e})
         /\ \A F : FreeFirst(list, F) /\ e \notin F => FreeFirst(Append(list, e), F)
<1> DEFINE n == Len(list)
           more == Append(list, e)
<1>1. list \in Seq(Slots) /\ n \in Nat /\ DOMAIN list = 1 .. n
  BY DEF IsListOf
<1>2. /\ more \in Seq(Slots) /\ DOMAIN more = 1 .. n + 1 /\ more[n + 1] = e
      /\ \A i \in 1 .. n : more[i] = list[i]
  BY <1>1
<1> HIDE DEF more, n
<1>3. \A i \in 1 .. n : more[i] \in S
  BY <1>1, <1>2 DEF IsListOf, Range
<1>4. \A i \in 1 .. n + 1 : i \in 1 .. n \/ i = n + 1
  BY <1>1
<1>5. IsInjective(more)
  <2> SUFFICES ASSUME NEW i \in 1 .. n + 1, NEW j \in 1 .. n + 1, more[i] = more[j] PROVE i = j
    BY <1>2 DEF IsInjective
  <2> QED
    BY <1>1, <1>2, <1>3, <1>4 DEF IsListOf, IsInjective
<1>6. Range(more) = S \cup {e}
  <2>1. n + 1 \in 1 .. n + 1 /\ \A i \in 1 .. n : i \in 1 .. n + 1
    BY <1>1
  <2>2. \A s \in S : \E i \in 1 .. n : list[i] = s
    BY <1>1 DEF IsListOf, Range
  <2> QED
    BY <1>2, <1>3, <1>4, <2>1, <2>2 DEF Range
<1>7. ASSUME NEW F, FreeFirst(list, F), e \notin F PROVE FreeFirst(more, F)
  <2> SUFFICES ASSUME NEW j \in 1 .. n + 1, NEW k \in 1 .. n + 1, j < k, more[k] \in F
               PROVE  more[j] \in F
    BY <1>2 DEF FreeFirst
  <2>1. k \in 1 .. n
    BY <1>2, <1>4, <1>7
  <2>2. j \in 1 .. n
    BY <1>1, <2>1
  <2> QED
    BY <1>1, <1>2, <1>7, <2>1, <2>2 DEF FreeFirst
<1> QED
  BY <1>2, <1>5, <1>6, <1>7 DEF IsListOf, more

(* What comes first depends on the slots of the list only.                 *)
LEMMA FreeFirstSame ==
  ASSUME NEW list, NEW F, NEW G, FreeFirst(list, F),
         \A s \in Range(list) : s \in F <=> s \in G
  PROVE  FreeFirst(list, G)
BY DEF FreeFirst, Range

-----------------------------------------------------------------------------
(* The state of the lists: who is on the unused list, in which order, and  *)
(* on which hash list.                                                     *)
Idle(c)       == {s \in Slots : c.inode[s].count = 0}
Free(c)       == {s \in Slots : c.inode[s].num = NO_ENTRY}
Holders(c, n) == {s \in Slots : c.inode[s].num = n}

Lists(c) ==
  /\ IsListOf(c.unused, Idle(c))
  /\ FreeFirst(c.unused, Free(c))
  /\ \A n \in Inums : IsListOf(c.hashed[n], Holders(c, n))
  /\ \A s \in Slots : c.inode[s].count > 0 => c.inode[s].num \in Inums

(* Every other slot has the inode and the references it had.               *)
Others(c, e, s) ==
  \A r \in Slots \ {s} : e.inode[r].num = c.inode[r].num /\ e.inode[r].count = c.inode[r].count

(* The types of what a state of MFS is made of.                            *)
LEMMA StateTypes ==
  ASSUME NEW c \in State
  PROVE  /\ c.inode \in [Slots -> Inode] /\ c.unused \in Seq(Slots)
         /\ c.hashed \in [Inums -> Seq(Slots)] /\ c.imap \in SUBSET Inums
         /\ c.disk \in [Inums -> DiskInode] /\ c.entries \in [Inums -> [Names -> Seq(Inums)]]
         /\ \A s \in Slots : /\ c.inode[s] \in Inode /\ c.inode[s].count \in Nat
                             /\ c.inode[s].num \in Inums \cup {NO_ENTRY}
                             /\ c.inode[s].nlinks \in Links
         /\ \A n \in Inums : c.disk[n] \in DiskInode
<1>1. /\ c.inode \in [Slots -> Inode] /\ c.unused \in Seq(Slots)
      /\ c.hashed \in [Inums -> Seq(Slots)] /\ c.imap \in SUBSET Inums
      /\ c.disk \in [Inums -> DiskInode] /\ c.entries \in [Inums -> [Names -> Seq(Inums)]]
  BY DEF State
<1>2. \A i \in Inode : /\ i.count \in Nat /\ i.num \in Inums \cup {NO_ENTRY}
                       /\ i.nlinks \in Links
  BY DEF Inode
<1> QED
  BY <1>1, <1>2

(* An inode with another reference count.                                  *)
LEMMA CountSet ==
  ASSUME NEW i \in Inode, NEW k \in Nat
  PROVE  /\ [i EXCEPT !.count = k] \in Inode /\ [i EXCEPT !.count = k].count = k
         /\ [i EXCEPT !.count = k].num = i.num
BY DEF Inode

(* Changes that concern neither the lists nor the references.              *)
Same(c, e) ==
  /\ c \in State /\ e \in State
  /\ e.unused = c.unused /\ e.hashed = c.hashed
  /\ \A s \in Slots : e.inode[s].num = c.inode[s].num /\ e.inode[s].count = c.inode[s].count

(* The lists depend on numbers and counts only.                            *)
LEMMA SameLists ==
  ASSUME NEW c, NEW e, Same(c, e), Lists(c)
  PROVE  Lists(e)
<1>1. Idle(e) = Idle(c) /\ Free(e) = Free(c) /\ \A n : Holders(e, n) = Holders(c, n)
  BY DEF Same, Idle, Free, Holders
<1> QED
  BY <1>1 DEF Same, Lists

(* dup_inode: one more reference to one slot.                              *)
LEMMA DupOne ==
  ASSUME NEW c \in State, Lists(c), NEW s \in Slots, c.inode[s].num \in Inums
  PROVE  /\ Dup(c, s) \in State /\ Lists(Dup(c, s))
         /\ Others(c, Dup(c, s), s)
         /\ Dup(c, s).inode[s].num = c.inode[s].num
         /\ Dup(c, s).inode[s].count = c.inode[s].count + 1
<1> DEFINE e == Dup(c, s)
           rest == IF c.inode[s].count = 0 THEN Unlinked(c.unused, s) ELSE c.unused
           changed == [c.inode[s] EXCEPT !.count = c.inode[s].count + 1]
<1>1. /\ e.unused = rest /\ e.hashed = c.hashed /\ e.inode = [c.inode EXCEPT ![s] = changed]
      /\ e = [c EXCEPT !.inode = e.inode, !.unused = rest]
  BY DEF Dup, State
<1>2. changed \in Inode /\ changed.num = c.inode[s].num /\ changed.count = c.inode[s].count + 1
  <2>1. c.inode[s] \in Inode /\ c.inode[s].count \in Nat
    BY StateTypes
  <2> QED
    BY <2>1, CountSet
<1> HIDE DEF e, rest, changed
<1>3. /\ e.inode \in [Slots -> Inode] /\ e.inode[s] = changed
      /\ \A r \in Slots \ {s} : e.inode[r] = c.inode[r]
  BY <1>1, <1>2, StateTypes
<1>4. Idle(e) = Idle(c) \ {s} /\ Free(e) = Free(c) /\ \A n : Holders(e, n) = Holders(c, n)
  <2>1. changed.count # 0
    BY <1>2, StateTypes
  <2>2. \A r \in Slots : e.inode[r].num = c.inode[r].num
    BY <1>2, <1>3
  <2>3. \A r \in Slots \ {s} : e.inode[r].count = c.inode[r].count
    BY <1>3
  <2>4. Idle(e) = Idle(c) \ {s}
    BY <1>3, <2>1, <2>3 DEF Idle
  <2> QED
    BY <2>2, <2>4 DEF Free, Holders
<1>5. IsListOf(rest, Idle(c) \ {s}) /\ FreeFirst(rest, Free(c))
  <2>1. CASE c.inode[s].count = 0
    BY <2>1, UnlinkedList DEF Lists, Idle, rest
  <2>2. CASE c.inode[s].count # 0
    <3>1. Idle(c) \ {s} = Idle(c)
      BY <2>2 DEF Idle
    <3> QED
      BY <2>2, <3>1 DEF Lists, rest
  <2> QED
    BY <2>1, <2>2
<1>6. e \in State
  BY <1>1, <1>3, <1>5 DEF State, IsListOf
<1>7. Lists(e)
  <2>1. \A r \in Slots : e.inode[r].count > 0 => e.inode[r].num \in Inums
    BY <1>2, <1>3 DEF Lists
  <2> QED
    BY <1>1, <1>4, <1>5, <2>1 DEF Lists
<1> QED
  BY <1>2, <1>3, <1>6, <1>7 DEF Others, e

(* An inode loaded into the first unused slot.                             *)
LEMMA LoadOne ==
  ASSUME NEW c \in State, Lists(c), c.unused # << >>,
         NEW i \in Inode, i.num \in Inums, i.count = 1
  PROVE  /\ Head(c.unused) \in Slots /\ c.inode[Head(c.unused)].count = 0
         /\ Load(c, i) \in State /\ Lists(Load(c, i))
         /\ Others(c, Load(c, i), Head(c.unused))
         /\ Load(c, i).inode[Head(c.unused)] = i
<1> DEFINE s == Head(c.unused)
           old == c.inode[s].num
           e == Load(c, i)
           kept == IF old = NO_ENTRY THEN c.hashed
                   ELSE [c.hashed EXCEPT ![old] = Unlinked(c.hashed[old], s)]
           lists == [kept EXCEPT ![i.num] = Cons(s, kept[i.num])]
<1>1. /\ e.unused = Tail(c.unused) /\ e.hashed = lists /\ e.inode = [c.inode EXCEPT ![s] = i]
      /\ e = [c EXCEPT !.unused = Tail(c.unused), !.inode = e.inode, !.hashed = lists]
  BY DEF Load, State
<1>2. /\ s \in Idle(c) /\ s \in Slots
      /\ IsListOf(Tail(c.unused), Idle(c) \ {s}) /\ FreeFirst(Tail(c.unused), Free(c))
  <2>1. /\ s \in Idle(c) /\ IsListOf(Tail(c.unused), Idle(c) \ {s})
        /\ FreeFirst(Tail(c.unused), Free(c))
    BY TailList DEF Lists
  <2> QED
    BY <2>1 DEF Idle
<1>3. old \in Inums \cup {NO_ENTRY}
  BY <1>2, StateTypes
<1> HIDE DEF s
<1>4. \A n \in Inums : IsListOf(kept[n], Holders(c, n) \ {s})
  <2> TAKE n \in Inums
  <2>1. CASE n = old
    <3>1. kept[n] = Unlinked(c.hashed[n], s) /\ s \in Holders(c, n)
      BY <1>2, <2>1, StateTypes, NoEntryAssumption DEF Holders
    <3> QED
      BY <3>1, UnlinkedList DEF Lists
  <2>2. CASE n # old
    <3>1. kept[n] = c.hashed[n] /\ Holders(c, n) \ {s} = Holders(c, n)
      BY <2>2, StateTypes DEF Holders
    <3> QED
      BY <3>1 DEF Lists
  <2> QED
    BY <2>1, <2>2
<1>5. kept \in [Inums -> Seq(Slots)]
  <2>1. DOMAIN kept = Inums /\ kept = [n \in Inums |-> kept[n]]
    BY StateTypes
  <2> HIDE DEF kept
  <2> QED
    BY <1>4, <2>1 DEF IsListOf
<1> HIDE DEF kept, old, e
<1>6. \A n \in Inums : lists[n] = IF n = i.num THEN Cons(s, kept[n]) ELSE kept[n]
  BY <1>5
<1>7. /\ e.inode \in [Slots -> Inode] /\ e.inode[s] = i
      /\ \A r \in Slots \ {s} : e.inode[r] = c.inode[r]
  BY <1>1, <1>2, StateTypes
<1>8. \A n \in Inums : Holders(e, n) = IF n = i.num THEN (Holders(c, n) \ {s}) \cup {s}
                                       ELSE Holders(c, n) \ {s}
  BY <1>2, <1>7 DEF Holders
<1>9. \A n \in Inums : IsListOf(lists[n], Holders(e, n))
  <2> TAKE n \in Inums
  <2>1. s \in Slots \ (Holders(c, n) \ {s})
    BY <1>2
  <2>2. CASE n = i.num
    <3>1. lists[n] = Cons(s, kept[n]) /\ Holders(e, n) = (Holders(c, n) \ {s}) \cup {s}
      BY <1>6, <1>8, <2>2
    <3>2. IsListOf(kept[n], Holders(c, n) \ {s})
      BY <1>4
    <3> HIDE DEF lists
    <3>3. IsListOf(Cons(s, kept[n]), (Holders(c, n) \ {s}) \cup {s})
      BY <2>1, <3>2, ConsList
    <3> QED
      BY <3>1, <3>3
  <2>3. CASE n # i.num
    BY <1>4, <1>6, <1>8, <2>3
  <2> QED
    BY <2>2, <2>3
<1>10. lists \in [Inums -> Seq(Slots)]
  <2>1. DOMAIN lists = Inums /\ lists = [n \in Inums |-> lists[n]]
    BY <1>5
  <2> HIDE DEF lists
  <2> QED
    BY <1>9, <2>1 DEF IsListOf
<1>11. Idle(e) = Idle(c) \ {s} /\ \A r \in Idle(c) \ {s} : r \in Free(e) <=> r \in Free(c)
  BY <1>7 DEF Idle, Free
<1>12. FreeFirst(Tail(c.unused), Free(e))
  BY <1>2, <1>11, FreeFirstSame DEF IsListOf
<1>13. e \in State
  <2> HIDE DEF lists
  <2> QED
    BY <1>1, <1>2, <1>7, <1>10 DEF State, IsListOf
<1>14. Lists(e)
  <2>1. \A r \in Slots : e.inode[r].count > 0 => e.inode[r].num \in Inums
    BY <1>7 DEF Lists
  <2> HIDE DEF lists
  <2> QED
    BY <1>1, <1>2, <1>9, <1>11, <1>12, <2>1 DEF Lists
<1> QED
  BY <1>2, <1>7, <1>13, <1>14 DEF Others, e, s, Idle

(* get_inode adds one reference, to a slot that holds the inode now.       *)
LEMMA GetOne ==
  ASSUME NEW c \in State, Lists(c), NEW n \in Inums, HasSlot(c, n)
  PROVE  /\ SlotOf(c, n) \in Slots
         /\ get_inode(c, n) \in State /\ Lists(get_inode(c, n))
         /\ Others(c, get_inode(c, n), SlotOf(c, n))
         /\ c.inode[SlotOf(c, n)].count > 0 => c.inode[SlotOf(c, n)].num = n
         /\ get_inode(c, n).inode[SlotOf(c, n)].num = n
         /\ get_inode(c, n).inode[SlotOf(c, n)].count = c.inode[SlotOf(c, n)].count + 1
<1>1. CASE Cached(c, n)
  <2>1. SlotOf(c, n) \in Holders(c, n)
    BY <1>1, TailList DEF Cached, SlotOf, Lists
  <2>2. SlotOf(c, n) \in Slots /\ c.inode[SlotOf(c, n)].num = n
    BY <2>1 DEF Holders
  <2>3. get_inode(c, n) = Dup(c, SlotOf(c, n))
    BY <1>1 DEF get_inode
  <2> QED
    BY <2>2, <2>3, DupOne
<1>2. CASE ~Cached(c, n)
  <2> DEFINE i == [num |-> n, count |-> 1, nlinks |-> c.disk[n].nlinks,
                   mode |-> c.disk[n].mode, zones |-> c.disk[n].zones, dirty |-> FALSE]
  <2>1. i \in Inode /\ i.num = n /\ i.count = 1
    BY StateTypes DEF Inode, DiskInode
  <2>2. /\ c.unused # << >> /\ SlotOf(c, n) = Head(c.unused)
        /\ get_inode(c, n) = Load(c, i)
    BY <1>2 DEF HasSlot, Cached, SlotOf, get_inode
  <2> HIDE DEF i
  <2> QED
    BY <2>1, <2>2, LoadOne
<1> QED
  BY <1>1, <1>2

(* put_inode gives one reference back; the slot may hold no inode then.    *)
LEMMA ReleasedOne ==
  ASSUME NEW c \in State, Lists(c), NEW s \in Slots, c.inode[s].count = 1
  PROVE  /\ Released(c, s) \in State /\ Lists(Released(c, s))
         /\ Others(c, Released(c, s), s)
         /\ Released(c, s).inode[s].count = 0
<1> DEFINE e == Released(c, s)
           num == c.inode[s].num
<1>1. num \in Inums /\ s \notin Idle(c) /\ s \in Holders(c, num) /\ s \notin Free(c)
  BY NoEntryAssumption DEF Lists, Idle, Holders, Free
<1>2. CASE c.inode[s].nlinks = 0
  <2> DEFINE lists == [c.hashed EXCEPT ![num] = Unlinked(c.hashed[num], s)]
  <2>1. /\ e.unused = Cons(s, c.unused) /\ e.hashed = lists
        /\ e.inode = [c.inode EXCEPT ![s] = FreeSlot]
        /\ e = [c EXCEPT !.imap = c.imap \ {num}, !.inode = e.inode, !.hashed = lists,
                         !.unused = e.unused]
    BY <1>2 DEF Released, State
  <2> HIDE DEF e
  <2>2. FreeSlot \in Inode /\ FreeSlot.num = NO_ENTRY /\ FreeSlot.count = 0
    BY DEF FreeSlot, Inode, Links, Modes
  <2>3. /\ e.inode \in [Slots -> Inode] /\ e.inode[s] = FreeSlot
        /\ \A r \in Slots \ {s} : e.inode[r] = c.inode[r]
    BY <2>1, <2>2, StateTypes
  <2>4. /\ Idle(e) = Idle(c) \cup {s} /\ Free(e) = Free(c) \cup {s}
        /\ \A n \in Inums : Holders(e, n) = Holders(c, n) \ {s}
    BY <2>2, <2>3, NoEntryAssumption DEF Idle, Free, Holders
  <2>5. \A n \in Inums : IsListOf(lists[n], Holders(e, n))
    <3> TAKE n \in Inums
    <3>1. CASE n = num
      <4>1. lists[n] = Unlinked(c.hashed[n], s)
        BY <3>1, StateTypes
      <4> QED
        BY <1>1, <2>4, <3>1, <4>1, UnlinkedList DEF Lists
    <3>2. CASE n # num
      <4>1. lists[n] = c.hashed[n] /\ Holders(c, n) \ {s} = Holders(c, n)
        BY <3>2, StateTypes DEF Holders
      <4> QED
        BY <2>4, <4>1 DEF Lists
    <3> QED
      BY <3>1, <3>2
  <2>6. lists \in [Inums -> Seq(Slots)]
    <3>1. DOMAIN lists = Inums /\ lists = [n \in Inums |-> lists[n]]
      BY StateTypes
    <3> HIDE DEF lists
    <3> QED
      BY <2>5, <3>1 DEF IsListOf
  <2> HIDE DEF lists
  <2>7. IsListOf(e.unused, Idle(e)) /\ FreeFirst(e.unused, Free(e))
    <3>1. IsListOf(c.unused, Idle(c)) /\ FreeFirst(c.unused, Free(c) \cup {s})
      <4>1. \A r \in Range(c.unused) : r \in Free(c) <=> r \in Free(c) \cup {s}
        BY <1>1 DEF Lists, IsListOf
      <4> QED
        BY <4>1, FreeFirstSame DEF Lists
    <3>2. s \in Slots \ Idle(c)
      BY <1>1
    <3>3. /\ IsListOf(Cons(s, c.unused), Idle(c) \cup {s})
          /\ FreeFirst(Cons(s, c.unused), Free(c) \cup {s})
      BY <3>1, <3>2, ConsList
    <3> QED
      BY <2>1, <2>4, <3>3
  <2>8. c.imap \ {num} \in SUBSET Inums
    BY StateTypes
  <2>9. e \in State
    BY <2>1, <2>3, <2>6, <2>7, <2>8 DEF State, IsListOf
  <2>10. Lists(e)
    <3>1. \A r \in Slots : e.inode[r].count > 0 => e.inode[r].num \in Inums
      BY <2>2, <2>3 DEF Lists
    <3> QED
      BY <2>1, <2>5, <2>7, <3>1 DEF Lists
  <2> QED
    BY <2>2, <2>3, <2>9, <2>10 DEF Others, e
<1>3. CASE c.inode[s].nlinks # 0
  <2> DEFINE changed == [c.inode[s] EXCEPT !.count = 0]
  <2>1. /\ e.unused = Append(c.unused, s) /\ e.hashed = c.hashed
        /\ e.inode = [c.inode EXCEPT ![s] = changed]
        /\ e = [c EXCEPT !.inode = e.inode, !.unused = e.unused]
    BY <1>3 DEF Released, State
  <2>2. changed \in Inode /\ changed.num = num /\ changed.count = 0
    <3>1. c.inode[s] \in Inode
      BY StateTypes
    <3> QED
      BY <3>1, CountSet
  <2> HIDE DEF e, changed
  <2>3. /\ e.inode \in [Slots -> Inode] /\ e.inode[s] = changed
        /\ \A r \in Slots \ {s} : e.inode[r] = c.inode[r]
    BY <2>1, <2>2, StateTypes
  <2>4. \A r \in Slots : e.inode[r].num = c.inode[r].num
    BY <2>2, <2>3
  <2>5. /\ Idle(e) = Idle(c) \cup {s} /\ Free(e) = Free(c)
        /\ \A n \in Inums : Holders(e, n) = Holders(c, n)
    <3>1. Idle(e) = Idle(c) \cup {s}
      BY <2>2, <2>3 DEF Idle
    <3> QED
      BY <2>4, <3>1 DEF Free, Holders
  <2>6. IsListOf(e.unused, Idle(e)) /\ FreeFirst(e.unused, Free(e))
    <3>1. s \in Slots \ Idle(c)
      BY <1>1
    <3>2. /\ IsListOf(Append(c.unused, s), Idle(c) \cup {s})
          /\ FreeFirst(Append(c.unused, s), Free(c))
      BY <1>1, <3>1, AppendList DEF Lists
    <3> QED
      BY <2>1, <2>5, <3>2
  <2>7. e \in State
    BY <2>1, <2>3, <2>6 DEF State, IsListOf
  <2>8. Lists(e)
    <3>1. \A r \in Slots : e.inode[r].count > 0 => e.inode[r].num \in Inums
      BY <1>1, <2>2, <2>3 DEF Lists
    <3> QED
      BY <2>1, <2>5, <2>6, <3>1 DEF Lists
  <2> QED
    BY <2>2, <2>3, <2>7, <2>8 DEF Others, e
<1> QED
  BY <1>2, <1>3

-----------------------------------------------------------------------------
(* Routines that concern neither lists nor references.                     *)
LEMMA InodeSame ==
  ASSUME NEW c \in State, NEW s \in Slots, NEW i \in Inode,
         i.num = c.inode[s].num, i.count = c.inode[s].count
  PROVE  Same(c, [c EXCEPT !.inode[s] = i])
<1> DEFINE e == [c EXCEPT !.inode[s] = i]
<1>1. /\ e.inode = [c.inode EXCEPT ![s] = i] /\ e.unused = c.unused /\ e.hashed = c.hashed
      /\ e = [c EXCEPT !.inode = e.inode]
  BY DEF State
<1> HIDE DEF e
<1>2. /\ e.inode \in [Slots -> Inode] /\ e.inode[s] = i
      /\ \A r \in Slots \ {s} : e.inode[r] = c.inode[r]
  BY <1>1, StateTypes
<1>3. e \in State
  BY <1>1, <1>2 DEF State
<1> QED
  BY <1>1, <1>2, <1>3 DEF Same, e

(* Two steps that leave numbers, counts and lists alone.                   *)
LEMMA SameTransitive ==
  ASSUME NEW c, NEW d, NEW e, Same(c, d), Same(d, e)
  PROVE  Same(c, e)
BY DEF Same

(* IN_MARKDIRTY leaves the lists and the counts alone.                     *)
LEMMA MarkedSame ==
  ASSUME NEW c \in State, NEW s \in Slots
  PROVE  Same(c, Marked(c, s))
<1> DEFINE i == [c.inode[s] EXCEPT !.dirty = TRUE]
<1>1. c.inode[s] \in Inode
  BY StateTypes
<1>2. i \in Inode /\ i.num = c.inode[s].num /\ i.count = c.inode[s].count
  BY <1>1 DEF Inode
<1>3. Marked(c, s) = [c EXCEPT !.inode[s] = i]
  BY DEF Marked
<1> HIDE DEF i
<1> QED
  BY <1>2, <1>3, InodeSame

(* So does writing an inode to disk.                                       *)
LEMMA WrittenSame ==
  ASSUME NEW c \in State, NEW s \in Slots
  PROVE  Same(c, Written(c, s)) /\ Written(c, s).inode[s].nlinks = c.inode[s].nlinks
<1> DEFINE i == [c.inode[s] EXCEPT !.dirty = FALSE]
           disk == [c.disk EXCEPT ![c.inode[s].num] = OnDisk(c.inode[s])]
           d == [c EXCEPT !.disk = disk]
<1>1. c.inode[s] \in Inode /\ OnDisk(c.inode[s]) \in DiskInode
  BY StateTypes DEF Inode, DiskInode, OnDisk
<1>2. /\ i \in Inode /\ i.num = c.inode[s].num /\ i.count = c.inode[s].count
      /\ i.nlinks = c.inode[s].nlinks
  BY <1>1 DEF Inode
<1>3. disk \in [Inums -> DiskInode]
  BY <1>1, StateTypes
<1>4. d \in State /\ d.inode = c.inode /\ Same(c, d)
  <2> HIDE DEF disk
  <2> QED
    BY <1>3 DEF State, Same
<1>5. Written(c, s) = [d EXCEPT !.inode[s] = i]
  BY DEF Written, State
<1> HIDE DEF i, d
<1>6. Same(d, Written(c, s))
  BY <1>2, <1>4, <1>5, InodeSame
<1>7. Written(c, s).inode[s] = i
  BY <1>4, <1>5 DEF State
<1> QED
  BY <1>2, <1>4, <1>6, <1>7, SameTransitive

(* put_inode: one reference less to one slot, and the lists stay exact.    *)
LEMMA PutOne ==
  ASSUME NEW c \in State, Lists(c), NEW s \in Slots, c.inode[s].count > 0
  PROVE  /\ put_inode(c, s) \in State /\ Lists(put_inode(c, s))
         /\ Others(c, put_inode(c, s), s)
         /\ put_inode(c, s).inode[s].count = c.inode[s].count - 1
         /\ c.inode[s].count > 1 => put_inode(c, s).inode[s].num = c.inode[s].num
<1>1. c.inode[s] \in Inode /\ c.inode[s].count \in Nat
  BY StateTypes
<1>2. CASE c.inode[s].count = 1
  <2>1. Same(c, Flushed(c, s))
    <3>1. Same(c, c)
      BY DEF Same
    <3> QED
      BY <3>1, WrittenSame DEF Flushed
  <2>2. /\ Flushed(c, s) \in State /\ Lists(Flushed(c, s))
        /\ Flushed(c, s).inode[s].count = 1
    BY <1>2, <2>1, SameLists DEF Same
  <2>3. put_inode(c, s) = Released(Flushed(c, s), s)
    BY <1>2 DEF put_inode
  <2> QED
    BY <1>2, <2>1, <2>2, <2>3, ReleasedOne DEF Same, Others
<1>3. CASE c.inode[s].count # 1
  <2> DEFINE changed == [c.inode[s] EXCEPT !.count = c.inode[s].count - 1]
             e == put_inode(c, s)
  <2>1. /\ e.inode = [c.inode EXCEPT ![s] = changed] /\ e.unused = c.unused
        /\ e.hashed = c.hashed /\ e = [c EXCEPT !.inode = e.inode]
    BY <1>3 DEF put_inode, State
  <2>2. /\ changed \in Inode /\ changed.num = c.inode[s].num
        /\ changed.count = c.inode[s].count - 1 /\ changed.count > 0
    <3>1. c.inode[s].count - 1 \in Nat /\ c.inode[s].count - 1 > 0
      BY <1>1, <1>3
    <3> QED
      BY <1>1, <3>1, CountSet
  <2> HIDE DEF e, changed
  <2>3. /\ e.inode \in [Slots -> Inode] /\ e.inode[s] = changed
        /\ \A r \in Slots \ {s} : e.inode[r] = c.inode[r]
    BY <2>1, <2>2, StateTypes
  <2>4. /\ Idle(e) = Idle(c) /\ Free(e) = Free(c)
        /\ \A n \in Inums : Holders(e, n) = Holders(c, n)
    <3>1. \A r \in Slots : e.inode[r].num = c.inode[r].num
      BY <2>2, <2>3
    <3>2. \A r \in Slots : e.inode[r].count = 0 <=> c.inode[r].count = 0
      BY <1>1, <2>2, <2>3
    <3> QED
      BY <3>1, <3>2 DEF Idle, Free, Holders
  <2>5. e \in State
    BY <2>1, <2>3 DEF State
  <2>6. Lists(e)
    <3>1. \A r \in Slots : e.inode[r].count > 0 => e.inode[r].num \in Inums
      BY <2>2, <2>3 DEF Lists
    <3> QED
      BY <2>1, <2>4, <3>1 DEF Lists
  <2> QED
    BY <2>2, <2>3, <2>5, <2>6 DEF Others, e
<1> QED
  BY <1>2, <1>3

-----------------------------------------------------------------------------
(* What the table says of the inodes.  known[n] is inode n as MFS knows    *)
(* it: in its only slot, or else on disk.  The disk may be behind while a  *)
(* slot is in use and dirty; a slot at rest keeps an inode with links, and *)
(* the bit map has the inodes with links and the ones in use.              *)
UsedIn(c, n) == \E s \in Slots : c.inode[s].num = n /\ c.inode[s].count > 0

Behind(c, n) == \E s \in Slots : c.inode[s].num = n /\ c.inode[s].count > 0 /\ c.inode[s].dirty

Tidy(c, known) ==
  /\ known \in [Inums -> DiskInode]
  /\ \A r, s \in Slots : c.inode[r].num = c.inode[s].num /\ c.inode[r].num \in Inums => r = s
  /\ \A s \in Slots : c.inode[s].num \in Inums => OnDisk(c.inode[s]) = known[c.inode[s].num]
  /\ \A n \in Inums : c.disk[n] = known[n] \/ Behind(c, n)
  /\ \A s \in Slots : c.inode[s].num \in Inums /\ c.inode[s].count = 0
                        => known[c.inode[s].num].nlinks # 0
  /\ \A n \in Inums : n \in c.imap <=> known[n].nlinks # 0 \/ UsedIn(c, n)

(* What is written of an inode.                                            *)
LEMMA OnDiskType ==
  ASSUME NEW i \in Inode
  PROVE  OnDisk(i) \in DiskInode /\ OnDisk(i).nlinks = i.nlinks /\ OnDisk(i).mode = i.mode
BY DEF Inode, DiskInode, OnDisk

(* An inode that was in no slot comes to a slot nobody uses.               *)
LEMMA TidyLoaded ==
  ASSUME NEW c \in State, NEW e \in State, NEW known, Tidy(c, known),
         NEW s \in Slots, c.inode[s].count = 0,
         NEW i \in Inode, i.num \in Inums, i.count > 0,
         \A r \in Slots : c.inode[r].num # i.num,
         i.dirty \/ c.disk[i.num] = OnDisk(i),
         e.inode = [c.inode EXCEPT ![s] = i], e.disk = c.disk, e.imap = c.imap \cup {i.num}
  PROVE  Tidy(e, [known EXCEPT ![i.num] = OnDisk(i)])
<1> DEFINE n == i.num
           new == [known EXCEPT ![n] = OnDisk(i)]
<1>1. /\ known \in [Inums -> DiskInode] /\ OnDisk(i) \in DiskInode
      /\ c.inode \in [Slots -> Inode] /\ n \in Inums /\ n # NO_ENTRY
  BY OnDiskType, StateTypes, NoEntryAssumption DEF Tidy
<1>2. /\ new \in [Inums -> DiskInode] /\ new[n] = OnDisk(i)
      /\ \A m \in Inums \ {n} : new[m] = known[m]
  BY <1>1
<1>3. e.inode[s] = i /\ \A r \in Slots \ {s} : e.inode[r] = c.inode[r]
  BY <1>1
<1>4. \A m \in Inums \ {n} : UsedIn(e, m) <=> UsedIn(c, m)
  BY <1>3 DEF UsedIn
<1>5. \A m \in Inums \ {n} : Behind(c, m) => Behind(e, m)
  BY <1>3 DEF Behind
<1>6. UsedIn(e, n)
  BY <1>3 DEF UsedIn
<1>7. i.dirty => Behind(e, n)
  BY <1>3 DEF Behind
<1> HIDE DEF new
<1>8. \A r, q \in Slots : e.inode[r].num = e.inode[q].num /\ e.inode[r].num \in Inums => r = q
  BY <1>3 DEF Tidy
<1>9. \A r \in Slots : e.inode[r].num \in Inums => OnDisk(e.inode[r]) = new[e.inode[r].num]
  BY <1>2, <1>3 DEF Tidy
<1>10. \A m \in Inums : e.disk[m] = new[m] \/ Behind(e, m)
  BY <1>2, <1>5, <1>7 DEF Tidy
<1>11. \A r \in Slots : e.inode[r].num \in Inums /\ e.inode[r].count = 0
                          => new[e.inode[r].num].nlinks # 0
  <2>1. i.count # 0
    BY DEF Inode
  <2> QED
    BY <1>2, <1>3, <2>1 DEF Tidy
<1>12. \A m \in Inums : m \in e.imap <=> new[m].nlinks # 0 \/ UsedIn(e, m)
  BY <1>2, <1>4, <1>6 DEF Tidy
<1> QED
  BY <1>2, <1>8, <1>9, <1>10, <1>11, <1>12 DEF Tidy, new

(* The inode in a slot changes, and is used.                               *)
LEMMA TidyChanged ==
  ASSUME NEW c \in State, NEW e \in State, NEW known, Tidy(c, known),
         NEW s \in Slots, NEW i \in Inode, i.num \in Inums, i.num = c.inode[s].num, i.count > 0,
         i.dirty \/ c.disk[i.num] = OnDisk(i),
         e.inode = [c.inode EXCEPT ![s] = i], e.disk = c.disk, e.imap = c.imap
  PROVE  Tidy(e, [known EXCEPT ![i.num] = OnDisk(i)])
<1> DEFINE n == i.num
           new == [known EXCEPT ![n] = OnDisk(i)]
<1>1. /\ known \in [Inums -> DiskInode] /\ OnDisk(i) \in DiskInode
      /\ c.inode \in [Slots -> Inode] /\ n \in Inums
  BY OnDiskType, StateTypes DEF Tidy
<1>2. /\ new \in [Inums -> DiskInode] /\ new[n] = OnDisk(i)
      /\ \A m \in Inums \ {n} : new[m] = known[m]
  BY <1>1
<1>3. e.inode[s] = i /\ \A r \in Slots \ {s} : e.inode[r] = c.inode[r]
  BY <1>1
<1>4. \A m \in Inums \ {n} : UsedIn(e, m) <=> UsedIn(c, m)
  BY <1>3 DEF UsedIn
<1>5. \A m \in Inums \ {n} : Behind(c, m) => Behind(e, m)
  BY <1>3 DEF Behind
<1>6. UsedIn(e, n)
  BY <1>3 DEF UsedIn
<1>7. i.dirty => Behind(e, n)
  BY <1>3 DEF Behind
<1>8. n \in c.imap
  <2>1. c.inode[s].count \in Nat
    BY StateTypes
  <2>2. CASE c.inode[s].count = 0
    BY <2>2, <1>1 DEF Tidy
  <2>3. CASE c.inode[s].count > 0
    BY <2>3, <1>1 DEF Tidy, UsedIn
  <2> QED
    BY <2>1, <2>2, <2>3
<1> HIDE DEF new
<1>9. \A r, q \in Slots : e.inode[r].num = e.inode[q].num /\ e.inode[r].num \in Inums => r = q
  BY <1>3 DEF Tidy
<1>10. \A r \in Slots : e.inode[r].num \in Inums => OnDisk(e.inode[r]) = new[e.inode[r].num]
  BY <1>2, <1>3 DEF Tidy
<1>11. \A m \in Inums : e.disk[m] = new[m] \/ Behind(e, m)
  BY <1>2, <1>5, <1>7 DEF Tidy
<1>12. \A r \in Slots : e.inode[r].num \in Inums /\ e.inode[r].count = 0
                          => new[e.inode[r].num].nlinks # 0
  <2>1. i.count # 0
    BY DEF Inode
  <2> QED
    BY <1>2, <1>3, <2>1 DEF Tidy
<1>13. \A m \in Inums : m \in e.imap <=> new[m].nlinks # 0 \/ UsedIn(e, m)
  BY <1>2, <1>4, <1>6, <1>8 DEF Tidy
<1> QED
  BY <1>2, <1>9, <1>10, <1>11, <1>12, <1>13 DEF Tidy, new

(* Nothing Tidy speaks of changes.                                         *)
LEMMA TidySame ==
  ASSUME NEW c, NEW e, NEW known, Tidy(c, known),
         e.inode = c.inode, e.disk = c.disk, e.imap = c.imap
  PROVE  Tidy(e, known)
BY DEF Tidy, UsedIn, Behind

(* The known inodes are the same function again.                           *)
LEMMA KnownSame ==
  ASSUME NEW known \in [Inums -> DiskInode], NEW n \in Inums, NEW x, known[n] = x
  PROVE  [known EXCEPT ![n] = x] = known
OBVIOUS

(* dup_inode changes nothing that is known of the inodes.                  *)
LEMMA DupTidy ==
  ASSUME NEW c \in State, Lists(c), NEW known, Tidy(c, known),
         NEW s \in Slots, c.inode[s].num \in Inums
  PROVE  Tidy(Dup(c, s), known)
<1> DEFINE k == c.inode[s].count + 1
           i == [c.inode[s] EXCEPT !.count = k]
           e == Dup(c, s)
<1>1. e \in State
  BY DupOne
<1>2. c.inode[s] \in Inode /\ c.inode[s].count \in Nat /\ known \in [Inums -> DiskInode]
  BY StateTypes DEF Tidy
<1>3. k \in Nat /\ k > 0
  BY <1>2
<1>4. e.inode = [c.inode EXCEPT ![s] = i] /\ e.disk = c.disk /\ e.imap = c.imap
  BY DEF Dup, State
<1> HIDE DEF k, e
<1>5. /\ i \in Inode /\ i.num = c.inode[s].num /\ i.count = k
      /\ i.dirty = c.inode[s].dirty /\ OnDisk(i) = OnDisk(c.inode[s])
  BY <1>2, <1>3 DEF Inode, OnDisk
<1> HIDE DEF i
<1>6. known[i.num] = OnDisk(i)
  BY <1>5 DEF Tidy
<1>7. i.dirty \/ c.disk[i.num] = OnDisk(i)
  BY <1>5, <1>6 DEF Tidy, Behind
<1>8. Tidy(e, [known EXCEPT ![i.num] = OnDisk(i)])
  BY <1>1, <1>3, <1>4, <1>5, <1>7, TidyChanged
<1>9. [known EXCEPT ![i.num] = OnDisk(i)] = known
  BY <1>2, <1>5, <1>6, KnownSame
<1> QED
  BY <1>8, <1>9 DEF e

(* A slot that is found for an inode number holds that inode.              *)
LEMMA CachedSlot ==
  ASSUME NEW c, Lists(c), NEW n \in Inums
  PROVE  /\ Cached(c, n) => SlotOf(c, n) \in Slots /\ c.inode[SlotOf(c, n)].num = n
         /\ ~Cached(c, n) => \A s \in Slots : c.inode[s].num # n
         /\ InUse(c, n) <=> UsedIn(c, n)
<1>1. IsListOf(c.hashed[n], Holders(c, n))
  BY DEF Lists
<1>2. Cached(c, n) => SlotOf(c, n) \in Holders(c, n)
  BY <1>1, TailList DEF Cached, SlotOf
<1>3. ~Cached(c, n) => Holders(c, n) = {}
  <2>1. Range(<< >>) = {}
    BY DEF Range
  <2> QED
    BY <1>1, <2>1 DEF Cached, IsListOf
<1>4. Holders(c, n) = {c.hashed[n][k] : k \in DOMAIN c.hashed[n]}
  BY <1>1 DEF IsListOf, Range
<1> QED
  BY <1>2, <1>3, <1>4 DEF Holders, InUse, UsedIn

(* get_inode of an inode that is in use, or that has links.                *)
LEMMA GetTidy ==
  ASSUME NEW c \in State, Lists(c), NEW known, Tidy(c, known),
         NEW n \in Inums, HasSlot(c, n), known[n].nlinks # 0 \/ UsedIn(c, n)
  PROVE  Tidy(get_inode(c, n), known)
<1>1. CASE Cached(c, n)
  BY <1>1, CachedSlot, DupTidy DEF get_inode
<1>2. CASE ~Cached(c, n)
  <2> DEFINE d == c.disk[n]
             i == [num |-> n, count |-> 1, nlinks |-> d.nlinks, mode |-> d.mode,
                   zones |-> d.zones, dirty |-> FALSE]
             e == Load(c, i)
             s == Head(c.unused)
  <2>1. \A r \in Slots : c.inode[r].num # n
    BY <1>2, CachedSlot
  <2>2. n \in c.imap /\ c.disk[n] = known[n] /\ known \in [Inums -> DiskInode]
    BY <2>1 DEF Tidy, Behind, UsedIn
  <2>3. c.unused # << >>
    BY <1>2 DEF HasSlot, Cached
  <2>4. d \in DiskInode
    BY StateTypes
  <2>5. /\ i \in Inode /\ i.num = n /\ i.count = 1 /\ OnDisk(i) = d
    BY <2>4 DEF Inode, DiskInode, OnDisk
  <2> HIDE DEF i
  <2>6. s \in Slots /\ c.inode[s].count = 0 /\ e \in State
    BY <2>3, <2>5, LoadOne
  <2>7. /\ e.inode = [c.inode EXCEPT ![s] = i] /\ e.disk = c.disk
        /\ e.imap = c.imap \cup {i.num}
    BY <2>2, <2>5 DEF Load, State
  <2> HIDE DEF e, s
  <2>8. Tidy(e, [known EXCEPT ![n] = d])
    BY <2>1, <2>5, <2>6, <2>7, TidyLoaded
  <2>9. [known EXCEPT ![n] = d] = known
    BY <2>2, KnownSame
  <2>10. get_inode(c, n) = e
    BY <1>2 DEF get_inode, e, i
  <2> QED
    BY <2>8, <2>9, <2>10
<1> QED
  BY <1>1, <1>2

(* rw_inode brings the disk up to date.                                    *)
LEMMA WrittenTidy ==
  ASSUME NEW c \in State, NEW known, Tidy(c, known),
         NEW s \in Slots, c.inode[s].num \in Inums, c.inode[s].count > 0
  PROVE  /\ Tidy(Written(c, s), known)
         /\ Written(c, s).disk[c.inode[s].num] = known[c.inode[s].num]
         /\ ~Written(c, s).inode[s].dirty
<1> DEFINE i == [c.inode[s] EXCEPT !.dirty = FALSE]
           e == Written(c, s)
           n == c.inode[s].num
<1>1. c.inode[s] \in Inode /\ known \in [Inums -> DiskInode] /\ known[n] = OnDisk(c.inode[s])
  BY StateTypes DEF Tidy
<1>2. /\ i \in Inode /\ i.num = n /\ i.count = c.inode[s].count /\ i.dirty = FALSE
      /\ OnDisk(i) = OnDisk(c.inode[s])
  BY <1>1 DEF Inode, OnDisk
<1>3. /\ e.inode = [c.inode EXCEPT ![s] = i] /\ e.disk = [c.disk EXCEPT ![n] = known[n]]
      /\ e.imap = c.imap
  BY <1>1 DEF Written, State
<1> HIDE DEF e, i
<1>4. e.inode[s] = i /\ \A r \in Slots \ {s} : e.inode[r] = c.inode[r]
  BY <1>3, StateTypes
<1>5. e.disk[n] = known[n] /\ \A m \in Inums \ {n} : e.disk[m] = c.disk[m]
  BY <1>3, StateTypes
<1>6. \A m \in Inums : UsedIn(e, m) <=> UsedIn(c, m)
  BY <1>2, <1>4 DEF UsedIn
<1>7. \A m \in Inums \ {n} : Behind(c, m) => Behind(e, m)
  BY <1>4 DEF Behind
<1>8. \A r \in Slots : e.inode[r].num = c.inode[r].num /\ e.inode[r].count = c.inode[r].count
                       /\ OnDisk(e.inode[r]) = OnDisk(c.inode[r])
  BY <1>2, <1>4
<1>9. Tidy(e, known)
  BY <1>3, <1>5, <1>6, <1>7, <1>8 DEF Tidy
<1> QED
  BY <1>2, <1>4, <1>5, <1>9 DEF e

(* The last reference is given back, and the disk is up to date.           *)
LEMMA ReleasedTidy ==
  ASSUME NEW c \in State, NEW known, Tidy(c, known),
         NEW s \in Slots, c.inode[s].num \in Inums, c.inode[s].count > 0,
         c.disk[c.inode[s].num] = known[c.inode[s].num]
  PROVE  Tidy(Released(c, s), known)
<1> DEFINE n == c.inode[s].num
           e == Released(c, s)
<1>1. /\ c.inode[s] \in Inode /\ known \in [Inums -> DiskInode] /\ known[n] = OnDisk(c.inode[s])
      /\ c.inode[s].nlinks = known[n].nlinks
  BY StateTypes, OnDiskType DEF Tidy
<1>2. \A r \in Slots \ {s} : c.inode[r].num # n
  BY DEF Tidy
<1>3. CASE known[n].nlinks = 0
  <2>1. /\ e.inode = [c.inode EXCEPT ![s] = FreeSlot] /\ e.disk = c.disk
        /\ e.imap = c.imap \ {n}
    BY <1>1, <1>3 DEF Released, State
  <2> HIDE DEF e
  <2>2. /\ e.inode[s].num = NO_ENTRY
        /\ \A r \in Slots \ {s} : e.inode[r] = c.inode[r]
    BY <2>1, StateTypes DEF FreeSlot
  <2>3. ~UsedIn(e, n) /\ \A m \in Inums \ {n} : UsedIn(e, m) <=> UsedIn(c, m)
    BY <1>2, <2>2, NoEntryAssumption DEF UsedIn
  <2>4. \A m \in Inums \ {n} : Behind(c, m) => Behind(e, m)
    BY <2>2 DEF Behind
  <2> QED
    BY <1>3, <2>1, <2>2, <2>3, <2>4, NoEntryAssumption DEF Tidy, e
<1>4. CASE known[n].nlinks # 0
  <2> DEFINE i == [c.inode[s] EXCEPT !.count = 0]
  <2>1. /\ e.inode = [c.inode EXCEPT ![s] = i] /\ e.disk = c.disk /\ e.imap = c.imap
    BY <1>1, <1>4 DEF Released, State
  <2>2. i.num = n /\ OnDisk(i) = OnDisk(c.inode[s]) /\ i.count = 0
    BY <1>1 DEF Inode, OnDisk
  <2> HIDE DEF e, i
  <2>3. e.inode[s] = i /\ \A r \in Slots \ {s} : e.inode[r] = c.inode[r]
    BY <2>1, StateTypes
  <2>4. \A m \in Inums \ {n} : UsedIn(e, m) <=> UsedIn(c, m)
    BY <2>2, <2>3 DEF UsedIn
  <2>5. \A m \in Inums \ {n} : Behind(c, m) => Behind(e, m)
    BY <2>3 DEF Behind
  <2>6. \A r \in Slots : e.inode[r].num = c.inode[r].num /\ OnDisk(e.inode[r]) = OnDisk(c.inode[r])
    BY <2>2, <2>3
  <2>7. n \in c.imap
    BY <1>4 DEF Tidy
  <2>8. \A r \in Slots : e.inode[r].num \in Inums /\ e.inode[r].count = 0
                           => known[e.inode[r].num].nlinks # 0
    BY <1>4, <2>2, <2>3 DEF Tidy
  <2>9. \A m \in Inums : m \in e.imap <=> known[m].nlinks # 0 \/ UsedIn(e, m)
    BY <1>4, <2>1, <2>4 DEF Tidy
  <2>10. \A m \in Inums : e.disk[m] = known[m] \/ Behind(e, m)
    BY <2>1, <2>5 DEF Tidy
  <2> QED
    BY <2>6, <2>8, <2>9, <2>10 DEF Tidy, e
<1> QED
  BY <1>3, <1>4

(* put_inode: an inode without links is freed, one with links is written.  *)
LEMMA PutTidy ==
  ASSUME NEW c \in State, Lists(c), NEW known, Tidy(c, known), NEW s \in Slots,
         c.inode[s].count > 0
  PROVE  Tidy(put_inode(c, s), known)
<1> DEFINE n == c.inode[s].num
<1>1. /\ c.inode[s] \in Inode /\ c.inode[s].count \in Nat /\ n \in Inums
      /\ known \in [Inums -> DiskInode] /\ known[n] = OnDisk(c.inode[s])
  BY StateTypes DEF Lists, Tidy
<1>2. CASE c.inode[s].count = 1
  <2> DEFINE f == Flushed(c, s)
  <2>1. /\ f \in State /\ Tidy(f, known) /\ f.inode[s].num = n /\ f.inode[s].count > 0
        /\ f.disk[n] = known[n]
    <3>1. CASE c.inode[s].dirty \/ c.inode[s].nlinks = 0
      BY <1>1, <3>1, WrittenSame, WrittenTidy DEF Flushed, Same
    <3>2. CASE ~(c.inode[s].dirty \/ c.inode[s].nlinks = 0)
      <4>1. ~Behind(c, n)
        BY <1>1, <3>2 DEF Behind, Tidy
      <4> QED
        BY <1>1, <3>2, <4>1 DEF Flushed, Tidy
    <3> QED
      BY <3>1, <3>2
  <2> HIDE DEF f
  <2>2. Tidy(Released(f, s), known)
    BY <1>1, <2>1, ReleasedTidy
  <2> QED
    BY <1>2, <2>2 DEF put_inode, f
<1>3. CASE c.inode[s].count # 1
  <2> DEFINE k == c.inode[s].count - 1
             i == [c.inode[s] EXCEPT !.count = k]
             e == put_inode(c, s)
  <2>1. k \in Nat /\ k > 0
    BY <1>1, <1>3
  <2>2. e \in State
    BY PutOne
  <2>3. e.inode = [c.inode EXCEPT ![s] = i] /\ e.disk = c.disk /\ e.imap = c.imap
    BY <1>3 DEF put_inode, State
  <2> HIDE DEF k, e
  <2>4. /\ i \in Inode /\ i.num = n /\ i.count = k
        /\ i.dirty = c.inode[s].dirty /\ OnDisk(i) = OnDisk(c.inode[s])
    BY <1>1, <2>1 DEF Inode, OnDisk
  <2> HIDE DEF i
  <2>5. i.dirty \/ c.disk[i.num] = OnDisk(i)
    BY <1>1, <2>4 DEF Tidy, Behind
  <2>6. Tidy(e, [known EXCEPT ![i.num] = OnDisk(i)])
    BY <1>1, <2>1, <2>2, <2>3, <2>4, <2>5, TidyChanged
  <2>7. [known EXCEPT ![i.num] = OnDisk(i)] = known
    BY <1>1, <2>4, KnownSame
  <2> QED
    BY <2>6, <2>7 DEF e
<1> QED
  BY <1>2, <1>3
=============================================================================
