---------------------------- MODULE MailboxProofs ----------------------------
(***************************************************************************)
(* Proofs about Mailbox, for every set of processes, every capacity, every *)
(* set of grants and receiver lists and every bound on the sends.          *)
(***************************************************************************)
EXTENDS Mailbox, SequenceTheorems, TLAPS

(* r is q with some elements left out.                                     *)
Within(r, q) ==
  \E f \in [1..Len(r) -> 1..Len(q)] :
    /\ \A i, j \in 1..Len(r) : i < j => f[i] < f[j]
    /\ \A i \in 1..Len(r) : r[i] = q[f[i]]

(* Leaving elements out keeps a sequence without duplicates so.            *)
LEMMA WithinElements ==
  ASSUME NEW S, NEW q \in Seq(S), NEW r \in Seq(S), Within(r, q)
  PROVE  /\ ToSet(r) \subseteq ToSet(q)
         /\ IsInjective(q) => IsInjective(r)
<1>1. PICK f \in [1..Len(r) -> 1..Len(q)] :
        /\ \A i, j \in 1..Len(r) : i < j => f[i] < f[j]
        /\ \A i \in 1..Len(r) : r[i] = q[f[i]]
  BY DEF Within
<1>2. DOMAIN q = 1..Len(q) /\ DOMAIN r = 1..Len(r)
  OBVIOUS
<1>3. ToSet(r) \subseteq ToSet(q)
  BY <1>1, <1>2 DEF ToSet
<1>4. ASSUME IsInjective(q) PROVE IsInjective(r)
  <2> SUFFICES ASSUME NEW i \in 1..Len(r), NEW j \in 1..Len(r), r[i] = r[j], i # j
               PROVE  FALSE
    BY <1>2 DEF IsInjective
  <2>1. f[i] = f[j]
    BY <1>1, <1>2, <1>4 DEF IsInjective
  <2>2. i < j \/ j < i
    OBVIOUS
  <2> QED
    BY <1>1, <2>1, <2>2
<1> QED
  BY <1>3, <1>4

(* A suffix.                                                               *)
LEMMA FromWithin ==
  ASSUME NEW S, NEW q \in Seq(S), NEW k \in 1..(Len(q) + 1)
  PROVE  /\ From(q, k) \in Seq(S)
         /\ Len(From(q, k)) = Len(q) + 1 - k
         /\ \A i \in 1..Len(From(q, k)) : From(q, k)[i] = q[k + i - 1]
         /\ Within(From(q, k), q)
<1>1. /\ From(q, k) \in Seq(S)
      /\ Len(From(q, k)) = Len(q) + 1 - k
      /\ \A i \in 1..Len(From(q, k)) : From(q, k)[i] = q[k + i - 1]
  BY SubSeqProperties DEF From
<1> DEFINE f == [i \in 1..Len(From(q, k)) |-> k + i - 1]
<1>2. /\ f \in [1..Len(From(q, k)) -> 1..Len(q)]
      /\ \A i, j \in 1..Len(From(q, k)) : i < j => f[i] < f[j]
      /\ \A i \in 1..Len(From(q, k)) : From(q, k)[i] = q[f[i]]
  BY <1>1
<1>3. Within(From(q, k), q)
  <2> HIDE DEF f
  <2> QED
    BY <1>2 DEF Within
<1> QED
  BY <1>1, <1>3

(* A sequence without its element k.                                       *)
LEMMA RemoveAtWithin ==
  ASSUME NEW S, NEW q \in Seq(S), NEW k \in 1..Len(q)
  PROVE  /\ RemoveAt(q, k) \in Seq(S)
         /\ Len(RemoveAt(q, k)) = Len(q) - 1
         /\ \A i \in 1..(Len(q) - 1) :
              RemoveAt(q, k)[i] = q[IF i < k THEN i ELSE i + 1]
         /\ Within(RemoveAt(q, k), q)
<1> DEFINE a == SubSeq(q, 1, k - 1)
           b == SubSeq(q, k + 1, Len(q))
           r == a \o b
           f == [i \in 1..(Len(q) - 1) |-> IF i < k THEN i ELSE i + 1]
<1>1. /\ a \in Seq(S) /\ Len(a) = k - 1
      /\ \A i \in 1..(k - 1) : a[i] = q[i]
  BY SubSeqProperties
<1>2. /\ b \in Seq(S) /\ Len(b) = Len(q) - k
      /\ \A i \in 1..(Len(q) - k) : b[i] = q[k + i]
  BY SubSeqProperties
<1>3. /\ r \in Seq(S) /\ Len(r) = Len(q) - 1
      /\ \A i \in 1..(Len(q) - 1) : r[i] = IF i <= k - 1 THEN a[i] ELSE b[i - (k - 1)]
  <2> HIDE DEF a, b
  <2> QED
    BY <1>1, <1>2, ConcatProperties
<1>4. ASSUME NEW i \in 1..(Len(q) - 1) PROVE r[i] = q[f[i]]
  <2> HIDE DEF a, b, r
  <2>1. CASE i < k
    BY <1>1, <1>3, <2>1
  <2>2. CASE ~(i < k)
    BY <1>2, <1>3, <2>2
  <2> QED
    BY <2>1, <2>2
<1>5. f \in [1..(Len(q) - 1) -> 1..Len(q)]
  OBVIOUS
<1>6. \A i, j \in 1..(Len(q) - 1) : i < j => f[i] < f[j]
  OBVIOUS
<1>7. Within(r, q)
  <2> HIDE DEF r, f
  <2> QED
    BY <1>3, <1>4, <1>5, <1>6 DEF Within
<1>8. RemoveAt(q, k) = r
  BY DEF RemoveAt
<1> HIDE DEF r
<1> QED
  BY <1>3, <1>4, <1>7, <1>8

(* A sequence without duplicates that loses an element does not keep it.   *)
LEMMA RemoveAtDropsIt ==
  ASSUME NEW S, NEW q \in Seq(S), NEW k \in 1..Len(q), IsInjective(q)
  PROVE  q[k] \notin ToSet(RemoveAt(q, k))
<1>1. /\ Len(RemoveAt(q, k)) = Len(q) - 1 /\ RemoveAt(q, k) \in Seq(S)
      /\ \A i \in 1..(Len(q) - 1) :
           RemoveAt(q, k)[i] = q[IF i < k THEN i ELSE i + 1]
  BY RemoveAtWithin
<1>2. ASSUME NEW i \in 1..(Len(q) - 1) PROVE RemoveAt(q, k)[i] # q[k]
  <2>1. CASE i < k
    BY <1>1, <2>1 DEF IsInjective
  <2>2. CASE ~(i < k)
    BY <1>1, <2>2 DEF IsInjective
  <2> QED
    BY <2>1, <2>2
<1>3. DOMAIN RemoveAt(q, k) = 1..(Len(q) - 1)
  BY <1>1
<1> QED
  BY <1>2, <1>3 DEF ToSet

(* A sequence that grows by an element it did not have.                    *)
LEMMA AppendNew ==
  ASSUME NEW S, NEW q \in Seq(S), NEW e \in S
  PROVE  /\ ToSet(Append(q, e)) = ToSet(q) \cup {e}
         /\ e \notin ToSet(q) /\ IsInjective(q) => IsInjective(Append(q, e))
<1> DEFINE r == Append(q, e)
<1>1. /\ DOMAIN r = 1..(Len(q) + 1) /\ DOMAIN q = 1..Len(q)
      /\ \A i \in 1..Len(q) : r[i] = q[i]
      /\ r[Len(q) + 1] = e
  OBVIOUS
<1>2. \A i \in 1..(Len(q) + 1) : i \in 1..Len(q) \/ i = Len(q) + 1
  OBVIOUS
<1>3. Len(q) + 1 \in 1..(Len(q) + 1) /\ \A i \in 1..Len(q) : i \in 1..(Len(q) + 1)
  OBVIOUS
<1> HIDE DEF r
<1>4. ToSet(r) = ToSet(q) \cup {e}
  BY <1>1, <1>2, <1>3 DEF ToSet
<1>5. ASSUME e \notin ToSet(q), IsInjective(q) PROVE IsInjective(r)
  <2>1. \A i \in 1..Len(q) : q[i] # e
    BY <1>1, <1>5 DEF ToSet
  <2> QED
    BY <1>1, <1>2, <1>5, <2>1 DEF IsInjective
<1> QED
  BY <1>4, <1>5 DEF r

(* Every way a delivery relinks a queue leaves some of its messages, in    *)
(* their order, and at least one when there was a second one.              *)
LEMMA AfterDeliveryWithin ==
  ASSUME NEW S, NEW q \in Seq(S), NEW k \in 1..Len(q)
  PROVE  /\ AfterDelivery(q, k) \in Seq(S)
         /\ Len(AfterDelivery(q, k)) <= Len(q)
         /\ Within(AfterDelivery(q, k), q)
<1>1. CASE k = 1
  <2>1. Tail(q) \in Seq(S) /\ Len(Tail(q)) = Len(q) - 1
        /\ \A i \in 1..(Len(q) - 1) : Tail(q)[i] = q[i + 1]
    OBVIOUS
  <2> DEFINE f == [i \in 1..Len(Tail(q)) |-> i + 1]
  <2>2. /\ f \in [1..Len(Tail(q)) -> 1..Len(q)]
        /\ \A i, j \in 1..Len(Tail(q)) : i < j => f[i] < f[j]
        /\ \A i \in 1..Len(Tail(q)) : Tail(q)[i] = q[f[i]]
    BY <2>1
  <2>3. Within(Tail(q), q)
    <3> HIDE DEF f
    <3> QED
      BY <2>2 DEF Within
  <2> QED
    BY <1>1, <2>1, <2>3 DEF AfterDelivery
<1>2. CASE k # 1 /\ k < Len(q)
  <2> DEFINE b == From(q, k + 2)
             r == Cons(q[k], b)
             f == [i \in 1..Len(r) |-> IF i = 1 THEN k ELSE k + i]
  <2>1. /\ b \in Seq(S) /\ Len(b) = Len(q) - 1 - k
        /\ \A i \in 1..Len(b) : b[i] = q[k + 2 + i - 1]
    BY <1>2, FromWithin
  <2>2. /\ r \in Seq(S) /\ Len(r) = Len(q) - k
        /\ \A i \in 1..Len(r) : r[i] = IF i <= 1 THEN <<q[k]>>[i] ELSE b[i - 1]
    <3>1. <<q[k]>> \in Seq(S) /\ Len(<<q[k]>>) = 1
      OBVIOUS
    <3> HIDE DEF b
    <3> QED
      BY <1>2, <2>1, <3>1, ConcatProperties DEF Cons
  <2> HIDE DEF b, r
  <2>3. ASSUME NEW i \in 1..Len(r) PROVE r[i] = q[f[i]]
    <3>1. CASE i = 1
      BY <2>2, <3>1
    <3>2. CASE i # 1
      BY <2>1, <2>2, <3>2
    <3> QED
      BY <3>1, <3>2
  <2>4. /\ f \in [1..Len(r) -> 1..Len(q)]
        /\ \A i, j \in 1..Len(r) : i < j => f[i] < f[j]
    BY <1>2, <2>2
  <2>5. Within(r, q)
    <3> HIDE DEF f
    <3> QED
      BY <2>3, <2>4 DEF Within
  <2>6. AfterDelivery(q, k) = r
    BY <1>2 DEF AfterDelivery, r, b
  <2> QED
    BY <1>2, <2>2, <2>5, <2>6
<1>3. CASE k # 1 /\ ~(k < Len(q))
  <2> DEFINE f == [i \in 1..Len(q) |-> i]
  <2>1. /\ f \in [1..Len(q) -> 1..Len(q)]
        /\ \A i, j \in 1..Len(q) : i < j => f[i] < f[j]
        /\ \A i \in 1..Len(q) : q[i] = q[f[i]]
    OBVIOUS
  <2>2. Within(q, q)
    <3> HIDE DEF f
    <3> QED
      BY <2>1 DEF Within
  <2> QED
    BY <1>3, <2>2 DEF AfterDelivery
<1> QED
  BY <1>1, <1>2, <1>3

(* What do_mreceive leaves of the list of suspended receivers.             *)
LEMMA WithoutEntryWithin ==
  ASSUME NEW S, NEW q \in Seq(S), NEW k \in 1..Len(q)
  PROVE  /\ WithoutEntry(q, k) \in Seq(S)
         /\ Within(WithoutEntry(q, k), q)
<1>1. CASE k = 1
  BY <1>1, AfterDeliveryWithin DEF WithoutEntry, AfterDelivery
<1>2. CASE k # 1
  <2> DEFINE a == SubSeq(q, 1, k - 1)
             f == [i \in 1..Len(a) |-> i]
  <2>1. a \in Seq(S) /\ Len(a) = k - 1 /\ \A i \in 1..(k - 1) : a[i] = q[i]
    BY SubSeqProperties
  <2>2. /\ f \in [1..Len(a) -> 1..Len(q)]
        /\ \A i, j \in 1..Len(a) : i < j => f[i] < f[j]
        /\ \A i \in 1..Len(a) : a[i] = q[f[i]]
    BY <2>1
  <2>3. Within(a, q)
    <3> HIDE DEF f
    <3> QED
      BY <2>2 DEF Within
  <2> QED
    BY <1>2, <2>1, <2>3 DEF WithoutEntry
<1> QED
  BY <1>1, <1>2

-----------------------------------------------------------------------------
(* A step of Next is one of the calls or a resume.                         *)
LEMMA NextCases ==
  ASSUME Next
  PROVE  \/ \E o \in Procs : do_createMailbox(o)
         \/ \E o \in Procs : do_removeMailbox(o)
         \/ \E o, s \in Procs : do_addSender(o, s)
         \/ \E o, s \in Procs : do_removeSender(o, s)
         \/ \E p \in Procs : \E receivers \in Seq(Procs) : do_msend(p, receivers)
         \/ \E p \in Procs : \E asked \in Procs \cup {NoSource} : do_mreceive(p, asked)
         \/ \E p \in Procs : Resume(p)
<1>1. \A g \in Grants : g[1] \in Procs /\ g[2] \in Procs
  BY GrantsAssumption
<1> QED
  BY <1>1, ReceiverAssumption DEF Next, Call

(* A receive takes the caller's entry off the list, if it is there, and    *)
(* goes on with a source that is a process or none.                        *)
LEMMA ReceiveCases ==
  ASSUME TypeOK, NEW p \in Procs, NEW asked \in Procs \cup {NoSource},
         do_mreceive(p, asked)
  PROVE  \E source \in Procs \cup {NoSource}, rest \in Seq(Waiter) :
           /\ Within(rest, deadlockOne)
           /\ OneEntryPerReceiver => \A k \in DOMAIN rest : rest[k].deadlocked # p
           /\ Receive(p, source, rest)
<1>1. CASE /\ \A k \in DOMAIN deadlockOne : deadlockOne[k].deadlocked # p
           /\ Receive(p, asked, deadlockOne)
  <2> DEFINE f == [i \in 1..Len(deadlockOne) |-> i]
  <2>1. /\ f \in [1..Len(deadlockOne) -> 1..Len(deadlockOne)]
        /\ \A i, j \in 1..Len(deadlockOne) : i < j => f[i] < f[j]
        /\ \A i \in 1..Len(deadlockOne) : deadlockOne[i] = deadlockOne[f[i]]
    OBVIOUS
  <2>2. Within(deadlockOne, deadlockOne)
    <3> HIDE DEF f
    <3> QED
      BY <2>1 DEF Within
  <2> QED
    BY <1>1, <2>2 DEF TypeOK
<1>2. ASSUME NEW k \in DOMAIN deadlockOne, EntryOf(deadlockOne, k, p),
             Receive(p, deadlockOne[k].deadlockedSource, WithoutEntry(deadlockOne, k))
      PROVE  \E source \in Procs \cup {NoSource}, rest \in Seq(Waiter) :
               /\ Within(rest, deadlockOne)
               /\ OneEntryPerReceiver => \A j \in DOMAIN rest : rest[j].deadlocked # p
               /\ Receive(p, source, rest)
  <2> DEFINE rest == WithoutEntry(deadlockOne, k)
  <2>1. deadlockOne \in Seq(Waiter) /\ k \in 1..Len(deadlockOne)
    BY DEF TypeOK
  <2>2. rest \in Seq(Waiter) /\ Within(rest, deadlockOne)
    BY <2>1, WithoutEntryWithin
  <2>3. deadlockOne[k].deadlockedSource \in Procs \cup {NoSource}
    <3>1. deadlockOne[k] \in Waiter
      BY <2>1
    <3> QED
      BY <3>1 DEF Waiter
  <2>4. ASSUME OneEntryPerReceiver, NEW j \in DOMAIN rest
        PROVE  rest[j].deadlocked # p
    <3>1. CASE k = 1
      <4>1. rest = Tail(deadlockOne)
        BY <3>1 DEF WithoutEntry
      <4>2. j + 1 \in DOMAIN deadlockOne /\ rest[j] = deadlockOne[j + 1] /\ j + 1 # 1
        BY <2>1, <4>1
      <4> QED
        BY <1>2, <2>1, <2>4, <3>1, <4>2 DEF OneEntryPerReceiver, EntryOf
    <3>2. CASE k # 1
      <4>1. rest = SubSeq(deadlockOne, 1, k - 1)
        BY <3>2 DEF WithoutEntry
      <4>2. j \in 1..(k - 1) /\ rest[j] = deadlockOne[j]
        BY <2>1, <4>1, SubSeqProperties
      <4> QED
        BY <1>2, <4>2 DEF EntryOf
    <3> QED
      BY <3>1, <3>2
  <2> QED
    BY <1>2, <2>2, <2>3, <2>4
<1> QED
  BY <1>1, <1>2 DEF do_mreceive

(* What the searches leave of a sender list is a sequence of processes.    *)
LEMMA PermissionsWithin ==
  ASSUME TypeOK, NEW o \in Procs, NEW s \in Procs, NEW permitted \in BOOLEAN,
         checkPermissions(o, s, permitted)
  PROVE  \E list \in Seq(Procs) :
           /\ mbSender' = [mbSender EXCEPT ![o] = list]
           /\ Within(list, mbSender[o])
<1>1. mbSender[o] \in Seq(Procs)
  BY DEF TypeOK
<1>2. ASSUME NEW k \in DOMAIN mbSender[o], mbSender' = [mbSender EXCEPT ![o] = From(@, k)]
      PROVE  \E list \in Seq(Procs) : /\ mbSender' = [mbSender EXCEPT ![o] = list]
                                      /\ Within(list, mbSender[o])
  <2>1. k \in 1..(Len(mbSender[o]) + 1)
    BY <1>1
  <2> QED
    BY <1>1, <1>2, <2>1, FromWithin
<1>3. Within(<< >>, mbSender[o])
  <2> DEFINE f == [i \in 1..0 |-> i]
  <2>1. f \in [1..Len(<< >>) -> 1..Len(mbSender[o])]
    BY <1>1
  <2>2. 1..Len(<< >>) = {}
    OBVIOUS
  <2> QED
    BY <2>1, <2>2 DEF Within
<1>4. \/ \E k \in DOMAIN mbSender[o] : mbSender' = [mbSender EXCEPT ![o] = From(@, k)]
      \/ mbSender' = [mbSender EXCEPT ![o] = << >>]
  BY DEF checkPermissions
<1>5. << >> \in Seq(Procs)
  OBVIOUS
<1> QED
  BY <1>2, <1>3, <1>4, <1>5

-----------------------------------------------------------------------------
(* Every variable keeps its type.                                          *)
THEOREM TypeInvariant == Spec => []TypeOK
<1>1. ASSUME Init PROVE TypeOK
  <2>1. << >> \in Seq(Procs) /\ << >> \in Seq(Message) /\ << >> \in Seq(Waiter)
    OBVIOUS
  <2>2. 0 \in 0..BUFFERSIZE
    BY BufferAssumption
  <2>3. /\ mailboxFront \in Seq(Procs) /\ deadlockOne \in Seq(Waiter)
        /\ numMes \in [Procs -> 0..BUFFERSIZE]
    BY <1>1, <2>1, <2>2 DEF Init
  <2>4. mbSender \in [Procs -> Seq(Procs)] /\ mbList \in [Procs -> Seq(Message)]
    BY <1>1, <2>1 DEF Init
  <2>5. granted \in [Procs -> SUBSET Procs] /\ lastFrom \in [Procs -> [Procs -> Nat]]
    BY <1>1 DEF Init
  <2>6. stopped \in SUBSET Procs /\ nextId \in Nat \ {0}
    BY <1>1 DEF Init
  <2>7. looping \in BOOLEAN
    BY <1>1 DEF Init
  <2> QED
    BY <2>3, <2>4, <2>5, <2>6, <2>7 DEF TypeOK
<1>2. TypeOK /\ [Next]_vars => TypeOK'
  <2> SUFFICES ASSUME TypeOK, [Next]_vars PROVE TypeOK'
    OBVIOUS
  <2>1. ASSUME NEW o \in Procs, do_createMailbox(o) PROVE TypeOK'
    BY <2>1, BufferAssumption DEF TypeOK, do_createMailbox, ClearMailbox
  <2>2. ASSUME NEW o \in Procs, do_removeMailbox(o) PROVE TypeOK'
    <3>1. PICK k \in 1..Len(mailboxFront) : mailboxFront' = RemoveAt(mailboxFront, k)
      BY <2>2 DEF do_removeMailbox, TypeOK, ClearMailbox
    <3>2. mailboxFront' \in Seq(Procs)
      BY <3>1, RemoveAtWithin DEF TypeOK
    <3>3. << >> \in Seq(Procs) /\ << >> \in Seq(Message) /\ 0 \in 0..BUFFERSIZE
      BY BufferAssumption
    <3>4. numMes' \in [Procs -> 0..BUFFERSIZE]
      BY <2>2, <3>3 DEF TypeOK, do_removeMailbox, ClearMailbox
    <3>7. granted' \in [Procs -> SUBSET Procs]
      <4>1. granted' = [granted EXCEPT ![o] = {}] /\ granted \in [Procs -> SUBSET Procs]
        BY <2>2 DEF TypeOK, do_removeMailbox, ClearMailbox
      <4> QED
        BY <4>1
    <3>5. mbSender' \in [Procs -> Seq(Procs)]
      BY <2>2, <3>3 DEF TypeOK, do_removeMailbox, ClearMailbox
    <3>6. mbList' \in [Procs -> Seq(Message)]
      BY <2>2, <3>3 DEF TypeOK, do_removeMailbox, ClearMailbox
    <3> QED
      BY <2>2, <3>2, <3>4, <3>5, <3>6, <3>7 DEF TypeOK, do_removeMailbox, ClearMailbox
  <2>3. ASSUME NEW o \in Procs, NEW s \in Procs, do_addSender(o, s) PROVE TypeOK'
    <3>1. ASSUME NEW k \in DOMAIN mbSender[o] PROVE From(mbSender[o], k) \in Seq(Procs)
      <4>1. mbSender[o] \in Seq(Procs)
        BY DEF TypeOK
      <4>2. k \in 1..(Len(mbSender[o]) + 1)
        BY <4>1
      <4> QED
        BY <4>1, <4>2, FromWithin
    <3>2. mbSender' \in [Procs -> Seq(Procs)]
      <4>1. Append(mbSender[o], s) \in Seq(Procs)
        BY DEF TypeOK
      <4>2. CASE mbSender' = [mbSender EXCEPT ![o] = Append(@, s)]
        BY <4>1, <4>2 DEF TypeOK
      <4>3. CASE \E k \in DOMAIN mbSender[o] :
                   mbSender' = [mbSender EXCEPT ![o] = From(@, k)]
        BY <3>1, <4>3 DEF TypeOK
      <4> QED
        BY <2>3, <4>2, <4>3 DEF do_addSender
    <3> QED
      BY <2>3, <3>2 DEF TypeOK, do_addSender
  <2>4. ASSUME NEW o \in Procs, NEW s \in Procs, do_removeSender(o, s) PROVE TypeOK'
    <3>1. ASSUME NEW k \in DOMAIN mbSender[o] PROVE RemoveAt(mbSender[o], k) \in Seq(Procs)
      <4>1. mbSender[o] \in Seq(Procs)
        BY DEF TypeOK
      <4>2. k \in 1..Len(mbSender[o])
        BY <4>1
      <4> QED
        BY <4>1, <4>2, RemoveAtWithin
    <3>2. mbSender' \in [Procs -> Seq(Procs)]
      <4>1. CASE UNCHANGED mbSender
        BY <4>1 DEF TypeOK
      <4>2. CASE \E k \in DOMAIN mbSender[o] :
                   mbSender' = [mbSender EXCEPT ![o] = RemoveAt(@, k)]
        BY <3>1, <4>2 DEF TypeOK
      <4> QED
        BY <2>4, <4>1, <4>2 DEF do_removeSender
    <3> QED
      BY <2>4, <3>2 DEF TypeOK, do_removeSender
  <2>5. ASSUME NEW p \in Procs, NEW receivers \in Seq(Procs), do_msend(p, receivers)
        PROVE  TypeOK'
    <3> DEFINE o == Head(receivers)
    <3>1. o \in Procs
      BY <2>5 DEF do_msend
    <3> HIDE DEF o
    <3>2. mbSender' \in [Procs -> Seq(Procs)]
      <4>1. \E permitted \in BOOLEAN : checkPermissions(o, p, permitted)
        BY <2>5 DEF do_msend, o
      <4> QED
        BY <3>1, <4>1, PermissionsWithin DEF TypeOK
    <3>3. /\ mbList' \in [Procs -> Seq(Message)]
          /\ numMes' \in [Procs -> 0..BUFFERSIZE]
          /\ nextId' \in Nat \ {0}
      <4>1. CASE /\ ~MailboxFull(o)
                 /\ mbList' = [mbList EXCEPT ![o] = Append(@, [id |-> nextId, sender |-> p])]
                 /\ numMes' = [numMes EXCEPT ![o] = @ + 1]
                 /\ nextId' = nextId + 1
        <5>1. [id |-> nextId, sender |-> p] \in Message
          BY DEF TypeOK, Message
        <5>2. numMes[o] + 1 \in 0..BUFFERSIZE
          BY <3>1, <4>1, BufferAssumption DEF TypeOK, MailboxFull
        <5> QED
          BY <3>1, <4>1, <5>1, <5>2 DEF TypeOK
      <4>2. CASE UNCHANGED <<mbList, numMes, nextId>>
        BY <4>2 DEF TypeOK
      <4> QED
        BY <2>5, <4>1, <4>2 DEF do_msend, o
    <3> QED
      BY <2>5, <3>2, <3>3 DEF TypeOK, do_msend
  <2>6. ASSUME NEW p \in Procs, NEW asked \in Procs \cup {NoSource}, do_mreceive(p, asked)
        PROVE  TypeOK'
    <3>1. PICK source \in Procs \cup {NoSource}, rest \in Seq(Waiter) :
            Receive(p, source, rest)
      BY <2>6, ReceiveCases
    <3>2. deadlockOne' \in Seq(Waiter)
      <4>1. [deadlocked |-> p, deadlockedSource |-> source] \in Waiter
        BY DEF Waiter
      <4>2. Cons([deadlocked |-> p, deadlockedSource |-> source], rest) \in Seq(Waiter)
        BY <4>1, ConcatProperties DEF Cons
      <4> QED
        BY <3>1, <4>2 DEF Receive, ReceiveSuspends
    <3>3. /\ mbList' \in [Procs -> Seq(Message)]
          /\ lastFrom' \in [Procs -> [Procs -> Nat]]
      <4>1. CASE ReceiveDelivers(p, source)
        <5>1. mbList[p] \in Seq(Message)
          BY DEF TypeOK
        <5>2. PICK k \in DOMAIN mbList[p] :
                /\ FirstFrom(mbList[p], k, source)
                /\ mbList' = [mbList EXCEPT ![p] = AfterDelivery(@, k)]
                /\ lastFrom' = [lastFrom EXCEPT ![p][source] = mbList[p][k].id]
          BY <4>1 DEF ReceiveDelivers
        <5>3. AfterDelivery(mbList[p], k) \in Seq(Message)
          BY <5>1, AfterDeliveryWithin
        <5>4. mbList[p][k].id \in Nat
          <6>1. mbList[p][k] \in Message
            BY <5>1
          <6> QED
            BY <6>1 DEF Message
        <5> QED
          BY <5>2, <5>3, <5>4 DEF TypeOK
      <4>2. CASE UNCHANGED <<mbList, lastFrom>>
        BY <4>2 DEF TypeOK
      <4> QED
        BY <3>1, <4>1, <4>2 DEF Receive, ReceiveSuspends, ReceiveLoops, ReceiveCopyFails
    <3>4. stopped' \in SUBSET Procs /\ looping' \in BOOLEAN
      BY <3>1 DEF TypeOK, Receive, ReceiveSuspends, ReceiveLoops, ReceiveCopyFails,
                  ReceiveDelivers
    <3> QED
      BY <2>6, <3>2, <3>3, <3>4 DEF TypeOK, do_mreceive
  <2>7. ASSUME NEW p \in Procs, Resume(p) PROVE TypeOK'
    BY <2>7 DEF TypeOK, Resume
  <2>8. CASE UNCHANGED vars
    BY <2>8 DEF TypeOK, vars
  <2> QED
    BY <2>1, <2>2, <2>3, <2>4, <2>5, <2>6, <2>7, <2>8, NextCases
<1> QED
  BY <1>1, <1>2, PTL DEF Spec

-----------------------------------------------------------------------------
(* The only ways in which the queues change: a mailbox is emptied, gets a  *)
(* message at its end, or loses some messages in a delivery.               *)
QueueKept     == UNCHANGED <<mbList, numMes, nextId, lastFrom>>
QueueReset(o) == /\ mbList' = [mbList EXCEPT ![o] = << >>]
                 /\ numMes' = [numMes EXCEPT ![o] = 0]
                 /\ UNCHANGED <<nextId, lastFrom>>
QueueGrows(o, s) ==
  /\ mbList' = [mbList EXCEPT ![o] = Append(@, [id |-> nextId, sender |-> s])]
  /\ numMes' = [numMes EXCEPT ![o] = @ + 1]
  /\ nextId' = nextId + 1
  /\ UNCHANGED lastFrom
QueueDelivers(p, s) ==
  /\ \E k \in DOMAIN mbList[p] :
       /\ FirstFrom(mbList[p], k, s)
       /\ mbList' = [mbList EXCEPT ![p] = AfterDelivery(@, k)]
       /\ lastFrom' = [lastFrom EXCEPT ![p][s] = mbList[p][k].id]
  /\ UNCHANGED <<numMes, nextId>>

(* A receive that delivers names a process as the source.                  *)
LEMMA ReceiveQueues ==
  ASSUME TypeOK, NEW p \in Procs, NEW asked \in Procs \cup {NoSource},
         do_mreceive(p, asked)
  PROVE  QueueKept \/ \E s \in Procs : QueueDelivers(p, s)
<1>1. PICK source \in Procs \cup {NoSource}, rest \in Seq(Waiter) : Receive(p, source, rest)
  BY ReceiveCases
<1>2. CASE ReceiveDelivers(p, source)
  <2>1. PICK k \in DOMAIN mbList[p] : mbList[p][k].sender = source
    BY <1>2 DEF ReceiveDelivers, FirstFrom
  <2>2. mbList[p] \in Seq(Message)
    BY DEF TypeOK
  <2>3. mbList[p][k] \in Message
    BY <2>2
  <2>4. source \in Procs
    BY <2>1, <2>3 DEF Message
  <2> QED
    BY <1>2, <2>4 DEF ReceiveDelivers, QueueDelivers, do_mreceive
<1>3. CASE UNCHANGED <<mbList, lastFrom>>
  BY <1>3 DEF QueueKept, do_mreceive
<1> QED
  BY <1>1, <1>2, <1>3 DEF Receive, ReceiveSuspends, ReceiveLoops, ReceiveCopyFails

LEMMA QueueCases ==
  ASSUME TypeOK, [Next]_vars
  PROVE  \/ QueueKept
         \/ \E o \in Procs : QueueReset(o)
         \/ \E o, s \in Procs : QueueGrows(o, s)
         \/ \E p, s \in Procs : QueueDelivers(p, s)
<1>1. ASSUME NEW o \in Procs, do_createMailbox(o) \/ do_removeMailbox(o)
      PROVE  QueueReset(o)
  BY <1>1 DEF do_createMailbox, do_removeMailbox, QueueReset, ClearMailbox
<1>2. ASSUME NEW o \in Procs, NEW s \in Procs, do_addSender(o, s) \/ do_removeSender(o, s)
      PROVE  QueueKept
  BY <1>2 DEF do_addSender, do_removeSender, QueueKept
<1>3. ASSUME NEW p \in Procs, NEW receivers \in Seq(Procs), do_msend(p, receivers)
      PROVE  QueueKept \/ \E o \in Procs : QueueGrows(o, p)
  <2>1. Head(receivers) \in Procs
    BY <1>3 DEF do_msend
  <2>2. QueueKept \/ QueueGrows(Head(receivers), p)
    BY <1>3 DEF do_msend, QueueKept, QueueGrows
  <2> QED
    BY <2>1, <2>2
<1>4. ASSUME NEW p \in Procs, Resume(p) PROVE QueueKept
  BY <1>4 DEF Resume, QueueKept
<1>5. CASE UNCHANGED vars
  BY <1>5 DEF vars, QueueKept
<1> QED
  BY <1>1, <1>2, <1>3, <1>4, <1>5, NextCases, ReceiveQueues

(* The next queue of a mailbox that loses messages in a delivery.          *)
LEMMA DeliveryShrinks ==
  ASSUME TypeOK, NEW p \in Procs, NEW s \in Procs, QueueDelivers(p, s)
  PROVE  \E queue \in Seq(Message) :
           /\ mbList' = [mbList EXCEPT ![p] = queue]
           /\ Len(queue) <= Len(mbList[p])
           /\ Within(queue, mbList[p])
<1>1. mbList[p] \in Seq(Message)
  BY DEF TypeOK
<1>2. PICK k \in DOMAIN mbList[p] : mbList' = [mbList EXCEPT ![p] = AfterDelivery(@, k)]
  BY DEF QueueDelivers
<1>3. k \in 1..Len(mbList[p])
  BY <1>1
<1> QED
  BY <1>1, <1>2, <1>3, AfterDeliveryWithin

-----------------------------------------------------------------------------
(* A mailbox never holds more messages than its counter says.              *)
THEOREM CountBoundsQueue == Spec => []QueueWithinCount
<1>1. Init => QueueWithinCount
  BY DEF Init, QueueWithinCount
<1>2. TypeOK /\ QueueWithinCount /\ [Next]_vars => QueueWithinCount'
  <2> SUFFICES ASSUME TypeOK, QueueWithinCount, [Next]_vars,
                      NEW o \in Procs
               PROVE  Len(mbList'[o]) <= numMes'[o]
    BY DEF QueueWithinCount
  <2> USE DEF TypeOK
  <2>1. mbList[o] \in Seq(Message) /\ numMes[o] \in Nat /\ Len(mbList[o]) <= numMes[o]
    BY BufferAssumption DEF QueueWithinCount
  <2>2. CASE QueueKept
    BY <2>1, <2>2 DEF QueueKept
  <2>3. ASSUME NEW q \in Procs, QueueReset(q) PROVE Len(mbList'[o]) <= numMes'[o]
    BY <2>1, <2>3 DEF QueueReset
  <2>4. ASSUME NEW q \in Procs, NEW s \in Procs, QueueGrows(q, s)
        PROVE  Len(mbList'[o]) <= numMes'[o]
    BY <2>1, <2>4 DEF QueueGrows
  <2>5. ASSUME NEW p \in Procs, NEW s \in Procs, QueueDelivers(p, s)
        PROVE  Len(mbList'[o]) <= numMes'[o]
    <3>1. PICK queue \in Seq(Message) : /\ mbList' = [mbList EXCEPT ![p] = queue]
                                        /\ Len(queue) <= Len(mbList[p])
      BY <2>5, DeliveryShrinks
    <3> QED
      BY <2>1, <2>5, <3>1 DEF QueueDelivers
  <2> QED
    BY <2>2, <2>3, <2>4, <2>5, QueueCases
<1> QED
  BY <1>1, <1>2, TypeInvariant, PTL DEF Spec

(* The messages of a queue stay in the order PM accepted them in, and      *)
(* leaving some out keeps what is left in order.                           *)
InOrder(queue, bound) ==
  /\ \A i, j \in DOMAIN queue : i < j => queue[i].id < queue[j].id
  /\ \A i \in DOMAIN queue : queue[i].id < bound

LEMMA WithinInOrder ==
  ASSUME NEW q \in Seq(Message), NEW r \in Seq(Message), Within(r, q), NEW bound \in Nat,
         InOrder(q, bound)
  PROVE  InOrder(r, bound)
<1>1. PICK f \in [1..Len(r) -> 1..Len(q)] :
        /\ \A i, j \in 1..Len(r) : i < j => f[i] < f[j]
        /\ \A i \in 1..Len(r) : r[i] = q[f[i]]
  BY DEF Within
<1>2. DOMAIN q = 1..Len(q) /\ DOMAIN r = 1..Len(r)
  OBVIOUS
<1> QED
  BY <1>1, <1>2 DEF InOrder

LEMMA AppendInOrder ==
  ASSUME NEW q \in Seq(Message), NEW bound \in Nat, InOrder(q, bound), NEW s
  PROVE  InOrder(Append(q, [id |-> bound, sender |-> s]), bound + 1)
<1> DEFINE m == [id |-> bound, sender |-> s]
           r == Append(q, m)
<1>1. /\ Len(r) = Len(q) + 1 /\ DOMAIN r = 1..(Len(q) + 1)
      /\ \A i \in 1..Len(q) : r[i] = q[i]
      /\ r[Len(q) + 1] = m
  OBVIOUS
<1>2. \A i \in 1..Len(q) : q[i].id \in Nat /\ q[i].id < bound
  <2>1. \A i \in 1..Len(q) : q[i] \in Message
    OBVIOUS
  <2> QED
    BY <2>1 DEF Message, InOrder
<1>3. m.id = bound
  OBVIOUS
<1> HIDE DEF r, m
<1>4. \A i, j \in 1..Len(q) : i < j => r[i].id < r[j].id
  BY <1>1 DEF InOrder
<1>5. \A i \in 1..Len(q) : r[i].id < r[Len(q) + 1].id
  BY <1>1, <1>2, <1>3
<1>6. \A i \in 1..(Len(q) + 1) : r[i].id < bound + 1
  BY <1>1, <1>2, <1>3
<1>7. InOrder(r, bound + 1)
  BY <1>1, <1>4, <1>5, <1>6 DEF InOrder
<1> QED
  BY <1>7 DEF r, m

(* The queues are in the order in which PM accepted their messages.        *)
THEOREM SendOrder == Spec => []QueueInSendOrder
<1>1. Init => QueueInSendOrder
  BY DEF Init, QueueInSendOrder
<1>2. TypeOK /\ QueueInSendOrder /\ [Next]_vars => QueueInSendOrder'
  <2> SUFFICES ASSUME TypeOK, QueueInSendOrder, [Next]_vars, NEW o \in Procs
               PROVE  InOrder(mbList'[o], nextId')
    BY DEF QueueInSendOrder, InOrder
  <2>1. mbList[o] \in Seq(Message) /\ InOrder(mbList[o], nextId) /\ nextId \in Nat
    BY DEF TypeOK, QueueInSendOrder, InOrder
  <2>2. CASE QueueKept
    BY <2>1, <2>2 DEF QueueKept
  <2>3. ASSUME NEW q \in Procs, QueueReset(q) PROVE InOrder(mbList'[o], nextId')
    <3>1. InOrder(<< >>, nextId)
      BY DEF InOrder
    <3>2. mbList'[o] = << >> \/ mbList'[o] = mbList[o]
      BY <2>3 DEF QueueReset, TypeOK
    <3> QED
      BY <2>1, <2>3, <3>1, <3>2 DEF QueueReset
  <2>4. ASSUME NEW q \in Procs, NEW s \in Procs, QueueGrows(q, s)
        PROVE  InOrder(mbList'[o], nextId')
    <3>1. CASE o = q
      <4>1. mbList'[o] = Append(mbList[o], [id |-> nextId, sender |-> s])
        BY <2>4, <3>1 DEF QueueGrows, TypeOK
      <4> QED
        BY <2>1, <2>4, <4>1, AppendInOrder DEF QueueGrows
    <3>2. CASE o # q
      <4>1. mbList'[o] = mbList[o] /\ nextId' = nextId + 1
        BY <2>4, <3>2 DEF QueueGrows, TypeOK
      <4>2. \A i \in DOMAIN mbList[o] : mbList[o][i].id \in Nat
        <5>1. \A i \in DOMAIN mbList[o] : mbList[o][i] \in Message
          BY <2>1
        <5> QED
          BY <5>1 DEF Message
      <4> QED
        BY <2>1, <4>1, <4>2 DEF InOrder
    <3> QED
      BY <3>1, <3>2
  <2>5. ASSUME NEW p \in Procs, NEW s \in Procs, QueueDelivers(p, s)
        PROVE  InOrder(mbList'[o], nextId')
    <3>1. PICK queue \in Seq(Message) : /\ mbList' = [mbList EXCEPT ![p] = queue]
                                        /\ Within(queue, mbList[p])
      BY <2>5, DeliveryShrinks
    <3>2. CASE o = p
      <4>1. mbList'[o] = queue /\ nextId' = nextId
        BY <2>5, <3>1, <3>2 DEF QueueDelivers, TypeOK
      <4> QED
        BY <2>1, <3>1, <3>2, <4>1, WithinInOrder
    <3>3. CASE o # p
      <4>1. mbList'[o] = mbList[o] /\ nextId' = nextId
        BY <2>5, <3>1, <3>3 DEF QueueDelivers, TypeOK
      <4> QED
        BY <2>1, <4>1
    <3> QED
      BY <3>2, <3>3
  <2> QED
    BY <2>2, <2>3, <2>4, <2>5, QueueCases
<1> QED
  BY <1>1, <1>2, TypeInvariant, PTL DEF Spec

-----------------------------------------------------------------------------
(* An owner is on the list of mailboxes at most once.                      *)
THEOREM OneMailboxPerOwner == Spec => []UniqueOwners
<1>1. Init => UniqueOwners
  BY DEF Init, UniqueOwners, IsInjective
<1>2. TypeOK /\ UniqueOwners /\ [Next]_vars => UniqueOwners'
  <2> SUFFICES ASSUME TypeOK, UniqueOwners, [Next]_vars PROVE IsInjective(mailboxFront')
    BY DEF UniqueOwners
  <2>1. mailboxFront \in Seq(Procs) /\ IsInjective(mailboxFront)
    BY DEF TypeOK, UniqueOwners
  <2>2. ASSUME NEW o \in Procs, do_createMailbox(o) PROVE IsInjective(mailboxFront')
    BY <2>1, <2>2, AppendNew DEF do_createMailbox, Owners, ClearMailbox
  <2>3. ASSUME NEW o \in Procs, do_removeMailbox(o) PROVE IsInjective(mailboxFront')
    <3>1. PICK k \in DOMAIN mailboxFront : mailboxFront' = RemoveAt(mailboxFront, k)
      BY <2>3 DEF do_removeMailbox, ClearMailbox
    <3>2. k \in 1..Len(mailboxFront)
      BY <2>1
    <3>3. mailboxFront' \in Seq(Procs) /\ Within(mailboxFront', mailboxFront)
      BY <2>1, <3>1, <3>2, RemoveAtWithin
    <3> QED
      BY <2>1, <3>3, WithinElements
  <2>4. CASE UNCHANGED mailboxFront
    BY <2>1, <2>4
  <2>5. CASE UNCHANGED vars
    BY <2>4, <2>5 DEF vars
  <2> QED
    BY <2>2, <2>3, <2>4, <2>5, NextCases
       DEF do_addSender, do_removeSender, do_msend, do_mreceive, Resume
<1> QED
  BY <1>1, <1>2, TypeInvariant, PTL DEF Spec

(* A process is on the list of suspended receivers at most once.           *)
THEOREM OneEntry == Spec => []OneEntryPerReceiver
<1>1. Init => OneEntryPerReceiver
  BY DEF Init, OneEntryPerReceiver
<1>2. TypeOK /\ OneEntryPerReceiver /\ [Next]_vars => OneEntryPerReceiver'
  <2> SUFFICES ASSUME TypeOK, OneEntryPerReceiver, [Next]_vars PROVE OneEntryPerReceiver'
    OBVIOUS
  <2>1. CASE UNCHANGED deadlockOne
    BY <2>1 DEF OneEntryPerReceiver
  <2>2. ASSUME NEW p \in Procs, NEW asked \in Procs \cup {NoSource}, do_mreceive(p, asked)
        PROVE  OneEntryPerReceiver'
    <3>1. PICK source \in Procs \cup {NoSource}, rest \in Seq(Waiter) :
            /\ Within(rest, deadlockOne)
            /\ \A k \in DOMAIN rest : rest[k].deadlocked # p
            /\ Receive(p, source, rest)
      BY <2>2, ReceiveCases
    <3>2. PICK f \in [1..Len(rest) -> 1..Len(deadlockOne)] :
            /\ \A i, j \in 1..Len(rest) : i < j => f[i] < f[j]
            /\ \A i \in 1..Len(rest) : rest[i] = deadlockOne[f[i]]
      BY <3>1 DEF Within
    <3>3. DOMAIN deadlockOne = 1..Len(deadlockOne) /\ DOMAIN rest = 1..Len(rest)
      BY DEF TypeOK
    <3>4. ASSUME NEW i \in 1..Len(rest), NEW j \in 1..Len(rest),
                 rest[i].deadlocked = rest[j].deadlocked
          PROVE  i = j
      <4>1. f[i] = f[j]
        BY <3>2, <3>3, <3>4 DEF OneEntryPerReceiver
      <4>2. i < j \/ j < i \/ i = j
        OBVIOUS
      <4> QED
        BY <3>2, <4>1, <4>2
    <3>5. CASE deadlockOne' = rest
      BY <3>3, <3>4, <3>5 DEF OneEntryPerReceiver
    <3>6. CASE ReceiveSuspends(p, source, rest)
      <4> DEFINE e == [deadlocked |-> p, deadlockedSource |-> source]
      <4>1. deadlockOne' = <<e>> \o rest
        BY <3>6 DEF ReceiveSuspends, Cons
      <4>2. /\ Len(deadlockOne') = Len(rest) + 1
            /\ DOMAIN deadlockOne' = 1..(Len(rest) + 1)
            /\ deadlockOne'[1] = e
            /\ \A i \in 2..(Len(rest) + 1) : deadlockOne'[i] = rest[i - 1]
        BY <4>1
      <4>3. e.deadlocked = p
        OBVIOUS
      <4> HIDE DEF e
      <4>4. ASSUME NEW i \in 1..(Len(rest) + 1), NEW j \in 1..(Len(rest) + 1),
                   deadlockOne'[i].deadlocked = deadlockOne'[j].deadlocked
            PROVE  i = j
        <5>1. CASE i = 1 \/ j = 1
          <6>1. \A k \in 2..(Len(rest) + 1) : deadlockOne'[k].deadlocked # p
            BY <3>1, <3>3, <4>2
          <6> QED
            BY <4>2, <4>3, <4>4, <5>1, <6>1
        <5>2. CASE i # 1 /\ j # 1
          <6>1. i - 1 \in 1..Len(rest) /\ j - 1 \in 1..Len(rest)
            BY <5>2
          <6>2. rest[i - 1].deadlocked = rest[j - 1].deadlocked
            BY <4>2, <4>4, <5>2
          <6>3. i - 1 = j - 1
            BY <3>4, <6>1, <6>2
          <6> QED
            BY <6>3
        <5> QED
          BY <5>1, <5>2
      <4> QED
        BY <4>2, <4>4 DEF OneEntryPerReceiver
    <3> QED
      BY <3>1, <3>5, <3>6 DEF Receive
  <2>3. CASE UNCHANGED vars
    BY <2>1, <2>3 DEF vars
  <2> QED
    BY <2>1, <2>2, <2>3, NextCases
       DEF do_createMailbox, do_removeMailbox, do_addSender, do_removeSender, do_msend, Resume, ClearMailbox
<1> QED
  BY <1>1, <1>2, TypeInvariant, PTL DEF Spec

(* Whoever is on a sender list was granted access, and is there once.      *)
THEOREM OnlyGranted == Spec => []SendersWereGranted
<1>1. Init => SendersWereGranted
  BY DEF Init, SendersWereGranted, ToSet, IsInjective
<1>2. TypeOK /\ SendersWereGranted /\ [Next]_vars => SendersWereGranted'
  <2> SUFFICES ASSUME TypeOK, SendersWereGranted, [Next]_vars, NEW o \in Procs
               PROVE  ToSet(mbSender'[o]) \subseteq granted'[o] /\ IsInjective(mbSender'[o])
    BY DEF SendersWereGranted
  <2>1. /\ mbSender[o] \in Seq(Procs) /\ granted[o] \in SUBSET Procs
        /\ ToSet(mbSender[o]) \subseteq granted[o] /\ IsInjective(mbSender[o])
    BY DEF TypeOK, SendersWereGranted
  <2>2. CASE mbSender'[o] = mbSender[o] /\ granted'[o] = granted[o]
    BY <2>1, <2>2
  <2>3. ASSUME NEW q \in Procs, do_createMailbox(q) \/ do_removeMailbox(q)
        PROVE  ToSet(mbSender'[o]) \subseteq granted'[o] /\ IsInjective(mbSender'[o])
    <3>1. CASE o = q
      <4>1. mbSender'[o] = << >>
        BY <2>3, <3>1 DEF do_createMailbox, do_removeMailbox, TypeOK, ClearMailbox
      <4> QED
        BY <4>1 DEF ToSet, IsInjective
    <3>2. CASE o # q
      BY <2>2, <2>3, <3>2 DEF do_createMailbox, do_removeMailbox, TypeOK, ClearMailbox
    <3> QED
      BY <3>1, <3>2
  <2>4. ASSUME NEW q \in Procs, NEW s \in Procs, do_addSender(q, s)
        PROVE  ToSet(mbSender'[o]) \subseteq granted'[o] /\ IsInjective(mbSender'[o])
    <3>1. CASE o # q
      BY <2>2, <2>4, <3>1 DEF do_addSender, TypeOK
    <3>2. CASE o = q /\ s \notin ToSet(mbSender[o]) /\ mbSender'[o] = Append(mbSender[o], s)
      <4>1. ToSet(Append(mbSender[o], s)) = ToSet(mbSender[o]) \cup {s}
        BY <2>1, AppendNew
      <4>2. granted'[o] = granted[o] \cup {s}
        BY <2>4, <3>2 DEF do_addSender, TypeOK
      <4> QED
        BY <2>1, <3>2, <4>1, <4>2, AppendNew
    <3>3. ASSUME o = q, NEW k \in DOMAIN mbSender[o], mbSender'[o] = From(mbSender[o], k)
          PROVE  ToSet(mbSender'[o]) \subseteq granted'[o] /\ IsInjective(mbSender'[o])
      <4>1. k \in 1..(Len(mbSender[o]) + 1)
        BY <2>1
      <4>2. granted[o] \subseteq granted'[o]
        BY <2>4, <3>3 DEF do_addSender, TypeOK
      <4>3. mbSender'[o] \in Seq(Procs) /\ Within(mbSender'[o], mbSender[o])
        BY <2>1, <3>3, <4>1, FromWithin
      <4> QED
        BY <2>1, <4>2, <4>3, WithinElements
    <3> QED
      BY <2>4, <3>1, <3>2, <3>3 DEF do_addSender, TypeOK
  <2>5. ASSUME NEW q \in Procs, NEW s \in Procs, do_removeSender(q, s)
        PROVE  ToSet(mbSender'[o]) \subseteq granted'[o] /\ IsInjective(mbSender'[o])
    <3>1. CASE o # q
      <4>1. granted'[o] = granted[o]
        BY <2>5, <3>1 DEF do_removeSender, TypeOK
      <4>2. mbSender'[o] = mbSender[o]
        BY <2>5, <3>1 DEF do_removeSender, TypeOK
      <4> QED
        BY <2>2, <4>1, <4>2
    <3>2. CASE o = q /\ s \notin ToSet(mbSender[o]) /\ UNCHANGED mbSender
      <4>1. granted'[o] = granted[o] \ {s}
        BY <2>5, <3>2 DEF do_removeSender, TypeOK
      <4> QED
        BY <2>1, <3>2, <4>1
    <3>3. ASSUME o = q, NEW k \in DOMAIN mbSender[o], mbSender[o][k] = s,
                 mbSender'[o] = RemoveAt(mbSender[o], k)
          PROVE  ToSet(mbSender'[o]) \subseteq granted'[o] /\ IsInjective(mbSender'[o])
      <4>1. k \in 1..Len(mbSender[o])
        BY <2>1
      <4>2. granted'[o] = granted[o] \ {s}
        BY <2>5, <3>3 DEF do_removeSender, TypeOK
      <4>3. mbSender'[o] \in Seq(Procs) /\ Within(mbSender'[o], mbSender[o])
        BY <2>1, <3>3, <4>1, RemoveAtWithin
      <4>4. s \notin ToSet(mbSender'[o])
        BY <2>1, <3>3, <4>1, RemoveAtDropsIt
      <4> QED
        BY <2>1, <4>2, <4>3, <4>4, WithinElements
    <3> QED
      BY <2>5, <3>1, <3>2, <3>3 DEF do_removeSender, FirstOf, TypeOK
  <2>6. ASSUME NEW p \in Procs, NEW receivers \in Seq(Procs), do_msend(p, receivers)
        PROVE  ToSet(mbSender'[o]) \subseteq granted'[o] /\ IsInjective(mbSender'[o])
    <3>1. UNCHANGED granted
      BY <2>6 DEF do_msend
    <3>2. CASE UNCHANGED mbSender
      BY <2>2, <3>1, <3>2
    <3>3. Head(receivers) \in Procs
      BY <2>6 DEF do_msend
    <3>4. \E permitted \in BOOLEAN : checkPermissions(Head(receivers), p, permitted)
      BY <2>6 DEF do_msend
    <3>5. PICK list \in Seq(Procs) :
            /\ mbSender' = [mbSender EXCEPT ![Head(receivers)] = list]
            /\ Within(list, mbSender[Head(receivers)])
      BY <3>3, <3>4, PermissionsWithin
    <3>6. CASE o = Head(receivers)
      <4>1. mbSender'[o] = list
        BY <3>5, <3>6 DEF TypeOK
      <4> QED
        BY <2>1, <3>1, <3>5, <3>6, <4>1, WithinElements
    <3>7. CASE o # Head(receivers)
      BY <2>2, <3>1, <3>5, <3>7 DEF TypeOK
    <3> QED
      BY <3>6, <3>7
  <2>7. CASE UNCHANGED <<mbSender, granted>>
    BY <2>2, <2>7
  <2>8. CASE UNCHANGED vars
    BY <2>7, <2>8 DEF vars
  <2> QED
    BY <2>3, <2>4, <2>5, <2>6, <2>7, <2>8, NextCases DEF do_mreceive, Resume
<1> QED
  BY <1>1, <1>2, TypeInvariant, PTL DEF Spec

-----------------------------------------------------------------------------
(* A delivery takes the oldest message of its sender: it is numbered like  *)
(* no message accepted later, and no message of the sender is older.       *)
LEMMA DeliversOldest ==
  ASSUME TypeOK, QueueInSendOrder, NEW p \in Procs, NEW s \in Procs, QueueDelivers(p, s)
  PROVE  \E m \in ToSet(mbList[p]) :
           /\ m \in Message /\ m.sender = s /\ m.id < nextId
           /\ \A n \in ToSet(mbList[p]) : n.sender = s => m.id <= n.id
           /\ lastFrom' = [lastFrom EXCEPT ![p][s] = m.id]
<1>1. PICK k \in DOMAIN mbList[p] :
        /\ FirstFrom(mbList[p], k, s)
        /\ lastFrom' = [lastFrom EXCEPT ![p][s] = mbList[p][k].id]
  BY DEF QueueDelivers
<1>2. mbList[p] \in Seq(Message)
  BY DEF TypeOK
<1>3. \A i \in DOMAIN mbList[p] : mbList[p][i] \in Message /\ mbList[p][i].id \in Nat
  <2>1. \A i \in DOMAIN mbList[p] : mbList[p][i] \in Message
    BY <1>2
  <2> QED
    BY <2>1 DEF Message
<1>4. DOMAIN mbList[p] = 1..Len(mbList[p])
  BY <1>2
<1>5. ASSUME NEW i \in DOMAIN mbList[p], mbList[p][i].sender = s
      PROVE  mbList[p][k].id <= mbList[p][i].id
  <2>1. CASE i < k
    <3>1. i \in 1..(k - 1)
      BY <1>4, <2>1
    <3> QED
      BY <1>1, <1>5, <3>1 DEF FirstFrom
  <2>2. CASE i = k
    BY <1>3, <2>2
  <2>3. CASE i > k
    BY <1>3, <1>4, <2>3 DEF QueueInSendOrder
  <2> QED
    BY <1>4, <2>1, <2>2, <2>3
<1>6. mbList[p][k].id < nextId
  BY DEF QueueInSendOrder
<1>7. mbList[p][k].sender = s
  BY <1>1 DEF FirstFrom
<1>8. mbList[p][k] \in ToSet(mbList[p])
  BY DEF ToSet
<1>9. \A n \in ToSet(mbList[p]) : n.sender = s => mbList[p][k].id <= n.id
  BY <1>5 DEF ToSet
<1> QED
  BY <1>1, <1>3, <1>6, <1>7, <1>8, <1>9

(* NothingOlderWaits for one queue and one sender.                         *)
NotOlder(queue, s, last) == \A m \in ToSet(queue) : m.sender = s => last <= m.id

LEMMA NotOlderWaits ==
  NothingOlderWaits <=>
    \A p, s \in Procs : lastFrom[p][s] < nextId /\ NotOlder(mbList[p], s, lastFrom[p][s])
BY DEF NothingOlderWaits, NotOlder, ToSet

(* After a delivery no older message of its sender waits, and the owner    *)
(* was not taken back: the oldest message is at least the last one.        *)
LEMMA DeliveryGoesForward ==
  ASSUME TypeOK, QueueInSendOrder, NothingOlderWaits,
         NEW p \in Procs, NEW s \in Procs, QueueDelivers(p, s),
         NEW q \in Procs, NEW t \in Procs
  PROVE  /\ lastFrom[q][t] <= lastFrom'[q][t]
         /\ lastFrom'[q][t] < nextId'
         /\ NotOlder(mbList'[q], t, lastFrom'[q][t])
<1>1. PICK m \in ToSet(mbList[p]) :
        /\ m \in Message /\ m.sender = s /\ m.id < nextId
        /\ NotOlder(mbList[p], s, m.id)
        /\ lastFrom' = [lastFrom EXCEPT ![p][s] = m.id]
  BY DeliversOldest DEF NotOlder
<1>2. PICK queue \in Seq(Message) : /\ mbList' = [mbList EXCEPT ![p] = queue]
                                    /\ Within(queue, mbList[p])
  BY DeliveryShrinks
<1>3. ToSet(mbList'[q]) \subseteq ToSet(mbList[q])
  <2>1. CASE q = p
    <3>1. mbList'[q] = queue /\ mbList[p] \in Seq(Message)
      BY <1>2, <2>1 DEF TypeOK
    <3> QED
      BY <1>2, <2>1, <3>1, WithinElements
  <2>2. CASE q # p
    BY <1>2, <2>2 DEF TypeOK
  <2> QED
    BY <2>1, <2>2
<1>4. /\ lastFrom[q][t] \in Nat /\ lastFrom[q][t] < nextId
      /\ NotOlder(mbList[q], t, lastFrom[q][t])
  BY NotOlderWaits DEF TypeOK
<1>5. nextId' = nextId
  BY DEF QueueDelivers
<1>6. CASE q = p /\ t = s
  <2>1. lastFrom'[q][t] = m.id
    BY <1>1, <1>6 DEF TypeOK
  <2>2. lastFrom[q][t] <= m.id
    BY <1>1, <1>4, <1>6 DEF NotOlder
  <2>3. NotOlder(mbList'[q], t, m.id)
    BY <1>1, <1>3, <1>6 DEF NotOlder
  <2> QED
    BY <1>1, <1>5, <2>1, <2>2, <2>3
<1>7. CASE ~(q = p /\ t = s)
  <2>1. lastFrom'[q][t] = lastFrom[q][t]
    BY <1>1, <1>7 DEF TypeOK
  <2>2. NotOlder(mbList'[q], t, lastFrom[q][t])
    BY <1>3, <1>4 DEF NotOlder
  <2> QED
    BY <1>4, <1>5, <2>1, <2>2
<1> QED
  BY <1>6, <1>7

(* Nothing older than the last message delivered from a sender waits.      *)
THEOREM NothingOlder == Spec => []NothingOlderWaits
<1>1. Init => NothingOlderWaits
  BY DEF Init, NothingOlderWaits
<1>2. TypeOK /\ QueueInSendOrder /\ NothingOlderWaits /\ [Next]_vars => NothingOlderWaits'
  <2> SUFFICES ASSUME TypeOK, QueueInSendOrder, NothingOlderWaits, [Next]_vars,
                      NEW p \in Procs, NEW s \in Procs
               PROVE  lastFrom'[p][s] < nextId' /\ NotOlder(mbList'[p], s, lastFrom'[p][s])
    BY DEF NothingOlderWaits, NotOlder, ToSet
  <2>1. /\ lastFrom[p][s] \in Nat /\ nextId \in Nat /\ lastFrom[p][s] < nextId
        /\ NotOlder(mbList[p], s, lastFrom[p][s])
    BY NotOlderWaits DEF TypeOK
  <2>2. CASE QueueKept
    BY <2>1, <2>2 DEF QueueKept
  <2>3. ASSUME NEW o \in Procs, QueueReset(o)
        PROVE  lastFrom'[p][s] < nextId' /\ NotOlder(mbList'[p], s, lastFrom'[p][s])
    <3>1. mbList'[p] = << >> \/ mbList'[p] = mbList[p]
      BY <2>3 DEF QueueReset, TypeOK
    <3>2. NotOlder(<< >>, s, lastFrom[p][s])
      BY DEF NotOlder, ToSet
    <3> QED
      BY <2>1, <2>3, <3>1, <3>2 DEF QueueReset
  <2>4. ASSUME NEW o \in Procs, NEW t \in Procs, QueueGrows(o, t)
        PROVE  lastFrom'[p][s] < nextId' /\ NotOlder(mbList'[p], s, lastFrom'[p][s])
    <3> DEFINE m == [id |-> nextId, sender |-> t]
    <3>1. mbList[p] \in Seq(Message) /\ m \in Message
      BY DEF TypeOK, Message
    <3>2. mbList'[p] = Append(mbList[p], m) \/ mbList'[p] = mbList[p]
      BY <2>4 DEF QueueGrows, TypeOK
    <3>3. ToSet(mbList'[p]) \subseteq ToSet(mbList[p]) \cup {m}
      <4> HIDE DEF m
      <4> QED
        BY <3>1, <3>2, AppendNew
    <3>4. m.id = nextId
      OBVIOUS
    <3> HIDE DEF m
    <3>5. NotOlder(mbList'[p], s, lastFrom[p][s])
      BY <2>1, <3>3, <3>4 DEF NotOlder
    <3> QED
      BY <2>1, <2>4, <3>5 DEF QueueGrows
  <2>5. ASSUME NEW q \in Procs, NEW t \in Procs, QueueDelivers(q, t)
        PROVE  lastFrom'[p][s] < nextId' /\ NotOlder(mbList'[p], s, lastFrom'[p][s])
    BY <2>5, DeliveryGoesForward
  <2> QED
    BY <2>2, <2>3, <2>4, <2>5, QueueCases
<1> QED
  BY <1>1, <1>2, TypeInvariant, SendOrder, PTL DEF Spec

(* A process is never given a sender's messages out of order.              *)
THEOREM Forward == Spec => NeverDeliversBackwards
<1>1. TypeOK /\ QueueInSendOrder /\ NothingOlderWaits /\ [Next]_vars
        => [\A p, s \in Procs : lastFrom[p][s] <= lastFrom'[p][s]]_vars
  <2> SUFFICES ASSUME TypeOK, QueueInSendOrder, NothingOlderWaits, [Next]_vars,
                      NEW p \in Procs, NEW s \in Procs
               PROVE  lastFrom[p][s] <= lastFrom'[p][s]
    OBVIOUS
  <2>1. lastFrom[p][s] \in Nat
    BY DEF TypeOK
  <2>2. CASE UNCHANGED lastFrom
    BY <2>1, <2>2
  <2>3. ASSUME NEW q \in Procs, NEW t \in Procs, QueueDelivers(q, t)
        PROVE  lastFrom[p][s] <= lastFrom'[p][s]
    BY <2>3, DeliveryGoesForward
  <2> QED
    BY <2>2, <2>3, QueueCases DEF QueueKept, QueueReset, QueueGrows
<1> QED
  BY <1>1, TypeInvariant, SendOrder, NothingOlder, PTL DEF Spec, NeverDeliversBackwards

-----------------------------------------------------------------------------
(* The handlers implement the abstract mailbox, step by step.              *)
boxes == [o \in Procs |-> ToSet(mbList[o])]

(* What happens to one mailbox of the mapping when only that one changes.  *)
LEMMA BoxesExcept ==
  ASSUME TypeOK, NEW o \in Procs, NEW queue, mbList' = [mbList EXCEPT ![o] = queue]
  PROVE  boxes' = [boxes EXCEPT ![o] = ToSet(queue)]
BY DEF TypeOK, boxes

LEMMA MapsReset ==
  ASSUME TypeOK, NEW o \in Procs, do_createMailbox(o) \/ do_removeMailbox(o)
  PROVE  OM!Next
<1>1. boxes' = [boxes EXCEPT ![o] = {}]
  <2>1. mbList' = [mbList EXCEPT ![o] = << >>]
    BY DEF do_createMailbox, do_removeMailbox, ClearMailbox
  <2>2. ToSet(<< >>) = {}
    BY DEF ToSet
  <2> QED
    BY <2>1, <2>2, BoxesExcept
<1>2. OM!Reset(o)
  BY <1>1 DEF OM!Reset, boxes, do_createMailbox, do_removeMailbox, ClearMailbox
<1> QED
  BY <1>2 DEF OM!Next

LEMMA MapsGrant ==
  ASSUME TypeOK, NEW o \in Procs, NEW s \in Procs, do_addSender(o, s)
  PROVE  OM!Next
<1>1. OM!Grant(o, s)
  BY DEF OM!Grant, do_addSender
<1> QED
  BY <1>1 DEF OM!Next

LEMMA MapsRevoke ==
  ASSUME TypeOK, NEW o \in Procs, NEW s \in Procs, do_removeSender(o, s)
  PROVE  OM!Next
<1>1. OM!Revoke(o, s)
  BY DEF OM!Revoke, do_removeSender
<1> QED
  BY <1>1 DEF OM!Next

LEMMA MapsPost ==
  ASSUME TypeOK, SendersWereGranted, NEW p \in Procs, NEW receivers \in Seq(Procs),
         do_msend(p, receivers)
  PROVE  OM!Next \/ UNCHANGED OM!avars
<1> DEFINE o == Head(receivers)
           m == [id |-> nextId, sender |-> p]
<1>1. o \in Procs
  BY DEF do_msend
<1> HIDE DEF o
<1>2. CASE checkPermissions(o, p, TRUE) /\ QueueGrows(o, p)
  <2>1. p \in granted[o]
    BY <1>1, <1>2 DEF checkPermissions, FirstOf, SendersWereGranted, ToSet
  <2>2. mbList[o] \in Seq(Message) /\ m \in Message
    BY <1>1 DEF TypeOK, Message
  <2>3. mbList' = [mbList EXCEPT ![o] = Append(mbList[o], m)]
    BY <1>2 DEF QueueGrows
  <2>4. ToSet(Append(mbList[o], m)) = ToSet(mbList[o]) \cup {m}
    <3> HIDE DEF m
    <3> QED
      BY <2>2, AppendNew
  <2>5. boxes' = [boxes EXCEPT ![o] = ToSet(mbList[o]) \cup {m}]
    <3> HIDE DEF m
    <3> QED
      BY <1>1, <2>3, <2>4, BoxesExcept
  <2>6. boxes' = [boxes EXCEPT ![o] = @ \cup {m}]
    BY <1>1, <2>5 DEF boxes
  <2>7. OM!Post(o, p)
    BY <1>2, <2>1, <2>6 DEF OM!Post, boxes, QueueGrows, do_msend
  <2> QED
    BY <1>1, <2>7 DEF OM!Next
<1>3. CASE UNCHANGED <<mbList, nextId>>
  BY <1>3 DEF OM!avars, do_msend
<1> QED
  BY <1>2, <1>3 DEF do_msend, QueueGrows, o

LEMMA MapsDeliver ==
  ASSUME TypeOK, QueueInSendOrder, NEW p \in Procs, NEW asked \in Procs \cup {NoSource},
         do_mreceive(p, asked)
  PROVE  OM!Next \/ UNCHANGED OM!avars
<1>1. UNCHANGED granted
  BY DEF do_mreceive
<1>2. CASE QueueKept
  BY <1>1, <1>2 DEF OM!avars, QueueKept
<1>3. ASSUME NEW s \in Procs, QueueDelivers(p, s) PROVE OM!Next
  <2>1. PICK m \in ToSet(mbList[p]) :
          /\ m \in Message /\ m.sender = s /\ m.id < nextId
          /\ \A n \in ToSet(mbList[p]) : n.sender = s => m.id <= n.id
          /\ lastFrom' = [lastFrom EXCEPT ![p][s] = m.id]
    BY <1>3, DeliversOldest
  <2>2. PICK queue \in Seq(Message) : /\ mbList' = [mbList EXCEPT ![p] = queue]
                                      /\ Within(queue, mbList[p])
    BY <1>3, DeliveryShrinks
  <2>3. ToSet(queue) \subseteq ToSet(mbList[p])
    BY <2>2, WithinElements DEF TypeOK
  <2>4. boxes' = [boxes EXCEPT ![p] = ToSet(queue)]
    BY <2>2, BoxesExcept
  <2>5. boxes[p] = ToSet(mbList[p])
    BY DEF boxes
  <2>6. boxes'[p] = ToSet(queue)
    BY <2>4 DEF boxes
  <2>7. OM!Deliver(p, s)
    BY <1>1, <1>3, <2>1, <2>3, <2>4, <2>5, <2>6 DEF OM!Deliver, boxes, QueueDelivers
  <2> QED
    BY <2>7 DEF OM!Next
<1> QED
  BY <1>2, <1>3, ReceiveQueues

THEOREM Implementation == Spec => ImplementsOrderedMailbox
<1>1. ASSUME Init PROVE OM!Init
  <2>1. ToSet(<< >>) = {}
    BY DEF ToSet
  <2> QED
    BY <1>1, <2>1 DEF Init, OM!Init
<1>2. TypeOK /\ QueueInSendOrder /\ SendersWereGranted /\ [Next]_vars => [OM!Next]_(OM!avars)
  <2> SUFFICES ASSUME TypeOK, QueueInSendOrder, SendersWereGranted, [Next]_vars
               PROVE  OM!Next \/ UNCHANGED OM!avars
    OBVIOUS
  <2>1. ASSUME NEW p \in Procs, Resume(p) PROVE UNCHANGED OM!avars
    BY <2>1 DEF Resume, OM!avars
  <2>2. CASE UNCHANGED vars
    BY <2>2 DEF vars, OM!avars
  <2> QED
    BY <2>1, <2>2, NextCases, MapsReset, MapsGrant, MapsRevoke, MapsPost, MapsDeliver
<1> QED
  BY <1>1, <1>2, TypeInvariant, SendOrder, OnlyGranted, PTL
     DEF Spec, OM!Spec, ImplementsOrderedMailbox
=============================================================================
