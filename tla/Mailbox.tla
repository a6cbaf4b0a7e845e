------------------------------- MODULE Mailbox -------------------------------
(***************************************************************************)
(* The mailbox system calls the process manager (PM) serves, translated    *)
(* from "Project 2 - System Calls/mailbox.c".  PM handles one call at a    *)
(* time, so every handler is one atomic action; processes interleave       *)
(* between calls.                                                          *)
(*                                                                         *)
(* A mailbox is named by its owner.  mailboxFront keeps the order of PM's  *)
(* linked list of mailboxes, which matters to do_mreceive; the fields of   *)
(* each struct mailBox are functions of the owner.  A call that fails      *)
(* without touching any state is a stuttering step and has no disjunct.    *)
(* Message texts, user addresses and printf are left out.                  *)
(***************************************************************************)
EXTENDS Integers, Sequences, SequencesExt

CONSTANTS Procs,          \* process ids, as mailbox owners and as senders
          NoSource,       \* the source 0, which do_mreceive treats as "none"
          BUFFERSIZE,     \* capacity of a mailbox
          Grants,         \* the <<owner, sender>> pairs senders are added as
          ReceiverLists,  \* the receiver lists a process passes to do_msend
          MaxSends        \* bound: messages accepted in a behaviour

ASSUME ProcsAssumption    == NoSource \notin Procs
ASSUME BufferAssumption   == BUFFERSIZE \in Nat \ {0}
ASSUME ReceiverAssumption == ReceiverLists \subseteq Seq(Procs)
ASSUME GrantsAssumption   == Grants \subseteq Procs \X Procs
ASSUME MaxSendsAssumption == MaxSends \in Nat

VARIABLES
  mailboxFront,   \* owners of the existing mailboxes, in list order
  numMes,         \* numMes[o]: the mailbox's message counter
  mbSender,       \* mbSender[o]: the list of senders allowed to post
  mbList,         \* mbList[o]: the list of messages
  deadlockOne,    \* PM's list of suspended receivers, newest first
  stopped,        \* processes the kernel keeps off the CPU (sys_stop)
  looping,        \* TRUE once PM is caught in do_mreceive's endless loop
  \* History variables: they record the past and guard nothing.
  nextId,         \* number given to the next accepted message
  granted,        \* granted[o]: senders added to o's mailbox, not removed since
  lastFrom        \* lastFrom[p][s]: number of the last message of s copied to p

pmVars   == <<mailboxFront, numMes, mbSender, mbList, deadlockOne, stopped, looping>>
pastVars == <<nextId, granted, lastFrom>>
vars     == <<mailboxFront, numMes, mbSender, mbList, deadlockOne, stopped, looping,
              nextId, granted, lastFrom>>

-----------------------------------------------------------------------------
Message == [id : Nat \ {0}, sender : Procs]
Waiter  == [deadlocked : Procs, deadlockedSource : Procs \cup {NoSource}]

From(seq, k) == SubSeq(seq, k, Len(seq))

(* seq[k] is the first element of seq equal to e.                          *)
FirstOf(seq, k, e) == seq[k] = e /\ \A j \in 1..(k - 1) : seq[j] # e

(* Mutant: the search does not stop at the first message of s.             *)
FirstFromAny(queue, k, s) == queue[k].sender = s

(* queue[k] is the oldest message of sender s in a mailbox's queue.        *)
FirstFrom(queue, k, s) ==
  queue[k].sender = s /\ \A j \in 1..(k - 1) : queue[j].sender # s

(* waiters[k] is the entry of process p on the list of suspended ones.     *)
EntryOf(waiters, k, p) ==
  waiters[k].deadlocked = p /\ \A j \in 1..(k - 1) : waiters[j].deadlocked # p

(* Mutant: the walk over the list stops before its last mailbox.           *)
OwnersButLast == ToSet(Front(mailboxFront))

(* The owners the walk over PM's list of mailboxes meets.                  *)
Owners == ToSet(mailboxFront)

MailboxFullLate(o) == numMes[o] > BUFFERSIZE      \* mutant: off by one
MailboxFull(o)     == numMes[o] >= BUFFERSIZE

Init ==
  /\ mailboxFront = << >>
  /\ numMes       = [o \in Procs |-> 0]
  /\ mbSender     = [o \in Procs |-> << >>]
  /\ mbList       = [o \in Procs |-> << >>]
  /\ deadlockOne  = << >>
  /\ stopped      = {}
  /\ looping      = FALSE
  /\ nextId       = 1
  /\ granted      = [o \in Procs |-> {}]
  /\ lastFrom     = [p \in Procs |-> [s \in Procs |-> 0]]

-----------------------------------------------------------------------------
(* Mutant: the messages of the old mailbox are left to the next one.       *)
ClearMailboxKeepsList(o) ==
  /\ numMes'   = [numMes EXCEPT ![o] = 0]
  /\ mbSender' = [mbSender EXCEPT ![o] = << >>]
  /\ granted'  = [granted EXCEPT ![o] = {}]
  /\ UNCHANGED mbList

(* The fields of a mailbox that is new, or that is freed.                  *)
ClearMailbox(o) ==
  /\ numMes'   = [numMes EXCEPT ![o] = 0]
  /\ mbSender' = [mbSender EXCEPT ![o] = << >>]
  /\ mbList'   = [mbList EXCEPT ![o] = << >>]
  /\ granted'  = [granted EXCEPT ![o] = {}]

(* A new, empty mailbox goes to the end of the list unless the owner has   *)
(* one already.  Any process may create a mailbox for any owner.           *)
do_createMailbox(o) ==
  /\ o \notin Owners
  /\ mailboxFront' = Append(mailboxFront, o)
  /\ ClearMailbox(o)
  /\ UNCHANGED <<deadlockOne, stopped, looping, nextId, lastFrom>>

(* The mailbox is unlinked and its lists are dropped.  The entry of an     *)
(* owner suspended on it stays where it is.                                *)
do_removeMailbox(o) ==
  \E k \in DOMAIN mailboxFront :
    /\ FirstOf(mailboxFront, k, o)
    /\ mailboxFront' = RemoveAt(mailboxFront, k)
    /\ ClearMailbox(o)
    /\ UNCHANGED <<deadlockOne, stopped, looping, nextId, lastFrom>>

(* A new sender goes to the end of the list.  The search for a duplicate   *)
(* walks with cursor->mbSender itself: the call that fails because s is    *)
(* there already leaves the list starting at s.                            *)
do_addSender(o, s) ==
  /\ o \in Owners
  /\ \/ /\ s \notin ToSet(mbSender[o])
        /\ mbSender' = [mbSender EXCEPT ![o] = Append(@, s)]
     \/ \E k \in DOMAIN mbSender[o] :
          /\ FirstOf(mbSender[o], k, s)
          /\ mbSender' = [mbSender EXCEPT ![o] = From(@, k)]
  /\ granted' = [granted EXCEPT ![o] = @ \cup {s}]
  /\ UNCHANGED <<mailboxFront, numMes, mbList, deadlockOne, stopped, looping,
                 nextId, lastFrom>>

(* Mutant: the entry of s is found and not unlinked.                       *)
do_removeSenderLeavesIt(o, s) ==
  /\ o \in Owners
  /\ granted' = [granted EXCEPT ![o] = @ \ {s}]
  /\ UNCHANGED <<mailboxFront, numMes, mbSender, mbList, deadlockOne, stopped, looping,
                 nextId, lastFrom>>

(* The first entry of s is unlinked, if there is one.                      *)
do_removeSender(o, s) ==
  /\ o \in Owners
  /\ \/ /\ s \notin ToSet(mbSender[o])
        /\ UNCHANGED mbSender
     \/ \E k \in DOMAIN mbSender[o] :
          /\ FirstOf(mbSender[o], k, s)
          /\ mbSender' = [mbSender EXCEPT ![o] = RemoveAt(@, k)]
  /\ granted' = [granted EXCEPT ![o] = @ \ {s}]
  /\ UNCHANGED <<mailboxFront, numMes, mbList, deadlockOne, stopped, looping,
                 nextId, lastFrom>>

(* Mutant: anybody may post.                                               *)
checkPermissionsOfNobody(o, s, permitted) == permitted /\ UNCHANGED mbSender

(* Whether s may post into o's mailbox.  The search moves the list's head: *)
(* it is left at s, or at the end of the list when s is not there.         *)
checkPermissions(o, s, permitted) ==
  \/ /\ permitted
     /\ \E k \in DOMAIN mbSender[o] :
          /\ FirstOf(mbSender[o], k, s)
          /\ mbSender' = [mbSender EXCEPT ![o] = From(@, k)]
  \/ /\ ~permitted
     /\ s \notin ToSet(mbSender[o])
     /\ mbSender' = [mbSender EXCEPT ![o] = << >>]

(* p posts a message.  Every path through the body of the loop over the    *)
(* receivers returns, so only the first receiver is ever looked at; the    *)
(* code after the two returns, which would resume the receiver, is dead.   *)
(* A full mailbox discards the message before the sender is checked.       *)
do_msend(p, receivers) ==
  /\ receivers # << >>
  /\ nextId <= MaxSends
  /\ LET o == Head(receivers) IN
     /\ o \in Owners
     /\ ~MailboxFull(o)
     /\ \/ /\ checkPermissions(o, p, TRUE)
           /\ mbList' = [mbList EXCEPT ![o] = Append(@, [id |-> nextId, sender |-> p])]
           /\ numMes' = [numMes EXCEPT ![o] = @ + 1]
           /\ nextId' = nextId + 1
        \/ /\ checkPermissions(o, p, FALSE)
           /\ UNCHANGED <<mbList, numMes, nextId>>
  /\ UNCHANGED <<mailboxFront, deadlockOne, stopped, looping, granted, lastFrom>>

(* Mutant: the delivered message is put in front of the others.            *)
AfterDeliveryToFront(queue, k) == IF k = 1 THEN Tail(queue) ELSE Cons(queue[k], Tail(queue))

(* What do_mreceive leaves of a queue after it copied out message k: the   *)
(* first message is unlinked properly; any other stays, becomes the head,  *)
(* and the message behind it is unlinked; the last message is not found    *)
(* again and nothing is unlinked.                                          *)
AfterDelivery(queue, k) ==
  IF k = 1 THEN Tail(queue)
  ELSE IF k < Len(queue) THEN Cons(queue[k], From(queue, k + 2))
  ELSE queue

(* The walk over the mailboxes has no step to the next one: PM loops for   *)
(* ever unless the first mailbox of the list is the caller's.              *)
ReceiveLoops(p) ==
  /\ Head(mailboxFront) # p
  /\ looping' = TRUE
  /\ UNCHANGED <<mbList, stopped, lastFrom>>

(* No message from the source is there: the caller goes to the head of the *)
(* list of suspended receivers and is stopped.                             *)
ReceiveSuspends(p, source, rest) ==
  /\ Head(mailboxFront) = p
  /\ source = NoSource \/ \A k \in DOMAIN mbList[p] : mbList[p][k].sender # source
  /\ deadlockOne' = Cons([deadlocked |-> p, deadlockedSource |-> source], rest)
  /\ stopped' = stopped \cup {p}
  /\ UNCHANGED <<mbList, looping, lastFrom>>

(* The oldest message from the source is copied out and a message unlinked. *)
ReceiveDelivers(p, source) ==
  /\ Head(mailboxFront) = p
  /\ \E k \in DOMAIN mbList[p] :
       /\ FirstFrom(mbList[p], k, source)
       /\ mbList' = [mbList EXCEPT ![p] = AfterDelivery(@, k)]
       /\ lastFrom' = [lastFrom EXCEPT ![p][source] = mbList[p][k].id]
  /\ UNCHANGED <<stopped, looping>>

(* The copy to the caller's buffer fails: the call returns at once.        *)
ReceiveCopyFails(p, source) ==
  /\ Head(mailboxFront) = p
  /\ \E k \in DOMAIN mbList[p] : mbList[p][k].sender = source
  /\ UNCHANGED <<mbList, stopped, looping, lastFrom>>

(* The body of do_mreceive once the caller's entry is off the list.        *)
Receive(p, source, rest) ==
  \/ ReceiveSuspends(p, source, rest)
  \/ deadlockOne' = rest /\ (\/ ReceiveLoops(p)
                             \/ ReceiveDelivers(p, source)
                             \/ ReceiveCopyFails(p, source))

(* Mutant: the entry is used and stays on the list.                        *)
WithoutEntryKept(waiters, k) == waiters

(* What is left of the list of suspended receivers when entry k is taken:  *)
(* unlinking an entry behind the first cuts the list at its predecessor.   *)
WithoutEntry(waiters, k) == IF k = 1 THEN Tail(waiters) ELSE SubSeq(waiters, 1, k - 1)

(* p asks for a message of the process asked.  An entry p left on the list *)
(* when it was stopped is taken off, and its source replaces the one asked *)
(* for now.                                                                *)
do_mreceive(p, asked) ==
  /\ mailboxFront # << >>
  /\ \/ /\ \A k \in DOMAIN deadlockOne : deadlockOne[k].deadlocked # p
        /\ Receive(p, asked, deadlockOne)
     \/ \E k \in DOMAIN deadlockOne :
          /\ EntryOf(deadlockOne, k, p)
          /\ Receive(p, deadlockOne[k].deadlockedSource, WithoutEntry(deadlockOne, k))
  /\ UNCHANGED <<mailboxFront, numMes, mbSender, nextId, granted>>

(* A signal makes PM resume a stopped process; nothing in mailbox.c does.  *)
Resume(p) ==
  /\ p \in stopped
  /\ stopped' = stopped \ {p}
  /\ UNCHANGED <<mailboxFront, numMes, mbSender, mbList, deadlockOne, looping,
                 nextId, granted, lastFrom>>

(* A process that runs calls PM.  The owner is an argument of the calls    *)
(* that administer mailboxes, not the caller.                              *)
Call(p) ==
  \/ \E o \in Procs : do_createMailbox(o) \/ do_removeMailbox(o)
  \/ \E g \in Grants : do_addSender(g[1], g[2]) \/ do_removeSender(g[1], g[2])
  \/ \E receivers \in ReceiverLists : do_msend(p, receivers)
  \/ \E asked \in Procs \cup {NoSource} : do_mreceive(p, asked)

Next ==
  /\ ~looping
  /\ \E p \in Procs : (p \notin stopped /\ Call(p)) \/ Resume(p)

Spec == Init /\ [][Next]_vars

-----------------------------------------------------------------------------
(* Every variable has its type; a counter never exceeds BUFFERSIZE.        *)
TypeOK ==
  /\ mailboxFront \in Seq(Procs)
  /\ numMes       \in [Procs -> 0..BUFFERSIZE]
  /\ mbSender     \in [Procs -> Seq(Procs)]
  /\ mbList       \in [Procs -> Seq(Message)]
  /\ deadlockOne  \in Seq(Waiter)
  /\ stopped      \in SUBSET Procs
  /\ looping      \in BOOLEAN
  /\ nextId       \in Nat \ {0}
  /\ granted      \in [Procs -> SUBSET Procs]
  /\ lastFrom     \in [Procs -> [Procs -> Nat]]

(* An owner is on PM's list once: every handler stops at the first mailbox *)
(* of the owner, so a second one would swallow messages unseen.            *)
UniqueOwners == IsInjective(mailboxFront)

(* A queue holds at most as many messages as its counter says, although    *)
(* deliveries unlink messages without counting and one delivery may unlink *)
(* several.                                                                *)
QueueWithinCount == \A o \in Procs : Len(mbList[o]) <= numMes[o]

(* Whoever is on a mailbox's sender list was let in since the mailbox was  *)
(* created and not shut out again, and is there once, whatever the failing *)
(* searches cut off the list.                                              *)
SendersWereGranted ==
  \A o \in Procs : ToSet(mbSender[o]) \subseteq granted[o] /\ IsInjective(mbSender[o])

(* The messages of a mailbox stay in the order in which PM accepted them,  *)
(* and none is there twice, through every way a delivery relinks the list. *)
QueueInSendOrder ==
  \A o \in Procs :
    /\ \A i, j \in DOMAIN mbList[o] : i < j => mbList[o][i].id < mbList[o][j].id
    /\ \A i \in DOMAIN mbList[o] : mbList[o][i].id < nextId

(* No message older than the last one its sender got through to the owner  *)
(* waits any more: the next delivery repeats that one or gives a newer one. *)
NothingOlderWaits ==
  \A p, s \in Procs :
    /\ lastFrom[p][s] < nextId
    /\ \A i \in DOMAIN mbList[p] :
         mbList[p][i].sender = s => lastFrom[p][s] <= mbList[p][i].id

(* A process is on the list of suspended receivers at most once, although  *)
(* it may be stopped, resumed and stopped again: do_mreceive only ever     *)
(* takes off the first entry of a process.                                 *)
OneEntryPerReceiver ==
  \A i, j \in DOMAIN deadlockOne :
    deadlockOne[i].deadlocked = deadlockOne[j].deadlocked => i = j

(* No process is given a message of a sender after a younger message of    *)
(* the same sender.                                                        *)
NeverDeliversBackwards == [][\A p, s \in Procs : lastFrom[p][s] <= lastFrom'[p][s]]_vars

(* The handlers implement the mailbox of OrderedMailbox: only a granted    *)
(* sender posts, a delivery takes the oldest message of its sender.        *)
OM == INSTANCE OrderedMailbox
        WITH box <- [o \in Procs |-> ToSet(mbList[o])], allowed <- granted

ImplementsOrderedMailbox == OM!Spec

-----------------------------------------------------------------------------
(* What comments and messages of mailbox.c say and the handlers do not do. *)

(* mailbox.c:449: "if the receiver process was suspended, it is resumed"   *)
(* when a message for it is accepted.                                      *)
SendResumesReceiver ==
  [][\A o \in Procs :
       /\ Len(mbList'[o]) > Len(mbList[o])
       /\ \E k \in DOMAIN deadlockOne : deadlockOne[k].deadlocked = o
       => o \notin stopped']_vars

(* mailbox.c:371: posting depends on whether the process "has the right    *)
(* to": a sender that was added and not removed still has it.              *)
GrantedMayPost == \A o \in Procs : granted[o] \subseteq ToSet(mbSender[o])

(* mailbox.c:580: what is deleted is the "message that was received", and  *)
(* nothing else.                                                           *)
DeletesReceivedMessage ==
  [][\A p, s \in Procs :
       lastFrom'[p][s] # lastFrom[p][s] =>
         ToSet(mbList'[p]) = {m \in ToSet(mbList[p]) : m.id # lastFrom'[p][s]}]_vars

(* mailbox.c:635: a receiver without a mailbox is told "Mailbox does not   *)
(* exist."; PM answers that call too.                                      *)
AnswersEveryReceive == ~looping
=============================================================================
