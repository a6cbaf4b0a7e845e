--------------------------- MODULE OrderedMailbox ---------------------------
(***************************************************************************)
(* What the mailbox system calls promise a pair of processes, whatever the *)
(* lists inside the process manager look like: an access-controlled,       *)
(* ordered, lossy, at-least-once mailbox per process.                      *)
(*                                                                         *)
(* A mailbox is a SET of messages: the order is in the messages' numbers,  *)
(* and a delivery always takes the oldest message of the sender asked for. *)
(* Nothing is promised about which messages a delivery keeps: it may leave *)
(* the delivered one in place (the next delivery repeats it) and may lose  *)
(* any other.  Mailbox.tla is shown to implement this module.              *)
(***************************************************************************)
EXTENDS Naturals

CONSTANT Procs          \* the processes that own mailboxes and send messages

VARIABLES box,          \* box[o]: the messages waiting in o's mailbox
          allowed,      \* allowed[o]: who may post into o's mailbox
          nextId,       \* the number the next posted message gets
          lastFrom      \* lastFrom[o][s]: number of s's last message o was given

avars == <<box, allowed, nextId, lastFrom>>

Init ==
  /\ box      = [o \in Procs |-> {}]
  /\ allowed  = [o \in Procs |-> {}]
  /\ nextId   = 1
  /\ lastFrom = [o \in Procs |-> [s \in Procs |-> 0]]

(* The owner (or an administrator) lets s post into o's mailbox.           *)
Grant(o, s) ==
  /\ allowed' = [allowed EXCEPT ![o] = @ \cup {s}]
  /\ UNCHANGED <<box, nextId, lastFrom>>

(* s may no longer post into o's mailbox.                                  *)
Revoke(o, s) ==
  /\ allowed' = [allowed EXCEPT ![o] = @ \ {s}]
  /\ UNCHANGED <<box, nextId, lastFrom>>

(* o's mailbox goes away with everything in it, or a fresh one appears.    *)
Reset(o) ==
  /\ box'     = [box EXCEPT ![o] = {}]
  /\ allowed' = [allowed EXCEPT ![o] = {}]
  /\ UNCHANGED <<nextId, lastFrom>>

(* Only an allowed sender posts.                                           *)
Post(o, s) ==
  /\ s \in allowed[o]
  /\ box' = [box EXCEPT ![o] = @ \cup {[id |-> nextId, sender |-> s]}]
  /\ nextId' = nextId + 1
  /\ UNCHANGED <<allowed, lastFrom>>

(* o is given the oldest message of s; the mailbox gains nothing.          *)
Deliver(o, s) ==
  \E m \in box[o] :
    /\ m.sender = s
    /\ \A n \in box[o] : n.sender = s => m.id <= n.id
    /\ lastFrom' = [lastFrom EXCEPT ![o][s] = m.id]
    /\ box'[o] \subseteq box[o]
    /\ box' = [box EXCEPT ![o] = box'[o]]
    /\ UNCHANGED <<allowed, nextId>>

Next ==
  \E o \in Procs :
    \/ Reset(o)
    \/ \E s \in Procs : Grant(o, s) \/ Revoke(o, s) \/ Post(o, s) \/ Deliver(o, s)

Spec == Init /\ [][Next]_avars
=============================================================================
