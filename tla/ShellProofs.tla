----------------------------- MODULE ShellProofs -----------------------------
(***************************************************************************)
(* Proofs about Shell and Tokenizer, for every set of words, lines and     *)
(* processes, every depth of the stack and every size of pid_child.  The   *)
(* theorems on batches and aliases hold for any queue; those on the queue  *)
(* and on what a well-formed line does rest on what the tokenizer makes of *)
(* a line, which the second half of the module proves by induction over    *)
(* its characters.                                                         *)
(***************************************************************************)
EXTENDS Shell, SequenceTheorems, NumberLemmas, TLAPS

(* Where main is, or will be when the handler returns.                     *)
At == IF pc = "asking" THEN resume ELSE pc

Entries == Pids \cup {ANY, GARBAGE}

Typed ==
  /\ batch \in Seq(Entries)
  /\ child = [p \in Pids |-> [state |-> child[p].state, priority |-> child[p].priority]]
  /\ resume # "asking"

(* The processes of a batch are of one priority, which is that of the next *)
(* command while the batch still grows, and they stay in pid_child until   *)
(* they are reaped.                                                        *)
Batched ==
  ~interrupted =>
    /\ At \in {"start", "tokenizer"} => Current = {}
    /\ At \in {"exec", "wait", "prompt"} => Current \subseteq Range(batch)
    /\ At = "exec" /\ batch # << >> =>
         \A p \in Current : child[p].priority = Next1.priority /\ child[p].priority # 255
    /\ DeeperFirst

BatchInv == Typed /\ Batched

-----------------------------------------------------------------------------
(* What is in a sequence that is put together, and in its tail.            *)
LEMMA RangeConcat ==
  ASSUME NEW S, NEW b \in Seq(S), NEW c \in Seq(S)
  PROVE  b \o c \in Seq(S) /\ Range(b) \subseteq Range(b \o c) /\ Range(c) \subseteq Range(b \o c)
BY RangeConcatenation

(* What is in a sequence is its head or in its tail.                       *)
LEMMA RangeTail ==
  ASSUME NEW S, NEW b \in Seq(S), b # << >>
  PROVE  Tail(b) \in Seq(S) /\ Head(b) \in S /\ Range(b) \subseteq {Head(b)} \cup Range(Tail(b))
<1>1. /\ Tail(b) \in Seq(S) /\ Head(b) = b[1] /\ Head(b) \in S
      /\ Len(Tail(b)) = Len(b) - 1 /\ Len(b) \in Nat
      /\ \A i \in 1 .. Len(b) - 1 : Tail(b)[i] = b[i + 1]
      /\ DOMAIN b = 1 .. Len(b) /\ DOMAIN Tail(b) = 1 .. Len(b) - 1
  OBVIOUS
<1>2. ASSUME NEW i \in DOMAIN b, i # 1 PROVE b[i] \in Range(Tail(b))
  <2>1. i - 1 \in 1 .. Len(b) - 1 /\ (i - 1) + 1 = i
    BY <1>1, <1>2
  <2> QED
    BY <1>1, <2>1 DEF Range
<1> QED
  BY <1>1, <1>2 DEF Range

(* No process is the -1 of a failed fork, nor the unwritten entry.         *)
LEMMA NoEntryIsAPid == ANY \notin Pids /\ GARBAGE \notin Pids
BY PidsAssumption DEF ANY, GARBAGE

-----------------------------------------------------------------------------
(* A step that leaves the children and the batch alone.                    *)
LEMMA SameChildren ==
  ASSUME Typed, UNCHANGED <<batch, child, interrupted>>, resume' # "asking"
  PROVE  Typed' /\ Current' = Current /\ (DeeperFirst => DeeperFirst')
<1>1. Current' = Current
  BY DEF Running, Current
<1>2. Typed'
  BY DEF Typed
<1> QED
  BY <1>1, <1>2 DEF DeeperFirst

(* Fewer current children, of the same priorities.                         *)
LEMMA FewerCurrent ==
  ASSUME ~interrupted, ~interrupted', DeeperFirst, Current' \subseteq Current,
         \A p \in Current' : child'[p].priority = child[p].priority
  PROVE  DeeperFirst'
BY DEF DeeperFirst

(* At the start nothing is current and no batch is begun.                  *)
LEMMA InitBatch == Init => BatchInv
<1> SUFFICES ASSUME Init PROVE BatchInv
  OBVIOUS
<1>1. \A p \in Pids : child[p] = [state |-> "none", priority |-> OLD]
  BY DEF Init, NoChild
<1>2. Running = {} /\ Current = {}
  BY <1>1 DEF Running, Current
<1>3. Typed
  BY <1>1 DEF Init, Typed, NoChild
<1>4. Batched
  BY <1>2 DEF Batched, DeeperFirst
<1> QED
  BY <1>3, <1>4 DEF BatchInv

(* Where main goes between two batches, or when it ends, nothing current   *)
(* is left or all of it is in the batch.                                   *)
LEMMA MovesBatch ==
  ASSUME BatchInv, UNCHANGED <<batch, child, interrupted>>, resume' # "asking",
         \/ At' \in {"hung", "exited", "crashed"}
         \/ At = "exec" /\ At' = "prompt"
         \/ At = "wait" /\ batch = << >> /\ At' \in {"prompt", "exec"}
         \/ At = "start" /\ At' = "prompt"
         \/ At = "tokenizer" /\ At' \in {"prompt", "exec"}
         \/ At' = At /\ queue' = queue
  PROVE  BatchInv'
<1>1. Typed' /\ Current' = Current /\ (DeeperFirst => DeeperFirst')
  BY SameChildren DEF BatchInv
<1>2. ASSUME ~interrupted' PROVE Batched'
  BY <1>1, <1>2 DEF BatchInv, Batched, Next1
<1> QED
  BY <1>1, <1>2 DEF BatchInv, Batched

(* One more process in the batch, and perhaps one more child.              *)
LEMMA ForkBatch == BatchInv /\ Fork => BatchInv'
<1> SUFFICES ASSUME BatchInv, Fork PROVE BatchInv'
  OBVIOUS
<1>1. /\ pc = "exec" /\ At = "exec" /\ queue # << >>
      /\ UNCHANGED <<resume, interrupted>> /\ resume' # "asking" /\ batch \in Seq(Entries)
  BY DEF Fork, Forks, AtCommand, At, BatchInv, Typed
<1>2. PICK pid \in Entries :
        /\ Stored(pid)
        /\ \/ UNCHANGED child
           \/ /\ pid \in Pids
              /\ child' = [child EXCEPT ![pid] = [state |-> "running", priority |-> Next1.priority]]
  BY DEF Fork, Entries
<1> DEFINE more == SameBatch(Tail(queue), Next1.priority)
           added == IF more \/ Tail(queue) = << >> THEN <<pid>> ELSE <<pid, GARBAGE>>
<1>3. /\ batch' = batch \o added
      /\ queue' = Tail(queue)
      /\ pc' = (IF more THEN "exec" ELSE "wait")
  BY <1>2 DEF Stored
<1>4. added \in Seq(Entries) /\ pid \in Range(added) /\ added # << >>
  <2>1. <<pid>> \in Seq(Entries) /\ <<pid, GARBAGE>> \in Seq(Entries)
    BY DEF Entries
  <2>2. 1 \in DOMAIN <<pid>> /\ 1 \in DOMAIN <<pid, GARBAGE>>
    OBVIOUS
  <2>3. pid \in Range(<<pid>>) /\ pid \in Range(<<pid, GARBAGE>>)
    BY <2>2 DEF Range
  <2> QED
    BY <2>1, <2>3
<1> HIDE DEF added
<1>5. batch' \in Seq(Entries) /\ Range(batch) \subseteq Range(batch') /\ pid \in Range(batch')
  BY <1>1, <1>3, <1>4, RangeConcat
<1>6. Typed'
  BY <1>1, <1>2, <1>5 DEF BatchInv, Typed
<1>7. /\ Current' \subseteq Current \cup {pid}
      /\ \A p \in Current' : IF p = pid /\ ~UNCHANGED child THEN child'[p].priority = Next1.priority
                             ELSE p \in Current /\ child'[p].priority = child[p].priority
  BY <1>2 DEF Current, Running, BatchInv, Typed
<1>8. ASSUME ~interrupted PROVE Batched'
  <2>1. /\ Current \subseteq Range(batch)
        /\ batch # << >> => \A p \in Current : child[p].priority = Next1.priority /\ child[p].priority # 255
        /\ batch = << >> => Current = {}
    <3>1. batch = << >> => Range(batch) = {}
      BY DEF Range
    <3> QED
      BY <1>1, <1>8, <3>1 DEF BatchInv, Batched
  <2>2. \A p \in Current' : child'[p].priority = Next1.priority
    BY <1>7, <2>1
  <2>3. Current' \subseteq Range(batch')
    BY <1>5, <1>7, <2>1
  <2>4. ASSUME Next1.priority = 255 PROVE Current' \subseteq {pid}
    BY <1>7, <2>1, <2>4
  <2>5. DeeperFirst'
    BY <2>2, <2>4 DEF DeeperFirst
  <2>6. more => Next1'.priority = Next1.priority /\ Next1.priority # 255
    BY <1>3 DEF SameBatch, Next1
  <2>7. At' = pc'
    BY <1>3 DEF At
  <2> QED
    BY <1>3, <2>2, <2>3, <2>5, <2>6, <2>7 DEF Batched
<1> QED
  BY <1>1, <1>6, <1>8 DEF BatchInv, Batched

(* The process waited for is no current one, or waiting goes on for it.    *)
LEMMA WaitBatch == BatchInv /\ (Reap \/ NoSuchChild) => BatchInv'
<1> SUFFICES ASSUME BatchInv, Reap \/ NoSuchChild PROVE BatchInv'
  OBVIOUS
<1>1. /\ pc = "wait" /\ pc' = "wait" /\ batch # << >> /\ batch' = Tail(batch)
      /\ UNCHANGED <<resume, queue, interrupted>> /\ batch \in Seq(Entries)
  BY DEF Reap, NoSuchChild, WaitAdvances, BatchInv, Typed
<1>2. batch' \in Seq(Entries) /\ Range(batch) \subseteq {Head(batch)} \cup Range(batch')
  BY <1>1, RangeTail
<1>3. \/ UNCHANGED child
      \/ \E p \in Pids : child' = [child EXCEPT ![p] = NoChild]
  BY DEF Reap, NoSuchChild, Zombies
<1>4. Typed'
  BY <1>1, <1>2, <1>3 DEF BatchInv, Typed, NoChild
<1>5. /\ Current' \subseteq Current
      /\ \A p \in Current' : child'[p].priority = child[p].priority
  BY <1>3 DEF Current, Running, NoChild, BatchInv, Typed
<1>6. Head(batch) \notin Current'
  <2>1. CASE Reap
    <3> PICK p \in Zombies : Head(batch) \in {p, ANY, GARBAGE} /\ child' = [child EXCEPT ![p] = NoChild]
      BY <2>1 DEF Reap
    <3>1. p \notin Current'
      BY DEF Current, Running, Zombies, NoChild, BatchInv, Typed
    <3> QED
      BY <3>1, NoEntryIsAPid DEF Current, Running
  <2>2. CASE NoSuchChild
    BY <2>2, NoEntryIsAPid DEF NoSuchChild, Current, Running
  <2> QED
    BY <2>1, <2>2
<1>7. ASSUME ~interrupted PROVE Batched'
  <2>1. At = "wait" /\ At' = "wait"
    BY <1>1 DEF At
  <2>2. Current' \subseteq Range(batch')
    BY <1>2, <1>5, <1>6, <1>7, <2>1 DEF BatchInv, Batched
  <2>3. DeeperFirst'
    BY <1>1, <1>5, <1>7, FewerCurrent DEF BatchInv, Batched
  <2> QED
    BY <2>1, <2>2, <2>3 DEF Batched
<1> QED
  BY <1>1, <1>4, <1>7 DEF BatchInv, Batched

(* Children end by themselves, or all at once with Ctrl-C.                 *)
LEMMA EndBatch == BatchInv /\ ((\E p \in Pids : ChildExit(p)) \/ CtrlC) => BatchInv'
<1> SUFFICES ASSUME BatchInv, (\E p \in Pids : ChildExit(p)) \/ CtrlC PROVE BatchInv'
  OBVIOUS
<1>1. /\ UNCHANGED queue
      /\ At' = At
      /\ resume' # "asking"
      /\ \/ UNCHANGED <<batch, interrupted>>
         \/ interrupted' = TRUE /\ batch # << >> /\ batch' = Tail(batch)
  BY DEF ChildExit, CtrlC, TakesSignals, Blocked, At, BatchInv, Typed
<1>2. batch' \in Seq(Entries)
  BY <1>1, RangeTail DEF BatchInv, Typed
<1>3. /\ \A p \in Pids : child[p] = [state |-> child[p].state, priority |-> child[p].priority]
      /\ child = [p \in Pids |-> child[p]]
  BY DEF BatchInv, Typed
<1>4. PICK ended \in SUBSET Pids :
        child' = [p \in Pids |-> IF p \in ended THEN [child[p] EXCEPT !.state = "zombie"] ELSE child[p]]
  <2>1. CASE CtrlC
    BY <2>1 DEF CtrlC, Running
  <2>2. CASE \E p \in Pids : ChildExit(p)
    <3> PICK q \in Pids : child' = [child EXCEPT ![q].state = "zombie"]
      BY <2>2 DEF ChildExit
    <3>1. child' = [p \in Pids |-> IF p \in {q} THEN [child[p] EXCEPT !.state = "zombie"] ELSE child[p]]
      BY <1>3
    <3> QED
      BY <3>1
  <2> QED
    BY <2>1, <2>2
<1>5. \A p \in Pids : /\ child'[p] = [state |-> child'[p].state, priority |-> child[p].priority]
                      /\ child'[p].priority = child[p].priority
                      /\ child'[p].state = "running" => child[p].state = "running"
  <2> TAKE p \in Pids
  <2>1. [child[p] EXCEPT !.state = "zombie"] = [state |-> "zombie", priority |-> child[p].priority]
    BY <1>3
  <2>2. child'[p] = [state |-> "zombie", priority |-> child[p].priority] \/ child'[p] = child[p]
    BY <1>4, <2>1
  <2> QED
    BY <1>3, <2>2
<1>6. Typed'
  <2>1. child' = [p \in Pids |-> [state |-> child'[p].state, priority |-> child'[p].priority]]
    BY <1>4, <1>5
  <2> QED
    BY <1>1, <1>2, <2>1 DEF Typed
<1>7. Current' \subseteq Current /\ \A p \in Current' : child'[p].priority = child[p].priority
  BY <1>5 DEF Current, Running
<1>8. ASSUME ~interrupted' PROVE Batched'
  <2>1. ~interrupted /\ batch' = batch /\ queue' = queue
    BY <1>1, <1>8
  <2>2. DeeperFirst'
    BY <1>7, <1>8, <2>1, FewerCurrent DEF BatchInv, Batched
  <2> QED
    BY <1>1, <1>7, <2>1, <2>2 DEF BatchInv, Batched, Next1
<1> QED
  BY <1>6, <1>8 DEF BatchInv, Batched

(* A new line, or a new shell: no child is current.                        *)
LEMMA FreshBatch == BatchInv /\ (ReadLine \/ Restart) => BatchInv'
<1> SUFFICES ASSUME BatchInv, ReadLine \/ Restart PROVE BatchInv'
  OBVIOUS
<1>1. batch' = << >> /\ resume' # "asking" /\ pc' \in {"tokenizer", "start"}
  BY DEF ReadLine, Restart, BatchInv, Typed
<1>2. /\ child' = [p \in Pids |-> [state |-> child'[p].state, priority |-> OLD]]
      /\ \A p \in Pids : child'[p].priority = OLD
  <2>1. CASE ReadLine
    <3>1. \A p \in Pids : [child[p] EXCEPT !.priority = OLD] = [state |-> child[p].state, priority |-> OLD]
      BY DEF BatchInv, Typed
    <3>2. child' = [p \in Pids |-> [state |-> child[p].state, priority |-> OLD]]
      BY <2>1, <3>1 DEF ReadLine
    <3> QED
      BY <3>2
  <2>2. CASE Restart
    BY <2>2 DEF Restart, NoChild
  <2> QED
    BY <2>1, <2>2
<1>3. Current' = {}
  BY <1>2 DEF Current, Running
<1>4. Typed'
  BY <1>1, <1>2 DEF Typed
<1>5. Batched'
  BY <1>1, <1>3 DEF Batched, DeeperFirst, At
<1> QED
  BY <1>4, <1>5 DEF BatchInv

(* Every step of the shell, its programs and its user keeps the batches.   *)
LEMMA NextBatch == BatchInv /\ [Next]_vars => BatchInv'
<1> SUFFICES ASSUME BatchInv, [Next]_vars PROVE BatchInv'
  OBVIOUS
<1> USE DEF BatchInv, Typed, At
<1>1. CASE RestoreAlias
  BY <1>1, MovesBatch DEF RestoreAlias
<1>2. CASE Restored
  BY <1>2, MovesBatch DEF Restored
<1>3. CASE ReadLine \/ Restart
  BY <1>3, FreshBatch
<1>4. CASE MakeQueue
  <2>1. pc' \in {"hung", "prompt", "exec"}
    BY <1>4 DEF MakeQueue
  <2> QED
    BY <1>4, <2>1, MovesBatch DEF MakeQueue
<1>5. CASE ParseForever \/ BadFirstArgument \/ Overflow
  BY <1>5, MovesBatch DEF ParseForever, BadFirstArgument, Overflow, Forks, AtCommand
<1>6. CASE Alias
  BY <1>6, MovesBatch DEF Alias, Returns, AtCommand
<1>7. CASE Exit
  BY <1>7, MovesBatch DEF Exit, AtCommand
<1>8. CASE ChangeDirectory
  BY <1>8, MovesBatch DEF ChangeDirectory, Returns, AtCommand
<1>9. CASE Fork
  BY <1>9, ForkBatch
<1>10. CASE Reap \/ NoSuchChild
  BY <1>10, WaitBatch
<1>11. CASE BatchDone
  BY <1>11, MovesBatch DEF BatchDone
<1>12. CASE (\E p \in Pids : ChildExit(p)) \/ CtrlC
  BY <1>12, EndBatch
<1>13. CASE AnswerYes
  BY <1>13, MovesBatch DEF AnswerYes
<1>14. CASE AnswerNo
  BY <1>14, MovesBatch DEF AnswerNo
<1>15. CASE UNCHANGED vars
  BY <1>15, MovesBatch DEF vars
<1> QED
  BY <1>1, <1>2, <1>3, <1>4, <1>5, <1>6, <1>7, <1>8, <1>9, <1>10, <1>11, <1>12, <1>13, <1>14, <1>15
  DEF Next, Executes, Waits

(* The invariant behind the two theorems on batches that follow.           *)
THEOREM BatchInvariant == Spec => []BatchInv
<1> QED
  BY InitBatch, NextBatch, PTL DEF Spec

(* functions.c:231-343: as long as no wait of a line was interrupted, the  *)
(* programs that run for it are of one depth, and a program outside        *)
(* parentheses runs alone: whatever the queue, the process limit and the   *)
(* size of pid_child are, and in whatever order programs end.              *)
THEOREM OneDepthAtATime == Spec => []DeeperFirst
<1>1. BatchInv => DeeperFirst
  BY DEF BatchInv, Batched, DeeperFirst
<1> QED
  BY <1>1, BatchInvariant, PTL

(* functions.c:340-343: at the prompt every program of the line that still *)
(* runs is one that alias or cd kept the shell from waiting for.           *)
THEOREM NothingLeftBehind == Spec => []NoneLeftBehind
<1>1. BatchInv => NoneLeftBehind
  BY DEF BatchInv, Batched, NoneLeftBehind, At
<1> QED
  BY <1>1, BatchInvariant, PTL

-----------------------------------------------------------------------------
(* While alias.txt is read the aliases are its first lines; from then on   *)
(* its lines are the first aliases.                                        *)
IsSequence(s) == s \in Seq(Range(s))

AliasInv ==
  /\ IsSequence(aliases) /\ IsSequence(aliasFile.lines)
  /\ At = "start" => IsPrefix(aliases, aliasFile.lines)
  /\ At \notin {"start", "exited", "crashed"} => IsPrefix(aliasFile.lines, aliases)
  /\ pc = "asking" => resume \notin {"exited", "crashed"}
  /\ resume # "asking"

(* A sequence over any set is one over what is in it.                      *)
LEMMA SequenceOf ==
  ASSUME NEW S, NEW s \in Seq(S)
  PROVE  IsSequence(s)
BY SeqOfRange DEF IsSequence

(* A prefix, place by place.                                               *)
LEMMA PrefixByPlace ==
  ASSUME NEW s, NEW t, IsSequence(s), IsSequence(t)
  PROVE  IsPrefix(s, t) <=> Len(s) <= Len(t) /\ \A i \in 1 .. Len(s) : s[i] = t[i]
<1>1. /\ Len(s) \in Nat /\ Len(t) \in Nat
      /\ s \in Seq(Range(s)) /\ t \in Seq(Range(t))
  BY DEF IsSequence
<1>2. ASSUME Len(s) <= Len(t)
      PROVE  /\ SubSeq(s, 1, Len(s)) = [i \in 1 .. Len(s) |-> s[i]]
             /\ SubSeq(t, 1, Len(s)) = [i \in 1 .. Len(s) |-> t[i]]
  BY <1>1, <1>2
<1>3. ASSUME Len(s) <= Len(t), SubSeq(s, 1, Len(s)) = SubSeq(t, 1, Len(s)), NEW i \in 1 .. Len(s)
      PROVE  s[i] = t[i]
  BY <1>2, <1>3
<1>4. ASSUME Len(s) <= Len(t), \A i \in 1 .. Len(s) : s[i] = t[i]
      PROVE  SubSeq(s, 1, Len(s)) = SubSeq(t, 1, Len(s))
  BY <1>2, <1>4
<1> QED
  BY <1>3, <1>4 DEF IsPrefix

(* A sequence and the empty one are prefixes of it.                        *)
LEMMA PrefixOfItself ==
  ASSUME NEW s, IsSequence(s)
  PROVE  IsPrefix(s, s) /\ IsPrefix(<< >>, s) /\ IsSequence(<< >>)
<1>1. IsSequence(<< >>) /\ Len(s) \in Nat
  BY DEF IsSequence
<1> QED
  BY <1>1, PrefixByPlace

(* A prefix stays one when the longer sequence grows, and when it takes    *)
(* the next element of the longer one.                                     *)
LEMMA PrefixOfAppend ==
  ASSUME NEW s, NEW t, NEW e, IsSequence(s), IsSequence(t)
  PROVE  /\ IsSequence(Append(t, e))
         /\ IsPrefix(s, t) => IsPrefix(s, Append(t, e))
         /\ IsPrefix(t, s) /\ Len(t) < Len(s) => IsPrefix(Append(t, s[Len(t) + 1]), s)
         /\ IsSequence(Append(t, s[Len(t) + 1]))
<1>1. ASSUME NEW x
      PROVE  /\ IsSequence(Append(t, x)) /\ Len(Append(t, x)) = Len(t) + 1
             /\ \A i \in 1 .. Len(t) : Append(t, x)[i] = t[i]
             /\ Append(t, x)[Len(t) + 1] = x
  <2> DEFINE S == Range(t) \cup {x}
  <2>1. t \in Seq(S) /\ x \in S
    <3>1. t \in Seq(Range(t)) /\ Range(t) \subseteq S
      BY DEF IsSequence
    <3> QED
      BY <3>1, SeqMonotonic
  <2> HIDE DEF S
  <2>2. /\ Append(t, x) \in Seq(S) /\ Len(Append(t, x)) = Len(t) + 1
        /\ \A i \in 1 .. Len(t) : Append(t, x)[i] = t[i]
        /\ Append(t, x)[Len(t) + 1] = x
    BY <2>1, AppendProperties
  <2>3. IsSequence(Append(t, x))
    BY <2>2, SequenceOf
  <2> QED
    BY <2>2, <2>3
<1>2. Len(s) \in Nat /\ Len(t) \in Nat
  BY DEF IsSequence
<1>3. ASSUME IsPrefix(s, t) PROVE IsPrefix(s, Append(t, e))
  <2>1. Len(s) <= Len(t) /\ \A i \in 1 .. Len(s) : s[i] = t[i]
    BY <1>3, PrefixByPlace
  <2>2. Len(s) <= Len(Append(t, e)) /\ \A i \in 1 .. Len(s) : s[i] = Append(t, e)[i]
    BY <1>1, <1>2, <2>1
  <2> QED
    BY <1>1, <2>2, PrefixByPlace
<1>4. ASSUME IsPrefix(t, s), Len(t) < Len(s)
      PROVE  IsPrefix(Append(t, s[Len(t) + 1]), s)
  <2> DEFINE longer == Append(t, s[Len(t) + 1])
  <2>1. \A i \in 1 .. Len(t) : t[i] = s[i]
    BY <1>4, PrefixByPlace
  <2>2. /\ IsSequence(longer) /\ Len(longer) = Len(t) + 1
        /\ \A i \in 1 .. Len(t) : longer[i] = t[i]
        /\ longer[Len(t) + 1] = s[Len(t) + 1]
    BY <1>1
  <2> HIDE DEF longer
  <2>3. Len(longer) <= Len(s) /\ \A i \in 1 .. Len(longer) : longer[i] = s[i]
    BY <1>2, <1>4, <2>1, <2>2
  <2> QED
    BY <2>2, <2>3, PrefixByPlace DEF longer
<1> QED
  BY <1>1, <1>3, <1>4

(* No shell has read or written an alias.                                  *)
LEMMA InitAlias == Init => AliasInv
<1> SUFFICES ASSUME Init PROVE AliasInv
  OBVIOUS
<1>1. aliases = << >> /\ aliasFile.lines = << >>
  BY DEF Init
<1>2. IsSequence(<< >>) /\ IsPrefix(<< >>, << >>)
  <2>1. IsSequence(<< >>)
    BY DEF IsSequence
  <2> QED
    BY <2>1, PrefixOfItself
<1> QED
  BY <1>1, <1>2 DEF Init, AliasInv, At

(* What leaves the aliases and alias.txt alone.                            *)
LEMMA MovesAlias ==
  ASSUME AliasInv, UNCHANGED <<aliases, aliasFile>>,
         resume' # "asking", pc' = "asking" => resume' \notin {"exited", "crashed"},
         \/ At' = At
         \/ At' \in {"exited", "crashed"}
         \/ At \notin {"start", "exited", "crashed"} /\ At' # "start"
         \/ aliasFile.exists /\ Len(aliases) = Len(aliasFile.lines) /\ At = "start" /\ At' = "prompt"
  PROVE  AliasInv'
<1>1. ASSUME Len(aliases) = Len(aliasFile.lines), IsPrefix(aliases, aliasFile.lines)
      PROVE  IsPrefix(aliasFile.lines, aliases)
  BY <1>1, PrefixByPlace DEF AliasInv
<1> QED
  BY <1>1 DEF AliasInv

(* The shell that ends writes its aliases.                                 *)
LEMMA NextAlias ==
  ASSUME AliasInv, [Next]_vars
  PROVE  /\ AliasInv'
         /\ \/ IsPrefix(aliasFile.lines, aliasFile'.lines)
            \/ pc = "asking" /\ resume = "start"
<1> USE DEF At
<1>1. UNCHANGED aliasFile => IsPrefix(aliasFile.lines, aliasFile'.lines)
  BY PrefixOfItself DEF AliasInv
<1>2. CASE RestoreAlias
  BY <1>1, <1>2, PrefixOfAppend DEF RestoreAlias, AliasInv
<1>3. CASE Restored
  BY <1>1, <1>3, MovesAlias DEF Restored, AliasInv
<1>4. CASE ReadLine
  BY <1>1, <1>4, MovesAlias DEF ReadLine, AliasInv
<1>5. CASE MakeQueue
  <2>1. pc' \in {"hung", "prompt", "exec"}
    BY <1>5 DEF MakeQueue
  <2> QED
    BY <1>1, <1>5, <2>1, MovesAlias DEF MakeQueue, AliasInv
<1>6. CASE ParseForever \/ BadFirstArgument \/ Overflow
  BY <1>1, <1>6, MovesAlias DEF ParseForever, BadFirstArgument, Overflow, Forks, AtCommand, AliasInv
<1>7. CASE Alias
  <2>1. /\ pc = "exec" /\ pc' \in {"prompt", "crashed"}
        /\ UNCHANGED <<resume, aliasFile>>
        /\ aliases' = aliases \/ \E new : aliases' = Append(aliases, new)
    BY <1>7 DEF Alias, AtCommand, Returns, create_alias
  <2>2. IsSequence(aliases') /\ IsPrefix(aliasFile.lines, aliases')
    <3>1. IsSequence(aliases) /\ IsSequence(aliasFile.lines) /\ IsPrefix(aliasFile.lines, aliases)
      BY <2>1 DEF AliasInv
    <3>2. ASSUME NEW new PROVE /\ IsSequence(Append(aliases, new))
                              /\ IsPrefix(aliasFile.lines, Append(aliases, new))
      BY <3>1, PrefixOfAppend
    <3> QED
      BY <2>1, <3>1, <3>2
  <2> QED
    BY <1>1, <2>1, <2>2 DEF AliasInv
<1>8. CASE Exit
  BY <1>8 DEF Exit, AtCommand, AliasInv
<1>9. CASE ChangeDirectory
  BY <1>1, <1>9, MovesAlias DEF ChangeDirectory, Returns, AtCommand, AliasInv
<1>10. CASE Fork
  <2>1. pc = "exec" /\ pc' \in {"exec", "wait"}
    BY <1>10 DEF Fork, Forks, AtCommand, Stored
  <2> QED
    BY <1>1, <1>10, <2>1, MovesAlias DEF Fork, AliasInv
<1>11. CASE Reap \/ NoSuchChild
  BY <1>1, <1>11, MovesAlias DEF Reap, NoSuchChild, WaitAdvances, AliasInv
<1>12. CASE BatchDone
  BY <1>1, <1>12, MovesAlias DEF BatchDone, AliasInv
<1>13. CASE \E p \in Pids : ChildExit(p)
  BY <1>1, <1>13, MovesAlias DEF ChildExit, AliasInv
<1>14. CASE CtrlC
  BY <1>1, <1>14, MovesAlias DEF CtrlC, TakesSignals, AliasInv
<1>15. CASE AnswerYes
  BY <1>15 DEF AnswerYes, AliasInv
<1>16. CASE AnswerNo
  BY <1>1, <1>16, MovesAlias DEF AnswerNo, AliasInv
<1>17. CASE Restart
  <2>1. IsSequence(<< >>) /\ IsPrefix(<< >>, aliasFile.lines)
    BY PrefixOfItself DEF AliasInv
  <2> QED
    BY <1>1, <1>17, <2>1 DEF Restart, AliasInv
<1>18. CASE UNCHANGED vars
  BY <1>1, <1>18, MovesAlias DEF vars, AliasInv
<1> QED
  BY <1>2, <1>3, <1>4, <1>5, <1>6, <1>7, <1>8, <1>9, <1>10, <1>11, <1>12, <1>13, <1>14, <1>15,
     <1>16, <1>17, <1>18 DEF Next, Executes, Waits

(* functions.c:105-154 and 436-456: a line of alias.txt stays where it is, *)
(* whatever becomes of the shells that read the file and write it again;   *)
(* only the user who quits a shell before it has read it all can lose one. *)
THEOREM NoAliasIsLost == Spec => AliasesSurvive
<1>1. Spec => []AliasInv
  BY InitAlias, NextAlias, PTL DEF Spec
<1>2. AliasInv /\ [Next]_vars =>
        [\/ IsPrefix(aliasFile.lines, aliasFile'.lines)
         \/ pc = "asking" /\ resume = "start"]_vars
  BY NextAlias
<1> QED
  BY <1>1, <1>2, PTL DEF Spec, AliasesSurvive

-----------------------------------------------------------------------------
(* What the tokenizer makes of a line.  First sequences and counting.        *)

(* A part of a sequence that is one longer.                                *)
LEMMA SubSeqGrows ==
  ASSUME NEW S, NEW s \in Seq(S), NEW i \in Nat, i + 1 \in 1 .. Len(s), NEW low \in 1 .. i + 1
  PROVE  SubSeq(s, low, i + 1) = Append(SubSeq(s, low, i), s[i + 1])
<1> DEFINE t == SubSeq(s, low, i)
           u == SubSeq(s, low, i + 1)
<1>1. /\ t \in Seq(S) /\ Len(t) = i - low + 1
      /\ \A k \in 1 .. i - low + 1 : t[k] = s[low + k - 1]
  OBVIOUS
<1>2. /\ u \in Seq(S) /\ Len(u) = i - low + 2
      /\ \A k \in 1 .. i - low + 2 : u[k] = s[low + k - 1]
  OBVIOUS
<1>3. s[i + 1] \in S
  OBVIOUS
<1> HIDE DEF t, u
<1>4. /\ Append(t, s[i + 1]) \in Seq(S) /\ Len(Append(t, s[i + 1])) = i - low + 2
      /\ \A k \in 1 .. i - low + 1 : Append(t, s[i + 1])[k] = t[k]
      /\ Append(t, s[i + 1])[i - low + 2] = s[i + 1]
  BY <1>1, <1>3
<1>5. ASSUME NEW k \in 1 .. i - low + 2 PROVE u[k] = Append(t, s[i + 1])[k]
  <2>1. u[k] = s[low + k - 1] /\ k \in Int
    BY <1>2
  <2>2. CASE k = i - low + 2
    <3>1. low + k - 1 = i + 1
      BY <2>2
    <3> QED
      BY <1>4, <2>1, <2>2, <3>1
  <2>3. CASE k # i - low + 2
    <3>1. k \in 1 .. i - low + 1
      BY <2>3
    <3> QED
      BY <1>1, <1>4, <2>1, <3>1
  <2> QED
    BY <2>2, <2>3
<1>6. u = Append(t, s[i + 1])
  BY <1>2, <1>4, <1>5, SeqEqual
<1> QED
  BY <1>6 DEF t, u

(* What is in a set with each of its elements' predecessors is its front.  *)
LEMMA InitialPart ==
  ASSUME NEW n \in Nat, NEW S \in SUBSET (1 .. n), \A j \in S, k \in 1 .. n : k <= j => k \in S
  PROVE  \E m \in 0 .. n : S = 1 .. m /\ Cardinality(S) = m
<1>1. 1 .. n = {} => n = 0
  OBVIOUS
<1>2. CASE n \in S
  <2>1. \A k \in 1 .. n : k <= n /\ k \in S
    BY <1>2
  <2>2. S = 1 .. n
    BY <2>1
  <2>3. Cardinality(1 .. n) = n
    BY FS_Interval
  <2>4. n \in 0 .. n
    OBVIOUS
  <2> QED
    BY <2>2, <2>3, <2>4
<1>3. CASE n \notin S
  <2> DEFINE Out == {j \in Nat : j # 0 /\ j \notin S}
  <2>1. n + 1 \in Out /\ Out \in SUBSET Nat
    OBVIOUS
  <2>2. PICK m \in Out : \A j \in Out : m <= j
    <3> HIDE DEF Out
    <3> QED
      BY <2>1, LeastNumber
  <2>3. m - 1 \in 0 .. n
    BY <2>1, <2>2
  <2>4. \A j \in 1 .. m - 1 : j \in S
    BY <2>2
  <2>5. \A j \in S : j \in 1 .. m - 1
    <3> SUFFICES ASSUME NEW j \in S, j >= m PROVE FALSE
      OBVIOUS
    <3>1. m \in 1 .. n /\ m <= j
      BY <2>2
    <3>2. m \in S
      BY <3>1
    <3> QED
      BY <2>2, <3>2
  <2>6. S = 1 .. m - 1
    BY <2>4, <2>5
  <2> HIDE DEF Out
  <2>7. Cardinality(1 .. m - 1) = m - 1
    BY <2>3, FS_Interval
  <2> QED
    BY <2>3, <2>6, <2>7
<1> QED
  BY <1>2, <1>3

-----------------------------------------------------------------------------
(* Counting.                                                               *)
Upto(text, symbol, i) == {j \in 1 .. i : text[j] = symbol}

(* What Count counts in the front of a line.                               *)
LEMMA CountUpto ==
  ASSUME NEW text \in Seq(Symbols), NEW i \in 0 .. Len(text), NEW symbol
  PROVE  /\ Count(SubSeq(text, 1, i), symbol) = Cardinality(Upto(text, symbol, i))
         /\ IsFiniteSet(Upto(text, symbol, i))
         /\ Cardinality(Upto(text, symbol, i)) \in Nat
<1>1. /\ DOMAIN SubSeq(text, 1, i) = 1 .. i
      /\ \A j \in 1 .. i : SubSeq(text, 1, i)[j] = text[j]
  <2>1. i \in Nat /\ i <= Len(text) /\ Len(text) \in Nat
    OBVIOUS
  <2>2. SubSeq(text, 1, i) = [j \in 1 .. i |-> text[j]]
    BY <2>1
  <2> QED
    BY <2>2
<1>2. {j \in DOMAIN SubSeq(text, 1, i) : SubSeq(text, 1, i)[j] = symbol} = Upto(text, symbol, i)
  BY <1>1 DEF Upto
<1>3. IsFiniteSet(Upto(text, symbol, i))
  <2>1. IsFiniteSet(1 .. i)
    BY FS_Interval
  <2>2. Upto(text, symbol, i) \subseteq 1 .. i
    BY DEF Upto
  <2> QED
    BY <2>1, <2>2, FS_Subset
<1> QED
  BY <1>2, <1>3, FS_CardinalityType DEF Count

(* It counts one more where the symbol is.                                 *)
LEMMA UptoStep ==
  ASSUME NEW text \in Seq(Symbols), NEW i \in Nat, i + 1 \in 1 .. Len(text), NEW symbol
  PROVE  Cardinality(Upto(text, symbol, i + 1)) =
           Cardinality(Upto(text, symbol, i)) + IF text[i + 1] = symbol THEN 1 ELSE 0
<1>1. i \in 0 .. Len(text)
  OBVIOUS
<1>2. IsFiniteSet(Upto(text, symbol, i)) /\ Cardinality(Upto(text, symbol, i)) \in Nat
  BY <1>1, CountUpto
<1>3. CASE text[i + 1] = symbol
  <2>1. Upto(text, symbol, i + 1) = Upto(text, symbol, i) \cup {i + 1} /\ i + 1 \notin Upto(text, symbol, i)
    BY <1>3 DEF Upto
  <2>2. Cardinality(Upto(text, symbol, i + 1)) = Cardinality(Upto(text, symbol, i)) + 1
    BY <1>2, <2>1, FS_AddElement
  <2> QED
    BY <1>3, <2>2
<1>4. CASE text[i + 1] # symbol
  <2>1. Upto(text, symbol, i + 1) = Upto(text, symbol, i)
    BY <1>4 DEF Upto
  <2> QED
    BY <1>2, <1>4, <2>1
<1> QED
  BY <1>3, <1>4

(* The depth, place by place.                                              *)
Change(symbol) == IF symbol = LPAREN THEN 1 ELSE IF symbol = RPAREN THEN -1 ELSE 0

(* A parenthesis changes the depth by one, no other symbol does.           *)
LEMMA DepthStep ==
  ASSUME NEW text \in Seq(Symbols)
  PROVE  /\ Depth(text, 0) = 0
         /\ \A i \in 0 .. Len(text) : Depth(text, i) \in Int
         /\ \A i \in Nat : i + 1 \in 1 .. Len(text) =>
              Depth(text, i + 1) = Depth(text, i) + Change(text[i + 1])
<1>1. ASSUME NEW i \in 0 .. Len(text)
      PROVE  /\ Depth(text, i) = Cardinality(Upto(text, LPAREN, i)) - Cardinality(Upto(text, RPAREN, i))
             /\ Cardinality(Upto(text, LPAREN, i)) \in Nat /\ Cardinality(Upto(text, RPAREN, i)) \in Nat
  BY CountUpto DEF Depth
<1>2. Depth(text, 0) = 0
  <2>1. Upto(text, LPAREN, 0) = {} /\ Upto(text, RPAREN, 0) = {}
    BY DEF Upto
  <2>2. 0 \in 0 .. Len(text)
    OBVIOUS
  <2>3. Cardinality({}) = 0 /\ 0 - 0 = 0
    BY FS_EmptySet
  <2> QED
    BY <1>1, <2>1, <2>2, <2>3
<1>3. ASSUME NEW i \in Nat, i + 1 \in 1 .. Len(text)
      PROVE  Depth(text, i + 1) = Depth(text, i) + Change(text[i + 1])
  <2>1. i \in 0 .. Len(text) /\ i + 1 \in 0 .. Len(text)
    BY <1>3
  <2>2. LPAREN # RPAREN
    BY DEF LPAREN, RPAREN
  <2>3. Cardinality(Upto(text, LPAREN, i + 1)) =
          Cardinality(Upto(text, LPAREN, i)) + IF text[i + 1] = LPAREN THEN 1 ELSE 0
    BY <1>3, UptoStep
  <2>4. Cardinality(Upto(text, RPAREN, i + 1)) =
          Cardinality(Upto(text, RPAREN, i)) + IF text[i + 1] = RPAREN THEN 1 ELSE 0
    BY <1>3, UptoStep
  <2> QED
    BY <1>1, <2>1, <2>2, <2>3, <2>4 DEF Change
<1> QED
  BY <1>1, <1>2, <1>3

(* The right parentheses in front of a place.                              *)
LEMMA ClosingStep ==
  ASSUME NEW text
  PROVE  /\ Closing(text, 1) = 0
         /\ \A i \in Nat \ {0} : Closing(text, i) \in Nat
         /\ \A i \in Nat \ {0} :
              Closing(text, i + 1) = IF text[i] = RPAREN THEN Closing(text, i) + 1 ELSE 0
<1> DEFINE C(i) == {j \in 1 .. i - 1 : \A k \in j .. i - 1 : text[k] = RPAREN}
<1>1. \A i : Closing(text, i) = Cardinality(C(i))
  BY DEF Closing
<1>2. ASSUME NEW i \in Nat \ {0} PROVE IsFiniteSet(C(i)) /\ Cardinality(C(i)) \in Nat
  <2>1. IsFiniteSet(1 .. i - 1)
    BY FS_Interval
  <2>2. C(i) \subseteq 1 .. i - 1
    OBVIOUS
  <2> QED
    BY <2>1, <2>2, FS_Subset, FS_CardinalityType
<1>3. C(1) = {}
  OBVIOUS
<1>4. ASSUME NEW i \in Nat \ {0}, text[i] = RPAREN PROVE Cardinality(C(i + 1)) = Cardinality(C(i)) + 1
  <2>1. C(i + 1) = C(i) \cup {i} /\ i \notin C(i)
    BY <1>4
  <2> HIDE DEF C
  <2> QED
    BY <1>2, <2>1, FS_AddElement
<1>5. ASSUME NEW i \in Nat \ {0}, text[i] # RPAREN PROVE Cardinality(C(i + 1)) = 0
  <2>1. C(i + 1) = {}
    BY <1>5
  <2> HIDE DEF C
  <2> QED
    BY <2>1, FS_EmptySet
<1> HIDE DEF C
<1> QED
  BY <1>1, <1>2, <1>3, <1>4, <1>5, FS_EmptySet

-----------------------------------------------------------------------------
(* tokenizer, one character at a time.                                     *)
IsReading(f, text, n) == f = [i \in 0 .. n |-> IF i = 0 THEN Started ELSE Token(f[i - 1], text, i)]

(* tokenizer is defined for every line: its loop has a value at each       *)
(* place.                                                                  *)
LEMMA ReadingExists ==
  ASSUME NEW text, NEW n \in Nat
  PROVE  \E f : IsReading(f, text, n)
<1> DEFINE S == {i \in Nat : \E f : IsReading(f, text, i)}
<1>1. 0 \in S
  <2>1. IsReading([i \in 0 .. 0 |-> Started], text, 0)
    BY DEF IsReading
  <2> QED
    BY <2>1
<1>2. ASSUME NEW i \in Nat, i \in S PROVE i + 1 \in S
  <2>1. PICK f : IsReading(f, text, i)
    BY <1>2
  <2> DEFINE g == [k \in 0 .. i + 1 |-> IF k = i + 1 THEN Token(f[i], text, i + 1) ELSE f[k]]
  <2>2. \A k \in 0 .. i : f[k] = IF k = 0 THEN Started ELSE Token(f[k - 1], text, k)
    BY <2>1 DEF IsReading
  <2>3. ASSUME NEW k \in 0 .. i + 1
        PROVE  g[k] = IF k = 0 THEN Started ELSE Token(g[k - 1], text, k)
    <3>1. CASE k = i + 1
      <4>1. k # 0 /\ k - 1 = i /\ i \in 0 .. i + 1 /\ i # i + 1
        BY <3>1
      <4>2. g[k - 1] = f[i] /\ g[k] = Token(f[i], text, i + 1)
        BY <3>1, <4>1
      <4> HIDE DEF g
      <4> QED
        BY <3>1, <4>1, <4>2
    <3>2. CASE k # i + 1
      <4>1. k \in 0 .. i
        BY <3>2
      <4>2. k # 0 => k - 1 \in 0 .. i + 1 /\ k - 1 # i + 1
        BY <4>1
      <4>3. g[k] = f[k] /\ (k # 0 => g[k - 1] = f[k - 1])
        BY <3>2, <4>2
      <4> HIDE DEF g
      <4> QED
        BY <2>2, <4>1, <4>3
    <3> QED
      BY <3>1, <3>2
  <2>4. DOMAIN g = 0 .. i + 1 /\ g = [k \in 0 .. i + 1 |-> g[k]]
    OBVIOUS
  <2>5. IsReading(g, text, i + 1)
    <3> HIDE DEF g
    <3> QED
      BY <2>3, <2>4 DEF IsReading
  <2> HIDE DEF g
  <2> QED
    BY <2>5
<1> HIDE DEF S
<1>3. Nat \subseteq S
  BY <1>1, <1>2, NumberInduction
<1> QED
  BY <1>3 DEF S

(* A property of what tokenizer knows is so at the end if it is so at the  *)
(* start and stays so with every character.                                *)
LEMMA TokenizerInduction ==
  ASSUME NEW text \in Seq(Symbols), NEW Ok,
         <<0, Started>> \in Ok,
         \A t : \A i \in 0 .. Len(text) - 1 :
            <<i, t>> \in Ok => <<i + 1, Token(t, text, i + 1)>> \in Ok
  PROVE  <<Len(text), tokenizer(text)>> \in Ok
<1> DEFINE n == Len(text)
           f == CHOOSE g : IsReading(g, text, n)
<1>1. n \in Nat
  OBVIOUS
<1>2. IsReading(f, text, n)
  <2> HIDE DEF n
  <2>1. \E g : IsReading(g, text, n)
    BY <1>1, ReadingExists
  <2> QED
    BY <2>1
<1>3. tokenizer(text) = f[n]
  BY DEF tokenizer, IsReading
<1> HIDE DEF f
<1>4. \A i \in 0 .. n : f[i] = IF i = 0 THEN Started ELSE Token(f[i - 1], text, i)
  BY <1>2 DEF IsReading
<1> DEFINE S == {i \in Nat : i <= n => <<i, f[i]>> \in Ok}
<1>5. 0 \in S
  BY <1>4
<1>6. ASSUME NEW i \in Nat, i \in S PROVE i + 1 \in S
  <2> SUFFICES ASSUME i + 1 <= n PROVE <<i + 1, f[i + 1]>> \in Ok
    OBVIOUS
  <2>1. i \in 0 .. n - 1 /\ i + 1 \in 0 .. n /\ i + 1 # 0 /\ (i + 1) - 1 = i
    BY <1>1
  <2>2. <<i, f[i]>> \in Ok
    BY <1>6, <2>1
  <2>3. f[i + 1] = Token(f[i], text, i + 1)
    BY <1>4, <2>1
  <2> QED
    BY <2>1, <2>2, <2>3
<1> HIDE DEF S
<1>7. Nat \subseteq S
  BY <1>5, <1>6, NumberInduction
<1> QED
  BY <1>1, <1>3, <1>7 DEF S

Nodes == [command : Seq(Symbols), priority : Int]

(* A queue with one node more behind its first ones.                       *)
IsInserted(new, nodes, m, node) ==
  /\ Len(new) = Len(nodes) + 1
  /\ \A k \in 1 .. m : new[k] = nodes[k]
  /\ new[m + 1] = node
  /\ \A k \in m + 2 .. Len(nodes) + 1 : new[k] = nodes[k - 1]

(* What InsertAt makes of a queue, place by place.                         *)
LEMMA InsertAtPlace ==
  ASSUME NEW S, NEW nodes \in Seq(S), NEW m \in 0 .. Len(nodes), NEW node \in S
  PROVE  /\ InsertAt(nodes, m + 1, node) \in Seq(S)
         /\ IsInserted(InsertAt(nodes, m + 1, node), nodes, m, node)
<1> DEFINE front == SubSeq(nodes, 1, m)
           back == SubSeq(nodes, m + 1, Len(nodes))
           both == front \o <<node>>
<1>1. /\ front \in Seq(S) /\ Len(front) = m
      /\ \A k \in 1 .. m : front[k] = nodes[k]
  OBVIOUS
<1>2. /\ back \in Seq(S) /\ Len(back) = Len(nodes) - m
      /\ \A k \in 1 .. Len(nodes) - m : back[k] = nodes[m + k]
  <2>1. back \in Seq(S) /\ Len(back) = Len(nodes) - m
    OBVIOUS
  <2>2. \A k \in 1 .. Len(nodes) - m : back[k] = nodes[(m + 1) + k - 1] /\ (m + 1) + k - 1 = m + k
    OBVIOUS
  <2> QED
    BY <2>1, <2>2
<1>3. <<node>> \in Seq(S) /\ Len(<<node>>) = 1 /\ <<node>>[1] = node
  OBVIOUS
<1>4. InsertAt(nodes, m + 1, node) = both \o back
  <2>1. (m + 1) - 1 = m
    OBVIOUS
  <2> QED
    BY <2>1 DEF InsertAt
<1> HIDE DEF front, back
<1>5. /\ both \in Seq(S) /\ Len(both) = m + 1
      /\ \A k \in 1 .. m : both[k] = nodes[k]
      /\ both[m + 1] = node
  BY <1>1, <1>3
<1> HIDE DEF both
<1>6. both \o back \in Seq(S) /\ Len(both \o back) = Len(nodes) + 1
  BY <1>2, <1>5
<1>7. \A k \in 1 .. m + 1 : (both \o back)[k] = both[k]
  BY <1>2, <1>5
<1>8. \A k \in m + 2 .. Len(nodes) + 1 : (both \o back)[k] = nodes[k - 1]
  <2> TAKE k \in m + 2 .. Len(nodes) + 1
  <2>1. (both \o back)[k] = back[k - (m + 1)]
    BY <1>2, <1>5
  <2>2. k - (m + 1) \in 1 .. Len(nodes) - m /\ m + (k - (m + 1)) = k - 1
    OBVIOUS
  <2> QED
    BY <1>2, <2>1, <2>2
<1> DEFINE new == both \o back
<1>9. \A k \in 1 .. m : new[k] = nodes[k]
  BY <1>5, <1>7
<1>10. new[m + 1] = node
  BY <1>5, <1>7
<1>11. new = InsertAt(nodes, m + 1, node) /\ new \in Seq(S) /\ Len(new) = Len(nodes) + 1
       /\ \A k \in m + 2 .. Len(nodes) + 1 : new[k] = nodes[k - 1]
  BY <1>4, <1>6, <1>8
<1> HIDE DEF new
<1> QED
  BY <1>9, <1>10, <1>11 DEF IsInserted

(* qenqueue finds the place behind the nodes that come first.              *)
LEMMA QueuePlace ==
  ASSUME NEW nodes \in Seq(Nodes), NEW command \in Seq(Symbols), NEW priority \in Int
  PROVE  /\ qenqueue(nodes, command, priority) \in Seq(Nodes)
         /\ \E m \in 0 .. Len(nodes) :
              /\ IsInserted(qenqueue(nodes, command, priority), nodes, m,
                            [command |-> command, priority |-> priority])
              /\ \A k \in 1 .. m : nodes[k].priority <= priority
              /\ m < Len(nodes) => nodes[m + 1].priority > priority
<1> DEFINE n == Len(nodes)
           front == {j \in DOMAIN nodes : \A k \in 1 .. j : nodes[k].priority <= priority}
           node == [command |-> command, priority |-> priority]
<1>1. n \in Nat /\ DOMAIN nodes = 1 .. n /\ node \in Nodes
      /\ \A k \in 1 .. n : nodes[k].priority \in Int
  <2>1. n \in Nat /\ DOMAIN nodes = 1 .. n /\ \A k \in 1 .. n : nodes[k] \in Nodes
    OBVIOUS
  <2>2. node \in Nodes /\ \A x \in Nodes : x.priority \in Int
    BY DEF Nodes
  <2> HIDE DEF n
  <2> QED
    BY <2>1, <2>2
<1>2. front \in SUBSET (1 .. n)
  BY <1>1
<1>3. \A j \in front, k \in 1 .. n : k <= j => k \in front
  BY <1>1
<1>4. PICK m \in 0 .. n : front = 1 .. m /\ Cardinality(front) = m
  <2> HIDE DEF n, front
  <2> QED
    BY <1>1, <1>2, <1>3, InitialPart
<1>5. qenqueue(nodes, command, priority) = InsertAt(nodes, m + 1, node)
  BY <1>4 DEF qenqueue
<1>6. \A k \in 1 .. m : nodes[k].priority <= priority
  BY <1>4
<1>7. ASSUME m < n PROVE nodes[m + 1].priority > priority
  <2>1. m + 1 \in 1 .. n /\ m + 1 \notin front
    <3> HIDE DEF front, n
    <3>1. m + 1 \in 1 .. n /\ m + 1 \notin 1 .. m
      BY <1>1, <1>7
    <3> QED
      BY <1>4, <3>1
  <2>2. PICK k \in 1 .. m + 1 : ~(nodes[k].priority <= priority)
    BY <1>1, <2>1
  <2>3. k = m + 1
    BY <1>6, <2>2
  <2> QED
    BY <1>1, <2>1, <2>2, <2>3
<1> HIDE DEF node
<1>8. /\ InsertAt(nodes, m + 1, node) \in Seq(Nodes)
      /\ IsInserted(InsertAt(nodes, m + 1, node), nodes, m, node)
  BY <1>1, <1>4, InsertAtPlace
<1> QED
  BY <1>4, <1>5, <1>6, <1>7, <1>8 DEF node

(* A command that ends behind all others gets its place among them.        *)
LEMMA InsertInOrder ==
  ASSUME NEW nodes \in Seq(Nodes), NEW text, NEW ends \in SUBSET Nat, NEW e \in Nat,
         InOrder(nodes, text, ends),
         \A d \in ends : d < e /\ Inside(text, d) \in Int,
         Inside(text, e) \in Int, Text(text, e) \in Seq(Symbols)
  PROVE  InOrder(qenqueue(nodes, Text(text, e), 255 - Inside(text, e)), text, ends \cup {e})
<1> DEFINE n == Len(nodes)
           depth == Inside(text, e)
           node == [command |-> Text(text, e), priority |-> 255 - depth]
           new == qenqueue(nodes, Text(text, e), 255 - depth)
<1>1. n \in Nat /\ DOMAIN nodes = 1 .. n /\ 255 - depth \in Int
  OBVIOUS
<1>0. PICK order \in [DOMAIN nodes -> ends] :
        /\ Range(order) = ends
        /\ \A j, k \in DOMAIN nodes : j < k => Before(text, order[j], order[k])
        /\ \A k \in DOMAIN nodes :
             nodes[k] = [command |-> Text(text, order[k]), priority |-> 255 - Inside(text, order[k])]
  BY Zenon DEF InOrder
<1>2. /\ order \in [1 .. n -> ends] /\ Range(order) = ends
      /\ \A j, k \in 1 .. n : j < k => Before(text, order[j], order[k])
      /\ \A k \in 1 .. n :
           nodes[k] = [command |-> Text(text, order[k]), priority |-> 255 - Inside(text, order[k])]
  <2>1. DOMAIN nodes = 1 .. n
    BY <1>1
  <2> HIDE DEF n
  <2>2. order \in [1 .. n -> ends]
    <3>1. DOMAIN order = 1 .. n /\ order = [k \in DOMAIN order |-> order[k]]
      BY <2>1
    <3>2. \A k \in DOMAIN order : order[k] \in ends
      BY <2>1, <3>1
    <3> QED
      BY <3>1, <3>2
  <2>3. \A j, k \in 1 .. n : j < k => Before(text, order[j], order[k])
    BY <1>0, <2>1
  <2>4. \A k \in 1 .. n :
          nodes[k] = [command |-> Text(text, order[k]), priority |-> 255 - Inside(text, order[k])]
    BY <1>0, <2>1
  <2> QED
    BY <1>0, <2>2, <2>3, <2>4
<1>3. PICK m \in 0 .. n :
        /\ new \in Seq(Nodes)
        /\ IsInserted(new, nodes, m, node)
        /\ \A k \in 1 .. m : nodes[k].priority <= 255 - depth
        /\ m < n => nodes[m + 1].priority > 255 - depth
  BY <1>1, QueuePlace
<1> HIDE DEF new
<1>4. DOMAIN new = 1 .. n + 1
  BY <1>1, <1>3 DEF IsInserted
<1> DEFINE at(k) == IF k <= m THEN order[k] ELSE IF k = m + 1 THEN e ELSE order[k - 1]
           longer == [k \in 1 .. n + 1 |-> at(k)]
<1>5. \A k \in 1 .. n : order[k] \in ends /\ Inside(text, order[k]) \in Int
                         /\ order[k] \in Nat /\ order[k] < e
  <2>1. \A k \in 1 .. n : order[k] \in ends
    OBVIOUS
  <2>2. \A d \in ends : d \in Nat /\ d < e /\ Inside(text, d) \in Int
    OBVIOUS
  <2> HIDE DEF n
  <2> QED
    BY <2>1, <2>2
<1>6. \A k \in 1 .. n : nodes[k].priority = 255 - Inside(text, order[k])
  <2> TAKE k \in 1 .. n
  <2>1. nodes[k] = [command |-> Text(text, order[k]), priority |-> 255 - Inside(text, order[k])]
    BY <1>2
  <2> QED
    BY <2>1
<1>7. \A k \in 1 .. m : Before(text, order[k], e)
  <2> TAKE k \in 1 .. m
  <2>1. k \in 1 .. n
    BY <1>1, <1>3
  <2>2. 255 - Inside(text, order[k]) <= 255 - depth
    BY <1>3, <1>6, <2>1
  <2> QED
    BY <1>5, <2>1, <2>2 DEF Before
<1>8. \A k \in m + 1 .. n : Before(text, e, order[k])
  <2> TAKE k \in m + 1 .. n
  <2>1. k \in 1 .. n /\ m + 1 \in 1 .. n /\ m < n
    BY <1>1, <1>3
  <2>2. 255 - Inside(text, order[m + 1]) > 255 - depth
    BY <1>3, <1>6, <2>1
  <2>3. m + 1 < k => Before(text, order[m + 1], order[k])
    BY <1>2, <2>1
  <2>4. Inside(text, order[m + 1]) >= Inside(text, order[k])
    <3>1. m + 1 = k \/ m + 1 < k
      BY <1>1, <1>3
    <3> QED
      BY <1>5, <2>1, <2>3, <3>1 DEF Before
  <2> QED
    BY <1>5, <2>1, <2>2, <2>4 DEF Before
<1>9. ASSUME NEW j \in 1 .. n + 1, NEW k \in 1 .. n + 1, j < k
      PROVE  Before(text, at(j), at(k))
  <2>1. CASE k <= m
    <3>1. j \in 1 .. n /\ k \in 1 .. n /\ j <= m
      BY <1>1, <1>3, <1>9, <2>1
    <3> QED
      BY <1>2, <1>9, <2>1, <3>1
  <2>2. CASE k = m + 1
    <3>1. j \in 1 .. m /\ j <= m /\ ~(k <= m)
      BY <1>1, <1>3, <1>9, <2>2
    <3> QED
      BY <1>7, <2>2, <3>1
  <2>3. CASE k > m + 1 /\ j = m + 1
    <3>1. k - 1 \in m + 1 .. n /\ ~(k <= m) /\ k # m + 1 /\ ~(j <= m)
      BY <1>1, <1>3, <2>3
    <3> QED
      BY <1>8, <2>3, <3>1
  <2>4. CASE k > m + 1 /\ j <= m
    <3>1. k - 1 \in 1 .. n /\ j \in 1 .. n /\ j < k - 1 /\ ~(k <= m) /\ k # m + 1
      BY <1>1, <1>3, <2>4
    <3>2. at(j) = order[j] /\ at(k) = order[k - 1]
      BY <2>4, <3>1, Zenon
    <3>3. Before(text, order[j], order[k - 1])
      <4> HIDE DEF at, n
      <4> QED
        BY <1>2, <3>1
    <3> HIDE DEF at
    <3> QED
      BY <3>2, <3>3
  <2>5. CASE k > m + 1 /\ j > m + 1
    <3>1. k - 1 \in 1 .. n /\ j - 1 \in 1 .. n /\ j - 1 < k - 1 /\ ~(k <= m) /\ k # m + 1
          /\ ~(j <= m) /\ j # m + 1
      BY <1>1, <1>3, <1>9, <2>5
    <3>2. at(j) = order[j - 1] /\ at(k) = order[k - 1]
      BY <3>1, Zenon
    <3>3. Before(text, order[j - 1], order[k - 1])
      <4> HIDE DEF at, n
      <4> QED
        BY <1>2, <3>1
    <3> HIDE DEF at
    <3> QED
      BY <3>2, <3>3
  <2> QED
    BY <1>1, <1>3, <2>1, <2>2, <2>3, <2>4, <2>5
<1>10. \A k \in 1 .. n + 1 :
         new[k] = [command |-> Text(text, at(k)), priority |-> 255 - Inside(text, at(k))]
  <2> TAKE k \in 1 .. n + 1
  <2>1. CASE k <= m
    <3>1. k \in 1 .. m /\ k \in 1 .. n
      BY <1>1, <1>3, <2>1
    <3>2. new[k] = nodes[k]
      BY <1>3, <3>1 DEF IsInserted
    <3>3. at(k) = order[k]
      BY <2>1
    <3> HIDE DEF at
    <3> QED
      BY <1>2, <3>1, <3>2, <3>3
  <2>2. CASE k = m + 1
    <3>1. ~(k <= m) /\ new[m + 1] = node
      BY <1>3, <2>2 DEF IsInserted
    <3>2. at(k) = e
      BY <2>2, <3>1
    <3> HIDE DEF at
    <3> QED
      BY <2>2, <3>1, <3>2
  <2>3. CASE k > m + 1
    <3>1. k \in m + 2 .. n + 1 /\ k - 1 \in 1 .. n /\ ~(k <= m) /\ k # m + 1
      BY <1>1, <1>3, <2>3
    <3>2. new[k] = nodes[k - 1]
      BY <1>3, <3>1 DEF IsInserted
    <3>3. at(k) = order[k - 1]
      BY <3>1
    <3> HIDE DEF at
    <3> QED
      BY <1>2, <3>1, <3>2, <3>3
  <2> QED
    BY <1>1, <1>3, <2>1, <2>2, <2>3
<1>11. \A k \in 1 .. n + 1 : at(k) \in ends \cup {e}
  <2> TAKE k \in 1 .. n + 1
  <2>1. k <= m => k \in 1 .. n
    BY <1>1, <1>3
  <2>2. k > m + 1 => k - 1 \in 1 .. n
    BY <1>1, <1>3
  <2>3. k <= m \/ k = m + 1 \/ k > m + 1
    BY <1>1, <1>3
  <2> QED
    BY <1>3, <1>5, <2>1, <2>2, <2>3
<1>12. \A d \in ends \cup {e} : \E k \in 1 .. n + 1 : at(k) = d
  <2> TAKE d \in ends \cup {e}
  <2>1. CASE d = e
    <3>1. m + 1 \in 1 .. n + 1 /\ at(m + 1) = e
      BY <1>1, <1>3
    <3> QED
      BY <2>1, <3>1
  <2>2. CASE d \in ends
    <3>1. PICK k \in 1 .. n : order[k] = d
      BY <1>2, <2>2 DEF Range
    <3>2. CASE k <= m
      <4>1. k \in 1 .. n + 1 /\ at(k) = d
        BY <1>1, <3>1, <3>2
      <4> QED
        BY <4>1
    <3>3. CASE k > m
      <4>1. k + 1 \in 1 .. n + 1 /\ (k + 1) - 1 = k /\ ~(k + 1 <= m) /\ k + 1 # m + 1
        BY <1>1, <1>3, <3>3
      <4>2. at(k + 1) = d
        BY <3>1, <4>1
      <4> QED
        BY <4>1, <4>2
    <3> QED
      BY <1>3, <3>2, <3>3
  <2> QED
    BY <2>1, <2>2
<1> HIDE DEF at
<1>13. longer \in [1 .. n + 1 -> ends \cup {e}] /\ Range(longer) = ends \cup {e}
  <2> HIDE DEF n
  <2>1. longer \in [1 .. n + 1 -> ends \cup {e}] /\ \A k \in 1 .. n + 1 : longer[k] = at(k)
    BY <1>11
  <2>2. DOMAIN longer = 1 .. n + 1
    OBVIOUS
  <2> HIDE DEF longer
  <2>3. \A x \in Range(longer) : x \in ends \cup {e}
    BY <2>1, <2>2 DEF Range
  <2>4. \A x \in ends \cup {e} : \E k \in 1 .. n + 1 : longer[k] = x
    BY <1>12, <2>1
  <2>5. \A x \in ends \cup {e} : x \in Range(longer)
    BY <2>2, <2>4 DEF Range
  <2>6. Range(longer) = ends \cup {e}
    BY <2>3, <2>5
  <2> QED
    BY <2>1, <2>6
<1>14. /\ \A j, k \in 1 .. n + 1 : j < k => Before(text, longer[j], longer[k])
       /\ \A k \in 1 .. n + 1 :
            new[k] = [command |-> Text(text, longer[k]), priority |-> 255 - Inside(text, longer[k])]
  BY <1>9, <1>10
<1> HIDE DEF longer
<1>15. InOrder(new, text, ends \cup {e})
  <2> HIDE DEF n
  <2>1. longer \in [DOMAIN new -> ends \cup {e}]
    BY <1>4, <1>13
  <2>2. \A j, k \in DOMAIN new : j < k => Before(text, longer[j], longer[k])
    BY <1>4, <1>14
  <2>3. \A k \in DOMAIN new :
          new[k] = [command |-> Text(text, longer[k]), priority |-> 255 - Inside(text, longer[k])]
    BY <1>4, <1>14
  <2>4. /\ Range(longer) = ends \cup {e}
        /\ \A j, k \in DOMAIN new : j < k => Before(text, longer[j], longer[k])
        /\ \A k \in DOMAIN new :
             new[k] = [command |-> Text(text, longer[k]), priority |-> 255 - Inside(text, longer[k])]
    BY <1>13, <2>2, <2>3
  <2>5. \E places \in [DOMAIN new -> ends \cup {e}] :
          /\ Range(places) = ends \cup {e}
          /\ \A j, k \in DOMAIN new : j < k => Before(text, places[j], places[k])
          /\ \A k \in DOMAIN new :
               new[k] = [command |-> Text(text, places[k]), priority |-> 255 - Inside(text, places[k])]
    BY <2>1, <2>4, Zenon
  <2> QED
    BY <2>5, Zenon DEF InOrder
<1> QED
  BY <1>15 DEF new

Classes == {SPACE, COMMA, LPAREN, RPAREN, PUNCT, UNCLASSED}

(* The classes differ from each other and from words.                      *)
LEMMA ClassesDiffer ==
  /\ SPACE # COMMA /\ SPACE # LPAREN /\ SPACE # RPAREN /\ SPACE # PUNCT /\ SPACE # UNCLASSED
  /\ COMMA # LPAREN /\ COMMA # RPAREN /\ COMMA # PUNCT /\ COMMA # UNCLASSED
  /\ LPAREN # RPAREN /\ LPAREN # PUNCT /\ LPAREN # UNCLASSED
  /\ RPAREN # PUNCT /\ RPAREN # UNCLASSED /\ PUNCT # UNCLASSED
  /\ Classes \cap Words = {} /\ Symbols = Words \cup Classes
  /\ ALNUM \notin Classes /\ ERROR \notin Classes /\ ALNUM # ERROR
  /\ "end" \notin Words /\ "end" \notin Classes
BY WordsAssumption DEF Classes, Symbols, SPACE, COMMA, LPAREN, RPAREN, PUNCT, UNCLASSED, ALNUM, ERROR

States == {SPACE, COMMA, LPAREN, RPAREN, PUNCT, ALNUM, ERROR}

(* What tokenizer knows, as a type.                                        *)
Known == [state : States, priority : Int, token : Seq(Symbols), stacked : 0 .. MAXSIZE,
          queue : Seq(Nodes), end : {"reading", "rejected", "endless"}]

(* Which character is read.                                                *)
LEMMA TokenByClass ==
  ASSUME NEW t, NEW text, NEW i
  PROVE  /\ t.end # "reading" => Token(t, text, i) = t
         /\ t.end = "reading" =>
              /\ text[i] = SPACE => Token(t, text, i) = Space(t)
              /\ text[i] = COMMA => Token(t, text, i) = Comma(t, Closing(text, i))
              /\ text[i] = LPAREN => Token(t, text, i) = Left(t)
              /\ text[i] = RPAREN => Token(t, text, i) = Right(t)
              /\ text[i] = PUNCT => Token(t, text, i) = Punct(t)
              /\ text[i] = UNCLASSED => Token(t, text, i) = Unclassed(t)
              /\ text[i] \in Words => Token(t, text, i) = Alnum(t, text[i], BehindComma(text, i))
<1>1. t.end # "reading" => Token(t, text, i) = t
  BY DEF Token
<1>2. ASSUME t.end = "reading", text[i] \in Words
      PROVE  Token(t, text, i) = Alnum(t, text[i], BehindComma(text, i))
  BY <1>2, ClassesDiffer DEF Token, Classes
<1>3. ASSUME t.end = "reading"
      PROVE  /\ text[i] = SPACE => Token(t, text, i) = Space(t)
             /\ text[i] = COMMA => Token(t, text, i) = Comma(t, Closing(text, i))
             /\ text[i] = LPAREN => Token(t, text, i) = Left(t)
             /\ text[i] = RPAREN => Token(t, text, i) = Right(t)
             /\ text[i] = PUNCT => Token(t, text, i) = Punct(t)
             /\ text[i] = UNCLASSED => Token(t, text, i) = Unclassed(t)
  BY <1>3, ClassesDiffer DEF Token
<1> QED
  BY <1>1, <1>2, <1>3

-----------------------------------------------------------------------------
(* What is so of every line: no command has a priority beyond 255, since   *)
(* the priority is no less than the parentheses on the stack and those     *)
(* that are closed and not subtracted yet.                                 *)
LowPriorities(nodes) == \A k \in DOMAIN nodes : nodes[k].priority <= 255

ReadsLine(text, i, t) ==
  /\ t \in Known /\ LowPriorities(t.queue)
  /\ t.end = "reading" => t.priority >= t.stacked + Closing(text, i + 1)

(* A command of a priority up to 255 raises no priority above it.          *)
LEMMA QueueLow ==
  ASSUME NEW nodes \in Seq(Nodes), NEW command \in Seq(Symbols), NEW priority \in Int,
         LowPriorities(nodes), priority <= 255
  PROVE  LowPriorities(qenqueue(nodes, command, priority))
<1> DEFINE new == qenqueue(nodes, command, priority)
           node == [command |-> command, priority |-> priority]
<1>1. PICK m \in 0 .. Len(nodes) : new \in Seq(Nodes) /\ IsInserted(new, nodes, m, node)
  BY QueuePlace
<1>2. node.priority <= 255 /\ DOMAIN nodes = 1 .. Len(nodes) /\ Len(nodes) \in Nat
  OBVIOUS
<1> HIDE DEF new, node
<1>3. DOMAIN new = 1 .. Len(nodes) + 1
  BY <1>1 DEF IsInserted
<1>4. ASSUME NEW k \in 1 .. Len(nodes) + 1 PROVE new[k].priority <= 255
  <2>1. CASE k <= m
    <3>1. k \in 1 .. m /\ k \in DOMAIN nodes
      BY <1>1, <1>2, <2>1
    <3> QED
      BY <1>1, <3>1 DEF IsInserted, LowPriorities
  <2>2. CASE k = m + 1
    BY <1>1, <1>2, <2>2 DEF IsInserted
  <2>3. CASE k > m + 1
    <3>1. k \in m + 2 .. Len(nodes) + 1 /\ k - 1 \in DOMAIN nodes
      BY <1>1, <1>2, <2>3
    <3> QED
      BY <1>1, <3>1 DEF IsInserted, LowPriorities
  <2> QED
    BY <1>1, <1>2, <2>1, <2>2, <2>3
<1>5. LowPriorities(new)
  BY <1>3, <1>4 DEF LowPriorities
<1> QED
  BY <1>5 DEF new

(* It is so before the first character.                                    *)
LEMMA StartedReads ==
  ASSUME NEW text
  PROVE  ReadsLine(text, 0, Started)
<1>1. Closing(text, 1) = 0 /\ MAXSIZE \in Nat /\ 0 + 1 = 1
  BY ClosingStep, StackAssumption
<1>2. << >> \in Seq(Symbols) /\ << >> \in Seq(Nodes) /\ DOMAIN << >> = {}
  OBVIOUS
<1>3. Started \in Known /\ Started.queue = << >> /\ Started.priority = 0 /\ Started.stacked = 0
  BY <1>1, <1>2 DEF Started, Known, States
<1> QED
  BY <1>1, <1>2, <1>3 DEF ReadsLine, LowPriorities

(* The fields of what tokenizer knows, after each class of character.      *)
LEMMA SpaceFields ==
  ASSUME NEW t \in Known
  PROVE  /\ Space(t) \in Known
         /\ Space(t).state = SPACE
         /\ Space(t).token = IF t.state \in {COMMA, ERROR, SPACE} THEN t.token
                             ELSE Append(t.token, SPACE)
         /\ Space(t).priority = t.priority /\ Space(t).stacked = t.stacked
         /\ Space(t).queue = t.queue /\ Space(t).end = t.end
<1>1. SPACE \in Symbols
  BY DEF Symbols
<1>2. t.token \in Seq(Symbols) /\ Append(t.token, SPACE) \in Seq(Symbols)
  BY <1>1 DEF Known
<1> QED
  BY <1>2 DEF Space, Known, States

(* A comma queues the token and takes back the parentheses that closed.    *)
LEMMA CommaFields ==
  ASSUME NEW t \in Known, NEW closing \in Int
  PROVE  /\ Comma(t, closing) \in Known
         /\ Comma(t, closing).state = COMMA /\ Comma(t, closing).token = << >>
         /\ Comma(t, closing).priority = t.priority - closing
         /\ Comma(t, closing).stacked = t.stacked
         /\ Comma(t, closing).queue = qenqueue(t.queue, t.token, 255 - t.priority)
         /\ Comma(t, closing).end = t.end
<1> DEFINE nodes == qenqueue(t.queue, t.token, 255 - t.priority)
<1>1. t.queue \in Seq(Nodes) /\ t.token \in Seq(Symbols) /\ 255 - t.priority \in Int
      /\ t.priority - closing \in Int /\ << >> \in Seq(Symbols)
  BY DEF Known
<1>2. nodes \in Seq(Nodes)
  BY <1>1, QueuePlace
<1>3. Comma(t, closing) = [t EXCEPT !.queue = nodes, !.priority = t.priority - closing,
                                    !.token = << >>, !.state = COMMA]
  BY DEF Comma, Known
<1> HIDE DEF nodes
<1>4. /\ Comma(t, closing) \in Known
      /\ Comma(t, closing).state = COMMA /\ Comma(t, closing).token = << >>
      /\ Comma(t, closing).priority = t.priority - closing
      /\ Comma(t, closing).stacked = t.stacked
      /\ Comma(t, closing).queue = nodes
      /\ Comma(t, closing).end = t.end
  BY <1>1, <1>2, <1>3 DEF Known, States
<1> QED
  BY <1>4 DEF nodes

(* A left parenthesis, which only some states allow.                       *)
LEMMA LeftFields ==
  ASSUME NEW t \in Known
  PROVE  /\ Left(t) \in Known
         /\ Left(t).state = LPAREN /\ Left(t).token = t.token
         /\ Left(t).priority = t.priority + 1
         /\ Left(t).stacked = IF t.stacked = MAXSIZE THEN t.stacked ELSE t.stacked + 1
         /\ Left(t).queue = t.queue
         /\ Left(t).end = IF t.state \in {COMMA, LPAREN, ERROR, SPACE} THEN t.end ELSE "rejected"
<1> DEFINE opened == [t EXCEPT !.stacked = spush(t.stacked), !.priority = t.priority + 1,
                               !.state = LPAREN]
<1>1. spush(t.stacked) \in 0 .. MAXSIZE /\ t.priority + 1 \in Int
  BY StackAssumption DEF Known, spush
<1>2. Left(t) = IF t.state \in {COMMA, LPAREN, ERROR, SPACE} THEN opened ELSE Rejected(opened)
  BY DEF Left, Known
<1>3. /\ opened \in Known /\ opened.state = LPAREN /\ opened.token = t.token
      /\ opened.priority = t.priority + 1 /\ opened.stacked = spush(t.stacked)
      /\ opened.queue = t.queue /\ opened.end = t.end
  BY <1>1 DEF Known, States
<1> HIDE DEF opened
<1>4. /\ Rejected(opened) \in Known /\ Rejected(opened).state = LPAREN
      /\ Rejected(opened).token = t.token
      /\ Rejected(opened).priority = t.priority + 1 /\ Rejected(opened).stacked = spush(t.stacked)
      /\ Rejected(opened).queue = t.queue /\ Rejected(opened).end = "rejected"
  BY <1>3 DEF Known, Rejected
<1> QED
  BY <1>2, <1>3, <1>4 DEF spush

(* A right parenthesis, which needs one on the stack.                      *)
LEMMA RightFields ==
  ASSUME NEW t \in Known
  PROVE  /\ Right(t) \in Known /\ Right(t).queue = t.queue
         /\ Right(t).priority = t.priority /\ Right(t).token = t.token
         /\ t.stacked = 0 => Right(t).end = "rejected"
         /\ t.stacked # 0 =>
              /\ Right(t).stacked = t.stacked - 1 /\ Right(t).state = RPAREN
              /\ Right(t).end = IF t.state \in {ALNUM, SPACE, COMMA, RPAREN} THEN t.end
                                ELSE "rejected"
<1> DEFINE closed == [t EXCEPT !.stacked = t.stacked - 1, !.state = RPAREN]
<1>1. CASE t.stacked = 0
  BY <1>1 DEF Right, Rejected, Known
<1>2. CASE t.stacked # 0
  <2>1. t.stacked - 1 \in 0 .. MAXSIZE
    BY <1>2, StackAssumption DEF Known
  <2>2. Right(t) = IF t.state \in {ALNUM, SPACE, COMMA, RPAREN} THEN closed ELSE Rejected(closed)
    BY <1>2 DEF Right, Known
  <2>3. /\ closed \in Known /\ closed.state = RPAREN /\ closed.token = t.token
        /\ closed.priority = t.priority /\ closed.stacked = t.stacked - 1
        /\ closed.queue = t.queue /\ closed.end = t.end
    BY <2>1 DEF Known, States
  <2> HIDE DEF closed
  <2>4. /\ Rejected(closed) \in Known /\ Rejected(closed).state = RPAREN
        /\ Rejected(closed).token = t.token
        /\ Rejected(closed).priority = t.priority /\ Rejected(closed).stacked = t.stacked - 1
        /\ Rejected(closed).queue = t.queue /\ Rejected(closed).end = "rejected"
    BY <2>3 DEF Known, Rejected
  <2> QED
    BY <1>2, <2>2, <2>3, <2>4
<1> QED
  BY <1>1, <1>2

(* A character of punctuation becomes part of the token.                   *)
LEMMA PunctFields ==
  ASSUME NEW t \in Known
  PROVE  /\ Punct(t) \in Known
         /\ Punct(t).state = PUNCT /\ Punct(t).token = Append(t.token, PUNCT)
         /\ Punct(t).priority = t.priority /\ Punct(t).stacked = t.stacked
         /\ Punct(t).queue = t.queue /\ Punct(t).end = t.end
<1>1. PUNCT \in Symbols
  BY DEF Symbols
<1>2. t.token \in Seq(Symbols) /\ Append(t.token, PUNCT) \in Seq(Symbols)
  BY <1>1 DEF Known
<1> QED
  BY <1>2 DEF Punct, Known, States

(* So does a word, except behind a right parenthesis.                      *)
LEMMA AlnumFields ==
  ASSUME NEW t \in Known, NEW word \in Words, NEW behindComma
  PROVE  /\ Alnum(t, word, behindComma) \in Known
         /\ Alnum(t, word, behindComma).priority = t.priority
         /\ Alnum(t, word, behindComma).stacked = t.stacked
         /\ Alnum(t, word, behindComma).queue = t.queue
         /\ Alnum(t, word, behindComma).end \in {t.end, "rejected"}
         /\ t.state # RPAREN =>
              /\ Alnum(t, word, behindComma).state = ALNUM
              /\ Alnum(t, word, behindComma).token = Append(t.token, word)
              /\ Alnum(t, word, behindComma).end = t.end
<1>1. word \in Symbols
  BY DEF Symbols
<1>2. t.token \in Seq(Symbols) /\ Append(t.token, word) \in Seq(Symbols)
  BY <1>1 DEF Known
<1> DEFINE read == [t EXCEPT !.token = Append(t.token, word), !.state = ALNUM]
<1>3. /\ read \in Known /\ read.priority = t.priority /\ read.stacked = t.stacked
      /\ read.queue = t.queue /\ read.end = t.end
      /\ read.state = ALNUM /\ read.token = Append(t.token, word)
  BY <1>2 DEF Known, States
<1>4. /\ Rejected(t) \in Known /\ Rejected(t).priority = t.priority
      /\ Rejected(t).stacked = t.stacked /\ Rejected(t).queue = t.queue
      /\ Rejected(t).end = "rejected"
  BY DEF Known, Rejected
<1>5. Alnum(t, word, behindComma) = IF t.state = RPAREN /\ ~behindComma THEN Rejected(t) ELSE read
  BY DEF Alnum, Known
<1> HIDE DEF read
<1> QED
  BY <1>3, <1>4, <1>5

(* A character of no class ends the reading.                               *)
LEMMA UnclassedFields ==
  ASSUME NEW t \in Known
  PROVE  /\ Unclassed(t) \in Known /\ Unclassed(t).queue = t.queue
         /\ Unclassed(t).end # "reading"
BY DEF Unclassed, Rejected, Known

(* Every character keeps the priority at least as high as the stack.       *)
LEMMA TokenReads ==
  ASSUME NEW text \in Seq(Symbols), NEW i \in 0 .. Len(text) - 1, NEW t, ReadsLine(text, i, t)
  PROVE  ReadsLine(text, i + 1, Token(t, text, i + 1))
<1> DEFINE at == i + 1
           u == Token(t, text, at)
<1>1. /\ i \in Nat /\ at \in Nat \ {0} /\ at \in 1 .. Len(text) /\ text[at] \in Symbols
      /\ Closing(text, at) \in Nat
      /\ Closing(text, at + 1) = IF text[at] = RPAREN THEN Closing(text, at) + 1 ELSE 0
  <2>1. Len(text) \in Nat
    OBVIOUS
  <2>2. i \in Nat /\ at \in Nat \ {0} /\ at \in 1 .. Len(text)
    BY <2>1
  <2> HIDE DEF at
  <2> QED
    BY <2>2, ClosingStep
<1> HIDE DEF at
<1>2. /\ t \in Known /\ LowPriorities(t.queue)
      /\ t.end = "reading" => t.priority >= t.stacked + Closing(text, at)
      /\ t.priority \in Int /\ t.stacked \in Nat /\ MAXSIZE \in Nat /\ t.stacked <= MAXSIZE
  BY StackAssumption DEF ReadsLine, Known, at
<1>3. SUFFICES /\ u \in Known /\ LowPriorities(u.queue)
               /\ u.end = "reading" => u.priority >= u.stacked + Closing(text, at + 1)
  BY DEF ReadsLine, at
<1>4. CASE t.end # "reading"
  BY <1>2, <1>4, TokenByClass
<1>5. CASE t.end = "reading" /\ text[at] = SPACE
  <2>1. u = Space(t)
    BY <1>5, TokenByClass
  <2> QED
    BY <1>1, <1>2, <1>5, <2>1, SpaceFields, ClassesDiffer
<1>6. CASE t.end = "reading" /\ text[at] = COMMA
  <2>1. u = Comma(t, Closing(text, at)) /\ Closing(text, at) \in Int
    BY <1>1, <1>6, TokenByClass
  <2>2. LowPriorities(u.queue)
    <3>1. t.queue \in Seq(Nodes) /\ t.token \in Seq(Symbols) /\ 255 - t.priority \in Int
          /\ 255 - t.priority <= 255
      BY <1>1, <1>2, <1>6 DEF Known
    <3>2. LowPriorities(qenqueue(t.queue, t.token, 255 - t.priority))
      BY <1>2, <3>1, QueueLow
    <3> QED
      BY <1>2, <2>1, <3>2, CommaFields
  <2>3. /\ u \in Known /\ u.priority = t.priority - Closing(text, at) /\ u.stacked = t.stacked
        /\ Closing(text, at + 1) = 0
    <3>1. u \in Known /\ u.priority = t.priority - Closing(text, at) /\ u.stacked = t.stacked
      <4>1. PICK closing \in Int : closing = Closing(text, at) /\ u = Comma(t, closing)
        BY <2>1
      <4> HIDE DEF u
      <4>2. /\ Comma(t, closing) \in Known /\ Comma(t, closing).stacked = t.stacked
            /\ Comma(t, closing).priority = t.priority - closing
        BY <1>2, CommaFields
      <4> QED
        BY <4>1, <4>2
    <3>2. Closing(text, at + 1) = 0
      BY <1>1, <1>6, ClassesDiffer
    <3> QED
      BY <3>1, <3>2
  <2>4. u.priority >= u.stacked + Closing(text, at + 1)
    BY <1>1, <1>2, <1>6, <2>3
  <2> QED
    BY <2>2, <2>3, <2>4
<1>7. CASE t.end = "reading" /\ text[at] = LPAREN
  <2>1. u = Left(t)
    BY <1>7, TokenByClass
  <2>2. /\ u \in Known /\ u.queue = t.queue /\ u.priority = t.priority + 1
        /\ u.stacked \in Int /\ u.stacked <= t.stacked + 1
    <3>1. t.stacked \in Int
      BY <1>2, StackAssumption DEF Known
    <3> HIDE DEF u
    <3> QED
      BY <1>2, <2>1, <3>1, LeftFields
  <2> HIDE DEF u
  <2>3. u.priority >= u.stacked + Closing(text, at + 1)
    <3>1. Closing(text, at + 1) = 0
      BY <1>1, <1>7, ClassesDiffer
    <3>2. t.priority >= t.stacked /\ t.priority \in Int /\ t.stacked \in Int
      BY <1>1, <1>2, <1>7
    <3>3. u.priority = t.priority + 1 /\ u.stacked \in Int /\ u.stacked <= t.stacked + 1
      BY <2>2
    <3> QED
      BY <3>1, <3>2, <3>3
  <2> QED
    BY <1>2, <2>2, <2>3
<1>8. CASE t.end = "reading" /\ text[at] = RPAREN
  <2>1. u = Right(t)
    BY <1>8, TokenByClass
  <2>2. /\ u \in Known /\ u.queue = t.queue /\ u.priority = t.priority
        /\ t.stacked = 0 => u.end = "rejected"
        /\ t.stacked # 0 => u.stacked = t.stacked - 1
    <3> HIDE DEF u
    <3> QED
      BY <1>2, <2>1, RightFields, Zenon
  <2> HIDE DEF u
  <2>3. ASSUME u.end = "reading" PROVE u.priority >= u.stacked + Closing(text, at + 1)
    <3>1. t.stacked # 0
      BY <2>2, <2>3
    <3>2. Closing(text, at + 1) = Closing(text, at) + 1 /\ Closing(text, at) \in Int
      BY <1>1, <1>8
    <3>3. u.priority >= t.stacked + Closing(text, at) /\ u.stacked = t.stacked - 1
      BY <1>2, <1>8, <2>2, <3>1
    <3>4. t.stacked \in Int
      BY <1>2
    <3> QED
      BY <3>2, <3>3, <3>4
  <2> QED
    BY <1>2, <2>2, <2>3
<1>9. CASE t.end = "reading" /\ text[at] = PUNCT
  <2>1. u = Punct(t)
    BY <1>9, TokenByClass
  <2> QED
    BY <1>1, <1>2, <1>9, <2>1, PunctFields, ClassesDiffer
<1>10. CASE t.end = "reading" /\ text[at] = UNCLASSED
  <2>1. u = Unclassed(t)
    BY <1>10, TokenByClass
  <2> QED
    BY <1>2, <2>1, UnclassedFields
<1>11. CASE t.end = "reading" /\ text[at] \in Words
  <2>1. u = Alnum(t, text[at], BehindComma(text, at))
    BY <1>11, TokenByClass
  <2>2. text[at] # RPAREN
    BY <1>11, ClassesDiffer DEF Classes
  <2> QED
    BY <1>1, <1>2, <1>11, <2>1, <2>2, AlnumFields
<1> QED
  BY <1>1, <1>4, <1>5, <1>6, <1>7, <1>8, <1>9, <1>10, <1>11 DEF Symbols

(* tokenizer.c:47 and 55: of any line at all, well-formed or not, the      *)
(* tokenizer queues nodes of symbols with a priority of at most 255: the   *)
(* priority never drops below the parentheses that are open, so that no    *)
(* comma takes back more of them than were opened.                         *)
THEOREM TokenizerLow ==
  ASSUME NEW text \in Seq(Symbols)
  PROVE  tokenizer(text) \in Known /\ LowPriorities(tokenizer(text).queue)
<1> DEFINE Ok == {x \in Nat \X Known : ReadsLine(text, x[1], x[2])}
<1>1. <<0, Started>> \in Ok
  BY StartedReads DEF ReadsLine
<1>2. ASSUME NEW t, NEW i \in 0 .. Len(text) - 1, <<i, t>> \in Ok
      PROVE  <<i + 1, Token(t, text, i + 1)>> \in Ok
  <2>1. ReadsLine(text, i, t)
    BY <1>2
  <2>2. ReadsLine(text, i + 1, Token(t, text, i + 1))
    BY <2>1, TokenReads
  <2>3. Token(t, text, i + 1) \in Known
    BY <2>2 DEF ReadsLine
  <2> QED
    BY <2>2, <2>3
<1>3. <<Len(text), tokenizer(text)>> \in Ok
  <2> HIDE DEF Ok
  <2> QED
    BY <1>1, <1>2, TokenizerInduction
<1>4. ReadsLine(text, Len(text), tokenizer(text))
  BY <1>3
<1> QED
  BY <1>4 DEF ReadsLine

(* The greatest element, when there is one.                                *)
LEMMA MaxIs ==
  ASSUME NEW S, S \subseteq Int, NEW m \in S, \A y \in S : y <= m
  PROVE  Max(S) = m
<1>1. \A x \in S : (\A y \in S : x >= y) => x = m
  OBVIOUS
<1>2. \A y \in S : m >= y
  OBVIOUS
<1>3. Max(S) \in S /\ \A y \in S : Max(S) >= y
  BY <1>2, Zenon DEF Max
<1> QED
  BY <1>1, <1>3

(* The least element, when there is one.                                   *)
LEMMA MinIs ==
  ASSUME NEW S, S \subseteq Int, NEW m \in S, \A y \in S : m <= y
  PROVE  Min(S) = m
<1>1. \A x \in S : (\A y \in S : x =< y) => x = m
  OBVIOUS
<1>2. \A y \in S : m =< y
  OBVIOUS
<1>3. Min(S) \in S /\ \A y \in S : Min(S) =< y
  BY <1>2, Zenon DEF Min
<1> QED
  BY <1>1, <1>3

(* What may follow in a well-formed line.                                  *)
LEMMA Following ==
  ASSUME NEW typed \in Seq(Symbols), WellFormed(typed)
  PROVE  /\ Len(typed) \in Nat \ {0}
         /\ typed[1] \in Words \cup {PUNCT, LPAREN}
         /\ \A i \in 1 .. Len(typed) : Depth(typed, i) \in 0 .. MAXSIZE
         /\ \A i \in 1 .. Len(typed) : typed[i] \in Words \cup {SPACE, COMMA, LPAREN, RPAREN, PUNCT}
<1>1. Len(typed) \in Nat \ {0} /\ DOMAIN typed = 1 .. Len(typed)
  BY DEF WellFormed
<1>2. ASSUME NEW i \in 1 .. Len(typed)
      PROVE  typed[i] \in Words \cup {SPACE, COMMA, LPAREN, RPAREN, PUNCT}
  <2>1. typed[i] \in Words \cup Classes
    BY <1>1, ClassesDiffer
  <2>2. Follows(typed, i)
    BY <1>1 DEF WellFormed
  <2>3. typed[i] # UNCLASSED
    BY <2>2, ClassesDiffer DEF Follows, Classes
  <2> QED
    BY <2>1, <2>3 DEF Classes
<1> QED
  BY <1>1, <1>2 DEF WellFormed

(* Which symbol may follow which.                                          *)
LEMMA FollowsNext ==
  ASSUME NEW typed \in Seq(Symbols), WellFormed(typed), NEW i \in 1 .. Len(typed) - 1
  PROVE  /\ typed[i] \in Words => typed[i + 1] \in {SPACE, COMMA, RPAREN, PUNCT}
         /\ typed[i] = PUNCT => typed[i + 1] \in Words \cup {PUNCT, SPACE, COMMA}
         /\ typed[i] = SPACE => typed[i + 1] \in Words \cup {PUNCT, LPAREN}
         /\ typed[i] = SPACE /\ typed[i + 1] = LPAREN => typed[i - 1] = COMMA
         /\ typed[i] = COMMA => typed[i + 1] \in Words \cup {PUNCT, LPAREN, SPACE}
         /\ typed[i] = LPAREN => typed[i + 1] \in Words \cup {PUNCT, LPAREN}
         /\ typed[i] = RPAREN => typed[i + 1] \in {RPAREN, COMMA}
<1>1. i # Len(typed) /\ i \in DOMAIN typed /\ i + 1 \in DOMAIN typed
  OBVIOUS
<1>2. Follows(typed, i) /\ typed[i + 1] # "end"
  <2>1. typed[i + 1] \in Words \cup Classes
    BY <1>1, ClassesDiffer
  <2> QED
    BY <1>1, <2>1, ClassesDiffer DEF WellFormed
<1>3. typed[i] \in Words => typed[i + 1] \in {SPACE, COMMA, RPAREN, PUNCT}
  BY <1>1, <1>2, ClassesDiffer DEF Follows, Classes
<1>4. typed[i] = PUNCT => typed[i + 1] \in Words \cup {PUNCT, SPACE, COMMA}
  BY <1>1, <1>2, ClassesDiffer DEF Follows, Classes
<1>5. /\ typed[i] = SPACE => typed[i + 1] \in Words \cup {PUNCT, LPAREN}
      /\ typed[i] = SPACE /\ typed[i + 1] = LPAREN => typed[i - 1] = COMMA
  BY <1>1, <1>2, ClassesDiffer DEF Follows, Classes
<1>6. typed[i] = COMMA => typed[i + 1] \in Words \cup {PUNCT, LPAREN, SPACE}
  BY <1>1, <1>2, ClassesDiffer DEF Follows, Classes
<1>7. typed[i] = LPAREN => typed[i + 1] \in Words \cup {PUNCT, LPAREN}
  BY <1>1, <1>2, ClassesDiffer DEF Follows, Classes
<1>8. typed[i] = RPAREN => typed[i + 1] \in {RPAREN, COMMA}
  BY <1>1, <1>2, ClassesDiffer DEF Follows, Classes
<1> QED
  BY <1>3, <1>4, <1>5, <1>6, <1>7, <1>8

(* With which symbol the line may end.                                     *)
LEMMA FollowsLast ==
  ASSUME NEW typed \in Seq(Symbols), WellFormed(typed)
  PROVE  typed[Len(typed)] \in Words \cup {PUNCT, RPAREN}
<1> DEFINE n == Len(typed)
<1>1. n \in 1 .. n /\ n \in DOMAIN typed
  BY Following
<1>2. Follows(typed, n) /\ typed[n] \in Words \cup Classes
  BY <1>1, ClassesDiffer DEF WellFormed
<1>3. ~("end" \in Words \cup {PUNCT}) /\ "end" # SPACE /\ "end" # LPAREN
  BY ClassesDiffer DEF Classes
<1> HIDE DEF n
<1>4. typed[n] # COMMA /\ typed[n] # LPAREN
  BY <1>2, <1>3, ClassesDiffer DEF Follows, Classes, n
<1>5. typed[n] # SPACE
  BY <1>2, <1>3, ClassesDiffer DEF Follows, Classes, n
<1>6. typed[n] # UNCLASSED
  BY <1>2, ClassesDiffer DEF Follows, Classes
<1> QED
  BY <1>2, <1>4, <1>5, <1>6 DEF Classes, n

(* Where a command begins, place by place.                                 *)
LEMMA BeginStep ==
  ASSUME NEW typed \in Seq(Symbols)
  PROVE  /\ Begin(typed, 1) = 1
         /\ \A i \in 1 .. Len(typed) + 1 : Begin(typed, i) \in 1 .. i
         /\ \A i \in 1 .. Len(typed) :
              Begin(typed, i + 1) = IF typed[i] = COMMA THEN i + 1 ELSE Begin(typed, i)
<1> DEFINE Commas(e) == {0} \cup {i \in Ends(typed) : i < e}
           n == Len(typed)
<1>1. n \in Nat /\ DOMAIN typed = 1 .. n
  OBVIOUS
<1>2. \A e : Begin(typed, e) = Max(Commas(e)) + 1
  BY DEF Begin
<1>3. ASSUME NEW e \in 1 .. n + 1
      PROVE  Commas(e) = {0} \cup {i \in 1 .. e - 1 : typed[i] = COMMA}
  BY <1>1, <1>3 DEF Ends
<1> HIDE DEF Commas, n
<1>4. Max(Commas(1)) = 0
  <2>1. 1 \in 1 .. n + 1
    BY <1>1
  <2>2. Commas(1) = {0}
    BY <1>3, <2>1
  <2>3. {0} \subseteq Int /\ 0 \in {0} /\ \A y \in {0} : y <= 0
    OBVIOUS
  <2>4. Max({0}) = 0
    BY <2>3, MaxIs
  <2> QED
    BY <2>2, <2>4
<1>5. ASSUME NEW i \in 1 .. n
      PROVE  Max(Commas(i + 1)) = IF typed[i] = COMMA THEN i ELSE Max(Commas(i))
  <2>1. i \in 1 .. n + 1 /\ i + 1 \in 1 .. n + 1 /\ (i + 1) - 1 = i
    BY <1>1
  <2>2. CASE typed[i] = COMMA
    <3>1. i \in Commas(i + 1) /\ Commas(i + 1) \subseteq Int /\ \A y \in Commas(i + 1) : y <= i
      BY <1>3, <2>1, <2>2
    <3> QED
      BY <2>2, <3>1, MaxIs
  <2>3. CASE typed[i] # COMMA
    <3>1. {j \in 1 .. i : typed[j] = COMMA} = {j \in 1 .. i - 1 : typed[j] = COMMA}
      BY <2>1, <2>3
    <3>2. Commas(i + 1) = {0} \cup {j \in 1 .. i : typed[j] = COMMA}
      BY <1>3, <2>1
    <3>3. Commas(i) = {0} \cup {j \in 1 .. i - 1 : typed[j] = COMMA}
      BY <1>3, <2>1
    <3>4. Commas(i + 1) = Commas(i)
      BY <3>1, <3>2, <3>3
    <3> QED
      BY <2>3, <3>4
  <2> QED
    BY <2>2, <2>3
<1> DEFINE S == {i \in Nat : i + 1 \in 1 .. n + 1 => Max(Commas(i + 1)) \in 0 .. i}
<1>6. 0 \in S
  BY <1>4
<1>7. ASSUME NEW i \in Nat, i \in S PROVE i + 1 \in S
  <2> SUFFICES ASSUME (i + 1) + 1 \in 1 .. n + 1 PROVE Max(Commas((i + 1) + 1)) \in 0 .. i + 1
    OBVIOUS
  <2>1. i + 1 \in 1 .. n /\ i + 1 \in 1 .. n + 1
    BY <1>1
  <2>2. Max(Commas(i + 1)) \in 0 .. i
    BY <1>7, <2>1
  <2>3. Max(Commas((i + 1) + 1)) \in {i + 1, Max(Commas(i + 1))}
    BY <1>5, <2>1
  <2> QED
    BY <2>2, <2>3
<1> HIDE DEF S
<1>8. Nat \subseteq S
  BY <1>6, <1>7, NumberInduction
<1>9. ASSUME NEW i \in 1 .. n + 1 PROVE Begin(typed, i) \in 1 .. i
  <2>1. i - 1 \in Nat /\ (i - 1) + 1 = i
    BY <1>1
  <2>2. Max(Commas(i)) \in 0 .. i - 1
    BY <1>8, <2>1 DEF S
  <2> QED
    BY <1>2, <2>2
<1>10. ASSUME NEW i \in 1 .. n
       PROVE  Begin(typed, i + 1) = IF typed[i] = COMMA THEN i + 1 ELSE Begin(typed, i)
  BY <1>2, <1>5
<1>11. Begin(typed, 1) = 1
  BY <1>2, <1>4
<1> QED
  BY <1>9, <1>10, <1>11 DEF n

(* Which places have the text, place by place.                             *)
IsText(typed, i) == typed[i] \notin {LPAREN, RPAREN} /\ (i = Begin(typed, i) => typed[i] # SPACE)

(* The text of a command gets one place more or stays as it is.            *)
LEMMA TextPlacesStep ==
  ASSUME NEW typed \in Seq(Symbols), NEW i \in 1 .. Len(typed), typed[i] # COMMA
  PROVE  TextPlaces(typed, i + 1) = TextPlaces(typed, i) \cup IF IsText(typed, i) THEN {i} ELSE {}
<1>1. Begin(typed, i + 1) = Begin(typed, i) /\ Begin(typed, i) \in 1 .. i
  BY BeginStep
<1>2. (i + 1) - 1 = i /\ i - 1 \in Nat
  OBVIOUS
<1>3. Begin(typed, i) .. i = Begin(typed, i) .. i - 1 \cup {i}
  BY <1>1
<1> QED
  BY <1>1, <1>2, <1>3 DEF TextPlaces, IsText

(* At the start and behind a comma it has none.                            *)
LEMMA NoTextYet ==
  ASSUME NEW typed \in Seq(Symbols)
  PROVE  /\ TextPlaces(typed, 1) = {}
         /\ \A i \in 1 .. Len(typed) : typed[i] = COMMA => TextPlaces(typed, i + 1) = {}
<1>1. TextPlaces(typed, 1) = {}
  BY BeginStep DEF TextPlaces
<1>2. ASSUME NEW i \in 1 .. Len(typed), typed[i] = COMMA
      PROVE  TextPlaces(typed, i + 1) = {}
  <2>1. Begin(typed, i + 1) = i + 1 /\ (i + 1) - 1 = i
    BY <1>2, BeginStep
  <2> QED
    BY <2>1 DEF TextPlaces
<1> QED
  BY <1>1, <1>2

StateAt(typed, i) == IF i = 0 THEN ERROR ELSE IF typed[i] \in Words THEN ALNUM ELSE typed[i]

(* The token is the text of the command so far: none, all from its first   *)
(* place on, or all of it, in front of right parentheses.                  *)
NoText(typed, i, token) ==
  /\ TextPlaces(typed, i + 1) = {} /\ token = << >>
  /\ \/ i = Begin(typed, i + 1) - 1
     \/ typed[i] = LPAREN
     \/ typed[i] = SPACE /\ i = Begin(typed, i + 1)
InText(typed, i, token) ==
  \E low \in Begin(typed, i + 1) .. i :
    /\ TextPlaces(typed, i + 1) = low .. i /\ token = SubSeq(typed, low, i)
    /\ typed[low] # SPACE /\ typed[i] \in Words \cup {PUNCT, SPACE}
BehindText(typed, i, token) ==
  \E low \in Begin(typed, i + 1) .. i : \E high \in low .. i :
    /\ TextPlaces(typed, i + 1) = low .. high /\ token = SubSeq(typed, low, high)
    /\ typed[low] # SPACE /\ typed[high] # SPACE /\ typed[i] = RPAREN
Spelled(typed, i, token) ==
  NoText(typed, i, token) \/ InText(typed, i, token) \/ BehindText(typed, i, token)

(* The priority is the greatest depth of the command so far.               *)
Deepest(typed, i, priority) ==
  /\ \A j \in Begin(typed, i + 1) .. i : Depth(typed, j) <= priority
  /\ Begin(typed, i + 1) <= i => \E j \in Begin(typed, i + 1) .. i : Depth(typed, j) = priority

(* A command that qexecution can parse.                                    *)
Decent(command) == command # << >> /\ command[1] # SPACE /\ Last(command) # SPACE

EndsUpto(typed, i) == {e \in 1 .. Len(typed) : typed[e] = COMMA /\ e <= i}

Queued(typed, ends, nodes) ==
  /\ InOrder(nodes, typed, ends)
  /\ \A e \in ends : Inside(typed, e) \in Int /\ Decent(Text(typed, e))

(* What tokenizer knows after i characters of a well-formed line.          *)
ReadsWell(typed, i, t) ==
  /\ t \in Known /\ t.end = "reading"
  /\ t.state = StateAt(typed, i)
  /\ t.stacked = Depth(typed, i)
  /\ t.priority = Depth(typed, i) + Closing(Append(typed, COMMA), i + 1)
  /\ Deepest(typed, i, t.priority)
  /\ Spelled(typed, i, t.token)
  /\ Queued(typed, EndsUpto(typed, i), t.queue)

-----------------------------------------------------------------------------
(* The text so far, with one character more.                               *)
LEMMA TextStep ==
  ASSUME NEW typed \in Seq(Symbols), WellFormed(typed), NEW i \in Nat, i + 1 \in 1 .. Len(typed),
         typed[i + 1] # COMMA, NEW token \in Seq(Symbols), Spelled(typed, i, token)
  PROVE  /\ typed[i + 1] = LPAREN =>
              /\ StateAt(typed, i) \in {COMMA, LPAREN, ERROR, SPACE}
              /\ Spelled(typed, i + 1, token)
         /\ typed[i + 1] = RPAREN =>
              /\ StateAt(typed, i) \in {ALNUM, RPAREN}
              /\ Spelled(typed, i + 1, token)
              /\ Begin(typed, i + 1) <= i
         /\ typed[i + 1] = SPACE =>
              Spelled(typed, i + 1, IF StateAt(typed, i) \in {COMMA, ERROR, SPACE} THEN token
                                    ELSE Append(token, SPACE))
         /\ typed[i + 1] \in Words \cup {PUNCT} =>
              /\ StateAt(typed, i) # RPAREN
              /\ Spelled(typed, i + 1, Append(token, typed[i + 1]))
<1> DEFINE c == i + 1
           b == Begin(typed, c)
           places == TextPlaces(typed, c)
<1>1. /\ c \in Nat \ {0} /\ c \in 1 .. Len(typed) /\ c - 1 = i /\ Len(typed) \in Nat
      /\ i # 0 => i \in 1 .. Len(typed) - 1 /\ i \in 1 .. Len(typed)
  OBVIOUS
<1> HIDE DEF c
<1>2. /\ b \in 1 .. c /\ Begin(typed, c + 1) = b
      /\ i = 0 => b = 1
      /\ i # 0 /\ typed[i] = COMMA => b = c
      /\ i # 0 /\ typed[i] # COMMA => b = Begin(typed, i) /\ b \in 1 .. i
  <2>1. b \in 1 .. c /\ Begin(typed, c + 1) = b
    BY <1>1, BeginStep DEF c
  <2>2. i = 0 => b = 1
    BY BeginStep DEF c
  <2>3. i # 0 => /\ b = IF typed[i] = COMMA THEN c ELSE Begin(typed, i)
                 /\ Begin(typed, i) \in 1 .. i
    BY <1>1, BeginStep DEF c
  <2> QED
    BY <2>1, <2>2, <2>3
<1>3. TextPlaces(typed, c + 1) = places \cup IF IsText(typed, c) THEN {c} ELSE {}
  BY <1>1, TextPlacesStep DEF c
<1>4. IsText(typed, c) <=> typed[c] \notin {LPAREN, RPAREN} /\ (c = b => typed[c] # SPACE)
  BY DEF IsText
<1>5. /\ i # 0 => StateAt(typed, i) = IF typed[i] \in Words THEN ALNUM ELSE typed[i]
      /\ i = 0 => StateAt(typed, i) = ERROR
  BY DEF StateAt
<1> HIDE DEF b, places
<1>6. /\ i = 0 => typed[c] \in Words \cup {PUNCT, LPAREN}
      /\ i # 0 =>
           /\ typed[i] \in Words \cup {SPACE, COMMA, LPAREN, RPAREN, PUNCT}
           /\ typed[i] \in Words => typed[c] \in {SPACE, COMMA, RPAREN, PUNCT}
           /\ typed[i] = PUNCT => typed[c] \in Words \cup {PUNCT, SPACE, COMMA}
           /\ typed[i] = SPACE => typed[c] \in Words \cup {PUNCT, LPAREN}
           /\ typed[i] = SPACE /\ typed[c] = LPAREN => typed[i - 1] = COMMA
           /\ typed[i] = COMMA => typed[c] \in Words \cup {PUNCT, LPAREN, SPACE}
           /\ typed[i] = LPAREN => typed[c] \in Words \cup {PUNCT, LPAREN}
           /\ typed[i] = RPAREN => typed[c] \in {RPAREN, COMMA}
  <2>1. i = 0 => typed[c] \in Words \cup {PUNCT, LPAREN}
    BY Following DEF c
  <2>2. i # 0 => typed[i] \in Words \cup {SPACE, COMMA, LPAREN, RPAREN, PUNCT}
    BY <1>1, Following
  <2>3. i # 0 =>
           /\ typed[i] \in Words => typed[c] \in {SPACE, COMMA, RPAREN, PUNCT}
           /\ typed[i] = PUNCT => typed[c] \in Words \cup {PUNCT, SPACE, COMMA}
           /\ typed[i] = SPACE => typed[c] \in Words \cup {PUNCT, LPAREN}
           /\ typed[i] = SPACE /\ typed[c] = LPAREN => typed[i - 1] = COMMA
           /\ typed[i] = COMMA => typed[c] \in Words \cup {PUNCT, LPAREN, SPACE}
           /\ typed[i] = LPAREN => typed[c] \in Words \cup {PUNCT, LPAREN}
           /\ typed[i] = RPAREN => typed[c] \in {RPAREN, COMMA}
    BY <1>1, FollowsNext DEF c
  <2> QED
    BY <2>1, <2>2, <2>3
<1>7. typed[c] # COMMA
  BY DEF c
<1> USE ClassesDiffer DEF Classes
(* No text yet.                                                            *)
<1>8. CASE NoText(typed, i, token)
  <2>1. /\ places = {} /\ token = << >>
        /\ i = b - 1 \/ typed[i] = LPAREN \/ (typed[i] = SPACE /\ i = b)
    BY <1>8 DEF NoText, b, places, c
  <2>2. i = 0 \/ typed[i] \in {COMMA, LPAREN} \/ (typed[i] = SPACE /\ i = b)
    BY <1>1, <1>2, <2>1
  <2>3. typed[c] # RPAREN
    BY <1>6, <2>2
  <2>4. i # 0 => StateAt(typed, i) = typed[i]
    BY <1>5, <2>2
  <2>5. StateAt(typed, i) \in {COMMA, LPAREN, ERROR, SPACE} /\ StateAt(typed, i) # RPAREN
    BY <1>5, <2>2, <2>4
  <2>6. ASSUME typed[c] = LPAREN PROVE Spelled(typed, c, token)
    BY <1>3, <1>4, <2>1, <2>6 DEF Spelled, NoText
  <2>7. ASSUME typed[c] = SPACE
        PROVE  StateAt(typed, i) \in {COMMA, ERROR, SPACE} /\ Spelled(typed, c, token)
    <3>1. i # 0 /\ typed[i] = COMMA /\ c = b
      BY <1>2, <1>6, <2>2, <2>7
    <3>2. StateAt(typed, i) = COMMA
      BY <2>4, <3>1
    <3>3. TextPlaces(typed, c + 1) = {}
      BY <1>3, <1>4, <2>1, <2>7, <3>1
    <3> QED
      BY <1>2, <2>1, <2>7, <3>1, <3>2, <3>3 DEF Spelled, NoText
  <2>8. ASSUME typed[c] \in Words \cup {PUNCT} PROVE Spelled(typed, c, Append(token, typed[c]))
    <3>1. typed[c] \notin {LPAREN, RPAREN} /\ typed[c] # SPACE
      BY <2>8
    <3>2. TextPlaces(typed, c + 1) = c .. c
      <4>1. TextPlaces(typed, c + 1) = {c}
        BY <1>3, <1>4, <2>1, <3>1
      <4> QED
        BY <1>1, <4>1
    <3>3. Append(token, typed[c]) = SubSeq(typed, c, c)
      <4>1. SubSeq(typed, c, c) = Append(SubSeq(typed, c, i), typed[c])
        <5>1. c \in 1 .. i + 1
          BY <1>1 DEF c
        <5> QED
          BY <1>1, <5>1, SubSeqGrows DEF c
      <4>2. SubSeq(typed, c, i) = << >>
        BY <1>1
      <4> QED
        BY <2>1, <4>1, <4>2
    <3>4. InText(typed, c, Append(token, typed[c]))
      <4>1. c \in Begin(typed, c + 1) .. c
        BY <1>1, <1>2
      <4> QED
        BY <2>8, <3>1, <3>2, <3>3, <4>1 DEF InText
    <3> QED
      BY <3>4 DEF Spelled
  <2> QED
    BY <2>3, <2>5, <2>6, <2>7, <2>8 DEF c
(* Within the text.                                                        *)
<1>9. CASE InText(typed, i, token)
  <2>1. PICK low \in b .. i :
          /\ places = low .. i /\ token = SubSeq(typed, low, i)
          /\ typed[low] # SPACE /\ typed[i] \in Words \cup {PUNCT, SPACE}
    BY <1>9 DEF InText, b, places, c
  <2>2. i # 0 /\ low \in Nat /\ low \in 1 .. i /\ low \in 1 .. c /\ low \in b .. c /\ c \notin places /\ b # c
        /\ typed[i] # COMMA /\ b \in 1 .. i
    BY <1>1, <1>2, <2>1
  <2>3. StateAt(typed, i) \in {ALNUM, PUNCT, SPACE}
        /\ (typed[i] # SPACE => StateAt(typed, i) \in {ALNUM, PUNCT})
        /\ (typed[i] \in Words => StateAt(typed, i) = ALNUM)
    BY <1>5, <2>1, <2>2
  <2>4. typed[c] # LPAREN
    <3> SUFFICES ASSUME typed[c] = LPAREN PROVE FALSE
      OBVIOUS
    <3>1. typed[i] = SPACE /\ typed[i - 1] = COMMA
      BY <1>6, <2>1, <2>2
    <3>2. i \in places
      BY <2>1, <2>2
    <3>3. b # i
      <4>1. IsText(typed, i)
        <5>1. i - 1 \in Nat /\ i \in Begin(typed, c) .. c - 1
          BY <1>1, <2>2 DEF b
        <5> QED
          BY <1>2, <2>2, <3>2 DEF TextPlaces, places, IsText, b
      <4> QED
        BY <1>2, <2>2, <3>1, <4>1 DEF IsText
    <3>4. i - 1 \in 1 .. Len(typed) /\ (i - 1) + 1 = i
      BY <1>1, <1>2, <2>2, <3>3
    <3>5. Begin(typed, i) = i
      BY <3>1, <3>4, BeginStep
    <3> QED
      BY <1>2, <2>2, <3>3, <3>5
  <2>5. Append(token, typed[c]) = SubSeq(typed, low, c)
    BY <1>1, <2>1, <2>2, SubSeqGrows DEF c
  <2>6. ASSUME typed[c] \in Words \cup {PUNCT, SPACE} PROVE Spelled(typed, c, Append(token, typed[c]))
    <3>1. IsText(typed, c)
      BY <1>4, <2>2, <2>6
    <3>2. TextPlaces(typed, c + 1) = low .. c
      <4>1. low .. c = low .. i \cup {c}
        BY <1>1, <2>2
      <4> QED
        BY <1>3, <2>1, <3>1, <4>1
    <3>3. InText(typed, c, Append(token, typed[c]))
      <4>1. low \in Begin(typed, c + 1) .. c
        BY <1>2, <2>2
      <4> QED
        BY <2>1, <2>5, <2>6, <3>2, <4>1 DEF InText
    <3> QED
      BY <3>3 DEF Spelled
  <2>7. ASSUME typed[c] = SPACE PROVE StateAt(typed, i) \notin {COMMA, ERROR, SPACE}
    <3>1. typed[i] # SPACE
      BY <1>6, <2>2, <2>7
    <3> QED
      BY <2>3, <3>1
  <2>8. ASSUME typed[c] = RPAREN
        PROVE  StateAt(typed, i) = ALNUM /\ Spelled(typed, c, token) /\ b <= i
    <3>1. typed[i] \in Words
      BY <1>6, <2>1, <2>2, <2>8
    <3>2. TextPlaces(typed, c + 1) = low .. i
      BY <1>3, <1>4, <2>1, <2>8
    <3>3. typed[i] # SPACE
      BY <3>1
    <3>4. BehindText(typed, c, token)
      <4>1. low \in Begin(typed, c + 1) .. c /\ i \in low .. c
        BY <1>1, <1>2, <2>2
      <4> QED
        BY <2>1, <2>8, <3>2, <3>3, <4>1 DEF BehindText
    <3> QED
      BY <2>2, <2>3, <3>1, <3>4 DEF Spelled
  <2>9. StateAt(typed, i) # RPAREN
    BY <2>3
  <2> QED
    BY <2>4, <2>6, <2>7, <2>8, <2>9 DEF b, c
(* Behind the text.                                                        *)
<1>10. CASE BehindText(typed, i, token)
  <2> PICK low \in b .. i : \E high \in low .. i :
          /\ places = low .. high /\ token = SubSeq(typed, low, high)
          /\ typed[low] # SPACE /\ typed[high] # SPACE /\ typed[i] = RPAREN
    BY <1>10 DEF BehindText, b, places, c
  <2>1. PICK high \in low .. i :
          /\ places = low .. high /\ token = SubSeq(typed, low, high)
          /\ typed[low] # SPACE /\ typed[high] # SPACE /\ typed[i] = RPAREN
    OBVIOUS
  <2>2. i # 0 /\ b <= i /\ low \in b .. c /\ high \in low .. c
    BY <1>1, <1>2, <2>1
  <2>3. typed[c] = RPAREN /\ StateAt(typed, i) = RPAREN
    BY <1>5, <1>6, <1>7, <2>1, <2>2
  <2>4. TextPlaces(typed, c + 1) = low .. high
    BY <1>3, <1>4, <2>1, <2>3
  <2>5. BehindText(typed, c, token)
    BY <1>2, <2>1, <2>2, <2>3, <2>4 DEF BehindText
  <2> QED
    BY <2>2, <2>3, <2>5 DEF Spelled, b, c
<1> QED
  BY <1>8, <1>9, <1>10 DEF Spelled

(* A line and the comma main.c adds.                                       *)
LEMMA WithComma ==
  ASSUME NEW typed \in Seq(Symbols)
  PROVE  /\ Append(typed, COMMA) \in Seq(Symbols)
         /\ Len(typed) \in Nat
         /\ Len(Append(typed, COMMA)) = Len(typed) + 1
         /\ Append(typed, COMMA)[Len(typed) + 1] = COMMA
         /\ \A k \in 1 .. Len(typed) :
              Append(typed, COMMA)[k] = typed[k] /\ typed[k] \in Symbols
BY ClassesDiffer DEF Classes

(* The greatest depth so far, with one character more.                     *)
LEMMA DeepestStep ==
  ASSUME NEW typed \in Seq(Symbols), WellFormed(typed), NEW i \in Nat, i + 1 \in 1 .. Len(typed),
         typed[i + 1] # COMMA, NEW priority \in Int,
         priority = Depth(typed, i) + Closing(Append(typed, COMMA), i + 1),
         Deepest(typed, i, priority),
         typed[i + 1] = RPAREN => Begin(typed, i + 1) <= i
  PROVE  LET new == priority + IF typed[i + 1] = LPAREN THEN 1 ELSE 0
         IN  /\ new = Depth(typed, i + 1) + Closing(Append(typed, COMMA), i + 2)
             /\ Deepest(typed, i + 1, new)
<1> DEFINE c == i + 1
           l == Append(typed, COMMA)
           new == priority + IF typed[c] = LPAREN THEN 1 ELSE 0
           b == Begin(typed, c)
<1>1. /\ c \in Nat \ {0} /\ c \in 1 .. Len(typed) /\ c - 1 = i /\ Len(typed) \in Nat /\ c + 1 = i + 2
      /\ i # 0 => i \in 1 .. Len(typed) - 1 /\ i \in 1 .. Len(typed) /\ i \in Nat \ {0}
      /\ i \in 0 .. Len(typed) /\ c \in 0 .. Len(typed) /\ i < c
  OBVIOUS
<1>2. /\ Depth(typed, c) = Depth(typed, i) + Change(typed[c])
      /\ Depth(typed, i) \in Int /\ Depth(typed, c) \in Int
      /\ \A j \in 0 .. Len(typed) : Depth(typed, j) \in Int
  <2>1. Depth(typed, c) = Depth(typed, i) + Change(typed[c])
    BY DepthStep DEF c
  <2> QED
    BY <1>1, <2>1, DepthStep
<1>3. /\ Closing(l, c) \in Nat
      /\ Closing(l, c + 1) = IF typed[c] = RPAREN THEN Closing(l, c) + 1 ELSE 0
  <2>1. l[c] = typed[c]
    BY <1>1, WithComma
  <2> QED
    BY <1>1, <2>1, ClosingStep
<1>4. priority = Depth(typed, i) + Closing(l, c)
  BY DEF c, l
<1>5. typed[c] # RPAREN => Closing(l, c) = 0
  <2>1. CASE i = 0
    BY <2>1, ClosingStep DEF c
  <2>2. CASE i # 0
    <3>1. typed[c] # RPAREN => typed[i] # RPAREN
      BY <1>1, <2>2, FollowsNext DEF c
    <3>2. Closing(l, c) = IF l[i] = RPAREN THEN Closing(l, i) + 1 ELSE 0
      BY <1>1, <2>2, ClosingStep DEF c
    <3>3. l[i] = typed[i]
      BY <1>1, <2>2, WithComma
    <3> QED
      BY <3>1, <3>2, <3>3
  <2> QED
    BY <2>1, <2>2
<1>6. b \in 1 .. c /\ Begin(typed, c + 1) = b
  BY <1>1, BeginStep DEF c
<1>7. /\ \A j \in b .. i : Depth(typed, j) <= priority
      /\ b <= i => \E j \in b .. i : Depth(typed, j) = priority
  BY DEF Deepest, b, c
<1>8. typed[c] = RPAREN => b <= i
  BY DEF b, c
<1> HIDE DEF c, l, b
<1>9. LPAREN # RPAREN
  BY ClassesDiffer
<1>10. new \in Int /\ new = Depth(typed, c) + Closing(l, c + 1)
  <2>1. CASE typed[c] = LPAREN
    <3>1. Change(typed[c]) = 1 /\ new = priority + 1 /\ typed[c] # RPAREN
      BY <1>9, <2>1 DEF Change
    <3> HIDE DEF new
    <3> QED
      BY <1>2, <1>3, <1>4, <1>5, <3>1
  <2>2. CASE typed[c] = RPAREN
    <3>1. Change(typed[c]) = -1 /\ new = priority
      BY <1>9, <2>2 DEF Change
    <3> HIDE DEF new
    <3> QED
      BY <1>2, <1>3, <1>4, <2>2, <3>1
  <2>3. CASE typed[c] \notin {LPAREN, RPAREN}
    <3>1. Change(typed[c]) = 0 /\ new = priority /\ typed[c] # RPAREN
      BY <2>3 DEF Change
    <3> HIDE DEF new
    <3> QED
      BY <1>2, <1>3, <1>4, <1>5, <3>1
  <2> QED
    BY <2>1, <2>2, <2>3
<1>11. new = priority + (IF typed[c] = LPAREN THEN 1 ELSE 0) /\ priority <= new
  OBVIOUS
<1>12. typed[c] = RPAREN => new = priority
  BY <1>9
<1>13. typed[c] # RPAREN => Depth(typed, c) = new
  BY <1>2, <1>3, <1>10
<1>14. Depth(typed, c) <= new
  BY <1>2, <1>3, <1>10
<1> HIDE DEF new
<1>15. \A j \in b .. c : Depth(typed, j) <= new
  <2> TAKE j \in b .. c
  <2>1. CASE j = c
    BY <1>14, <2>1
  <2>2. CASE j # c
    <3>1. j \in b .. i /\ j \in 0 .. Len(typed)
      BY <1>1, <1>6, <2>2
    <3>2. Depth(typed, j) \in Int /\ Depth(typed, j) <= priority
      BY <1>2, <1>7, <3>1
    <3> QED
      BY <1>10, <1>11, <3>2
  <2> QED
    BY <2>1, <2>2
<1>16. \E j \in b .. c : Depth(typed, j) = new
  <2>1. CASE typed[c] = RPAREN
    <3>1. PICK j \in b .. i : Depth(typed, j) = priority
      BY <1>7, <1>8, <2>1
    <3>2. j \in b .. c
      BY <1>1, <1>6, <3>1
    <3> QED
      BY <1>12, <2>1, <3>1, <3>2
  <2>2. CASE typed[c] # RPAREN
    <3>1. c \in b .. c
      BY <1>1, <1>6
    <3> QED
      BY <1>13, <2>2, <3>1
  <2> QED
    BY <2>1, <2>2
<1>17. Deepest(typed, c, new)
  BY <1>6, <1>15, <1>16 DEF Deepest
<1> QED
  BY <1>1, <1>10, <1>17 DEF c, l, new

(* The end of a command.                                                   *)
LEMMA CommandEnd ==
  ASSUME NEW typed \in Seq(Symbols), WellFormed(typed), NEW i \in 0 .. Len(typed),
         i = Len(typed) \/ typed[i + 1] = COMMA,
         NEW token \in Seq(Symbols), Spelled(typed, i, token),
         NEW priority \in Int, Deepest(typed, i, priority)
  PROVE  /\ Text(typed, i + 1) = token /\ Decent(token)
         /\ Inside(typed, i + 1) = priority
<1> DEFINE e == i + 1
           b == Begin(typed, e)
<1>1. Len(typed) \in Nat \ {0} /\ typed[1] # COMMA
  BY Following, ClassesDiffer DEF Classes
<1>2. i \in 1 .. Len(typed) /\ e \in Nat /\ e - 1 = i
  BY <1>1
<1>3. typed[i] \in Words \cup {PUNCT, RPAREN}
  <2>1. CASE i = Len(typed)
    BY <2>1, FollowsLast
  <2>2. CASE i # Len(typed)
    <3>1. i \in 1 .. Len(typed) - 1 /\ typed[i + 1] = COMMA
      BY <1>2, <2>2
    <3>2. typed[i] \in Words \cup {SPACE, COMMA, LPAREN, RPAREN, PUNCT}
      BY <1>2, Following
    <3> QED
      BY <3>1, <3>2, FollowsNext, ClassesDiffer DEF Classes
  <2> QED
    BY <2>1, <2>2
<1>4. typed[i] \notin {SPACE, COMMA, LPAREN}
  BY <1>3, ClassesDiffer DEF Classes
<1>5. b \in 1 .. i
  BY <1>2, <1>4, BeginStep
<1>6. \E low \in b .. i : \E high \in low .. i :
        /\ TextPlaces(typed, e) = low .. high /\ token = SubSeq(typed, low, high)
        /\ typed[low] # SPACE /\ typed[high] # SPACE
  <2>1. CASE NoText(typed, i, token)
    BY <1>2, <1>4, <1>5, <2>1 DEF NoText
  <2>2. CASE InText(typed, i, token)
    <3>1. PICK low \in b .. i : TextPlaces(typed, e) = low .. i /\ token = SubSeq(typed, low, i)
                                /\ typed[low] # SPACE
      BY <2>2 DEF InText
    <3>2. i \in low .. i
      BY <1>2, <1>5, <3>1
    <3> QED
      BY <1>4, <3>1, <3>2
  <2>3. CASE BehindText(typed, i, token)
    BY <2>3 DEF BehindText
  <2> QED
    BY <2>1, <2>2, <2>3 DEF Spelled
<1>7. PICK low \in b .. i : \E high \in low .. i :
        /\ TextPlaces(typed, e) = low .. high /\ token = SubSeq(typed, low, high)
        /\ typed[low] # SPACE /\ typed[high] # SPACE
  BY <1>6
<1>8. PICK high \in low .. i :
        /\ TextPlaces(typed, e) = low .. high /\ token = SubSeq(typed, low, high)
        /\ typed[low] # SPACE /\ typed[high] # SPACE
  BY <1>7
<1>9. low \in Nat \ {0} /\ high \in Nat /\ low <= high /\ high <= Len(typed)
  BY <1>2, <1>5
<1>10. Min(TextPlaces(typed, e)) = low /\ Max(TextPlaces(typed, e)) = high
  <2>1. /\ low .. high \subseteq Int /\ low \in low .. high /\ high \in low .. high
        /\ \A y \in low .. high : low <= y /\ y <= high
    BY <1>9
  <2>2. Min(low .. high) = low
    BY <2>1, MinIs
  <2>3. Max(low .. high) = high
    BY <2>1, MaxIs
  <2> QED
    BY <1>8, <2>2, <2>3
<1>11. Text(typed, e) = token
  BY <1>8, <1>10 DEF Text
<1>12. Decent(token)
  <2>1. Len(token) = high - low + 1 /\ token[1] = typed[low] /\ token[Len(token)] = typed[high]
    BY <1>8, <1>9
  <2>2. token # << >> /\ Last(token) = token[Len(token)]
    BY <1>9, <2>1 DEF Last
  <2> QED
    BY <1>8, <2>1, <2>2 DEF Decent
<1>13. Inside(typed, e) = priority
  <2> DEFINE depths == {Depth(typed, j) : j \in b .. i}
  <2>1. /\ \A j \in b .. i : Depth(typed, j) <= priority
        /\ \E j \in b .. i : Depth(typed, j) = priority
    <3>1. b <= i
      BY <1>2, <1>5
    <3> QED
      BY <3>1 DEF Deepest
  <2>2. depths \subseteq Int
    <3>1. \A j \in b .. i : j \in 0 .. Len(typed)
      BY <1>1, <1>2, <1>5
    <3> QED
      BY <3>1, DepthStep
  <2>3. priority \in depths /\ \A y \in depths : y <= priority
    BY <2>1
  <2> HIDE DEF depths
  <2>4. Max(depths) = priority
    BY <2>2, <2>3, MaxIs
  <2> QED
    BY <1>2, <2>4 DEF Inside, depths
<1> QED
  BY <1>11, <1>12, <1>13

(* The queue with the command that ends at place i + 1.                    *)
LEMMA CommandQueued ==
  ASSUME NEW typed \in Seq(Symbols), WellFormed(typed), NEW i \in 0 .. Len(typed),
         i = Len(typed) \/ typed[i + 1] = COMMA,
         NEW t, ReadsWell(typed, i, t)
  PROVE  Queued(typed, EndsUpto(typed, i) \cup {i + 1},
                qenqueue(t.queue, t.token, 255 - t.priority))
<1> DEFINE e == i + 1
           ends == EndsUpto(typed, i)
<1>1. t.queue \in Seq(Nodes) /\ t.token \in Seq(Symbols) /\ t.priority \in Int
  BY DEF ReadsWell, Known
<1>2. Text(typed, e) = t.token /\ Decent(t.token) /\ Inside(typed, e) = t.priority
  BY <1>1, CommandEnd DEF ReadsWell
<1>3. /\ InOrder(t.queue, typed, ends)
      /\ \A d \in ends : Inside(typed, d) \in Int /\ Decent(Text(typed, d))
  BY DEF ReadsWell, Queued
<1>4. e \in Nat /\ ends \in SUBSET Nat /\ \A d \in ends : d < e
  BY DEF EndsUpto
<1> HIDE DEF e, ends
<1>5. InOrder(qenqueue(t.queue, Text(typed, e), 255 - Inside(typed, e)), typed, ends \cup {e})
  <2>1. Inside(typed, e) \in Int /\ Text(typed, e) \in Seq(Symbols)
    BY <1>1, <1>2
  <2>2. \A d \in ends : d < e /\ Inside(typed, d) \in Int
    BY <1>3, <1>4
  <2> QED
    BY <1>1, <1>3, <1>4, <2>1, <2>2, InsertInOrder
<1>6. \A d \in ends \cup {e} : Inside(typed, d) \in Int /\ Decent(Text(typed, d))
  BY <1>1, <1>2, <1>3
<1>7. Queued(typed, ends \cup {e}, qenqueue(t.queue, t.token, 255 - t.priority))
  BY <1>2, <1>5, <1>6 DEF Queued
<1> QED
  BY <1>7 DEF e, ends

(* One character more of a well-formed line.                               *)
LEMMA ReadsWellStep ==
  ASSUME NEW typed \in Seq(Symbols), WellFormed(typed), NEW i \in 0 .. Len(typed) - 1,
         NEW t, ReadsWell(typed, i, t)
  PROVE  ReadsWell(typed, i + 1, Token(t, Append(typed, COMMA), i + 1))
<1> DEFINE c == i + 1
           l == Append(typed, COMMA)
           u == Token(t, l, c)
<1>1. /\ c \in Nat \ {0} /\ c \in 1 .. Len(typed) /\ c - 1 = i /\ Len(typed) \in Nat /\ c + 1 = i + 2
      /\ i \in Nat /\ i \in 0 .. Len(typed) /\ c \in 0 .. Len(typed) /\ (c = 0) = FALSE
  <2>1. Len(typed) \in Nat
    OBVIOUS
  <2> QED
    BY <2>1
<1>2. l[c] = typed[c] /\ typed[c] \in Symbols
  BY <1>1, WithComma
<1>3. /\ t \in Known /\ t.end = "reading"
      /\ t.state = StateAt(typed, i)
      /\ t.stacked = Depth(typed, i)
      /\ t.priority = Depth(typed, i) + Closing(l, c)
      /\ Deepest(typed, i, t.priority)
      /\ Spelled(typed, i, t.token)
      /\ Queued(typed, EndsUpto(typed, i), t.queue)
  BY DEF ReadsWell
<1>4. t.token \in Seq(Symbols) /\ t.priority \in Int
  BY <1>3 DEF Known
<1>5. /\ Depth(typed, c) = Depth(typed, i) + Change(typed[c])
      /\ Depth(typed, i) \in Int /\ Depth(typed, c) \in 0 .. MAXSIZE
  <2>1. Depth(typed, c) = Depth(typed, i) + Change(typed[c])
    BY <1>1, DepthStep DEF c
  <2>2. Depth(typed, i) \in Int
    BY <1>1, DepthStep
  <2>3. Depth(typed, c) \in 0 .. MAXSIZE
    BY <1>1, Following
  <2> QED
    BY <2>1, <2>2, <2>3
<1>6. MAXSIZE \in Nat \ {0}
  BY StackAssumption
<1>7. typed[c] \in Words \cup {SPACE, COMMA, LPAREN, RPAREN, PUNCT}
  BY <1>1, Following
<1>8. typed[c] # COMMA => EndsUpto(typed, c) = EndsUpto(typed, i)
  <2> SUFFICES ASSUME typed[c] # COMMA PROVE EndsUpto(typed, c) = EndsUpto(typed, i)
    OBVIOUS
  <2>1. ASSUME NEW e \in 1 .. Len(typed), typed[e] = COMMA PROVE e <= c <=> e <= i
    <3>1. e # c
      BY <2>1
    <3> QED
      BY <1>1, <3>1
  <2> QED
    BY <2>1 DEF EndsUpto
<1>9. StateAt(typed, c) = IF typed[c] \in Words THEN ALNUM ELSE typed[c]
  BY <1>1 DEF StateAt
<1>10. typed[c] # COMMA =>
       /\ typed[c] = LPAREN =>
            /\ StateAt(typed, i) \in {COMMA, LPAREN, ERROR, SPACE}
            /\ Spelled(typed, c, t.token)
       /\ typed[c] = RPAREN =>
            /\ StateAt(typed, i) \in {ALNUM, RPAREN}
            /\ Spelled(typed, c, t.token)
            /\ Begin(typed, c) <= i
       /\ typed[c] = SPACE =>
            Spelled(typed, c, IF StateAt(typed, i) \in {COMMA, ERROR, SPACE} THEN t.token
                              ELSE Append(t.token, SPACE))
       /\ typed[c] \in Words \cup {PUNCT} =>
            /\ StateAt(typed, i) # RPAREN
            /\ Spelled(typed, c, Append(t.token, typed[c]))
  <2> SUFFICES ASSUME typed[c] # COMMA
               PROVE
       /\ typed[c] = LPAREN =>
            /\ StateAt(typed, i) \in {COMMA, LPAREN, ERROR, SPACE}
            /\ Spelled(typed, c, t.token)
       /\ typed[c] = RPAREN =>
            /\ StateAt(typed, i) \in {ALNUM, RPAREN}
            /\ Spelled(typed, c, t.token)
            /\ Begin(typed, c) <= i
       /\ typed[c] = SPACE =>
            Spelled(typed, c, IF StateAt(typed, i) \in {COMMA, ERROR, SPACE} THEN t.token
                              ELSE Append(t.token, SPACE))
       /\ typed[c] \in Words \cup {PUNCT} =>
            /\ StateAt(typed, i) # RPAREN
            /\ Spelled(typed, c, Append(t.token, typed[c]))
    OBVIOUS
  <2> QED
    BY <1>1, <1>3, <1>4, TextStep DEF c
<1>11. ASSUME typed[c] # COMMA
       PROVE  \A new : new = t.priority + (IF typed[c] = LPAREN THEN 1 ELSE 0) =>
                /\ new = Depth(typed, c) + Closing(l, c + 1)
                /\ Deepest(typed, c, new)
  <2>1. typed[i + 1] = RPAREN => Begin(typed, i + 1) <= i
    BY <1>10, <1>11 DEF c
  <2> QED
    BY <1>1, <1>3, <1>4, <1>11, <2>1, DeepestStep DEF c, l
<1> SUFFICES ReadsWell(typed, c, u)
  OBVIOUS
<1> HIDE DEF c, l
<1>12. /\ typed[c] = SPACE => u = Space(t)
       /\ typed[c] = COMMA => u = Comma(t, Closing(l, c))
       /\ typed[c] = LPAREN => u = Left(t)
       /\ typed[c] = RPAREN => u = Right(t)
       /\ typed[c] = PUNCT => u = Punct(t)
       /\ typed[c] \in Words => u = Alnum(t, typed[c], BehindComma(l, c))
  BY <1>2, <1>3, TokenByClass
<1> HIDE DEF u
<1>13. ASSUME typed[c] # COMMA, u \in Known, u.end = "reading", u.state = StateAt(typed, c),
              u.stacked = Depth(typed, c), u.queue = t.queue, Spelled(typed, c, u.token),
              u.priority = t.priority + (IF typed[c] = LPAREN THEN 1 ELSE 0)
       PROVE  ReadsWell(typed, c, u)
  <2>1. u.priority = Depth(typed, c) + Closing(l, c + 1) /\ Deepest(typed, c, u.priority)
    BY <1>11, <1>13
  <2>2. Queued(typed, EndsUpto(typed, c), u.queue)
    BY <1>3, <1>8, <1>13
  <2> QED
    BY <1>13, <2>1, <2>2 DEF ReadsWell, l
<1>13a. ASSUME NEW closing \in Int
    PROVE  /\ Comma(t, closing) \in Known
           /\ Comma(t, closing).state = COMMA /\ Comma(t, closing).token = << >>
           /\ Comma(t, closing).priority = t.priority - closing
           /\ Comma(t, closing).stacked = t.stacked
           /\ Comma(t, closing).queue = qenqueue(t.queue, t.token, 255 - t.priority)
           /\ Comma(t, closing).end = t.end
  <2>1. t \in Known
    BY <1>3
  <2> QED
    BY <2>1, CommaFields, Zenon
<1>13b. typed[c] = COMMA =>
    Queued(typed, EndsUpto(typed, i) \cup {c}, qenqueue(t.queue, t.token, 255 - t.priority))
  BY <1>1, CommandQueued DEF c
<1> USE ClassesDiffer DEF Classes
<1>14. CASE typed[c] = SPACE
  <2>1. Change(typed[c]) = 0 /\ StateAt(typed, c) = SPACE
    BY <1>9, <1>14 DEF Change
  <2>2. Spelled(typed, c, u.token)
    BY <1>3, <1>10, <1>12, <1>14, SpaceFields
  <2>3. /\ u \in Known /\ u.end = "reading" /\ u.state = SPACE /\ u.stacked = t.stacked
        /\ u.queue = t.queue /\ u.priority = t.priority
    BY <1>3, <1>12, <1>14, SpaceFields
  <2> QED
    BY <1>3, <1>4, <1>5, <1>13, <1>14, <2>1, <2>2, <2>3
<1>15. CASE typed[c] = PUNCT
  <2>1. Change(typed[c]) = 0 /\ StateAt(typed, c) = PUNCT
    BY <1>9, <1>15 DEF Change
  <2>2. Spelled(typed, c, u.token)
    BY <1>3, <1>10, <1>12, <1>15, PunctFields
  <2>3. /\ u \in Known /\ u.end = "reading" /\ u.state = PUNCT /\ u.stacked = t.stacked
        /\ u.queue = t.queue /\ u.priority = t.priority
    BY <1>3, <1>12, <1>15, PunctFields
  <2> QED
    BY <1>3, <1>4, <1>5, <1>13, <1>15, <2>1, <2>2, <2>3
<1>16. CASE typed[c] \in Words
  <2>1. Change(typed[c]) = 0 /\ StateAt(typed, c) = ALNUM /\ typed[c] # COMMA /\ typed[c] # LPAREN
    BY <1>9, <1>16 DEF Change
  <2>2. t.state # RPAREN /\ Spelled(typed, c, Append(t.token, typed[c]))
    BY <1>3, <1>10, <1>16, <2>1
  <2>3. /\ u \in Known /\ u.end = "reading" /\ u.state = ALNUM /\ u.stacked = t.stacked
        /\ u.queue = t.queue /\ u.priority = t.priority /\ u.token = Append(t.token, typed[c])
    BY <1>3, <1>12, <1>16, <2>2, AlnumFields
  <2> QED
    BY <1>3, <1>4, <1>5, <1>13, <1>16, <2>1, <2>2, <2>3
<1>17. CASE typed[c] = LPAREN
  <2>1. Change(typed[c]) = 1 /\ StateAt(typed, c) = LPAREN
    BY <1>9, <1>17 DEF Change
  <2>2. t.state \in {COMMA, LPAREN, ERROR, SPACE} /\ Spelled(typed, c, t.token)
    BY <1>3, <1>10, <1>17
  <2>3. t.stacked # MAXSIZE
    BY <1>3, <1>5, <1>6, <2>1
  <2>4. /\ u \in Known /\ u.end = "reading" /\ u.state = LPAREN /\ u.stacked = t.stacked + 1
        /\ u.queue = t.queue /\ u.priority = t.priority + 1 /\ u.token = t.token
    BY <1>3, <1>12, <1>17, <2>2, <2>3, LeftFields
  <2> QED
    BY <1>3, <1>5, <1>13, <1>17, <2>1, <2>2, <2>4
<1>18. CASE typed[c] = RPAREN
  <2>1. Change(typed[c]) = -1 /\ StateAt(typed, c) = RPAREN
    BY <1>9, <1>18 DEF Change
  <2>2. t.state \in {ALNUM, RPAREN} /\ Spelled(typed, c, t.token)
    BY <1>3, <1>10, <1>18
  <2>3. t.stacked # 0
    BY <1>3, <1>5, <1>6, <2>1
  <2>4. /\ u \in Known /\ u.end = "reading" /\ u.state = RPAREN /\ u.stacked = t.stacked - 1
        /\ u.queue = t.queue /\ u.priority = t.priority /\ u.token = t.token
    BY <1>3, <1>12, <1>18, <2>2, <2>3, RightFields
  <2>5. u.stacked = Depth(typed, c)
    BY <1>3, <1>5, <2>1, <2>4
  <2>6. u.priority = t.priority + (IF typed[c] = LPAREN THEN 1 ELSE 0)
    BY <1>4, <1>18, <2>4
  <2> QED
    BY <1>13, <1>18, <2>1, <2>2, <2>4, <2>5, <2>6
<1>19. CASE typed[c] = COMMA
  <2>1. Change(typed[c]) = 0 /\ StateAt(typed, c) = COMMA
    BY <1>9, <1>19 DEF Change
  <2>2. Closing(l, c) \in Int /\ Closing(l, c + 1) = 0
    <3>1. l[c] # RPAREN
      BY <1>2, <1>19
    <3>2. Closing(l, c) \in Nat
      BY <1>1, ClosingStep
    <3>3. Closing(l, c + 1) = IF l[c] = RPAREN THEN Closing(l, c) + 1 ELSE 0
      BY <1>1, ClosingStep
    <3> QED
      BY <3>1, <3>2, <3>3
  <2>3. /\ u \in Known /\ u.end = "reading" /\ u.state = COMMA /\ u.stacked = t.stacked
        /\ u.queue = qenqueue(t.queue, t.token, 255 - t.priority)
        /\ u.priority = t.priority - Closing(l, c) /\ u.token = << >>
    <3>1. PICK closing \in Int : closing = Closing(l, c)
      BY <2>2
    <3>2. u = Comma(t, closing)
      BY <1>12, <1>19, <3>1
    <3> QED
      BY <1>3, <1>13a, <3>1, <3>2
  <2>4. u.stacked = Depth(typed, c) /\ u.priority = Depth(typed, c) + Closing(l, c + 1)
    BY <1>3, <1>5, <2>1, <2>2, <2>3
  <2>5. Begin(typed, c + 1) = c + 1
    BY <1>1, <1>19, BeginStep
  <2>6. Deepest(typed, c, u.priority)
    <3>1. ~(c + 1 <= c) /\ c + 1 .. c = {}
      BY <1>1
    <3> QED
      BY <2>5, <3>1 DEF Deepest
  <2>7. Spelled(typed, c, u.token)
    <3>1. TextPlaces(typed, c + 1) = {}
      BY <1>1, <1>19, NoTextYet
    <3>2. c = Begin(typed, c + 1) - 1
      BY <1>1, <2>5
    <3> QED
      BY <2>3, <3>1, <3>2 DEF Spelled, NoText
  <2>8. Queued(typed, EndsUpto(typed, c), u.queue)
    <3>1. EndsUpto(typed, c) = EndsUpto(typed, i) \cup {c}
      <4>1. \A e \in 1 .. Len(typed) : e <= c <=> e <= i \/ e = c
        BY <1>1
      <4> QED
        BY <1>1, <1>19, <4>1 DEF EndsUpto
    <3> QED
      BY <1>19, <1>13b, <2>3, <3>1
  <2> QED
    BY <2>1, <2>3, <2>4, <2>6, <2>7, <2>8 DEF ReadsWell, l
<1> QED
  BY <1>7, <1>14, <1>15, <1>16, <1>17, <1>18, <1>19

(* The start.                                                              *)
LEMMA StartedReadsWell ==
  ASSUME NEW typed \in Seq(Symbols)
  PROVE  ReadsWell(typed, 0, Started)
<1>1. /\ Started \in Known /\ Started.end = "reading" /\ Started.state = ERROR
      /\ Started.priority = 0 /\ Started.stacked = 0
      /\ Started.queue = << >> /\ Started.token = << >>
  <2>1. Started \in Known
    BY StartedReads DEF ReadsLine
  <2> QED
    BY <2>1 DEF Started
<1>2. /\ Begin(typed, 1) = 1 /\ Depth(typed, 0) = 0 /\ TextPlaces(typed, 1) = {}
      /\ Closing(Append(typed, COMMA), 1) = 0
  BY BeginStep, DepthStep, NoTextYet, ClosingStep
<1>3. EndsUpto(typed, 0) = {}
  BY DEF EndsUpto
<1>4. Queued(typed, {}, << >>)
  <2>1. DOMAIN << >> = {} /\ Range(<< >>) = {}
    BY DEF Range
  <2>2. << >> \in [{} -> {}]
    OBVIOUS
  <2> QED
    BY <2>1, <2>2 DEF Queued, InOrder
<1>5. Spelled(typed, 0, << >>)
  BY <1>2 DEF Spelled, NoText
<1>6. Deepest(typed, 0, 0)
  BY <1>2 DEF Deepest
<1>7. StateAt(typed, 0) = ERROR
  BY DEF StateAt
<1>8. /\ Started.stacked = Depth(typed, 0) /\ Started.state = StateAt(typed, 0)
      /\ Deepest(typed, 0, Started.priority) /\ Spelled(typed, 0, Started.token)
      /\ Queued(typed, EndsUpto(typed, 0), Started.queue)
  BY <1>1, <1>2, <1>3, <1>4, <1>5, <1>6, <1>7
<1>9. Started.priority = Depth(typed, 0) + Closing(Append(typed, COMMA), 0 + 1)
  <2>1. 0 + 1 = 1
    OBVIOUS
  <2>2. 0 + 0 = 0
    OBVIOUS
  <2> QED
    BY <1>1, <1>2, <2>1, <2>2, Zenon
<1> QED
  BY <1>1, <1>8, <1>9, Zenon DEF ReadsWell

(* tokenizer.c and queuestruct.c: a well-formed line, with the comma main  *)
(* adds, is read to its end, and its commands are queued as it means.      *)
THEOREM TokenizerWell ==
  ASSUME NEW typed \in Seq(Symbols), WellFormed(typed)
  PROVE  LET t == tokenizer(Append(typed, COMMA))
         IN  t.end = "reading" /\ Queued(typed, Ends(typed), t.queue)
<1> DEFINE l == Append(typed, COMMA)
           n == Len(typed)
           Ok == {p \in (0 .. n + 1) \X Known :
                    /\ p[1] <= n => ReadsWell(typed, p[1], p[2])
                    /\ p[1] = n + 1 =>
                         p[2].end = "reading" /\ Queued(typed, Ends(typed), p[2].queue)}
<1>1. l \in Seq(Symbols) /\ n \in Nat /\ Len(l) = n + 1 /\ l[n + 1] = COMMA
  BY WithComma
<1>2. <<0, Started>> \in Ok
  <2>1. ReadsWell(typed, 0, Started)
    BY StartedReadsWell
  <2>2. Started \in Known
    BY <2>1 DEF ReadsWell
  <2>3. 0 \in 0 .. n + 1 /\ 0 <= n /\ 0 # n + 1
    BY <1>1
  <2> QED
    BY <2>1, <2>2, <2>3
<1>3. ASSUME NEW t, NEW i \in 0 .. n, <<i, t>> \in Ok
      PROVE  <<i + 1, Token(t, l, i + 1)>> \in Ok
  <2> DEFINE u == Token(t, l, i + 1)
  <2>1. ReadsWell(typed, i, t)
    BY <1>1, <1>3
  <2>2. CASE i # n
    <3>1. i \in 0 .. Len(typed) - 1 /\ i + 1 \in 0 .. n + 1 /\ i + 1 <= n /\ i + 1 # n + 1
      BY <1>1, <2>2
    <3>2. ReadsWell(typed, i + 1, u)
      BY <2>1, <3>1, ReadsWellStep
    <3>3. u \in Known
      BY <3>2 DEF ReadsWell
    <3> QED
      BY <3>1, <3>2, <3>3
  <2>3. CASE i = n
    <3>1. t \in Known /\ t.end = "reading"
      BY <2>1 DEF ReadsWell
    <3>2. Closing(l, n + 1) \in Int
      <4>1. n + 1 \in Nat \ {0}
        BY <1>1
      <4> HIDE DEF n, l
      <4>2. Closing(l, n + 1) \in Nat
        BY <4>1, ClosingStep
      <4> QED
        BY <4>2
    <3>3. u = Comma(t, Closing(l, n + 1))
      <4> HIDE DEF n, l
      <4> QED
        BY <1>1, <2>3, <3>1, TokenByClass
    <3>4. u \in Known /\ u.end = "reading" /\ u.queue = qenqueue(t.queue, t.token, 255 - t.priority)
      BY <3>1, <3>2, <3>3, CommaFields
    <3>5. Queued(typed, EndsUpto(typed, n) \cup {n + 1}, qenqueue(t.queue, t.token, 255 - t.priority))
      BY <1>1, <2>1, <2>3, CommandQueued
    <3>6. EndsUpto(typed, n) \cup {n + 1} = Ends(typed)
      <4>1. DOMAIN typed = 1 .. n
        OBVIOUS
      <4>2. \A e \in 1 .. n : e <= n
        BY <1>1
      <4> QED
        BY <4>1, <4>2 DEF EndsUpto, Ends
    <3>7. i + 1 \in 0 .. n + 1 /\ ~(i + 1 <= n)
      BY <1>1, <2>3
    <3> QED
      BY <3>4, <3>5, <3>6, <3>7
  <2> QED
    BY <2>2, <2>3
<1>4. <<Len(l), tokenizer(l)>> \in Ok
  <2>1. Len(l) - 1 = n
    BY <1>1
  <2> HIDE DEF Ok, l, n
  <2> QED
    BY <1>1, <1>2, <1>3, <2>1, TokenizerInduction
<1> QED
  BY <1>1, <1>4

-----------------------------------------------------------------------------
(* The types, the queue and the safety of well-formed lines.               *)

Parses == Words \cup {NONAME}
Commands == {c \in [name : Parses \cup {UNSET, NULLARG, ENDLESS},
                    argument : Parses \cup {NULLARG}, priority : Int] : c.priority <= 255}
AliasLines == [alias : Parses \cup {NULLARG}, match : Parses]

(* The types the variables always have; those of batch are in Typed.       *)
TypeInv ==
  /\ pc \in Places /\ resume \in Places \ {"asking", "exited", "crashed"}
  /\ wellFormed \in BOOLEAN /\ interrupted \in BOOLEAN
  /\ line \in Seq(Symbols) /\ queue \in Seq(Commands)
  /\ aliases \in Seq(AliasLines) /\ aliasFile \in [exists : BOOLEAN, lines : Seq(AliasLines)]
  /\ \A p \in Pids : child[p].state \in {"none", "running", "zombie"}

(* The commands of a well-formed line all have names, and the shell is not *)
(* kept busy by such a line, also while the signal handler runs.           *)
SafeInv ==
  /\ wellFormed => \A i \in DOMAIN queue : queue[i].name \in Parses
  /\ At = "hung" => ~wellFormed
  /\ WellFormedIsSafe

-----------------------------------------------------------------------------
(* main.c: what it hands to tokenizer is a line of symbols.                *)
LEMMA CompletionsTyped ==
  ASSUME NEW typed \in Lines, NEW l \in Completions(typed)
  PROVE  l \in Seq(Symbols)
<1>1. typed \in Seq(Symbols) /\ COMMA \in Symbols
  BY LinesAssumption DEF Symbols
<1>2. Append(typed, COMMA) \in Seq(Symbols)
  BY <1>1
<1>3. l = typed \/ l = Append(typed, COMMA)
  BY DEF Completions
<1> QED
  BY <1>1, <1>2, <1>3

(* A line that main closed with a comma is what was typed and the comma.   *)
LEMMA CommaClosedIs ==
  ASSUME NEW l \in Seq(Symbols), CommaClosed(l)
  PROVE  Front(l) \in Seq(Symbols) /\ l = Append(Front(l), COMMA)
<1>1. Len(l) \in Nat \ {0} /\ l[Len(l)] = COMMA
  BY DEF CommaClosed, Last
<1>2. /\ Front(l) \in Seq(Symbols) /\ Len(Front(l)) = Len(l) - 1
      /\ \A i \in 1 .. Len(l) - 1 : Front(l)[i] = l[i]
  <2>1. Front(l) = SubSeq(l, 1, Len(l) - 1)
    BY DEF Front
  <2> DEFINE m == Len(l) - 1
  <2>2. m \in 0 .. Len(l) /\ 1 \in 1 .. Len(l) + 1 /\ m = Len(l) - 1
    BY <1>1
  <2> HIDE DEF m
  <2>3. /\ SubSeq(l, 1, m) \in Seq(Symbols) /\ Len(SubSeq(l, 1, m)) = m
        /\ \A i \in 1 .. m : SubSeq(l, 1, m)[i] = l[i]
    BY <1>1, <2>2
  <2> QED
    BY <2>1, <2>2, <2>3
<1>3. COMMA \in Symbols
  BY DEF Symbols
<1> DEFINE f == Front(l)
<1> HIDE DEF f
<1>4. /\ f \in Seq(Symbols) /\ Len(f) = Len(l) - 1
      /\ \A i \in 1 .. Len(l) - 1 : f[i] = l[i]
  BY <1>2 DEF f
<1>5. l = Append(f, COMMA)
  BY <1>1, <1>3, <1>4
<1> QED
  BY <1>2, <1>5 DEF f

(* The names and arguments a command can have, and those it has when it    *)
(* neither begins nor ends with a space.                                   *)
LEMMA ParsedTyped ==
  ASSUME NEW node \in Nodes, node.priority <= 255
  PROVE  /\ Parsed(node) \in Commands
         /\ Decent(node.command) => Parsed(node).name \in Parses
<1>1. \A part : WordAt(part) \in Parses
  BY DEF WordAt, Parses
<1>2. Name(node.command) \in Parses \cup {UNSET, NULLARG, ENDLESS}
  BY <1>1 DEF Name
<1>3. Argument(node.command) \in Parses \cup {NULLARG}
  BY <1>1 DEF Argument
<1>4. Decent(node.command) => Name(node.command) \in Parses
  BY <1>1 DEF Name, Decent
<1>5. node.priority \in Int
  BY DEF Nodes
<1> QED
  BY <1>2, <1>3, <1>4, <1>5 DEF Parsed, Commands

(* What MakeQueue makes of any line, and of a well-formed one.             *)
LEMMA QueueMade ==
  ASSUME line \in Seq(Symbols), MakeQueue
  PROVE  /\ queue' \in Seq(Commands)
         /\ wellFormed' => /\ pc' # "hung"
                           /\ \A i \in DOMAIN queue' : queue'[i].name \in Parses
<1> DEFINE t == tokenizer(line)
<1>1. t.queue \in Seq(Nodes) /\ \A i \in DOMAIN t.queue : t.queue[i].priority <= 255
  BY TokenizerLow DEF Known, LowPriorities
<1>2. /\ queue' = [i \in DOMAIN t.queue |-> Parsed(t.queue[i])]
      /\ wellFormed' = (CommaClosed(line) /\ WellFormed(Front(line)))
      /\ pc' = CASE t.end = "endless" -> "hung"
                 [] t.end # "endless" /\ t.queue = << >> -> "prompt"
                 [] OTHER -> "exec"
  BY DEF MakeQueue
<1> HIDE DEF t
<1>3. \A i \in DOMAIN t.queue : t.queue[i] \in Nodes /\ Parsed(t.queue[i]) \in Commands
  <2>1. \A i \in DOMAIN t.queue : t.queue[i] \in Nodes
    BY <1>1
  <2> QED
    BY <1>1, <2>1, ParsedTyped
<1>4. queue' \in Seq(Commands)
  <2>1. DOMAIN t.queue = 1 .. Len(t.queue) /\ Len(t.queue) \in Nat
    BY <1>1
  <2> QED
    BY <1>2, <1>3, <2>1
<1>5. ASSUME wellFormed'
      PROVE  pc' # "hung" /\ \A i \in DOMAIN queue' : queue'[i].name \in Parses
  <2>1. /\ CommaClosed(line) /\ WellFormed(Front(line))
        /\ Front(line) \in Seq(Symbols) /\ line = Append(Front(line), COMMA)
    BY <1>2, <1>5, CommaClosedIs
  <2>2. t.end = "reading" /\ Queued(Front(line), Ends(Front(line)), t.queue)
    BY <2>1, TokenizerWell DEF t
  <2>3. \A i \in DOMAIN t.queue : Decent(t.queue[i].command)
    <3>1. PICK order \in [DOMAIN t.queue -> Ends(Front(line))] :
            \A k \in DOMAIN t.queue :
              t.queue[k] = [command |-> Text(Front(line), order[k]),
                            priority |-> 255 - Inside(Front(line), order[k])]
      BY <2>2 DEF Queued, InOrder
    <3>2. \A e \in Ends(Front(line)) : Decent(Text(Front(line), e))
      BY <2>2 DEF Queued
    <3>3. ASSUME NEW i \in DOMAIN t.queue PROVE Decent(t.queue[i].command)
      <4>1. order[i] \in Ends(Front(line))
        BY <3>1
      <4>2. t.queue[i] = [command |-> Text(Front(line), order[i]),
                          priority |-> 255 - Inside(Front(line), order[i])]
        BY <3>1, Zenon
      <4>3. t.queue[i].command = Text(Front(line), order[i])
        BY <4>2
      <4> QED
        BY <3>2, <4>1, <4>3
    <3> QED
      BY <3>3
  <2>4. \A i \in DOMAIN queue' : queue'[i].name \in Parses
    <3>1. \A i \in DOMAIN t.queue : Parsed(t.queue[i]).name \in Parses
      BY <1>1, <1>3, <2>3, ParsedTyped
    <3> QED
      BY <1>2, <3>1
  <2>5. pc' # "hung"
    BY <1>2, <2>2
  <2> QED
    BY <2>4, <2>5
<1> QED
  BY <1>4, <1>5

(* One command less.                                                       *)
LEMMA TailOfQueue ==
  ASSUME NEW S, NEW q \in Seq(S), q # << >>
  PROVE  /\ Tail(q) \in Seq(S) /\ Head(q) \in S
         /\ Head(q) = q[1] /\ 1 \in DOMAIN q
         /\ \A i \in DOMAIN Tail(q) : i + 1 \in DOMAIN q /\ Tail(q)[i] = q[i + 1]
OBVIOUS

(* A name that a word can have is none of the three that are no name.      *)
LEMMA NamesDiffer ==
  UNSET \notin Parses /\ NULLARG \notin Parses /\ ENDLESS \notin Parses
BY NamesAssumption DEF Parses, UNSET, NULLARG, ENDLESS, NONAME

-----------------------------------------------------------------------------
(* Types.                                                                  *)
LEMMA InitType == Init => TypeInv
<1> SUFFICES ASSUME Init PROVE TypeInv
  OBVIOUS
<1>1. << >> \in Seq(Symbols) /\ << >> \in Seq(Commands) /\ << >> \in Seq(AliasLines)
  OBVIOUS
<1>2. aliasFile \in [exists : BOOLEAN, lines : Seq(AliasLines)]
  BY <1>1 DEF Init
<1>3. \A p \in Pids : child[p].state = "none"
  BY DEF Init, NoChild
<1> QED
  BY <1>1, <1>2, <1>3 DEF Init, TypeInv, Places

(* What changes no sequence and no child.                                  *)
LEMMA MovesType ==
  ASSUME TypeInv, UNCHANGED <<wellFormed, interrupted, line, queue, aliases, aliasFile, child>>,
         pc' \in Places, resume' \in Places \ {"asking", "exited", "crashed"}
  PROVE  TypeInv'
BY DEF TypeInv

(* An alias that create_alias makes of an argument.                        *)
LEMMA NewAliasTyped ==
  ASSUME NEW argument \in Parses \cup {NULLARG}, NEW new \in NewAliases(argument)
  PROVE  new \in AliasLines
<1>1. CASE argument \in Definitions
  <2>1. AliasOf[argument] \in Words /\ ValueOf[argument] \in Words
    BY <1>1, DefinitionsAssumption
  <2>2. new = [alias |-> AliasOf[argument], match |-> ValueOf[argument]]
    BY <1>1 DEF NewAliases
  <2> QED
    BY <2>1, <2>2 DEF AliasLines, Parses
<1>2. CASE argument \notin Definitions
  <2>1. new = [alias |-> argument, match |-> NONAME]
    BY <1>2 DEF NewAliases
  <2> QED
    BY <2>1 DEF AliasLines, Parses
<1> QED
  BY <1>1, <1>2

(* Every step keeps the types.                                             *)
LEMMA NextType == TypeInv /\ BatchInv /\ [Next]_vars => TypeInv'
<1> SUFFICES ASSUME TypeInv, BatchInv, [Next]_vars PROVE TypeInv'
  OBVIOUS
<1>1. /\ pc \in Places /\ resume \in Places \ {"asking", "exited", "crashed"}
      /\ wellFormed \in BOOLEAN /\ interrupted \in BOOLEAN
      /\ line \in Seq(Symbols) /\ queue \in Seq(Commands)
      /\ aliases \in Seq(AliasLines) /\ aliasFile \in [exists : BOOLEAN, lines : Seq(AliasLines)]
      /\ \A p \in Pids : child[p].state \in {"none", "running", "zombie"}
  BY DEF TypeInv
<1>2. child = [p \in Pids |-> [state |-> child[p].state, priority |-> child[p].priority]]
  BY DEF BatchInv, Typed
<1>3. << >> \in Seq(Symbols) /\ << >> \in Seq(Commands) /\ << >> \in Seq(AliasLines)
  OBVIOUS
<1>4. [exists |-> TRUE, lines |-> aliases] \in [exists : BOOLEAN, lines : Seq(AliasLines)]
  BY <1>1
<1>5. CASE RestoreAlias
  <2>1. Len(aliases) \in Nat /\ Len(aliasFile.lines) \in Nat /\ aliasFile.lines \in Seq(AliasLines)
    BY <1>1
  <2>2. Len(aliases) + 1 \in 1 .. Len(aliasFile.lines)
    BY <1>5, <2>1 DEF RestoreAlias
  <2>3. aliasFile.lines[Len(aliases) + 1] \in AliasLines
    BY <2>1, <2>2
  <2>4. aliases' \in Seq(AliasLines)
    BY <1>1, <1>5, <2>3 DEF RestoreAlias
  <2> QED
    BY <1>1, <1>5, <2>4 DEF RestoreAlias, TypeInv
<1>6. CASE Restored
  <2>1. pc' \in Places
    BY <1>6 DEF Restored, Places
  <2> QED
    BY <1>1, <1>6, <2>1, MovesType DEF Restored
<1>7. CASE ReadLine
  <2>1. line' \in Seq(Symbols)
    BY <1>7, CompletionsTyped DEF ReadLine
  <2>2. \A p \in Pids : child'[p].state = child[p].state
    BY <1>2, <1>7 DEF ReadLine
  <2> QED
    BY <1>1, <1>7, <2>1, <2>2 DEF ReadLine, TypeInv, Places
<1>8. CASE MakeQueue
  <2>1. queue' \in Seq(Commands)
    BY <1>1, <1>8, QueueMade
  <2>2. pc' \in Places /\ wellFormed' \in BOOLEAN /\ line' = << >>
    <3>1. pc' \in Places
      BY <1>8 DEF MakeQueue, Places
    <3>2. (CommaClosed(line) /\ WellFormed(Front(line))) \in BOOLEAN
      OBVIOUS
    <3> QED
      BY <1>8, <3>1, <3>2 DEF MakeQueue
  <2>3. UNCHANGED <<resume, interrupted, aliases, aliasFile, child>>
    BY <1>8 DEF MakeQueue
  <2> QED
    BY <1>1, <1>3, <2>1, <2>2, <2>3 DEF TypeInv
<1>9. CASE ParseForever \/ BadFirstArgument \/ Overflow
  <2>1. pc' \in Places
    BY <1>9 DEF ParseForever, BadFirstArgument, Overflow, Places
  <2> QED
    BY <1>1, <1>9, <2>1, MovesType DEF ParseForever, BadFirstArgument, Overflow
<1>10. CASE Alias
  <2>1. pc' \in Places /\ queue' \in Seq(Commands)
    BY <1>1, <1>3, <1>10 DEF Alias, Returns, Places
  <2>2. aliases' \in Seq(AliasLines)
    <3>1. CASE UNCHANGED aliases
      BY <1>1, <3>1
    <3>2. CASE create_alias(Next1.argument)
      <4>1. Next1 \in Commands
        BY <1>1, <1>10, TailOfQueue DEF Alias, AtCommand, Next1
      <4>2. Next1.argument \in Parses \cup {NULLARG}
        BY <4>1 DEF Commands
      <4>3. PICK new \in NewAliases(Next1.argument) :
              aliases' = IF is_alias(new.alias) # 0 THEN aliases ELSE Append(aliases, new)
        BY <3>2 DEF create_alias
      <4>4. new \in AliasLines
        BY <4>2, <4>3, NewAliasTyped
      <4>5. Append(aliases, new) \in Seq(AliasLines)
        BY <1>1, <4>4
      <4> QED
        BY <1>1, <4>3, <4>5
    <3> QED
      BY <1>10, <3>1, <3>2 DEF Alias
  <2> QED
    BY <1>1, <1>10, <2>1, <2>2 DEF Alias, TypeInv
<1>11. CASE Exit
  BY <1>1, <1>4, <1>11 DEF Exit, TypeInv, Places
<1>12. CASE ChangeDirectory
  BY <1>1, <1>3, <1>12 DEF ChangeDirectory, Returns, TypeInv, Places
<1>13. CASE Fork
  <2>1. pc' \in Places /\ queue' \in Seq(Commands)
    <3>1. Tail(queue) \in Seq(Commands)
      BY <1>1, <1>13, TailOfQueue DEF Fork, Forks, AtCommand
    <3> QED
      BY <1>13, <3>1 DEF Fork, Stored, Places
  <2>2. \A p \in Pids : child'[p].state \in {"none", "running", "zombie"}
    <3>1. \/ UNCHANGED child
          \/ \E q \in Pids :
               child' = [child EXCEPT ![q] = [state |-> "running", priority |-> Next1.priority]]
      BY <1>13 DEF Fork
    <3>2. CASE UNCHANGED child
      BY <1>1, <3>2
    <3>3. CASE \E q \in Pids :
                 child' = [child EXCEPT ![q] = [state |-> "running", priority |-> Next1.priority]]
      BY <1>1, <1>2, <3>3
    <3> QED
      BY <3>1, <3>2, <3>3
  <2> QED
    BY <1>1, <1>13, <2>1, <2>2 DEF Fork, TypeInv
<1>14. CASE Reap \/ NoSuchChild
  <2>1. \A p \in Pids : child'[p].state \in {"none", "running", "zombie"}
    <3>1. NoChild.state = "none"
      BY DEF NoChild
    <3>2. UNCHANGED child \/ \E q \in Pids : child' = [child EXCEPT ![q] = NoChild]
      BY <1>14 DEF Reap, NoSuchChild, Zombies
    <3>3. CASE UNCHANGED child
      BY <1>1, <3>3
    <3>4. CASE \E q \in Pids : child' = [child EXCEPT ![q] = NoChild]
      BY <1>1, <1>2, <3>1, <3>4
    <3> QED
      BY <3>2, <3>3, <3>4
  <2> QED
    BY <1>1, <1>14, <2>1 DEF Reap, NoSuchChild, WaitAdvances, TypeInv
<1>15. CASE BatchDone
  <2>1. pc' \in Places
    BY <1>15 DEF BatchDone, Places
  <2> QED
    BY <1>1, <1>15, <2>1, MovesType DEF BatchDone
<1>16. CASE \E p \in Pids : ChildExit(p)
  <2>1. PICK p \in Pids : child' = [child EXCEPT ![p].state = "zombie"]
    BY <1>16 DEF ChildExit
  <2>2. \A q \in Pids : child'[q].state \in {"none", "running", "zombie"}
    BY <1>1, <1>2, <2>1
  <2> QED
    BY <1>1, <1>16, <2>2 DEF ChildExit, TypeInv
<1>17. CASE CtrlC
  <2>1. PICK ended \in SUBSET Running :
          child' = [p \in Pids |-> IF p \in ended THEN [child[p] EXCEPT !.state = "zombie"]
                                   ELSE child[p]]
    BY <1>17 DEF CtrlC
  <2>2. ASSUME NEW p \in Pids PROVE child'[p].state \in {"none", "running", "zombie"}
    <3>1. child[p] = [state |-> child[p].state, priority |-> child[p].priority]
      BY <1>2
    <3>2. [child[p] EXCEPT !.state = "zombie"].state = "zombie"
      BY <3>1
    <3>3. child'[p] = [child[p] EXCEPT !.state = "zombie"] \/ child'[p] = child[p]
      BY <2>1
    <3> QED
      BY <1>1, <3>2, <3>3
  <2>3. /\ resume' \in Places \ {"asking", "exited", "crashed"} /\ pc' \in Places
        /\ interrupted' \in BOOLEAN
        /\ UNCHANGED <<line, queue, wellFormed, aliases, aliasFile>>
    BY <1>1, <1>17 DEF CtrlC, TakesSignals, Places
  <2> QED
    BY <1>1, <2>2, <2>3 DEF TypeInv
<1>18. CASE AnswerYes
  BY <1>1, <1>4, <1>18 DEF AnswerYes, TypeInv, Places
<1>19. CASE AnswerNo
  <2>1. pc' \in Places /\ resume' \in Places \ {"asking", "exited", "crashed"}
    BY <1>1, <1>19 DEF AnswerNo, Places
  <2> QED
    BY <1>1, <1>19, <2>1, MovesType DEF AnswerNo
<1>20. CASE Restart
  <2>1. \A p \in Pids : child'[p].state \in {"none", "running", "zombie"}
    BY <1>20 DEF Restart, NoChild
  <2> QED
    BY <1>1, <1>3, <1>20, <2>1 DEF Restart, TypeInv, Places
<1>21. CASE UNCHANGED vars
  BY <1>1, <1>21, MovesType DEF vars
<1> QED
  BY <1>5, <1>6, <1>7, <1>8, <1>9, <1>10, <1>11, <1>12, <1>13, <1>14, <1>15, <1>16, <1>17, <1>18,
     <1>19, <1>20, <1>21 DEF Next, Executes, Waits

(* The invariant of types, which rests on that of the batches for the form *)
(* of child.                                                               *)
LEMMA TypeInvariant == Spec => []TypeInv
<1> QED
  BY InitType, NextType, BatchInvariant, PTL DEF Spec

(* functions.c and tokenizer.c:47 and 55: the variables have their types,  *)
(* and no line, well-formed or not, gives a command a priority beyond 255. *)
THEOREM TypesOK == Spec => []TypeOK
<1>1. ASSUME TypeInv, BatchInv PROVE TypeOK
  <2>1. \A i \in DOMAIN queue : IsCommand(queue[i])
    <3>1. \A i \in DOMAIN queue : queue[i] \in Commands
      BY <1>1 DEF TypeInv
    <3>2. \A c \in Commands : IsCommand(c)
      BY DEF Commands, IsCommand, Parses
    <3> QED
      BY <3>1, <3>2
  <2>2. \A i \in DOMAIN batch : batch[i] \in Pids \cup {ANY, GARBAGE}
    BY <1>1 DEF BatchInv, Typed, Entries
  <2>3. \A i \in DOMAIN aliases : aliases[i].match \in Words \cup {NONAME}
    <3>1. \A i \in DOMAIN aliases : aliases[i] \in AliasLines
      BY <1>1 DEF TypeInv
    <3> QED
      BY <3>1 DEF AliasLines, Parses
  <2> QED
    BY <1>1, <2>1, <2>2, <2>3 DEF TypeInv, TypeOK
<1> QED
  BY <1>1, TypeInvariant, BatchInvariant, PTL

(* main.c:179, tokenizer.c:16-137 and queuestruct.c:24-50: the queue the   *)
(* tokenizer makes of a well-formed line, however long and deep it is, has *)
(* every command once, the deeper ones first, and those of one depth in    *)
(* the order they were typed.                                              *)
THEOREM QueuedByDepth == Spec => []QueueByDepth
<1>1. ASSUME TypeInv PROVE QueueByDepth
  <2> SUFFICES ASSUME CommaClosed(line), WellFormed(Front(line))
               PROVE  Means(tokenizer(line).queue, Front(line))
    BY DEF QueueByDepth
  <2>1. Front(line) \in Seq(Symbols) /\ line = Append(Front(line), COMMA)
    BY <1>1, CommaClosedIs DEF TypeInv
  <2>2. Queued(Front(line), Ends(Front(line)), tokenizer(line).queue)
    BY <2>1, TokenizerWell
  <2> QED
    BY <2>2 DEF Queued, Means
<1> QED
  BY <1>1, TypeInvariant, PTL

-----------------------------------------------------------------------------
(* What a well-formed line does to the shell.                              *)
LEMMA InitSafe == Init => SafeInv
BY DEF Init, SafeInv, WellFormedIsSafe, At

(* What leaves the queue alone, or empties it, and crashes nothing.        *)
LEMMA MovesSafe ==
  ASSUME SafeInv, wellFormed' = wellFormed, queue' = queue \/ queue' = << >>,
         At' = At \/ At' # "hung", pc' # "hung" \/ At' = "hung", pc' # "crashed"
  PROVE  SafeInv'
BY DEF SafeInv, WellFormedIsSafe

(* Every step keeps a well-formed line from hanging or crashing the shell. *)
LEMMA NextSafe == SafeInv /\ TypeInv /\ [Next]_vars => SafeInv'
<1> SUFFICES ASSUME SafeInv, TypeInv, [Next]_vars PROVE SafeInv'
  OBVIOUS
<1>1. /\ queue \in Seq(Commands) /\ line \in Seq(Symbols)
      /\ wellFormed \in BOOLEAN /\ resume \notin {"asking", "exited", "crashed"}
  BY DEF TypeInv
<1>2. wellFormed => \A i \in DOMAIN queue : queue[i].name \in Parses
  BY DEF SafeInv
<1>3. queue # << >> => Next1 = queue[1] /\ 1 \in DOMAIN queue
  BY <1>1, TailOfQueue DEF Next1
<1> USE DEF At
<1>4. CASE RestoreAlias
  BY <1>4, MovesSafe DEF RestoreAlias
<1>5. CASE Restored
  <2>1. CASE aliasFile.exists
    BY <1>5, <2>1, MovesSafe DEF Restored
  <2>2. CASE ~aliasFile.exists
    BY <1>5, <2>2 DEF Restored, SafeInv, WellFormedIsSafe
  <2> QED
    BY <2>1, <2>2
<1>6. CASE ReadLine
  BY <1>6, MovesSafe DEF ReadLine
<1>7. CASE MakeQueue
  <2>1. wellFormed' => pc' # "hung" /\ \A i \in DOMAIN queue' : queue'[i].name \in Parses
    BY <1>1, <1>7, QueueMade
  <2>2. pc' \in {"hung", "prompt", "exec"}
    BY <1>7 DEF MakeQueue
  <2> QED
    BY <2>1, <2>2 DEF SafeInv, WellFormedIsSafe
<1>8. CASE ParseForever
  <2>1. queue # << >> /\ Next1.name = ENDLESS
    BY <1>8 DEF ParseForever, AtCommand
  <2>2. ~wellFormed
    BY <1>2, <1>3, <2>1, NamesDiffer
  <2> QED
    BY <1>8, <2>2 DEF ParseForever, SafeInv, WellFormedIsSafe
<1>9. CASE BadFirstArgument
  <2>1. queue # << >> /\ Next1.name \in {UNSET, NULLARG}
    BY <1>9 DEF BadFirstArgument, AtCommand
  <2>2. ~wellFormed
    BY <1>2, <1>3, <2>1, NamesDiffer
  <2> QED
    BY <1>9, <2>2 DEF BadFirstArgument, SafeInv, WellFormedIsSafe
<1>10. CASE Alias
  <2>1. pc = "exec" /\ Next1.name = "alias" /\ wellFormed' = wellFormed
    BY <1>10 DEF Alias, AtCommand
  <2>2. CASE Returns
    BY <1>10, <2>1, <2>2, MovesSafe DEF Returns
  <2>3. CASE pc' = "crashed" /\ UNCHANGED queue
    BY <2>1, <2>3 DEF SafeInv, WellFormedIsSafe, Next1
  <2> QED
    BY <1>10, <2>2, <2>3 DEF Alias
<1>11. CASE Exit
  BY <1>11, MovesSafe DEF Exit, AtCommand
<1>12. CASE ChangeDirectory
  BY <1>12, MovesSafe DEF ChangeDirectory, Returns
<1>13. CASE Fork
  <2>1. queue # << >> /\ queue' = Tail(queue) /\ pc' \in {"exec", "wait"} /\ wellFormed' = wellFormed
    BY <1>13 DEF Fork, Forks, AtCommand, Stored
  <2>2. wellFormed => \A i \in DOMAIN queue' : queue'[i].name \in Parses
    BY <1>1, <1>2, <2>1, TailOfQueue
  <2> QED
    BY <2>1, <2>2 DEF SafeInv, WellFormedIsSafe
<1>14. CASE Overflow
  BY <1>14 DEF Overflow, SafeInv, WellFormedIsSafe
<1>15. CASE Reap \/ NoSuchChild
  BY <1>15, MovesSafe DEF Reap, NoSuchChild, WaitAdvances
<1>16. CASE BatchDone
  BY <1>16, MovesSafe DEF BatchDone
<1>17. CASE \E p \in Pids : ChildExit(p)
  BY <1>17 DEF ChildExit, SafeInv, WellFormedIsSafe, Next1
<1>18. CASE CtrlC
  BY <1>18, MovesSafe DEF CtrlC, TakesSignals
<1>19. CASE AnswerYes
  BY <1>19, MovesSafe DEF AnswerYes
<1>20. CASE AnswerNo
  BY <1>1, <1>20, MovesSafe DEF AnswerNo
<1>21. CASE Restart
  BY <1>21 DEF Restart, SafeInv, WellFormedIsSafe
<1>22. CASE UNCHANGED vars
  BY <1>22 DEF vars, SafeInv, WellFormedIsSafe, Next1
<1> QED
  BY <1>4, <1>5, <1>6, <1>7, <1>8, <1>9, <1>10, <1>11, <1>12, <1>13, <1>14, <1>15, <1>16, <1>17,
     <1>18, <1>19, <1>20, <1>21, <1>22 DEF Next, Executes, Waits

(* functions.c:244-268 and 317-336: whatever well-formed line is typed,    *)
(* the shell never parses it for ever, and it crashes only with alias or   *)
(* with more commands of one depth than pid_child has places.              *)
THEOREM WellFormedLinesAreSafe == Spec => []WellFormedIsSafe
<1>1. Spec => []SafeInv
  BY InitSafe, NextSafe, TypeInvariant, PTL DEF Spec
<1>2. SafeInv => WellFormedIsSafe
  BY DEF SafeInv
<1> QED
  BY <1>1, <1>2, PTL
=============================================================================
