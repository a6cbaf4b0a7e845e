-------------------------------- MODULE Shell --------------------------------
(***************************************************************************)
(* The shell of "Project 1 - Shell": the loop of main.c, and functions.c,  *)
(* which restores the aliases, executes the queue of commands, answers     *)
(* Ctrl-C and saves the aliases.  What runs beside the shell are the       *)
(* programs it started, the user's Ctrl-C, and the next shell the user     *)
(* starts when this one has ended.                                         *)
(***************************************************************************)
EXTENDS Tokenizer

CONSTANTS Lines,        \* what a user types in one line
          Definitions,  \* the words that define an alias, as n=c
          AliasOf,      \* the n of a definition
          ValueOf,      \* the c of a definition
          MAX_CMD_NUM,  \* places in pid_child
          Pids          \* the processes the kernel lets the shell have

ASSUME LinesAssumption == \A typed \in Lines : typed \in Seq(Symbols)
ASSUME DefinitionsAssumption ==
  /\ Definitions \subseteq Words
  /\ AliasOf \in [Definitions -> Words \ Definitions]
  /\ ValueOf \in [Definitions -> Words \ Definitions]
ASSUME BatchAssumption == MAX_CMD_NUM \in Nat \ {0}
ASSUME PidsAssumption == IsFiniteSet(Pids) /\ Pids \subseteq Nat \ {0}

VARIABLES pc,          \* where main is: see Places
          resume,      \* where the signal handler returns to
          line,        \* the line that was read and not made a queue yet
          queue,       \* commands that are still to execute
          wellFormed,  \* whether they come from a well-formed line
          batch,       \* pid_child: processes still to wait for
          child,       \* the children the kernel knows of
          aliases,     \* alias and match
          aliasFile,   \* alias.txt: whether it exists, and its lines
          interrupted  \* whether Ctrl-C ended a waitpid of this line

vars == <<pc, resume, line, queue, wellFormed, batch, child, aliases, aliasFile, interrupted>>

Places == {"start", "prompt", "tokenizer", "exec", "wait", "hung", "asking", "exited", "crashed"}

(* Names no word has: args[0] that was never set, that is NULL, and a      *)
(* command whose parsing does not end.                                     *)
UNSET   == "unset"
NULLARG == "null"
ENDLESS == "endless"
NONAME  == "noname"     \* several symbols that make no single word

ANY     == -1   \* what a failed fork leaves in pid_child
GARBAGE == -2   \* the entry behind those that were written, whatever it is

OLD == 256      \* no priority, which is at most 255: a child of an earlier line

ASSUME NamesAssumption == Words \cap {UNSET, NULLARG, ENDLESS, NONAME} = {}

NoChild == [state |-> "none", priority |-> OLD]

Running == {p \in Pids : child[p].state = "running"}
Zombies == {p \in Pids : child[p].state = "zombie"}
Current == {p \in Running : child[p].priority # OLD}

-----------------------------------------------------------------------------
(* The arguments of a command.                                             *)
WordAt(part) == IF Len(part) = 1 /\ part[1] \in Words THEN part[1] ELSE NONAME

FirstPart(command) == SelectInSeq(command, LAMBDA s : s = SPACE)

(* Mutant: the loop over the arguments stops at the first space.           *)
Name_stuck(command) ==
  IF command = << >> THEN UNSET
  ELSE IF FirstPart(command) # 0 THEN ENDLESS
  ELSE WordAt(command)

Name(command) ==
  IF command = << >> THEN UNSET
  ELSE IF Last(command) = SPACE THEN ENDLESS
  ELSE IF command[1] = SPACE THEN NULLARG
  ELSE WordAt(IF FirstPart(command) = 0 THEN command
              ELSE SubSeq(command, 1, FirstPart(command) - 1))

(* Only alias looks at its argument.                                       *)
Argument(command) ==
  IF Name(command) # "alias" \/ FirstPart(command) = 0 THEN NULLARG
  ELSE LET rest == SubSeq(command, FirstPart(command) + 1, Len(command))
       IN  WordAt(IF FirstPart(rest) = 0 THEN rest ELSE SubSeq(rest, 1, FirstPart(rest) - 1))

Parsed(node) ==
  [name |-> Name(node.command), argument |-> Argument(node.command), priority |-> node.priority]

(* What is_alias makes of a name: the value of the first alias that has it. *)
is_alias(name) == SelectInSeq(aliases, LAMBDA a : a.alias = name)
Replaced(name) == IF is_alias(name) = 0 THEN name ELSE aliases[is_alias(name)].match

-----------------------------------------------------------------------------
Init ==
  /\ pc = "start" /\ resume = "start"
  /\ line = << >> /\ queue = << >> /\ wellFormed = TRUE
  /\ batch = << >> /\ child = [p \in Pids |-> NoChild]
  /\ aliases = << >> /\ aliasFile \in [exists : BOOLEAN, lines : {<< >>}]
  /\ interrupted = FALSE

(* One line of alias.txt is read.  Without the file, fclose is given NULL. *)
RestoreAlias ==
  /\ pc = "start" /\ aliasFile.exists /\ Len(aliases) < Len(aliasFile.lines)
  /\ aliases' = Append(aliases, aliasFile.lines[Len(aliases) + 1])
  /\ UNCHANGED <<pc, resume, line, queue, wellFormed, batch, child, aliasFile, interrupted>>

Restored ==
  /\ pc = "start"
  /\ \/ ~aliasFile.exists /\ pc' = "crashed"
     \/ aliasFile.exists /\ Len(aliases) = Len(aliasFile.lines) /\ pc' = "prompt"
  /\ UNCHANGED <<resume, line, queue, wellFormed, batch, child, aliases, aliasFile, interrupted>>

ReadLine ==
  /\ pc = "prompt"
  /\ \E typed \in Lines : line' \in Completions(typed)
  /\ pc' = "tokenizer" /\ batch' = << >> /\ interrupted' = FALSE
  /\ child' = [p \in Pids |-> [child[p] EXCEPT !.priority = OLD]]
  /\ UNCHANGED <<resume, queue, wellFormed, aliases, aliasFile>>

CommaClosed(l) == l # << >> /\ Last(l) = COMMA

MakeQueue ==
  LET t == tokenizer(line) IN
  /\ pc = "tokenizer"
  /\ queue' = [i \in DOMAIN t.queue |-> Parsed(t.queue[i])]
  /\ wellFormed' = (CommaClosed(line) /\ WellFormed(Front(line)))
  /\ pc' = CASE t.end = "endless" -> "hung"
             [] t.end # "endless" /\ t.queue = << >> -> "prompt"
             [] OTHER -> "exec"
  /\ line' = << >>
  /\ UNCHANGED <<resume, batch, child, aliases, aliasFile, interrupted>>

-----------------------------------------------------------------------------
(* qexecution looks at the next command.                                   *)
Next1 == Head(queue)
AtCommand(names) == pc = "exec" /\ queue # << >> /\ Next1.name \in names

ParseForever ==
  /\ AtCommand({ENDLESS})
  /\ pc' = "hung"
  /\ UNCHANGED <<resume, line, queue, wellFormed, batch, child, aliases, aliasFile, interrupted>>

(* args[0] is compared with a name.                                        *)
BadFirstArgument ==
  /\ AtCommand({UNSET, NULLARG})
  /\ pc' = "crashed"
  /\ UNCHANGED <<resume, line, queue, wellFormed, batch, child, aliases, aliasFile, interrupted>>

(* The argument is copied to a larger array and read on to the next '='    *)
(* and the next newline, which may not come before the memory ends.  When  *)
(* they do, what follows the argument's end is no part of a string, but an *)
(* argument without '=' gets a value nobody typed.  The queue is left.     *)
NewAliases(argument) ==
  IF argument \in Definitions THEN {[alias |-> AliasOf[argument], match |-> ValueOf[argument]]}
  ELSE {[alias |-> argument, match |-> NONAME]}

(* Back in main, which deletes the queue.                                  *)
Returns == pc' = "prompt" /\ queue' = << >>

(* Mutant: an alias that exists is replaced.                               *)
create_alias_replacing(argument) ==
  \E new \in NewAliases(argument) :
    aliases' = Append(SelectSeq(aliases, LAMBDA a : a.alias # new.alias), new)

create_alias(argument) ==
  \E new \in NewAliases(argument) :
    aliases' = IF is_alias(new.alias) # 0 THEN aliases ELSE Append(aliases, new)

Alias ==
  /\ AtCommand({"alias"})
  /\ \/ /\ Next1.argument # NULLARG
        /\ create_alias(Next1.argument)
        /\ Returns
     \/ /\ pc' = "crashed"
        /\ UNCHANGED <<queue, aliases>>
  /\ UNCHANGED <<resume, line, wellFormed, batch, child, aliasFile, interrupted>>

(* exit, also as the value of an alias.                                    *)
Exit ==
  /\ AtCommand(Words) /\ Next1.name # "alias" /\ Replaced(Next1.name) = "exit"
  /\ aliasFile' = [exists |-> TRUE, lines |-> aliases]
  /\ pc' = "exited"
  /\ UNCHANGED <<resume, line, queue, wellFormed, batch, child, aliases, interrupted>>

(* cd returns too.  args[0] that was not set may still be the cd of an     *)
(* earlier line.                                                           *)
ChangeDirectory ==
  /\ \/ AtCommand(Words) /\ Next1.name # "alias" /\ Replaced(Next1.name) = "cd"
     \/ AtCommand({UNSET})
  /\ Returns
  /\ UNCHANGED <<resume, line, wellFormed, batch, child, aliases, aliasFile, interrupted>>

(* Any other command is forked.  The inner loop ends with the queue, after *)
(* a command of priority 255, or when the next one has another priority;   *)
(* in the last two cases one process too many has been counted.            *)
Forks == AtCommand({UNSET, NONAME} \cup (Words \ {"alias"}))
         /\ Replaced(Next1.name) \notin {"exit", "cd"}

(* Mutant: commands outside parentheses run together too.                 *)
SameBatch_parallel(rest, priority) ==
  rest # << >> /\ Head(rest).priority = priority

SameBatch(rest, priority) ==
  rest # << >> /\ priority # 255 /\ Head(rest).priority = priority

(* Mutant: the processes are waited for without the one counted last.      *)
Stored_uncounted(pid) ==
  LET rest == Tail(queue)
      more == SameBatch(rest, Next1.priority)
  IN  /\ queue' = rest
      /\ pc' = IF more THEN "exec" ELSE "wait"
      /\ batch' = batch \o IF rest = << >> THEN << >> ELSE <<pid>>

Stored(pid) ==
  LET rest == Tail(queue)
      more == SameBatch(rest, Next1.priority)
  IN  /\ queue' = rest
      /\ pc' = IF more THEN "exec" ELSE "wait"
      /\ batch' = batch \o IF more \/ rest = << >> THEN <<pid>> ELSE <<pid, GARBAGE>>

Fork ==
  /\ Forks
  /\ \/ \E p \in Pids :
          /\ child[p].state = "none"
          /\ child' = [child EXCEPT ![p] = [state |-> "running", priority |-> Next1.priority]]
          /\ Stored(p)
     \/ /\ \A p \in Pids : child[p].state # "none"
        /\ Stored(ANY)
        /\ UNCHANGED child
  /\ UNCHANGED <<resume, line, wellFormed, aliases, aliasFile, interrupted>>

(* pid_child is full: what is written behind it may be what the shell      *)
(* cannot do without.                                                      *)
Overflow ==
  /\ Forks /\ Len(batch) >= MAX_CMD_NUM
  /\ pc' = "crashed"
  /\ UNCHANGED <<resume, line, queue, wellFormed, batch, child, aliases, aliasFile, interrupted>>

-----------------------------------------------------------------------------
(* waitpid, for the processes of the batch one after the other.            *)
WaitAdvances ==
  /\ pc = "wait" /\ batch # << >>
  /\ batch' = Tail(batch)
  /\ UNCHANGED <<pc, resume, line, queue, wellFormed, aliases, aliasFile, interrupted>>

Reap ==
  /\ WaitAdvances
  /\ \E p \in Zombies : /\ Head(batch) \in {p, ANY, GARBAGE}
                       /\ child' = [child EXCEPT ![p] = NoChild]

(* Mutant: waitpid is repeated until it has reaped the child.              *)
NoSuchChild_repeated ==
  /\ WaitAdvances
  /\ Head(batch) = GARBAGE
  /\ UNCHANGED child

(* ECHILD: the child was reaped before, or there is none.                  *)
NoSuchChild ==
  /\ WaitAdvances
  /\ \/ Head(batch) \in Pids /\ child[Head(batch)].state = "none"
     \/ Head(batch) = ANY /\ Running \cup Zombies = {}
     \/ Head(batch) = GARBAGE
  /\ UNCHANGED child

BatchDone ==
  /\ pc = "wait" /\ batch = << >>
  /\ pc' = IF queue = << >> THEN "prompt" ELSE "exec"
  /\ UNCHANGED <<resume, line, queue, wellFormed, batch, child, aliases, aliasFile, interrupted>>

-----------------------------------------------------------------------------
(* A program ends.                                                         *)
ChildExit(p) ==
  /\ child[p].state = "running"
  /\ child' = [child EXCEPT ![p].state = "zombie"]
  /\ UNCHANGED <<pc, resume, line, queue, wellFormed, batch, aliases, aliasFile, interrupted>>

(* Ctrl-C reaches the shell and its programs, some of which it ends.  The  *)
(* waitpid the shell is blocked in may return, and its result is not       *)
(* looked at.                                                              *)
Blocked ==
  /\ pc = "wait" /\ batch # << >>
  /\ \/ Head(batch) \in Running
     \/ Head(batch) \in {ANY, GARBAGE} /\ Running # {}

(* Mutant: the signal is not blocked while its handler runs.               *)
TakesSignals_nested == pc \notin {"exited", "crashed"}

TakesSignals == pc \notin {"asking", "exited", "crashed"}

CtrlC ==
  /\ TakesSignals
  /\ \E ended \in SUBSET Running :
       child' = [p \in Pids |-> IF p \in ended THEN [child[p] EXCEPT !.state = "zombie"]
                                ELSE child[p]]
  /\ \/ UNCHANGED <<batch, interrupted>>
     \/ Blocked /\ batch' = Tail(batch) /\ interrupted' = TRUE
  /\ resume' = pc /\ pc' = "asking"
  /\ UNCHANGED <<line, queue, wellFormed, aliases, aliasFile>>

(* The answer to whether to quit.                                          *)
AnswerYes ==
  /\ pc = "asking"
  /\ aliasFile' = [exists |-> TRUE, lines |-> aliases]
  /\ pc' = "exited" /\ resume' = "start"
  /\ UNCHANGED <<line, queue, wellFormed, batch, child, aliases, interrupted>>

AnswerNo ==
  /\ pc = "asking"
  /\ pc' = resume /\ resume' = "start"
  /\ UNCHANGED <<line, queue, wellFormed, batch, child, aliases, aliasFile, interrupted>>

(* The user starts the shell again.                                        *)
Restart ==
  /\ pc \in {"exited", "crashed"}
  /\ pc' = "start" /\ resume' = "start"
  /\ line' = << >> /\ queue' = << >> /\ wellFormed' = TRUE
  /\ batch' = << >> /\ child' = [p \in Pids |-> NoChild]
  /\ aliases' = << >> /\ interrupted' = FALSE
  /\ UNCHANGED aliasFile

-----------------------------------------------------------------------------
Executes == ParseForever \/ BadFirstArgument \/ Alias \/ Exit \/ ChangeDirectory \/ Fork \/ Overflow
Waits == Reap \/ NoSuchChild \/ BatchDone

Next ==
  \/ RestoreAlias \/ Restored \/ ReadLine \/ MakeQueue
  \/ Executes \/ Waits
  \/ \E p \in Pids : ChildExit(p)
  \/ CtrlC \/ AnswerYes \/ AnswerNo \/ Restart

(* The shell goes on whenever it can, and a program it started ends at     *)
(* some time.  Nothing is asked of the user.                               *)
Fairness ==
  /\ WF_vars(Executes) /\ WF_vars(Waits)
  /\ \A p \in Pids : WF_vars(ChildExit(p))

Spec == Init /\ [][Next]_vars /\ Fairness

-----------------------------------------------------------------------------
IsCommand(c) ==
  /\ c.name \in Words \cup {UNSET, NULLARG, ENDLESS, NONAME}
  /\ c.argument \in Words \cup {NULLARG, NONAME}
  /\ c.priority \in Int /\ c.priority <= 255

(* The types of the variables: no line gives a command a priority beyond   *)
(* 255, which tokenizer.c:47 and :55 could do with one closed too many,    *)
(* and the handler never interrupts itself (functions.c:26).               *)
TypeOK ==
  /\ pc \in Places /\ resume \in Places \ {"asking", "exited", "crashed"}
  /\ wellFormed \in BOOLEAN /\ interrupted \in BOOLEAN
  /\ \A i \in DOMAIN queue : IsCommand(queue[i])
  /\ \A i \in DOMAIN batch : batch[i] \in Pids \cup {ANY, GARBAGE}
  /\ \A p \in Pids : child[p].state \in {"none", "running", "zombie"}
  /\ \A i \in DOMAIN aliases : aliases[i].match \in Words \cup {NONAME}

(* main.c:179, tokenizer.c:16-137 and queuestruct.c:24-50: of a well-formed *)
(* line the queue holds every command once, without its parentheses, the   *)
(* deeper ones first and those of one depth in the order they were typed.  *)
QueueByDepth ==
  pc = "tokenizer" /\ CommaClosed(line) /\ WellFormed(Front(line)) =>
    Means(tokenizer(line).queue, Front(line))

(* functions.c:231-343: the commands of one depth run together and those   *)
(* of another never beside them, and the commands outside parentheses run  *)
(* one at a time, as long as no wait of this line was interrupted.         *)
DeeperFirst ==
  ~interrupted =>
    \A p, q \in Current : /\ child[p].priority = child[q].priority
                          /\ child[p].priority = 255 => p = q

(* functions.c:340-343: back at the prompt, no program of the line still   *)
(* runs, unless a wait was interrupted or alias or cd ended the execution  *)
(* in front of the wait.                                                   *)
NoneLeftBehind ==
  pc = "prompt" /\ ~interrupted => Current \subseteq Range(batch)

(* functions.c:244-268 and 317-336: a line that is well-formed never keeps *)
(* the shell busy for ever, and crashes it only with alias or with more    *)
(* commands of one depth than pid_child has places.                        *)
WellFormedIsSafe ==
  /\ pc = "hung" => ~wellFormed
  /\ pc = "crashed" /\ aliasFile.exists /\ wellFormed =>
       \/ Next1.name = "alias"
       \/ Len(batch) >= MAX_CMD_NUM

(* functions.c:105-154 and 436-456: what is once in alias.txt stays there, *)
(* in its place, whichever way a shell ends, unless the user quits a shell *)
(* that had not read it to its end.                                        *)
AliasesSurvive ==
  [][\/ IsPrefix(aliasFile.lines, aliasFile'.lines)
     \/ pc = "asking" /\ resume = "start"]_vars

(* main.c:159-186: once a well-formed line is being executed the shell     *)
(* comes back to its prompt, unless the user presses Ctrl-C or the shell   *)
(* ends.                                                                   *)
BackToPrompt ==
  pc = "exec" /\ wellFormed ~> pc \in {"prompt", "asking", "exited", "crashed"}
=============================================================================
