------------------------------ MODULE Tokenizer ------------------------------
(***************************************************************************)
(* How the shell turns a typed line into a queue of commands, translated   *)
(* from "Project 1 - Shell": the comma main.c adds, tokenizer.c, the queue *)
(* of queuestruct.c and the stack of stackstruct.c.                        *)
(*                                                                         *)
(* A line is a sequence of symbols: a word stands for a run of             *)
(* alphanumeric characters, which the tokenizer takes one like the other,  *)
(* every other symbol for one character of its class.  Commands are        *)
(* separated by commas; the deeper a command is in parentheses, the        *)
(* earlier it is executed.                                                 *)
(***************************************************************************)
EXTENDS Integers, Sequences, SequencesExt, FiniteSets, FiniteSetsExt

CONSTANTS Words,      \* words a user types
          Letters,    \* the words that have one character
          MAXSIZE     \* open parentheses the stack holds

ASSUME LettersAssumption == Letters \subseteq Words
ASSUME StackAssumption   == MAXSIZE \in Nat \ {0}

(* The classes of single characters: those of functions.h, and UNCLASSED  *)
(* for a character that is none of them, such as a control character.      *)
SPACE  == "space"
COMMA  == "comma"
LPAREN == "lparen"
RPAREN == "rparen"
PUNCT  == "punct"
UNCLASSED == "unclassed"

ALNUM == "alnum"   \* the state after a word
ERROR == "error"   \* the state at the start

(* No word is one of these names, nor the end of a line.                   *)
ASSUME WordsAssumption ==
  Words \cap {SPACE, COMMA, LPAREN, RPAREN, PUNCT, UNCLASSED, ALNUM, ERROR, "end"} = {}

Symbols == Words \cup {SPACE, COMMA, LPAREN, RPAREN, PUNCT, UNCLASSED}

-----------------------------------------------------------------------------
(* main looks at the last two characters of the line and adds a comma      *)
(* unless one of them is a comma.  In front of a line of one character it  *)
(* looks at a byte outside the array, which may be anything.               *)
OneCharacter(symbol) == symbol \notin Words \ Letters

EndsInComma(typed) ==
  \/ Last(typed) = COMMA
  \/ OneCharacter(Last(typed)) /\ Len(typed) > 1 /\ typed[Len(typed) - 1] = COMMA

Completions(typed) ==
  (IF typed = << >> \/ EndsInComma(typed) THEN {typed} ELSE {Append(typed, COMMA)})
  \cup {line \in {typed} : Len(line) = 1 /\ OneCharacter(line[1])}

(* Mutant: a command goes in front of those of its own priority.           *)
qenqueue_unstable(queue, command, priority) ==
  LET before == {j \in DOMAIN queue : \A k \in 1 .. j : queue[k].priority < priority}
  IN  InsertAt(queue, Cardinality(before) + 1, [command |-> command, priority |-> priority])

(* A command goes behind all that have a priority number as low as its own. *)
qenqueue(queue, command, priority) ==
  LET before == {j \in DOMAIN queue : \A k \in 1 .. j : queue[k].priority <= priority}
  IN  InsertAt(queue, Cardinality(before) + 1, [command |-> command, priority |-> priority])

(* A full stack forgets the parenthesis.                                   *)
spush(stacked) == IF stacked = MAXSIZE THEN stacked ELSE stacked + 1

-----------------------------------------------------------------------------
(* What tokenizer knows: its state, priority and token, how many           *)
(* parentheses are on the stack, the queue, and how far it is: reading,    *)
(* rejecting the line, or at a character it never leaves.                  *)
Started == [state |-> ERROR, priority |-> 0, token |-> << >>, stacked |-> 0,
            queue |-> << >>, end |-> "reading"]

(* The right parentheses directly in front of place i, and what is before. *)
Closing(line, i) ==
  Cardinality({j \in 1 .. i - 1 : \A k \in j .. i - 1 : line[k] = RPAREN})

BehindComma(line, i) ==
  LET j == i - 1 - Closing(line, i) IN j > 0 /\ line[j] = COMMA

Rejected(t) == [t EXCEPT !.end = "rejected"]

Space(t) ==
  [t EXCEPT !.token = IF t.state \in {COMMA, ERROR, SPACE} THEN @ ELSE Append(@, SPACE),
            !.state = SPACE]

(* The priority goes down for the parentheses that close in front of the   *)
(* comma, and for no others.                                               *)
Comma(t, closing) ==
  [t EXCEPT !.queue = qenqueue(@, t.token, 255 - t.priority),
            !.priority = @ - closing,
            !.token = << >>,
            !.state = COMMA]

Left(t) ==
  LET opened == [t EXCEPT !.stacked = spush(@), !.priority = @ + 1, !.state = LPAREN]
  IN  IF t.state \in {COMMA, LPAREN, ERROR, SPACE} THEN opened ELSE Rejected(opened)

Right(t) ==
  LET closed == [t EXCEPT !.stacked = @ - 1, !.state = RPAREN]
  IN  IF t.stacked = 0 THEN Rejected(t)
      ELSE IF t.state \in {ALNUM, SPACE, COMMA, RPAREN} THEN closed ELSE Rejected(closed)

Punct(t) == [t EXCEPT !.token = Append(@, PUNCT), !.state = PUNCT]

Alnum(t, word, behindComma) ==
  IF t.state = RPAREN /\ ~behindComma THEN Rejected(t)
  ELSE [t EXCEPT !.token = Append(@, word), !.state = ALNUM]

(* Nothing is done with a character of no class: the loop stays where it   *)
(* is, unless it is the first of the line.                                 *)
Unclassed(t) == IF t.state = ERROR THEN Rejected(t) ELSE [t EXCEPT !.end = "endless"]

Token(t, line, i) ==
  IF t.end # "reading" THEN t
  ELSE CASE line[i] = SPACE     -> Space(t)
         [] line[i] = COMMA     -> Comma(t, Closing(line, i))
         [] line[i] = LPAREN    -> Left(t)
         [] line[i] = RPAREN    -> Right(t)
         [] line[i] = PUNCT     -> Punct(t)
         [] line[i] = UNCLASSED -> Unclassed(t)
         [] OTHER               -> Alnum(t, line[i], BehindComma(line, i))

(* What is queued stays in the queue when the rest of the line is rejected. *)
tokenizer(line) ==
  LET reading[i \in 0 .. Len(line)] ==
        IF i = 0 THEN Started ELSE Token(reading[i - 1], line, i)
  IN  reading[Len(line)]

-----------------------------------------------------------------------------
(* The reference: what a line means, read from its parentheses.            *)
Count(line, symbol) == Cardinality({i \in DOMAIN line : line[i] = symbol})
Depth(line, i) ==
  Count(SubSeq(line, 1, i), LPAREN) - Count(SubSeq(line, 1, i), RPAREN)

(* What may follow at place i of a well-formed line.  A command ends in a  *)
(* word before a right parenthesis.                                        *)
Follows(line, i) ==
  LET left  == line[i]
      right == IF i = Len(line) THEN "end" ELSE line[i + 1]
      text  == Words \cup {PUNCT}
  IN
  CASE left \in Words  -> right \in {SPACE, COMMA, RPAREN, PUNCT, "end"}
    [] left = PUNCT    -> right \in text \cup {SPACE, COMMA, "end"}
    [] left = SPACE    -> IF line[i - 1] = COMMA THEN right \in text \cup {LPAREN}
                          ELSE right \in text
    [] left = COMMA    -> right \in text \cup {LPAREN, SPACE}
    [] left = LPAREN   -> right \in text \cup {LPAREN}
    [] left = RPAREN   -> right \in {RPAREN, COMMA, "end"}
    [] OTHER           -> FALSE

WellFormed(line) ==
  /\ line # << >>
  /\ line[1] \in Words \cup {PUNCT, LPAREN}
  /\ \A i \in DOMAIN line : Follows(line, i) /\ Depth(line, i) \in 0 .. MAXSIZE
  /\ Depth(line, Len(line)) = 0

(* A command ends in front of a comma or with the line, and begins behind *)
(* the comma in front of it.                                               *)
Ends(line) == {i \in DOMAIN line : line[i] = COMMA} \cup {Len(line) + 1}
Begin(line, e) == Max({0} \cup {i \in Ends(line) : i < e}) + 1

(* Its text, without a space in front and without its parentheses.         *)
TextPlaces(line, e) ==
  {i \in Begin(line, e) .. e - 1 :
     line[i] \notin {LPAREN, RPAREN} /\ (i = Begin(line, e) => line[i] # SPACE)}
Text(line, e) == SubSeq(line, Min(TextPlaces(line, e)), Max(TextPlaces(line, e)))

(* The deeper commands come first, and those of one depth in the order     *)
(* they were typed.                                                        *)
Inside(line, e) == Max({Depth(line, i) : i \in Begin(line, e) .. e - 1})
Before(line, d, e) == \/ Inside(line, d) > Inside(line, e)
                      \/ Inside(line, d) = Inside(line, e) /\ d < e

(* The queue has these commands in this order.                             *)
InOrder(queue, line, ends) ==
  \E order \in [DOMAIN queue -> ends] :
    /\ Range(order) = ends
    /\ \A j, k \in DOMAIN queue : j < k => Before(line, order[j], order[k])
    /\ \A k \in DOMAIN queue :
         queue[k] = [command |-> Text(line, order[k]), priority |-> 255 - Inside(line, order[k])]

Means(queue, line) == InOrder(queue, line, Ends(line))
=============================================================================
