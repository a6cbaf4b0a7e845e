# A TLA+ development of the Minix-OS programs

The repository holds three programs for Minix 3.2.1: a shell (`Project 1 - Shell`), mailbox system calls in
the process manager (`Project 2 - System Calls`) and an undelete command with the file server changes it needs
(`Project 3 - Commands`). This directory models the parts with state worth checking, model-checks them with
TLC and proves with TLAPS what matters most about each of them: the mailbox calls, as far as they are correct,
the inode table under every request, the tree of names with its link counts, bit map and disk copies, the
table of deleted files, the freeing of space, and the shell: its tokenizer, its execution of a line and its aliases.
`PROJECT.json` maps every definition to the lines it translates.

## The system

| Component | State | Operations | Status |
|---|---|---|---|
| Mailbox calls, `mailbox.c` | list of mailboxes (owner, counter, senders, messages), list of suspended receivers | create/remove mailbox, add/remove sender, send, receive | modelled and proved |
| Inode table, `inode.c` | slots, unused list, hash lists, bit map | get, find, put, dup, alloc, free, retrieve | modelled and proved |
| Link requests, `link.c` | directories, link counts (through the inode table) | link, unlink, rmdir, rename, truncate, putnode | modelled and proved; contents of files in `FreeSpace` |
| Undelete call, `link.c`, `recover.c` | the same | `fs_recover`; `do_recover` in VFS | `fs_recover` modelled |
| Table of deleted files, `HashTable.c` | cells, count, order of arrival | insert, delete, two searches, file name | modelled and proved |
| Freeing of space, `link.c` | bytes and zones of a file | `fs_ftrunc`, `freesp_inode` and its helpers | modelled and proved |
| Shell front end | stack of parentheses, queue of commands | `tokenizer`, `qenqueue`, `spush` | modelled and proved |
| Shell execution | queue, `pid_child`, children | `main`, `qexecution` | modelled and proved |
| Shell aliases, Ctrl-C | aliases, alias file | `create_alias`, `restaure_alias`, `save_alias`, `ctrl_cSignal` | modelled and proved; not the profile |
| Mailbox client, `mailboxtest.c` | groups of receivers | `make_group`, `remove_group` | planned |
| `undelete.c` | none | a menu | not modelled |
| tables, prototypes, scripts | none | declarations, build | not modelled |

How they meet. Processes call PM with `_syscall`; PM and MFS are servers with one thread, which
take one message at a time. PM stops and resumes processes in the kernel. VFS sits between
processes and MFS: it holds references to inodes and gives them back with `fs_putnode`, possibly
several at once. `undelete` looks a file up in the table of deleted files and calls `do_recover`
in VFS, which sends `fs_recover` to MFS. The calls from `link.c` and `inode.c` into the table
are commented out, so today the table is filled by nobody. The shell forks commands in the order
of their priority, the depth of their parentheses.

What is hard here:

* calls of different processes come in any order, and a process may be suspended in one call and
  resumed long after the mailbox changed (Mailbox);
* the lists are walked with the list's own head as the cursor, so that a failing search changes
  what later calls see (Mailbox);
* the inode table is small, so any step of a request may evict a cached inode, or find no slot;
  every request has many early returns, each of which must give back what was taken (MFS);
* a name is removed, another entered and a third deleted in one request, any of which may fail
  (rename);
* a number is freed, handed out again, and an old copy of the inode is still about (MFS);
* holes and cuts begin and end anywhere in a zone, and the bytes behind a cut must not come back (freeing of space);
* programs end, processes run out and Ctrl-C arrives between any two steps of `qexecution`, and while the
  alias file is read (shell);
* any character may follow any other on a line, and half of a rejected line is executed (tokenizer);
* deleted cells and numbers that are no longer in the table lie in the way of a search (table).

What makes the components correct: messages of one sender stay in order and only from senders that
were let in; references, link counts, bit map, disk and names agree between requests and directories are a
tree; a slot in use stays with its inode; a file in the table is found and the oldest makes way;
a truncation gives back exactly the zones without a byte left and clears exactly the bytes that are gone; the shell executes
a line by depth, leaves no program behind, loses no alias and comes back to its prompt.

## Modules

**`Mailbox.tla`** is PM's part of the mailbox calls. Every handler is one action, since PM handles one
message at a time; processes interleave between calls. A mailbox is named by its owner, and
`mailboxFront` keeps the order of PM's list, which matters to `do_mreceive`. `checkPermissions` and
`do_addSender` move the head of the sender list as the code does; `do_msend` returns in the first
round of its loop; `AfterDelivery` is what the unlinking at mailbox.c:580-630 leaves of a queue;
`WithoutEntry` is what mailbox.c:494-516 leaves of the suspended receivers; `ReceiveLoops` is the walk that
does not advance. `nextId`, `granted` and `lastFrom` only record the past.
`Resume` is a signal, the only thing that wakes a stopped process. Texts, user addresses and a failing `malloc`
are left out.

**`OrderedMailbox.tla`** says what is promised to a pair of processes: a set of messages per owner; only a
granted sender posts; a delivery gives the oldest message of its sender; it may repeat the last
one and may lose others. `Mailbox` implements it (`ImplementsOrderedMailbox`).

**`MailboxProofs.tla`** has the theorems about `Mailbox`.

**`InodeCache.tla`** is inode.c as operators on the record `c`, the state of the server: a request calls these
routines many times over, so `MFS.tla` composes them, in the order of the source, into one action per request.
`c.unused` and `c.hashed` are the lists of inode.c. A hash bucket is kept per inode number: buckets that hold
several numbers are searched for one of them only. `find_inode` answers the first slot on the list that is in
use. Owners, permissions and times are left out; the zones are one flag. Link counts have 16 bits.

**`MFS.tla`** is link.c and `fs_putnode`. `fs_rename` is built from the walk up the tree (`Climb`, and `Walk`,
which climbs one step more often than there are inodes), `Moved`, `Reparented` and `PutAll`. A request whose
first `get_inode` finds no slot returns an error and changes nothing, so it is no step (`HasSlot` in the
guards). A directory is a function from names to the inode numbers entered under them, so that one name can be
there twice. External, and so marked in the map: `search_dir` and `advance`, `fs_lookup`, `fs_create` with
`fs_mkdir`, and writing; VFS's references are `vfs`. VFS names only inodes it holds, and keeps the root. The
disk may turn out to be full whenever a name is entered. `fs_recover` takes any two numbers, as the undelete
command lets its user type one.

**`DeletedTable.tla`** is HashTable.c. A path matters only by the number of its slashes, since
`returnFileName` removes one each time it is called. Searches that never end set `status` to "hung", and
uses of a NULL pointer to "crashed". `age` and `recovered` are history.

**`FileSpace.tla`** says what the user of a file is promised, by byte ranges: a hole and an extension read as
zero, and a zone is given back once the file keeps none of its bytes. **`FreeSpace.tla`** is `fs_ftrunc` down
to `zerozone_range`, and implements it (`ImplementsFile`). Each call is one action. `ClearedAddresses`,
`FreedPlaces` and `Counted` are what `freesp_inode` clears, what it frees, and the values its `off_t`
variables take. Blocks are numbered through the disk and `zerozone_range` counts them on from the first, so
that a range that left its zone would clear another file's block. External: `read_map`, writing, the zone map,
and `clear_zone`, which may clear the rest of the zone or nothing: the bytes are right either way. Freeing a
zone that `read_map` finds does not fail. VFS sends no negative positions.

**`Tokenizer.tla`** has no state: `tokenizer` is a recursive function along the symbols of a line, with one operator per
class of character, `qenqueue` and `spush`. A word is one symbol, for a run of characters that begins and ends
with an alphanumeric one and has no space, comma or parenthesis; all else is a symbol per character. `Means`
says independently which queue a well-formed line means: one with exactly its commands, taken from the places
between its commas, in the order of the depth of their parentheses, counted from the line. `WellFormed` is syntax: in particular, no space in front of a comma, a parenthesis or
the end, no empty command, and no more open parentheses than the stack holds.

**`Shell.tla`** is `main`, `qexecution`, the aliases and the handler. `pc` is where main is. One step is: a
line of alias.txt restored, a line read, the queue made, a command executed or forked, one `waitpid`. A
command is kept as what `qexecution` finds in it (`Parsed`): a name, the argument of `alias`, and its
priority; or that its first argument was never set, is NULL, or that the loop over the arguments does not end.
Other words of a command play no part. `batch` is `pid_child` from the next process to wait for; `GARBAGE` is
the entry behind those that were written, which may be anything, and `ANY` is the -1 of a failed fork. Reading
past the end of an alias's definition, writing behind `pid_child` and using unset arguments either crash or go
on. `wellFormed` and `interrupted` are history. Left out: the child between `fork` and `execvp`; lines of 512
characters or more, more than 50 arguments or 512 aliases, and aliases of 128 characters; what `qenqueue`
writes one byte behind its copy; a second shell, or no power, while alias.txt is written; the end of the
input.

**`ShellProofs.tla`** has the theorems about `Tokenizer` and `Shell`. `InodeCacheProofs.tla` has those about the routines of
inode.c, which `MFSProofs.tla` (the table and its lists) and `LinkProofs.tla` (names, links, bit map, tree) use for
`MFS`; `DeletedTableProofs.tla` and `FreeSpaceProofs.tla` are named after their modules, and `NumberLemmas.tla` has
what they share.

The modules `MC...` hold the constants of the TLC runs.

Definitions named in a comment as "Mutant" stand beside the ones they break. No specification uses
them; they show, one per property, that the property fails when the code is wrong in that place.

## Runs

| Run | cfg | Checks | Distinct states |
|---|---|---|---|
| mailbox | `Mailbox.cfg` | 7 invariants, 1 action property, the refinement | 483,921 |
| mailbox_resume, _permission, _deletion, _hang | `Mailbox*.cfg` | one claim of a comment each, violated | stops at the violation |
| mfs | `MFS.cfg` | 7 invariants, deadlock | 23,741 |
| mfs_recover | `MFSRecover.cfg` | 4 invariants, 1 action property | 34,192 |
| mfs_rename, mfs_recovered_inode | `MFSRename.cfg`, `MFSRecoveredInode.cfg` | one claim each, violated | stops at the violation |
| deleted_table | `DeletedTable.cfg` | 5 invariants | 262,369 |
| free_space | `FreeSpace.cfg` | 4 invariants, the refinement, deadlock | 6,628 |
| shell | `Shell.cfg` | 5 invariants, 1 action property, 1 liveness property, deadlock | 203,263 |

Bounds and why they are enough:

* **Mailbox.** Two processes, two mailboxes: the loops of the code only tell the first mailbox
  from another one, and a sender from another. `BUFFERSIZE` 3 has a queue with a head, a middle and an end,
  which is what `AfterDelivery` tells apart, and is reached; `MaxSends` 4 fills a mailbox and refuses
  one message more. `MCGrants` lets both processes send to the first owner.
  The invariants are proved for every value.
* **mfs.** Four inodes for three slots: any two cached inodes can be evicted and a request can run out of slots.
  Two names, `Room` 4, `LINK_MAX` 4 (the root with two subdirectories is at it) and one reference
  per inode: a directory of depth three, a rename onto an existing file or directory, rename into
  itself, full disk and too many links all happen. `Writable` is empty here, as zones play no part in
  these properties. Slots, other inode numbers and names are symmetric.
* **mfs_recover.** One name and `LINK_MAX` 2, so the root is the only directory; two references per inode and one
  `fs_recover`, which may raise a link count from zero, with any allocated number. The run checks only the
  lists of the table: link counts and the bit map are wrong from then on, as the
  violation runs show. MFS may stop (`crashed`), hence no deadlock check.
* **deleted_table.** Four keys, two and two colliding, in three cells: chains over a deleted cell, wrapping,
  evictions. Two slashes are enough to see the third call of `returnFileName` crash.

* **free_space.** Two bytes to a block, two blocks to a zone, three places in a file of up to nine bytes:
  every start and end within, at and across the boundaries of a block and a zone, in the first, a middle and
  the last zone, with zones missing. The largest `off_t` is one more than the largest file, so that rounding
  up wraps if anything does. Four zones, the second of another file, lie behind one another.
* **shell.** All lines of two symbols, of three from fewer symbols, all well-formed ones of up to six, and
  longer ones with nesting and builtins. The stack holds two parentheses, `pid_child` two processes and the
  kernel lets two run: with three commands in parentheses both are exceeded, and a program left from an
  earlier line makes fork fail sooner. Two aliases, one of them for `exit`. Neither lines, signals nor
  sessions are bounded.

Every bound is a constant: `MaxSends`, `Room`, `MaxRefs`, `Writable`, `MaxRecovers`, `Slashes`, `MAX_CMD_NUM`,
`MAXSIZE`, `Pids`, `Lines`, `s_max_size`, `OFF_MAX`.

What the properties say. Mailbox: `UniqueOwners`, `QueueWithinCount`, `SendersWereGranted`,
`QueueInSendOrder`, `NothingOlderWaits`, `OneEntryPerReceiver`, `NeverDeliversBackwards`. MFS:
`ReferencesMatchVFS` (no error path leaks or drops a reference), `LinkCountsMatch` (counts are the number of
names), `AllocatedExactly` (an unlinked open file lives until it is closed), `CleanMatchesDisk` (eviction
loses nothing), `OneSlotPerInode`, `IsTree` (rename makes no loop), `NeverCrashes`; `UnusedExact`,
`HashedExact`, `FreeSlotsFirst`, `KeepsItsInode` for the table's lists. Table: `SizeMatches`, `Findable`,
`KeepsTheYoungest`, `InsertReturns`. Freeing of space: `ImplementsFile` (bytes and space), `OthersUntouched`,
`NoneBehindEnd` (no zone is lost behind the end), `NeverWraps`. Shell: `QueueByDepth` (the tokenizer against
`Means`), `DeeperFirst` (never two depths at once, and nothing beside a command outside parentheses),
`NoneLeftBehind`, `WellFormedIsSafe` (only a malformed line hangs the shell; of well-formed ones only `alias`
and too many commands of one depth can crash it), `AliasesSurvive`, `BackToPrompt`. Their exceptions are the
code's: an interrupted `waitpid` is not repeated, `cd` and `alias` return in front of the wait, and a shell
that is quit while it reads alias.txt saves the part it has read.

Fairness is assumed of the shell only: its own steps in `qexecution` (`Executes`, `Waits`) are weakly fair, as
nothing but a signal can hold up a single process with no locks, and each program it started ends at some
time. Without the last a shell waits for ever, as it should. The user is under no obligation: not to type, to
press Ctrl-C, to answer, nor to stop doing so. For the servers nothing is assumed and no liveness is checked:
every handler is one step, nothing obliges a process to call again, and that they can hang is stated as safety
(`looping`, `status`, `crashed`).

## Where the code does not do what it says

Each is a run that TLC ends with a trace, and a finding in `PROJECT.json`.

1. A send to a suspended receiver never resumes it: the code at mailbox.c:449 is behind two returns.
2. A refused send, or a duplicate sender, cuts the list of senders, so that granted senders cannot post.
3. A delivery that is not from the head of the queue keeps the delivered message and drops the next one.
4. A receive whose caller's mailbox is not first on the list never ends, and PM with it.
5. rename takes "no slot left" for "the new name does not exist" and enters a name twice (link.c:360).
6. `retrieve_inode` allocates some other number than the one it recovers (inode.c:566).

In the shell, met while modelling and stated as exceptions or in `WellFormed`: a last command of one character
behind a comma is dropped, as `main` takes the comma for the one it adds (main.c:34); a space behind a
command's last word hangs the shell (functions.c:256), and so does a character of no class (tokenizer.c:124);
the commands in front of a syntax error are executed; aliases made since the last `exit` die with a crash.

In the table of deleted files, a recovery by number leaves the number in `inodeArray`; once it is the oldest, the
next eviction hangs or goes through NULL. `KeepsTheYoungest` and `InsertReturns` therefore hold
for as long as no file was recovered, and say so.

## Proofs

`MailboxProofs.tla` proves, for any set of processes, any grants, receiver lists, `BUFFERSIZE` > 0 and
`MaxSends`:

| Theorem | Property |
|---|---|
| `TypeInvariant` | `TypeOK`, with a counter that never exceeds `BUFFERSIZE` |
| `CountBoundsQueue` | `QueueWithinCount` |
| `SendOrder` | `QueueInSendOrder` |
| `OneMailboxPerOwner` | `UniqueOwners` |
| `OneEntry` | `OneEntryPerReceiver` |
| `OnlyGranted` | `SendersWereGranted` |
| `NothingOlder` | `NothingOlderWaits` |
| `Forward` | `NeverDeliversBackwards` |
| `Implementation` | `ImplementsOrderedMailbox` |

The assumptions are those of `Mailbox.tla`: `NoSource` is no process, `BUFFERSIZE` a positive number, receiver
lists are sequences of processes, grants pairs of them.

The argument. All that happens to a queue, to a sender list and to the list of suspended receivers is one of:
an element is appended, an initial or final part is kept, one element is removed, or (a delivery from the
middle) the delivered message is put before what was behind its successor. The lemmas at the top of the module
(`FromWithin`, `RemoveAtWithin`, `AfterDeliveryWithin`, `WithoutEntryWithin`) say that each of these results
is *within* the old sequence: its elements are some of the old ones, at increasing places. Order and
injectivity go over to whatever is within; so `QueueInSendOrder` needs only that a new message has the
greatest number, and `SendersWereGranted` only that a new sender was granted and is not there. `TypeOK` is
inductive on its own and is carried along as an invariant by the others; `NothingOlderWaits` needs
`QueueInSendOrder` and `FirstFrom`, the oldest message of a sender: all others of that sender are younger. It
gives `Forward`, and with `OnlyGranted` (a sender that passes `checkPermissions` is granted) the refinement:
`do_createMailbox` and `do_removeMailbox` map to `Reset`, `do_addSender` to `Grant`, `do_removeSender` to
`Revoke`, an accepted `do_msend` to `Post`, a delivery to `Deliver` (`MapsDeliver`), and all else to
stuttering.

`ShellProofs.tla` proves, for any words, lines, process limit, stack and size of `pid_child`:

| Theorem | Property |
|---|---|
| `OneDepthAtATime` | `DeeperFirst` |
| `NothingLeftBehind` | `NoneLeftBehind` |
| `NoAliasIsLost` | `AliasesSurvive` |
| `TypesOK` | `TypeOK` |
| `QueuedByDepth` | `QueueByDepth` |
| `WellFormedLinesAreSafe` | `WellFormedIsSafe` |
| `TokenizerWell`, `TokenizerLow` | what the tokenizer makes of a well-formed line, and of any |

The assumptions. A process number is neither the -1 of a failed fork nor the unwritten entry
(`PidsAssumption`), which is all the first three need: they hold of any queue. The others need that the lines
and the definitions of aliases are made of the symbols and words there are, that the stack has a place
(`StackAssumption`), and that no word is one of the names of the model: of the classes of characters and the
tokenizer's states (`WordsAssumption`), and of what stands for an argument that is none (`NamesAssumption`).

The argument for batches and aliases. While no wait of the line was interrupted, `BatchInv` says of the programs of this line that
still run: between batches there are none; from the first fork to the end of the waiting they are all in
`batch`; they are of one priority; and while the batch still grows (`At` "exec" with processes in it) that is
the priority of the next command, and not 255. `At` looks through the handler, so that an answer of "no"
changes nothing. The properties alone are not inductive: they say nothing of the command that is forked next,
nor of the processes that are still to wait for. A `waitpid` takes an entry out of `batch` only if it is of no
running program of the line, or is -1 or unwritten (`WaitBatch`); children that end only leave (`EndBatch`,
`FewerCurrent`); at the next line all are old (`FreshBatch`). For the aliases, `AliasInv` compares the list
with the file in both directions: up to the end of `restaure_alias` the list is an initial part of the file,
and from then on the file is one of the list (`MovesAlias`, `PrefixByPlace`, `PrefixOfAppend`).

The argument for the tokenizer is a loop invariant over the characters of a line; `TokenizerInduction` turns
it into a fact about `tokenizer`, by the induction over numbers of `NumberLemmas.tla`. For any line it is
`ReadsLine`: the priority is at least the number of parentheses on the stack plus those that have closed
directly in front of the place, so that a comma, which subtracts the latter, never makes it negative. The
priorities in the queue are then at most 255 (`TokenizerLow`). They have no lower bound: a line with more
than 255 open parentheses gives a negative one, which `qenqueue` sorts like any other.

For a well-formed line it is `ReadsWell`, with one part per variable of tokenizer.c. The state is the class of
the last character and the stack is the depth. The priority is the depth plus the parentheses that have closed
directly in front, and it is the greatest depth of the command so far (`Deepest`): this is why the code may
subtract at the comma alone, since in a well-formed line right parentheses are followed by a comma, by another
one or by the end. The token is the text of the command so far, in one of three phases (`Spelled`): nothing
yet, everything from its first place on, or all of it with only right parentheses behind. The queue has the
commands that have ended, in order (`Queued`). `TextStep` and `DeepestStep` carry the phases and the priority
over one character, `CommandEnd` reads text and depth off them at a comma, and `InsertInOrder` shows that
`qenqueue`, which puts a command behind all of a priority as low as its own, keeps the order when the command
ends behind all others. At the end of the line `Queued` is `Means`, which is `QueuedByDepth`.

`WellFormedIsSafe` is not inductive. `SafeInv` adds that after a well-formed line every queued command has a
name that a word can have: by `TokenizerWell` none is empty or has a space at an end, and only such commands
make `Parsed` answer that the first argument is unset or NULL, or that the parsing never ends. It also looks
through the signal handler, as the shell may return from it to the place where it hangs. `TypeInv`
adds to `TypeOK` that the line is one of symbols, and that the queue, the aliases and alias.txt are sequences
of records of the right kinds, the file because the next session reads back what this one wrote.

`DeletedTableProofs.tla` proves, for any number of cells, any numbers as keys, any marks and any length of paths:

| Theorem | Property |
|---|---|
| `TypesHold` | `TypeOK` |
| `SizeIsRight` | `SizeMatches` |
| `EveryFileFindable` | `Findable` |
| `FirstInFirstOut` | `KeepsTheYoungest` |
| `InsertionReturns` | `InsertReturns` |

Used are the assumptions that there are cells, that keys are numbers and that the marks of empty and deleted
cells are no entries.

The argument. An entry is *reached* when none of the cells from its hash up to it is empty. `AllReached` is
inductive: an insertion takes the first cell that is not in use, so the cells in front are full; a deletion
leaves a mark. From it follow both that a search finds what is there (`FoundIfHeld`) and that the eviction
finds the oldest. `TableInv` adds that SIZE is the number of live cells, that each live cell is one place in
the order of arrival, and, until something is recovered, that this order is exactly the live cells
(`PlacesAppend`, `PlacesTail`).

`InodeCacheProofs.tla` and `MFSProofs.tla` prove, for any slots, inode numbers, names, trees and bounds:

| Theorem | Property |
|---|---|
| `TypesHold` | `TypeOK`, so no count falls below zero |
| `UnusedListIsExact` | `UnusedExact` |
| `CachedInodesLast` | `FreeSlotsFirst` |
| `HashListsAreExact` | `HashedExact` |
| `SlotsInUseStay` | `KeepsItsInode` |

Used are: there are finitely many slots and at least one, finitely many inode numbers, and the mark of a free
slot is none of them.

The argument. `Lists(c)` says of one state of the server that its lists are exact and in order.
`InodeCacheProofs` shows for every routine of inode.c that it preserves `Lists` and how it changes the counts;
a reference that is put must be there. A request takes references and gives them back, in the middle of it
counts do not match anything; so `MFSProofs` carries `Holding(base, c, taken)` through it: in the state `c`
every count is that of the state `base` in which the request came, plus the references `taken` since, and
slots in use at its start still hold their inodes. Each routine of link.c adds to `taken` or takes from it
(`HoldingGet`, `HoldingPut`, `UnlinkFileHolds`, `RemoveDirHolds`), and each request but `fs_putnode`,
`fs_lookup`, `fs_create` and `fs_recover` ends with `taken` at zero on all of its paths (`LinkStep`,
`UnlinkStep`, `RenameStep`, unless rename's walk went round for ever). The walk up the tree is a recursive
function over the number of steps; `WalkHolds` proves by induction on the set of these numbers
(`NumberInduction`) that it holds one reference, to where it is. `fs_recover` and the crash after it are part
of these theorems.

`LinkProofs.tla` proves, for the same constants:

| Theorem | Property |
|---|---|
| `NoSecondSlot` | `OneSlotPerInode` |
| `ReferencesAreVFSs` | `ReferencesMatchVFS` |
| `LinksAreNames` | `LinkCountsMatch` |
| `BitMapIsExact` | `AllocatedExactly` |
| `CleanIsWritten` | `CleanMatchesDisk` |
| `StaysTree` | `IsTree` |
| `DoesNotCrash` | `NeverCrashes` |

Each of them holds in every state in which `fs_recover` has not been requested (`recovers = 0`): a recovery by
a number the user types breaks link counts and bit map, as the runs mfs_recover and mfs_recovered_inode show.
`WithoutUndelete` puts them together: with `MaxRecovers = 0`, as in the run mfs, they hold always. Also used
are: the names "." and ".." differ from each other and from all others, a directory is no regular file, the
root has an inode number, and `LINK_MAX` fits a link count. The last is needed: with a larger one a count
wraps to zero.

The argument. None of the seven properties is inductive, and neither are all of them together; the invariant
`Orderly` is. It says that there is a table `known` of inodes, which is what MFS knows of each, with:

* `Tidy(fs, known)`: no inode is in two slots; every slot has the inode that is known; the disk has it, unless
  the inode is in use and dirty (`Behind`); an inode nobody refers to that is still in a slot has links; the
  bit map has the inodes with links and those in use.
* `Good(known, entries)`: every inode has as many links as names (`Tallied`); only directories with links have
  entries, each has one "." that is itself and one ".." that is the directory that has its one other name
  (`Shaped`); and directories have a rank that falls from each to its parent (`IsRank`). `IsTree` says where
  chains of ".." end, and the rank is why: a chain that did not get to the root would leave more directories
  behind than there are inodes (`SettledAncestors`).
* `Refs(fs, vfs)`: the counts are VFS's references; and MFS has not crashed.

Within a request none of this is so of what VFS holds, and the names and the counts differ for some steps.
`Keeps(base, c, taken, at, known, entries)` is carried through instead: the account `Holding` of `MFSProofs`,
`Tidy`, and for every reference taken which inode it is to (`at`). Each routine is shown to change `known` and
`entries` as it should: a link more or less (`KeepsLinked`, `KeepsUnlink`, which needs that there was one, so
that no count wraps below zero), a name entered or dropped (`KeepsEntered`, `KeepsDeleted`), the inode freed
with its last link and last reference, or written (`PutTidy`). `Good` is shown separately to survive what a
request does to both: a new name (`GoodLinked`), a name that goes (`GoodUnlinked`), a directory removed
(`GoodRemoved`) or made (`GoodNewDirectory`), a name that moves (`MovedPlaces`). Names are counted as places
of entries, since one name can be in a directory twice after a rename that found no slot: entering adds one
place, and dropping the first moves the others by one (`EnterPlaces`, `DropPlaces`).

The heart is `fs_rename`. `Climbing` says of its walk after k steps that k directories of higher rank lie
behind it, so that it ends (`RenameWalk`) and `NeverCrashes` holds; and that if it gets to the root without
meeting the directory that moves, then the new parent is not below it (`Clear`). This stays so when the name
in the way is removed (`ClearStays`). So what is below the directory is a part of the tree that can be cut off
and put elsewhere (`Cut`, `Below`), and its ranks are raised by that of the new parent (`GoodReparented`,
`MoveGood`).

`FreeSpaceProofs.tla` proves, for any sizes of blocks, zones, files, of an `off_t` and of the disk:

| Theorem | Property |
|---|---|
| `TypesHold` | `TypeOK` |
| `NothingElseIsCleared` | `OthersUntouched` |
| `NoZoneIsLost` | `NoneBehindEnd` |
| `OffsetsFit` | `NeverWraps` |
| `Refinement` | `ImplementsFile` |

Used are the assumptions that blocks and zones are not empty, that the largest file is no larger than the
largest `off_t`, and that zones have positive numbers.

The argument. `RangeClears` shows that the blocks `zerozone_range` counts through give exactly the addresses
of the positions in its range, because all are in one zone; `Clears` that for `freesp_inode`. `Parts` splits a
range that is not within one zone into a part in front that is cleared, the zones that are freed, and a part
behind that is cleared; so every byte of the range, and no other, is cleared or freed (`Covered`), and a zone
is freed if no byte outside of the range is in it (`KeptPlaces`). The invariant needs two more parts than the
properties: no zone is at two places of the file (`OnePlaceEach`), and a byte that is not zero belongs to
another file or to a position of this one in front of its end (`OwnBytes`). From the second follows that an
extension reads as zeroes whether or not `clear_zone` does anything, and that a zone that is taken is clear.

`NumberLemmas.tla` has what these proofs need of division, and induction in the form the provers can use: over
a set of numbers instead of a predicate.

Model-checked only: `BackToPrompt` of the shell, which is liveness. Every invariant, action property and
refinement that a run checks is also a theorem.

## Plan

Next, in this order:

1. `ReceiverGroups`: `remove_group` of the mailbox client against removal from a sequence.
2. `do_recover` in VFS, with its grants, composed with `fs_recover`.

Not modelled, and why: the profile parser (it sets three variables once), menus and prompts are input and
output; tables, prototypes and scripts have no state; the block cache, the zone map and the kernel are outside
the repository. Liveness, fairness and `ENABLED` are beyond the prover and stay with TLC.
