# WebMond (mond): model, checks and proofs

`mond` is a shell that starts threads, each of which logs the statistics of one
process (read from `/proc`) or of the whole system to a file, at an interval.
It is a small program with much concurrency: one command thread, one optional
system thread, up to ten monitor threads, one optional web page thread, and the
processes being watched, over two shared tables, a semaphore, an unlocked flag
and a list. This directory holds its TLA+ model, the TLC runs and the TLAPS
proofs.

* [Inventory](#inventory) - the parts of the program
* [Modules](#modules) - which module models which part, and how
* [Abstractions](#abstractions-and-bounds) - what is left out, the bounds
* [Runs](#runs) - what TLC checks, and the places where code and docs disagree
* [Known deviations](#known-deviations) - failures the properties make room for
* [Fairness](#fairness)
* [Proofs](#proofs) - what holds for every size
* [Not modelled](#not-modelled) and [what is left](#what-is-left)

## Inventory

| Part | State | Operations | Hard because |
| --- | --- | --- | --- |
| Shared tables (`mond.h`, globals of `mond.c`) | `threadTable[10]`, `systemThreadTable`, `fileTable[11]`, each row with a mutex; `availableThreads`; `systemThreadState`; `completedList` | written by every thread | fields of one row are written by three threads, some without the mutex |
| Command thread (`mond.c`, `commands.c`) | the position in a command: row found, entry remembered, id or pid looked for | `add -s/-p/-e`, `remove -s/-t`, `kill`, `exit`, `webmon`, listings | every loop locks one row at a time, and what it saw may be gone when it uses it; flag and semaphore are updated after `pthread_create` |
| The command line (`commandThread`, heads of `add`) | the words read so far, two defaults kept as text | the chain of `strtok` and `strcmp`, `set` | a word that is missing is a NULL; an interval is read as a long and kept as an int; a default is kept cut to its buffer; every thread that logs moves the same `strtok` position |
| Monitor thread (`monitorThread.c`) | its row, local `stop`, a private copy of its row | round: lock, open, log, check; cleanup; `waitpid`; record; `sem_post` | the process may die, or be told to, at any point of a round; nested mutexes; the record is made after the row was given back |
| System thread (`systemThread.c`) | as a monitor, on its own row | as a monitor, ended by `STOPPED` only | announces its end by an unlocked flag |
| Rounds (`monitorThread.c:92-178`, `longSleep`) | time of day at the start of a round | sleep for what is left of the interval | unsigned difference read back as a signed one; the clock can be set |
| Webmon thread (`webmon.c`) | position in its page, load history | walks rows, list, file table, for ever | reads while others write; nobody waits for it at exit |
| Linked list (`singlyLinkedList.c`) | head, tail, count, nodes | insert at the tail, remove the head, get by number, clear | does not use its own mutex; `LLRemoveHead` leaves `tail` behind |
| Log library (`logLibrary.c`) | `strtok`'s hidden position | read one item of a file | the hidden position is shared by all threads, the command thread too |
| File descriptors (`openPidFiles`, `openSysFiles`, log files, the page) | descriptor numbers in locals | open, close | closed by number; lost on some paths; an open may fail for want of descriptors |
| `example.c`, `Makefile` | - | - | not part of mond |

How they interact: the command thread fills a row and creates a thread on it;
from then on the row is the thread's until the thread clears it. `remove`,
`kill` and `exit` talk to a thread through `endStatus` in its row. A thread's
end is told by the row (`startTime` = 0), by a record in the list, and last by
the semaphore or the flag - in that order, with other threads in between. Log
files are shared by threads with the same file (by inode) through counts in
the file table.

What makes each part correct:

* **tables**: a thread works on its own row only and never on a cleared one;
  the count of a log file is its number of users; one entry per file; a row
  freed with a slot is found again by the scan of `add`.
* **command thread**: the slot and the file entry it counts on are there when
  it uses them; every command returns; `exit` waits for all, and ends.
* **command line**: a line, read word by word, comes to what it means as a whole,
  unless another thread takes a word of it.
* **monitor and system threads**: what the user asked is kept and obeyed; a
  dead child is reaped once, and noticed; each end is recorded once, with its
  reason; one system thread at most.
* **rounds**: a round takes its interval, and no arithmetic makes it sleep long.
* **webmon**: what it shows of a row with a thread's id is that thread's row,
  never half of it; only the row that `add` is filling is shown without an id.
* **list**: each end has one line until exit; no freed node is touched before
  exit clears the list; a listing is the list of one moment.
* **log library**: a query that no one disturbs returns the item asked for.
* **descriptors**: a round closes what it opened, and nothing else.

## Modules

The program with its threads:

| Module | Models | In |
| --- | --- | --- |
| `MondTables` | the shared state, `Init`, the cleanup and the record that monitor and system threads share | `mond.h`, `mond.c:20-100`, `monitorThread.c:180-334` |
| `Commands` | the command thread: one action per iteration of a loop or per step other threads can get between | `commands.c`, `mond.c:102-406` |
| `MonitorThread` | one monitor thread `t` | `monitorThread.c` |
| `SystemThread` | the system thread | `systemThread.c` |
| `WebmonThread` | the webmon thread | `webmon.c` |
| `Mond` | all of them, with the processes: `Next`, `Spec`, `FairSpec` | - |
| `MondProperties` | the properties, and the inductive invariants | - |
| `Monitoring` | the abstract specification: what mond promises of each thread it starts, without tables, locks and semaphore | - |
| `MondRefinement` | the mapping under which `Mond` implements `Monitoring` | - |
| `MCMond` | sets of model values and symmetry for TLC | - |

Parts in more detail than `Mond` has them, each on its own:

| Module | Models | In |
| --- | --- | --- |
| `CommandLine` | how the words of a line become a command, with `set` and its defaults | `mond.c:102-350`, heads of `add` in `commands.c` |
| `Rounds` | the clock, the unsigned difference, the sleep | `monitorThread.c`, `systemThread.c`, `longSleep` |
| `LogQuery` | `queryFileByLoc` in threads that hold the mutex of their log file, and in webmon, which holds none, beside the prompt, over one hidden position of `strtok` | `logLibrary.c`, `mond.c:104-122` |
| `LinkedList` | the list with its nodes, one step per access | `singlyLinkedList.c` |
| `CompletedRecords` | what mond promises of its ended threads: each recorded once, all kept in order until exit | - |
| `CompletedList` | the list of ended threads: inserted, listed, cleared; implements `CompletedRecords` | `monitorThread.c`, `commands.c`, `webmon.c`, `mond.c:353-355` |
| `Records` | what webmon wants of its samples: a sequence that loses its oldest only | - |
| `LoadHistory` | webmon's load samples; implements `Records` | `webmon.c` |
| `Descriptors` | every open and close, with the kernel's lowest free number and its limit | all threads |

The modules `MC...` give these their model values, and `...Proofs` hold the
theorems (see [Proofs](#proofs)).

**State of `Mond`.** `threadTable` is a function on rows 0..THREAD_TABLE_SIZE
where row 0 is `systemThreadTable` (the code has a variable of its own; it is
never scanned with the others, and here `Rows` leaves it out). `fileTable`
entries count from 1, so that 0 is the NULL of `fTable`. A thread's program
counter `pc[t]` names the next step of its body; a thread is `none` before
`pthread_create` and `done` after its return. `cmd.pc` is the same for the
command thread, `prompt` between two commands. `proc[p]` is what the kernel
knows of a process: `unborn`, `alive`, `execFailed` (a child after the failed
`execlp`), `zombie`, `zombie251` (exit status 251), `gone`.

**Granularity of `Mond`.** An action is a stretch of code that touches shared
state in one place: a locked region that only touches what the lock protects is
one action, and so is one iteration of a scan. The mutex of a row is a variable
(`rowLock`) where its holder can block or the world can change while it is
held: between "lock outer" and "lock inner", while a process is logged, and
during the cleanup. The file's mutex is visible (`fileLock`) while a process is
logged. The mutex of the list is held over steps by webmon only, so
`ListLocked` is webmon's position. Where the code writes without a mutex
(`add` fills a row, `getFileTableEntry` opens a file, `exit` frees the list),
the action has no lock in its guard and can happen under another thread's
nose.

**Errors.** Every library call whose failure calls `exit(-1)` and that can fail
for a reason inside the model ends with `status = "crashed"`: a signal to a
process that is gone, `waitpid` of a child that was waited for, a read of a
process that is gone, a mutex destroyed while held or locked after it was
destroyed. Where it is the operating system that may refuse, it ends with
`status = "refused"`: `vfork`, `stat` and `fopen` of the log file and
`pthread_create` in `add`, webmon's `fopen` of its page. `FailsOnlyAsKnown` says
which of them happen, and where. What a wild `strtok` does is in `LogQuery` and
`CommandLine`.

**The promise.** `Monitoring` tells a thread's life: unborn, monitoring,
leaving, recorded, ended. It starts with no reason to end; the first reason is
the user's or its process's; it leaves only with a reason, is recorded once
with it, and gives its slot back last. At most `Slots` monitors and one system
thread live at a time, and the history is given up when nobody lives.
`MondRefinement` reads that life off the program counter, the row (while the
thread owns it) and the private copy (from the cleanup on).

**The parts and `Mond`.** `Mond` has the list as a sequence and a walk over it
as one step, or one per line in webmon. `CompletedList` shows what this rests
on: with the nodes in view, under the mutex, the list is that sequence and a
listing is the list of one moment. `Mond` has one thread's `print` as one step;
`LogQuery` is inside it. `Mond` takes a command as typed; `CommandLine` says
which line is that command. `LogQuery` and `CommandLine` show the two sides of
the one position of `strtok`: there the prompt moves it under a query, here
another thread moves it under the prompt. `Mond` lets a thread go on at any time; `Rounds`
says when.

The modules hold, before some definitions, a mutated form of it
(`Mutation of ...`): a bug one could make there. None of them is part of the
specification; each is there to see that a property is broken by the bug.

## Abstractions and bounds

* A word of a line is a string of which only its identity and the number it
  begins with matter (`ValueOf`). Formatting, the log lines and the HTML are
  left out. Commands that only print have an action in `Mond` when they walk a
  table (`listactive`, `listcompleted`).
* `startTime` is "nonzero" (a BOOLEAN); `interval` and `endTime` serve timing
  and display only. In `Mond` sleeping is not an action: a step is taken at any
  time.
* A log file is its inode (a model value); `filep` is open exactly while the
  entry's inode is set, so one field stands for both.
* A file open in `/proc` works until the process has been waited for, a zombie
  included.
* Failures of `malloc`, of `pthread_create` for webmon and of the calls on a
  mutex or semaphore that is in order are not modelled. `stat` may fail before
  the scan of the file table only, which is where `add` calls it. Opens of `/proc`
  that fail for want of descriptors are in `Descriptors` only.
* `CommandLine`: a line of which another thread has taken a word comes to
  `Astray`, which stands for whatever the program makes of the words it then
  reads, its end included; a default that `set` takes from such a line is any of
  `Strays`. `Copied` is what `strncpy` keeps of a word, `MAX_INPUT_LEN` - 1 (255)
  characters of it; a file name in a row is cut likewise, which is left out, as a
  file in `Mond` is one by its inode.
* A process outside (`Externals`) is someone else's child, whom that one waits
  for at any time; a child (`Children`) is mond's, and only mond waits for it.
  Process ids are not reused. A `kill` of an outer process may be denied (EPERM).
* `LogQuery`: an item is the reader whose line it is cut from and its number; a
  freed line is `Wild`, of which `strtok` makes an item, none, or the end of the
  program.
* Words of a machine are small numbers of the same shape: `INT`, `LONG`,
  `UINT` are half or all of the range, and the arithmetic wraps around them.

Bounds, all of them in guards or constants with a name:

* `MAX_THREADS`, the threads of a life: `add` is disabled when thread ids run
  out (in `AddExec` the ids of children are bounded too). Thread ids are handed
  out in order and not reused.
* `MAX_WORK`, `MAX_TIME` in `Rounds`; `STARTS` in `Descriptors`; `Nodes`, the
  addresses of a list. In `CommandLine` a line ends where nothing it can still
  say changes its meaning.
* `Commands` says what the user types in a run. Any command may be typed at any
  prompt, for ever.

Table sizes in the runs are 1 or 2 rows with 2 or 3 entries (the code: 10 and
11; one entry more than rows, as there). Two rows with three threads are enough
for a row to be reused while its last thread has not posted, for two threads to
share a log file and for two to close entries around a scan; one row with a
system thread makes every entry of the file table contended. What depends on
the sizes is proved for all sizes (see [Proofs](#proofs)).

## Runs

| Run | Instance | Distinct states | Shows |
| --- | --- | --- | --- |
| `monitors` | `add -p`, `remove -t`; 2 rows, 3 entries, 3 threads, 2 files, 1 process | 280 415 | rows, slots and files are not mixed up: `TypeOK`, `RowIsOwned`, `CountIsUsers`, `LogsToItsFile`, `RowIsFound`, `SlotsAreCounted`, `SlotIsThere`, `StartsRunning`, `EntryIsFound`, `FileStaysOpen`; and each thread lives as promised: `ImplementsMonitoring` |
| `all_commands` | everything but `add -e`; 1 row, 2 entries, 2 threads, 2 files, 1 process | 1 175 004 | all commands in any order with a system thread, webmon and the exit: `OneSystemThread`, `ExitWaits`, `ShownIsConsistent`, `ListedIsComplete`, `RequestIsKept`; until exit each end has one line, whatever happens to its row: `EndsAreRecordedOnce`; mond fails in three ways and by a refusal of the system only: `FailsOnlyAsKnown` |
| `live` | `add -s/-e/-p`, `remove -t`, `exit`; 2 rows, 3 entries, 2 threads, 1 file, 1 child | 62 558 | with fairness: stops and deaths end threads and are recorded, commands and exit end: `StopIsHonoured`, `DeathIsNoticed`, `CommandEnds`, `ExitEnds`, `ImplementsMonitoringFairly`; and `ChildIsThere`, `ExitIsClean` |
| `log_query` | 2 threads of one log file, webmon and the command thread; files of 1 row, 2 items | 139 622 | a query that nobody disturbs is right, and all of them end: `RightItem`, `QueryEnds` |
| `listing` | 3 threads that end, the command thread and webmon | 529 467 | pointer by pointer: no freed node before exit clears the list, no leak, a record of every end: `NoFreedNode`, `NothingLeaks`, `ImplementsRecords` |
| `history` | history length 2, 4 addresses | 55 185 | the tail that `LLRemoveHead` leaves behind is never used: `NeverBroken`, `KeepsTheLast`, `ImplementsRecords` |
| `rounds` | intervals below, of and above a second, work and clock up to 6 | 1 125 509 | `KeepsTheInterval`, `NeverOversleeps` |
| `descriptors` | 1 monitor, the system thread, webmon, 1 log file, 2 starts each; limits of 3 and of 9 | 3 211 119 | `Accounted`, `ClosesItsOwn`, `EnoughForAll` |
| `command_line` | 21 words, an int of -8..7, a long of -32..31; no other thread runs, or all that can | 5 204 066 | every line: `LineIsUnderstood`, `DefaultIsAnInterval` |

In `live` two monitors may watch the same child, one started by `add -e` and
one by `add -p` with its pid; the second of them must not wait for it. `kill`
and `remove -s` are left out of `live` and `monitors`: with either of them the
promise of `Monitoring` is broken, as the first two runs below show, and
`NoThreadStartsMarked` proves that nothing but these two starts a thread with a
mark, so that without them the promise holds (`OrdersImplementMonitoring`).

In `descriptors` 3 is too few for anything to go on for long, so that every
open fails somewhere; 9 is what all of them need together with what they lose
(`Needed`).

Three runs end in a violation: there the code does not do what its README or a
comment says.

| Run | Property | What happens |
| --- | --- | --- |
| `kill_after_release` | `StartsRunning` | `kill` releases the row's mutex before it sends the signal and marks the row after it. When the monitor has ended in between, the mark stays on the free row and the next monitor there ends at once as KILLED. |
| `remove_idle_system` | `ExitEnds` | `remove -s` with no system thread marks the idle row STOPPED, because its id 0 equals the id 0 it compares with. The next system thread ends in its first round and may clear the flag before `add` sets it. The flag then stays up and `exit` polls it for ever. |
| `strtok_shared` | `EachItemIsRight` | the command thread and every thread that logs call one `strtok` under no common mutex. In the trace a line typed at the prompt moves the position under a query, which then finds no item where its line has one; two threads with log files of their own do the same to each other. |

Deadlock is not checked in `all_commands` and `remove_idle_system`: there the
user may type `remove -s` without a system thread, `exit` may then hang as
described, and the program really stops. In all other runs a state without a
successor would be an error; `Ended`, `Gone` and `Faulted` keep an ended
program running in place.

## Known deviations

These are in the model and are named in the property that would otherwise be
false; the property says that nothing else of the kind happens.

* `FailsOnlyAsKnown` has three disjuncts, besides the refusals of the operating
  system. A process waited for between the open
  of its `/proc` files and the read makes `getline` fail, which ends mond and
  not the monitor (`logLibrary.c:48`). `kill` of a process that ended since its
  row was found ends mond with ESRCH (`commands.c:435`). webmon is not waited
  for: it walks a list that is being freed, or locks a destroyed mutex
  (`mond.c:353-357`).
* `ShownIsConsistent`: `add` fills a row without its mutex and `startTime`
  first, so webmon, under the mutex, may show a row that has no thread id yet
  (`commands.c:118`, `webmon.c:390-392`). Until the name is copied
  (`commands.c:120`) such a row has the new process and the file name of the
  row's last thread, which the cleanup leaves there (`monitorThread.c:243-249`).
  This is the row of `add`, and no other.
* `NoFreedNode` ends where exit begins to clear the list: webmon may be walking
  it, or take its mutex later (`mond.c:354-355`, `webmon.c:262-269`).
* `RightItem` speaks of undisturbed queries, `LineIsUnderstood` leaves out the
  lines that are `Astray`: all threads share the position of `strtok`, and one
  log file is not enough to keep them apart, since the prompt holds no mutex
  (`mond.c:117-339`, `logLibrary.c:56`).
* `KeepsTheLast`: webmon keeps one sample more than `GRAPH_HISTORY_LEN`
  (`webmon.c:101`).
* `DefaultIsAnInterval` speaks of a default that was kept `whole`. `set interval`
  looks at the text as a whole and keeps 255 characters of it (`mond.c:200-208`),
  which may be another number: 255 zeros and a 5 are accepted, and the next `add`
  refuses the 0 that was kept.
* `Accounted`: the system thread closes none of its four files
  (`systemThread.c:34`), so each of its lives costs four descriptors; and a
  monitor may lose one descriptor in its life, when its process vanishes
  between the two opens (`monitorThread.c:344-355`).
* `LineIsUnderstood`: `kill`, `remove -t` and a last `-i` with their word left
  out pass NULL on (`mond.c:284`, `mond.c:272`, `mond.c:152`); `Fault` in
  `CommandLine`. An interval too long for an int is cut to its low bits
  (`commands.c:35`, `commands.c:41`), and refused only when these are not
  positive.
* A child whose monitor is removed is not waited for again and stays a zombie
  (`monitorThread.c:182`). Nothing promises otherwise, and no property does.

## Fairness

`FairSpec` of `Mond` assumes strong fairness of each thread's step and of the
command thread's own steps (`CommandGoesOn`). Weak fairness would let a thread
wait for ever for a mutex that others take and release again and again. Strong
fairness says it gets it sometimes: each thread releases its mutexes at the end
of every round and takes them again in the next, and the holder is a thread that
goes on. This is an assumption on the scheduler, and not one that the sleep of a
round gives: an interval of 1 microsecond is accepted (`commands.c:42`), and a
round longer than its interval does not sleep at all (`logLibrary.c:111`).
`ExitEnds` and `StopIsHonoured` hold as far as a thread that waits for a mutex
that is released again and again gets it at last.
Nothing is assumed of the user, who may stop typing at any time, of the
processes, which may live for ever, or of webmon.

`ImplementsMonitoringFairly` shows that this is enough for the weak fairness of
`Monitoring`: a thread with a reason to end leaves, is recorded and ends.

`FairSpec` of `LogQuery` assumes the same of the readers, for the same reason,
and nothing of the command thread, which moves their position at any time or
never.

## Proofs

Every theorem holds for every value of the constants that satisfies the
assumptions of its module, all of which TLC evaluates in the runs:

* `Mond`: `SizesAssumption` (a thread table with at least one row, a file table
  that is larger) and `NamesAssumption` (distinct names; outer processes and
  children are disjoint).
* `LinkedList`: `NodesAssumption`, there are finitely many addresses (any number
  of them), and `NullAssumption`, NULL is neither an address nor a line.
  `CompletedList`: the threads and the viewers are different callers, and NULL
  is none. `LoadHistory`: webmon is the only caller and `GRAPH_HISTORY_LEN` is
  at least 1 (it is 10, `webmon.c:16`; with 0 the list would break).
* `Descriptors`: the thread table and the file table have a size, so that
  monitors and log files are finitely many, and the names are distinct.
* `CommandLine`: NULL is no word, neither one that is typed nor one that the
  prompt looks for; a long is at least as wide as an int; the default interval
  of the build is a positive int.

| Module | Theorems | Of |
| --- | --- | --- |
| `MondProofs`, types | `TypeCorrect` | `TypeOK` |
| ownership | `OwnershipCorrect`, `RowsAreOwned`, `SystemThreadIsAlone` | `RowIsOwned`, `OneSystemThread` |
| files | `FilesCorrect`, `CountsAreRight`, `RowsLogToTheirFiles`, `EntryIsAlwaysFound`, `ListedRowsAreComplete`, `ShownRowsAreConsistent`, `FilesStayOpen`, `RequestsAreKept` | `CountIsUsers`, `LogsToItsFile`, `EntryIsFound`, `ListedIsComplete`, `ShownIsConsistent`, `FileStaysOpen`, `RequestIsKept` |
| counts | `SlotsAreWellCounted`, `RowIsAlwaysFound`, `ThreadsStayEnded`, `ExitWaitsForAll`, `SlotIsStillThere` | `SlotsAreCounted`, `RowIsFound`, `ExitWaits`, `SlotIsThere` |
| failures | `ChildrenCorrect`, `ChildIsStillThere`, `FailuresAreKnown`, `ExitWithoutWebmonIsClean`, `NoThreadStartsMarked` | `ChildIsThere`, `FailsOnlyAsKnown`, `ExitIsClean`, `StartsRunning` |
| refinement | `MondImplementsMonitoring`, `OrdersImplementMonitoring` | `ImplementsMonitoring` |
| records | `EveryEndIsRecordedOnce` | `EndsAreRecordedOnce` |
| `CompletedListProofs` | `ListCorrect`, `NoFreedNodeIsRead`, `ExitFreesAll`, `ListImplementsRecords` | `NoFreedNode`, `NothingLeaks`, `ImplementsRecords` |
| `LoadHistoryProofs` | `HistoryCorrect`, `HistoryIsNeverBroken`, `TheLastAreKept`, `HistoryImplementsRecords` | `NeverBroken`, `KeepsTheLast`, `ImplementsRecords` |
| `LinkedListProofs` | lemmas of the two above | |
| `DescriptorsProofs` | `LedgerCorrect`, `DescriptorsAreAccounted`, `NobodyClosesAnothers`, `EnoughIsEnough` | `Accounted`, `ClosesItsOwn`, `EnoughForAll` |
| `CommandLineProofs` | `PromptCorrect`, `LinesAreUnderstood`, `TheDefaultIsAnInterval` | `LineIsUnderstood`, `DefaultIsAnInterval` |
| `LogQueryProofs` | `QueryTypeCorrect`, `QueriedItemIsRight`, `OneLogLeavesThePrompt` | `RightItem` |
| `RoundsProofs` | `IntervalIsKept`, `NothingIsOverslept` | `KeepsTheInterval`, `NeverOversleeps` |

The arguments:

* **Types.** `TypeOK` is inductive as it stands because of its part
  `CommandInRange`: where the command thread uses its index, the index is a row,
  or an entry, of the table it walks. One lemma for each thread and each command.
* **Ownership.** `RowIsOwned` and `OneSystemThread` are not inductive. What they
  need: an id in a row is the id of the thread that owns the row
  (`IdsAreOwners`); the row `add` works on has no id (`AddHasItsRow`), which it
  has by being free of a start time or by the flag being down; a live system
  thread is the only one and keeps the flag up once it was set (`FlagIsRight`);
  and a monitor with `stop` set finds a reason in its row, so that it never
  leaves its loop past the cleanup (`StopHasReason`). The proof divides the
  steps: those that are *quiet*, leaving alone all that the invariant speaks
  of (most of them, in one lemma), the steps of `add` before the creation, the
  creation, the cleanup, and the last step of a thread.
* **Slot.** A slot is free from `add`'s look at the semaphore on, since no one
  else takes slots.
* **Files.** `FileInvariant`, on top of `Ownership`: an entry is used by the rows
  that name it and counts them; the scan has passed no entry with the file it
  looks for; the unused entry it remembers stays unused; and while it has none
  there is one ahead. The last is a pigeonhole: the rows other than the one of
  `add`, the system row among them, are as many as there are monitors' rows, and
  each uses one entry of a table that is larger. `EntryIsFound` is the end of
  that scan. `RequestIsKept` and `FileStaysOpen` follow step by step.
* **Counts.** `SlotsAreCounted` says that the semaphore, the monitors that live
  and the slot `add` is about to take make up the table: each step moves one
  thread between these. That the scan of `add` finds a row is a pigeonhole
  again: a thread gives its row back before its slot, so fewer threads own rows
  than there are rows, and an owned row behind the scan cannot make up for a
  free one ahead, since only `add` fills rows. `ThreadsHaveEnded`: what `exit`
  has polled stays so, as nobody starts a thread any more.
* **Failures.** `ChildInvariant`: a child is watched by one monitor's row at
  most, and the thread that is on its way to `waitpid` with its mutexes held has
  found it there. `FailureInvariant` takes from the other theorems that no entry
  is missing and that no thread is left when the mutexes are destroyed, adds
  that a mutex is held by a live thread (`LocksAreHeld`) and that the list is
  whole until the end (`ListIsWhole`); three ways to fail remain, and the
  refusals of the operating system, which happen in `add` and at webmon's page
  only. Two of them
  need a thread or a command that is not there any more once `exit` has waited,
  and the third needs webmon, hence `ExitWithoutWebmonIsClean`.
* **Marks.** `NoThreadStartsMarked` assumes that neither `kill` nor `remove -s`
  is typed (`OrdersOnly`). Then whatever marks a row has found a thread's id in
  it, so that until the end a row without a thread has no mark
  (`MarksHaveOwners`).
* **Refinement.** Each step of `Mond` is one step of `Monitoring` or is not seen.
  What the user asks of a thread is `Ask` when the row marked has an owner, and
  not seen when it has none; a creation is `Start`, where `FlagIsRight`, or
  `SlotIsThere` with `SlotsAreCounted`, says that there is room; the cleanup of
  the row is `Leave`, the record `Record`, the post `End`; clearing the list is
  `Close`, and by `ThreadsHaveEnded` nobody lives then. Between the copy of a row
  and its cleanup the row is locked and equal to the copy (`CopyIsRow`), so that
  no reason is lost where the mapping goes from one to the other. The one thing
  that the invariants of `Mond` do not give is that a thread starts without a
  mark: `MondImplementsMonitoring` assumes it (`StartsRunning`), and
  `OrdersImplementMonitoring` takes it from `NoThreadStartsMarked`.
* **Records.** `EndsAreRecordedOnce` is inductive with `CopyIsRow`, by which the
  copy keeps its thread's own id from the check to the record, and with the same
  for the reason once the row is free (`RecordInvariant`). Unlike the
  refinement it assumes nothing of the user: a thread that starts on a marked
  row ends for a reason it was not given, and is still recorded once.
* **Queries.** `QueriedItemIsRight` follows the position of `strtok` through an
  undisturbed query: it is an item of the thread's own line. With all threads on
  one log file its mutex keeps them apart, and only the command thread is left to
  disturb a query: `OneLogLeavesThePrompt` says that every step that disturbs one
  is a step of the prompt.
* **Rounds.** From `WordsAssumption` and `TimesAssumption` (an interval in
  microseconds fits an int, so its seconds fit what `sleep` takes): the
  difference that wrapped around is the true one once it is read as signed, and
  seconds and microseconds of `longSleep` make up the whole.

* **The list.** `LinkedListProofs` says of each function of the list, step by
  step, what a single caller makes of it. The nodes in the list are a *path*
  (`IsPath`): a sequence of different allocated nodes from `head` along the
  `next` pointers to the NULL after the last. `Stage` says for each label of a
  function how the list stands there: `insertNode` has the node but has not
  linked it, has linked it but not moved `tail`, and so on; `LLRemoveHead` and
  `LLClear` have so many nodes left. Each function's step takes a path at one
  stage to a path at the next, and to the sequence of lines that the function
  promises. The list's contents in the specification are what one finds by
  following `next` (`Chain`, a recursive function over the naturals): that this
  is the path is shown by the least place where the two would differ, which
  needs no induction over data. That a walk of so many steps reaches the end
  rests on the nodes of a path being different, and so at most as many as there
  are addresses.
* **Completed list.** The mutex keeps all but one user out of the functions of the
  list (`PlacesOK`, `OneInTheList`), so that each finds it as a single caller
  would, and what `LinkedListProofs` says of one caller holds of the one inside.
  `exit` clears the list without the mutex. It may do so as to the monitors,
  since none is left (`ThreadsHaveEnded` of `Mond`), but not as to webmon, which
  is not waited for. `NoFreedNodeIsRead` and `ListImplementsRecords` hold for any
  viewers, since they promise nothing once the clearing has begun; only
  `ExitFreesAll`, which speaks of the clearing itself, assumes that the command
  thread is the only viewer (`CommandAlone`). That a line enters once
  is `EachOnce`: a thread's line is in the list from the step on in which its new
  node joins the list, and not before, and no step of the list's functions but
  that one adds a line (`JoinsOnce` of `LinkedListProofs`). A thread that is done
  has its line there, so that `exit`, which waits for all, finds all.
* **Load history.** `LLRemoveHead` moves `head` and leaves `tail` alone, so that a
  list of one node would be left with a `tail` that is freed. webmon calls it
  only when the list is longer than the history (`Lengths`), hence has two nodes
  at least, hence the last node stays: this is where `GRAPH_HISTORY_LEN >= 1`
  is needed. The refinement maps the list to its contents, and the page to the
  lines that the walk has passed (`Listing`).
* **Descriptors.** `Ledger`: a variable is read only where it holds a descriptor
  that its thread opened in this round, an open log file's is the file's
  (`UsesItsOwn`), whoever runs has its log file open (`LogIsOpen`), and the number each owner has is what
  it uses now and what it has lost (`Accounted`, with `SystemFiles` and
  `RunsStarted` for the system thread). Each step opens one descriptor that was
  nobody's or closes some of its own, so two lemmas on counting, `Opening` and
  `Closing`, carry all of them. `EnoughIsEnough` counts the other way round: if
  an open fails all descriptors have owners, the owners are finitely many
  classes with at most so many each (`OwnedByIsBounded`), and the one whose open
  fails has less than its share, so that all together have less than `Needed`.
* **Command line.** `Where` says for each place of the prompt which words came
  before and what has been made of them. One more word leaves the words before it
  where they are (`ReadOne`), so that each step needs the last word only. At the
  end of a line the parts must come to what the line means as a whole: one lemma
  for each verb, and for the options of add one for each number of words
  (`AddLineMeans`). A line keeps its meaning when `set` changes the defaults
  (`SetMeansStays`), and the default, if it was kept whole, is an interval since
  the number is looked at after it has become an int. All of this is of the
  words that `strtok` finds in the line; where another thread runs
  (`busy.others`) the line may end as `Astray` at any word but the first
  (`LoseTheLine`), and nothing more is claimed of it.

Only model-checked: what needs fairness, `StopIsHonoured`, `DeathIsNoticed`,
`CommandEnds`, `ExitEnds`, `QueryEnds` and `ImplementsMonitoringFairly`, since
liveness, with ENABLED, is out of the prover's reach. Every invariant, every
action property and every other refinement of a passing run has a theorem, some
under a hypothesis named above: `OrdersOnly` for `StartsRunning`, no webmon for
`ExitIsClean`, `CommandAlone` for `NothingLeaks`.

## Not modelled

The HTML page and the wording of anything printed; readline; the values in
`/proc`; failures for lack of memory, and the memory of the streams of `fdopen`
that no one closes; the static buffer of `localtime`, which threads with
different log files share and which affects the time printed in a line only;
`example.c`; the `Makefile`.

## What is left

1. A queue of readers in `LogQuery` with files of several rows, where a column
   is taken from the right row only.
