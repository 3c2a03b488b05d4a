---------------------------- MODULE MondProperties ----------------------------
(***************************************************************************)
(* What mond promises: the type invariant, the safety invariants, the      *)
(* action properties and the liveness properties of the program of Mond.   *)
(***************************************************************************)
EXTENDS Mond

-----------------------------------------------------------------------------
(* Parts of a thread's body.                                                *)

(* The row is the thread's own from its creation to ReleaseRow. *)
Owns(t) == pc[t] \in {"top", "open", "print", "check", "release", "wait"}

(* The thread's body has begun and has not returned. *)
Live(t) == pc[t] \notin {"none", "done"}

Monitors == {t \in Tids : Live(t) /\ IsMonitor(t)}

(* exitMond has returned: the command thread takes the program apart. *)
Teardown == cmd.pc \in {"clear", "destroyList", "destroyTables", "return"}

(* exit has freed the nodes of the completed list. *)
ListCleared == cmd.pc \in {"destroyList", "destroyTables", "return"}

(* The threads that have inserted their line. *)
Recorded == {t \in Tids : pc[t] \in {"post", "done"}}

(* add works on cmd.row, before and after it has set the row's startTime. *)
RowChosen == cmd.pc \in {"fork", "waitExec", "init"}
RowFilled == cmd.pc \in {"scan", "openLog", "create"}

(* The command thread is between pthread_create and sem_wait. *)
SlotNotTakenYet == cmd.pc = "created" /\ cmd.row \in Rows

-----------------------------------------------------------------------------
(* The command thread's indices and its pointer to a row are in range wherever
   they are used. *)
CommandInRange ==
  /\ cmd.pc \in {"findRow", "stopTid", "findPid", "exitSystem", "exitRows"}
       => cmd.i \in Rows
  /\ cmd.pc = "scan" => cmd.i \in Entries
  /\ cmd.pc \in {"fork", "waitExec", "init", "signal", "markKilled"} => cmd.row \in Rows
  /\ cmd.pc \in {"scan", "openLog", "create", "created"} => cmd.row \in RowIds
  /\ cmd.pc = "listRows" => cmd.i \in RowIds

(* Every variable keeps its type: the globals of mond.c:20-26, the locals of
   each thread and the kernel's view of the processes; no loop of the command
   thread leaves its table. *)
TypeOK ==
  /\ threadTable \in [RowIds -> ThreadTableRow]
  /\ rowLock \in [RowIds -> Tids \cup {NoTid}]
  /\ fileTable \in [Entries -> FileTableRow]
  /\ fileLock \in [Entries -> Tids \cup {NoTid}]
  /\ availableThreads \in Nat
  /\ systemThreadState \in {"RUNNING", "NOT_RUNNING"}
  /\ completedList \in Seq(ThreadTableRow)
  /\ listExists \in BOOLEAN
  /\ proc \in [Pids -> ProcStates]
  /\ pc \in [Tids -> Labels]
  /\ handle \in [Tids -> RowIds \cup {NoRow}]
  /\ stop \in [Tids -> BOOLEAN]
  /\ line \in [Tids -> ThreadTableRow]
  /\ cmd \in CommandLocals
  /\ CommandInRange
  /\ web \in WebLocals
  /\ status \in {"up", "exited", "crashed", "refused"}

(* A thread that still works on its row finds there its own id, a start time
   and a log file: no other thread was given the row, and fTable is never the
   NULL that the cleanup leaves (monitorThread.c:111 dereferences it). *)
RowIsOwned ==
  \A t \in Tids : Owns(t) =>
    LET row == threadTable[handle[t]]
    IN  row.tid = t /\ row.startTime /\ row.fTable # NoEntry

(* The count of a file table entry is the number of rows that log to it: the
   file is closed by its last user and by no one before (monitorThread.c:218-234,
   commands.c:664-667). *)
CountIsUsers ==
  \A e \in Entries :
    fileTable[e].count = Cardinality({r \in RowIds : threadTable[r].fTable = e})

(* A row logs to the file its user named, which has one entry only: add finds
   the file by inode while other threads close and reuse entries around it
   (commands.c:627-690). *)
LogsToItsFile ==
  /\ \A r \in RowIds : threadTable[r].fTable # NoEntry =>
       fileTable[threadTable[r].fTable].inode = threadTable[r].fileName
  /\ \A d, e \in Entries :
       d # e /\ fileTable[d].inode = fileTable[e].inode => fileTable[d].inode = NoFile

(* getFileTableEntry never falls off its loop without an unused entry, whose
   pointer it would dereference as NULL (commands.c:686). *)
EntryIsFound == cmd.pc = "openLog" => cmd.entry # NoEntry

(* getThreadTableEntry never falls off its loop without a free row: the sem
   value read at mond.c:183 promises one, and the rows freed and not freed
   meanwhile keep that promise (add would return in silence, commands.c:71). *)
RowIsFound ==
  cmd.pc = "findRow" =>
    \E r \in Rows : r >= cmd.i /\ ~threadTable[r].startTime

(* The semaphore counts the monitor threads that are not there: a slot is
   posted after the row was freed, and taken after the thread was created
   (commands.c:129, monitorThread.c:331). *)
SlotsAreCounted ==
  availableThreads + Cardinality(Monitors)
    = THREAD_TABLE_SIZE + (IF SlotNotTakenYet THEN 1 ELSE 0)

(* The sem_wait of add never blocks the command thread: the slot it saw free
   is still there after the creation (commands.c:129). *)
SlotIsThere == SlotNotTakenYet => availableThreads > 0

(* The flag that lets "add -s" start a system thread is down only when there
   is none, so there is never more than one (mond.c:127, systemThread.c:306). *)
OneSystemThread ==
  LET systems == {t \in Tids : Live(t) /\ IsSystem(t)}
  IN  /\ Cardinality(systems) <= 1
      /\ systemThreadState = "NOT_RUNNING" /\ cmd.pc # "created" => systems = {}

(* waitpid is only called for a child that has not been waited for: a second
   call would fail with ECHILD and end the program (monitorThread.c:268). *)
ChildIsThere ==
  \A t \in Tids :
    pc[t] = "wait" /\ threadTable[handle[t]].isChild
      => proc[threadTable[handle[t]].pid] # "gone"

(* exit frees the list and destroys the mutexes only when every monitor and
   the system thread have made their last use of them, and every log file has
   been closed (commands.c:578-595, mond.c:353-357). *)
ExitWaits ==
  Teardown =>
    /\ \A t \in Tids : ~Live(t)
    /\ \A e \in Entries : fileTable[e] = ZeroEntry

(* The end of the program is orderly: nothing fails or reads freed memory once
   exitMond has returned (mond.c:353-357). *)
ExitIsClean == Teardown => status \in {"up", "exited"}

(* A thread starts on a row that does not tell it to stop: the cleanup of the
   row's last thread undid what its user asked of it (monitorThread.c:249). *)
StartsRunning ==
  cmd.pc = "create" => threadTable[cmd.row].endStatus = "RUNNING"

(* What webmon shows of a row it has locked is one living thread's id, process
   and log file, never a cleanup half done, unless it is the one row add is
   filling without the row's mutex: that one is shown without an id, and maybe
   with the file name of the row's last thread, which the cleanup keeps
   (webmon.c:407-439, monitorThread.c:243-249, commands.c:117-123). *)
ShownIsConsistent ==
  LET row == threadTable[web.i]
  IN  web.pc = "rows" /\ rowLock[web.i] = NoTid /\ row.startTime =>
        IF row.tid = NoTid THEN RowFilled /\ cmd.row = web.i
        ELSE /\ Owns(row.tid) /\ handle[row.tid] = web.i
             /\ row.pid # NoPid
             /\ row.fTable # NoEntry
             /\ fileTable[row.fTable].inode = row.fileName

(* listactive, unlike webmon, runs in the thread that fills the rows, and every
   row it shows is complete: it has its thread and its log file
   (commands.c:137-143, 164-177). *)
ListedIsComplete ==
  cmd.pc = "listRows" /\ threadTable[cmd.i].startTime =>
    /\ threadTable[cmd.i].tid # NoTid
    /\ threadTable[cmd.i].fTable # NoEntry
    /\ threadTable[cmd.i].fileName # NoFile

(* What the interleaving of commands, threads and processes makes of the tables
   ends mond in three ways only: a process is waited for between the open of its
   files in /proc and their read (logLibrary.c:48); kill finds no process with
   the id that a row had (commands.c:435); and webmon, which exit does not wait
   for, meets freed nodes or destroyed mutexes (mond.c:353-357).  No file table
   entry is missing (commands.c:686), no child is waited for twice
   (monitorThread.c:268), and no mutex is destroyed while a thread holds it.
   Beside these the operating system may refuse a file, a process or a thread to
   add (commands.c:83, 122, 607-625, 681) or its page to webmon (webmon.c:47).
   What strtok and the typed line can do is in LogQuery and CommandLine, the want
   of descriptors in Descriptors; the want of memory is left out. *)
FailsOnlyAsKnown ==
  /\ status = "crashed" =>
       \/ \E t \in Tids : pc[t] = "print" /\ ~IsSystem(t) /\ ~InProc(threadTable[handle[t]].pid)
       \/ cmd.pc = "signal" /\ ~InProc(cmd.pid)
       \/ Teardown /\ web.pc # "off"
  /\ status = "refused" =>
       cmd.pc \in {"fork", "scan", "openLog", "create"} \/ web.pc = "start"

(* Until exit frees it, the completed list tells of each thread that has ended
   with one line, which says why it ended, and of no other: the cleanup of the
   row, which may have its next thread by then, costs nothing of it, and neither
   does any other thread that inserts, nor kill or remove -s
   (monitorThread.c:206-327, systemThread.c:245-303). *)
EndsAreRecordedOnce ==
  ~ListCleared =>
    /\ \A n \in DOMAIN completedList :
         completedList[n].tid \in Recorded /\ completedList[n].endStatus # "RUNNING"
    /\ \A t \in Recorded : \E n \in DOMAIN completedList : completedList[n].tid = t
    /\ \A m, n \in DOMAIN completedList :
         completedList[m].tid = completedList[n].tid => m = n

-----------------------------------------------------------------------------
(* Who owns a row: the invariant behind RowIsOwned and OneSystemThread.      *)

(* The thread of the system row, created but not yet shown by the flag. *)
FlagNotSetYet == cmd.pc = "created" /\ cmd.row = SystemRow

(* A thread has a row exactly while it lives. *)
LiveHaveRows ==
  \A t \in Tids : IF Live(t) THEN handle[t] \in RowIds
                  ELSE handle[t] = NoRow /\ ~stop[t]

(* A thread's local stop is set only with a reason in its row, so that a
   monitor never leaves its loop without the cleanup of its row. *)
StopHasReason ==
  \A t \in Tids :
    Owns(t) /\ stop[t] => threadTable[handle[t]].endStatus # "RUNNING"

(* An id in a row is the id of the thread that owns the row, and a row without
   a start time has no id. *)
IdsAreOwners ==
  \A r \in RowIds :
    /\ threadTable[r].tid # NoTid
         => Owns(threadTable[r].tid) /\ handle[threadTable[r].tid] = r
    /\ ~threadTable[r].startTime => threadTable[r].tid = NoTid

(* The row add works on is no thread's, and it is complete when the thread is
   created. *)
AddHasItsRow ==
  /\ RowChosen \/ RowFilled => threadTable[cmd.row].tid = NoTid
  /\ RowFilled => threadTable[cmd.row].startTime
  /\ cmd.pc = "create" => threadTable[cmd.row].fTable # NoEntry

(* The flag is down while add prepares the system row, it is up while a system
   thread lives that was announced, and two system threads never live. *)
FlagIsRight ==
  /\ RowFilled /\ cmd.row = SystemRow => systemThreadState = "NOT_RUNNING"
  /\ systemThreadState = "NOT_RUNNING" /\ ~FlagNotSetYet
       => \A t \in Tids : Live(t) => ~IsSystem(t)
  /\ \A t, u \in Tids :
       Live(t) /\ IsSystem(t) /\ Live(u) /\ IsSystem(u) => t = u

(* The rows, their threads and the flag agree at every step of add, of the
   cleanup and of the system thread's end (commands.c:55-129, mond.c:127-166,
   monitorThread.c:181-331, systemThread.c:245-306). *)
Ownership ==
  /\ LiveHaveRows /\ StopHasReason
  /\ RowIsOwned /\ IdsAreOwners
  /\ AddHasItsRow /\ FlagIsRight

-----------------------------------------------------------------------------
(* What logs to which file: the invariant behind CountIsUsers, LogsToItsFile, *)
(* EntryIsFound and what the listings show.                                  *)

(* A row in use has a process and, once add is done with it, its thread; and a
   row that has a log file has its thread, or is about to. *)
RowsInUse ==
  \A r \in RowIds :
    LET row == threadTable[r]
    IN  /\ row.startTime => row.pid # NoPid
        /\ row.startTime => row.tid # NoTid \/ (RowFilled /\ cmd.row = r)
        /\ row.fTable # NoEntry => row.tid # NoTid \/ (cmd.pc = "create" /\ cmd.row = r)

(* An entry has a file exactly while it is in use. *)
UnusedHaveNoFile ==
  \A e \in Entries : fileTable[e].inode = NoFile <=> fileTable[e].count = 0

(* What add has been given, on its way to the scan of the file table. *)
AddHasItsWords ==
  /\ cmd.pc = "findRow" \/ RowChosen => cmd.file \in LogFiles /\ cmd.entry = NoEntry
  /\ cmd.pc = "findRow" /\ ~cmd.exec => cmd.pid \in Pids
  /\ cmd.pc \in {"waitExec", "init"} => cmd.pid \in Pids

(* The scan has not passed the file it looks for, an unused entry it remembers
   stays unused, and until it has one there is one ahead. *)
ScanIsRight ==
  cmd.pc \in {"scan", "openLog"} =>
    /\ cmd.file \in LogFiles
    /\ \A e \in Entries :
         cmd.pc = "openLog" \/ e < cmd.i => fileTable[e].inode # cmd.file
    /\ IF cmd.entry = NoEntry
       THEN cmd.pc = "scan" /\ \E e \in Entries : e >= cmd.i /\ fileTable[e].inode = NoFile
       ELSE fileTable[cmd.entry].inode = NoFile

FileInvariant ==
  /\ RowsInUse /\ CountIsUsers /\ LogsToItsFile /\ UnusedHaveNoFile
  /\ AddHasItsWords /\ ScanIsRight

-----------------------------------------------------------------------------
(* Who waits for a child: the invariant behind ChildIsThere.                *)

(* The rows that watch a child of mond's. *)
Watch(r, p) == threadTable[r].isChild /\ threadTable[r].pid = p

(* "add -e" has a child that no row watches yet. *)
ChildInHand == cmd.pc = "waitExec" \/ (cmd.pc = "init" /\ cmd.exec)

(* Only children are watched, each by one monitor's row, and none before it was
   born. *)
WatchedAreChildren ==
  /\ \A r \in RowIds : threadTable[r].isChild =>
       r \in Rows /\ threadTable[r].pid \in Children \cup {NoPid}
  /\ \A r \in RowIds, p \in Pids : Watch(r, p) => proc[p] # "unborn"
  /\ \A r, s \in RowIds, p \in Pids : Watch(r, p) /\ Watch(s, p) => r = s

(* The child of add is new. *)
ChildIsNew ==
  /\ cmd.pc \in {"fork", "waitExec"} => cmd.exec
  /\ ChildInHand => /\ cmd.pid \in Children /\ proc[cmd.pid] # "unborn"
                    /\ \A r \in RowIds : ~Watch(r, cmd.pid)

(* A thread that found its child in /proc finds it when it waits for it. *)
WatchedIsThere ==
  \A t \in Tids : pc[t] = "wait" \/ (pc[t] = "check" /\ ~stop[t]) =>
    \A p \in Pids : Watch(handle[t], p) => proc[p] # "gone"

ChildInvariant == WatchedAreChildren /\ ChildIsNew /\ WatchedIsThere

-----------------------------------------------------------------------------
(* What is left at the end: the invariant behind FailsOnlyAsKnown.          *)

(* A mutex is held by a thread that lives, at the places that hold it. *)
LocksAreHeld ==
  /\ \A r \in RowIds : rowLock[r] # NoTid =>
       handle[rowLock[r]] = r /\ pc[rowLock[r]] \in {"open", "print", "release"}
  /\ \A e \in Entries : fileLock[e] # NoTid =>
       pc[fileLock[e]] = "print" /\ MyRow(fileLock[e]).fTable = e

(* The list is taken apart at the end only. *)
ListIsWhole == ~listExists \/ web.dangling => Teardown

FailureInvariant == LocksAreHeld /\ ListIsWhole /\ FailsOnlyAsKnown

-----------------------------------------------------------------------------
(* Action properties.                                                       *)

(* What a user asked of a thread is not forgotten while the thread owns its
   row: a process that dies afterwards does not turn STOPPED or KILLED into
   EXITED (monitorThread.c:121-123), and nothing turns it into RUNNING. *)
RequestIsKept ==
  [][\A t \in Tids :
       LET r == handle[t]
       IN  Owns(t) /\ Owns(t)' /\ threadTable[r].endStatus \in {"STOPPED", "KILLED"}
             => threadTable'[r].endStatus \in {"STOPPED", "KILLED"}]_vars

(* A log file is closed or handed to other users only by its last user: while
   some row logs to an entry, the entry keeps its file. *)
FileStaysOpen ==
  [][\A r \in RowIds :
       LET e == threadTable[r].fTable
       IN  e # NoEntry /\ threadTable'[r].fTable = e
             => fileTable'[e].inode = fileTable[e].inode]_vars

-----------------------------------------------------------------------------
(* Liveness, under FairSpec.                                                *)

(* A thread told to stop by remove, kill or exit ends, sleeping or not
   (README.md:25-28). *)
StopIsHonoured ==
  \A t \in Tids :
    (Owns(t) /\ threadTable[handle[t]].endStatus \in {"STOPPED", "KILLED"})
      ~> (pc[t] = "done" \/ status # "up")

(* The monitor of a child that died waits for it, sees it gone and ends
   (monitorThread.c:266-272, then 120-125). *)
DeathIsNoticed ==
  \A t \in Tids, p \in Children :
    (/\ Owns(t) /\ threadTable[handle[t]].isChild /\ threadTable[handle[t]].pid = p
     /\ proc[p] \in {"zombie", "zombie251"})
      ~> (pc[t] = "done" \/ status # "up")

(* exit ends: every thread it waits for dies (README.md:25). *)
ExitEnds == cmd.pc = "exitRows" ~> status # "up"

(* Each command the command thread has begun ends: it waits for no mutex for
   ever, and for no slot (commands.c). *)
CommandEnds == cmd.pc # "prompt" ~> (cmd.pc = "prompt" \/ status # "up")
=============================================================================
