------------------------------- MODULE Commands -------------------------------
(***************************************************************************)
(* The command thread: the prompt loop of mond.c and the commands of       *)
(* commands.c.  Every loop over a table locks one row at a time, so each   *)
(* iteration is an action; other threads run between two iterations.       *)
(*                                                                         *)
(* How a line becomes one of these commands, and "set", are in CommandLine. *)
(***************************************************************************)
EXTENDS MondTables

CommandLabels ==
  {"prompt", "findRow", "fork", "waitExec", "init", "scan", "openLog",
   "create", "created", "readSystemTid", "stopSystemTid", "stopTid",
   "findPid", "signal", "markKilled", "exitSystem", "exitRows",
   "waitSystem", "waitMonitors", "clear", "destroyList", "destroyTables",
   "return", "listRows", "lockList", "listing"}

CommandLocals ==
  [pc : CommandLabels, row : RowIds \cup {NoRow}, i : Nat,
   tid : Tids \cup {NoTid}, pid : Pids \cup {NoPid, SystemPid},
   file : LogFiles \cup {NoFile}, entry : Entries \cup {NoEntry},
   exec : BOOLEAN]

Typed(c) == cmd.pc = "prompt" /\ c \in Commands

Goto(label) == cmd' = [cmd EXCEPT !.pc = label]

FreeTids == {t \in Tids : pc[t] = "none"}

-----------------------------------------------------------------------------
(* add                                                                      *)

(* Mutation of AddSystem: the flag is not looked at. *)
AddSystemAgain(f) ==
  /\ Typed("add -s") /\ FreeTids # {}
  /\ threadTable' = [threadTable EXCEPT ![SystemRow].pid = SystemPid,
                                        ![SystemRow].startTime = TRUE]
  /\ cmd' = [Prompt EXCEPT !.pc = "scan", !.row = SystemRow, !.i = 1, !.file = f]
  /\ UNCHANGED <<rowLock, fileTable, fileLock, globals, threads, proc, web,
                 status>>

(* "add -s": refused while the flag says a system thread runs.  The row is
   filled without its mutex. *)
AddSystem(f) ==
  /\ Typed("add -s") /\ FreeTids # {}
  /\ systemThreadState = "NOT_RUNNING"
  /\ threadTable' = [threadTable EXCEPT ![SystemRow].pid = SystemPid,
                                        ![SystemRow].startTime = TRUE]
  /\ cmd' = [Prompt EXCEPT !.pc = "scan", !.row = SystemRow, !.i = 1, !.file = f]
  /\ UNCHANGED <<rowLock, fileTable, fileLock, globals, threads, proc, web,
                 status>>

(* Mutation of AddProcess: the semaphore is not looked at. *)
AddProcessUnchecked(p, f) ==
  /\ Typed("add -p") /\ FreeTids # {}
  /\ cmd' = [Prompt EXCEPT !.pc = "findRow", !.i = 1, !.pid = p, !.file = f]
  /\ UNCHANGED <<tables, globals, threads, proc, web, status>>

(* "add -p" and "add -e": refused when the semaphore shows no free slot. *)
AddProcess(p, f) ==
  /\ Typed("add -p") /\ FreeTids # {}
  /\ availableThreads > 0
  /\ cmd' = [Prompt EXCEPT !.pc = "findRow", !.i = 1, !.pid = p, !.file = f]
  /\ UNCHANGED <<tables, globals, threads, proc, web, status>>

AddExec(f) ==
  /\ Typed("add -e") /\ FreeTids # {}
  /\ availableThreads > 0
  /\ \E p \in Children : proc[p] = "unborn"
  /\ cmd' = [Prompt EXCEPT !.pc = "findRow", !.i = 1, !.exec = TRUE, !.file = f]
  /\ UNCHANGED <<tables, globals, threads, proc, web, status>>

(* getThreadTableEntry: the first row whose startTime is zero.  With none
   left the command would end without a word. *)
FindRowTaken ==
  /\ cmd.pc = "findRow"
  /\ rowLock[cmd.i] = NoTid
  /\ threadTable[cmd.i].startTime
  /\ cmd' = IF cmd.i = THREAD_TABLE_SIZE THEN Prompt ELSE [cmd EXCEPT !.i = @ + 1]
  /\ UNCHANGED <<tables, globals, threads, proc, web, status>>

FindRowFree ==
  /\ cmd.pc = "findRow"
  /\ rowLock[cmd.i] = NoTid
  /\ ~threadTable[cmd.i].startTime
  /\ cmd' = [cmd EXCEPT !.row = cmd.i, !.pc = IF cmd.exec THEN "fork" ELSE "init"]
  /\ UNCHANGED <<tables, globals, threads, proc, web, status>>

(* exit(-1), where the operating system refuses what add asks of it: a process,
   a log file that it can find or create, then open, and a thread. *)
RefusedAt(label) ==
  /\ cmd.pc = label
  /\ status' = "refused"
  /\ UNCHANGED <<tables, globals, threads, proc, cmd, web>>

ForkFails   == RefusedAt("fork")
StatFails   == cmd.i = 1 /\ RefusedAt("scan")
OpenFails   == RefusedAt("openLog")
CreateFails == RefusedAt("create")

AddRefused == ForkFails \/ StatFails \/ OpenFails \/ CreateFails

(* vfork and execlp: the parent goes on once the child has either become the
   program or called exit(251). *)
Fork(p) ==
  /\ cmd.pc = "fork"
  /\ proc[p] = "unborn"
  /\ \E outcome \in {"alive", "execFailed"} : proc' = [proc EXCEPT ![p] = outcome]
  /\ cmd' = [cmd EXCEPT !.pc = "waitExec", !.pid = p]
  /\ UNCHANGED <<tables, globals, threads, web, status>>

(* waitpid(WNOHANG): a child found dead is reaped here; only the status 251
   calls the command off.  A child that failed but is not a zombie yet is
   taken for a running program. *)
WaitExec ==
  /\ cmd.pc = "waitExec"
  /\ proc' = [proc EXCEPT ![cmd.pid] = WaitedFor(proc[cmd.pid])]
  /\ cmd' = IF proc[cmd.pid] = "zombie251" THEN Prompt
            ELSE [cmd EXCEPT !.pc = "init"]
  /\ UNCHANGED <<tables, globals, threads, web, status>>

(* The row's fields up to startTime, written without the row's mutex. *)
InitRow ==
  /\ cmd.pc = "init"
  /\ threadTable' = [threadTable EXCEPT ![cmd.row] =
                       [threadTable[cmd.row] EXCEPT !.isChild = cmd.exec,
                                                    !.pid = cmd.pid,
                                                    !.startTime = TRUE]]
  /\ cmd' = [cmd EXCEPT !.pc = "scan", !.i = 1]
  /\ UNCHANGED <<rowLock, fileTable, fileLock, globals, threads, proc, web,
                 status>>

(* Mutation of UseEntry: the row keeps the file name of its last thread. *)
UseEntryKeepsName(e) ==
  /\ threadTable' = [threadTable EXCEPT ![cmd.row].fTable = e]
  /\ cmd' = [cmd EXCEPT !.pc = "create", !.entry = NoEntry, !.i = 0]

(* getFileTableEntry, one iteration: remember an unused entry; stop at the
   entry that has the file, and count one more user of it. *)
UseEntry(e) ==
  /\ threadTable' = [threadTable EXCEPT ![cmd.row].fTable = e,
                                        ![cmd.row].fileName = cmd.file]
  /\ cmd' = [cmd EXCEPT !.pc = "create", !.entry = NoEntry, !.i = 0]

(* Mutation of ScanMiss: an entry in use makes it forget the unused one. *)
ScanMissForgets ==
  /\ cmd.pc = "scan"
  /\ fileLock[cmd.i] = NoTid
  /\ fileTable[cmd.i].inode # cmd.file
  /\ cmd' = [cmd EXCEPT
               !.entry = IF fileTable[cmd.i].inode = NoFile THEN cmd.i ELSE NoEntry,
               !.i = @ + 1,
               !.pc = IF cmd.i = FILE_TABLE_SIZE THEN "openLog" ELSE "scan"]
  /\ UNCHANGED <<tables, globals, threads, proc, web, status>>

ScanMiss ==
  /\ cmd.pc = "scan"
  /\ fileLock[cmd.i] = NoTid
  /\ fileTable[cmd.i].inode # cmd.file
  /\ cmd' = [cmd EXCEPT
               !.entry = IF fileTable[cmd.i].inode = NoFile THEN cmd.i ELSE @,
               !.i = @ + 1,
               !.pc = IF cmd.i = FILE_TABLE_SIZE THEN "openLog" ELSE "scan"]
  /\ UNCHANGED <<tables, globals, threads, proc, web, status>>

(* Mutation of ScanHit: the new user is not counted. *)
ScanHitUncounted ==
  /\ cmd.pc = "scan"
  /\ fileLock[cmd.i] = NoTid
  /\ fileTable[cmd.i].inode = cmd.file
  /\ UseEntry(cmd.i)
  /\ UNCHANGED <<rowLock, fileTable, fileLock, globals, threads, proc, web,
                 status>>

ScanHit ==
  /\ cmd.pc = "scan"
  /\ fileLock[cmd.i] = NoTid
  /\ fileTable[cmd.i].inode = cmd.file
  /\ fileTable' = [fileTable EXCEPT ![cmd.i].count = fileTable[cmd.i].count + 1]
  /\ UseEntry(cmd.i)
  /\ UNCHANGED <<rowLock, fileLock, globals, threads, proc, web, status>>

(* The end of getFileTableEntry: the file is opened in the remembered entry,
   without the entry's mutex; with none remembered it is a NULL pointer. *)
OpenLog ==
  /\ cmd.pc = "openLog"
  /\ IF cmd.entry = NoEntry
     THEN status' = "crashed" /\ UNCHANGED <<threadTable, fileTable, cmd>>
     ELSE /\ fileTable' = [fileTable EXCEPT ![cmd.entry].inode = cmd.file,
                                            ![cmd.entry].count = fileTable[cmd.entry].count + 1]
          /\ UseEntry(cmd.entry)
          /\ UNCHANGED status
  /\ UNCHANGED <<rowLock, fileLock, globals, threads, proc, web>>

(* pthread_create: tid is stored in the row, and the thread may run before
   the command thread's next step. *)
CreateThread(t) ==
  /\ cmd.pc = "create"
  /\ t \in FreeTids /\ \A u \in 1..(t - 1) : u \notin FreeTids
  /\ threadTable' = [threadTable EXCEPT ![cmd.row].tid = t]
  /\ pc' = [pc EXCEPT ![t] = "top"]
  /\ handle' = [handle EXCEPT ![t] = cmd.row]
  /\ Goto("created")
  /\ UNCHANGED <<rowLock, fileTable, fileLock, globals, stop, line, proc, web,
                 status>>

(* The flag is set, or the semaphore taken, only after the creation. *)
SystemCreated ==
  /\ cmd.pc = "created"
  /\ cmd.row = SystemRow
  /\ systemThreadState' = "RUNNING"
  /\ cmd' = Prompt
  /\ UNCHANGED <<tables, availableThreads, completedList, listExists, threads,
                 proc, web, status>>

MonitorCreated ==
  /\ cmd.pc = "created"
  /\ cmd.row # SystemRow
  /\ availableThreads > 0
  /\ availableThreads' = availableThreads - 1
  /\ cmd' = Prompt
  /\ UNCHANGED <<tables, systemThreadState, completedList, listExists, threads,
                 proc, web, status>>

-----------------------------------------------------------------------------
(* remove                                                                   *)

(* "remove -s" reads the system thread's id under the row's mutex and then
   calls removeThread with it, whatever it is. *)
RemoveSystem ==
  /\ Typed("remove -s")
  /\ Goto("readSystemTid")
  /\ UNCHANGED <<tables, globals, threads, proc, web, status>>

ReadSystemTid ==
  /\ cmd.pc = "readSystemTid"
  /\ rowLock[SystemRow] = NoTid
  /\ cmd' = [cmd EXCEPT !.pc = "stopSystemTid", !.tid = threadTable[SystemRow].tid]
  /\ UNCHANGED <<tables, globals, threads, proc, web, status>>

(* "remove -t" takes any nonzero id the user types. *)
RemoveThread(t) ==
  /\ Typed("remove -t")
  /\ cmd' = [cmd EXCEPT !.pc = "stopSystemTid", !.tid = t]
  /\ UNCHANGED <<tables, globals, threads, proc, web, status>>

(* removeThread compares the id with the system row's first, then with the
   monitors' rows one by one. *)
StopRow(r) == threadTable' = [threadTable EXCEPT ![r].endStatus = "STOPPED"]

StopSystemTid ==
  /\ cmd.pc = "stopSystemTid"
  /\ rowLock[SystemRow] = NoTid
  /\ IF threadTable[SystemRow].tid = cmd.tid
     THEN StopRow(SystemRow) /\ cmd' = Prompt
     ELSE cmd' = [cmd EXCEPT !.pc = "stopTid", !.i = 1] /\ UNCHANGED threadTable
  /\ UNCHANGED <<rowLock, fileTable, fileLock, globals, threads, proc, web,
                 status>>

StopTid ==
  /\ cmd.pc = "stopTid"
  /\ rowLock[cmd.i] = NoTid
  /\ IF threadTable[cmd.i].tid = cmd.tid
     THEN StopRow(cmd.i) /\ cmd' = Prompt
     ELSE /\ cmd' = IF cmd.i = THREAD_TABLE_SIZE THEN Prompt
                    ELSE [cmd EXCEPT !.i = @ + 1]
          /\ UNCHANGED threadTable
  /\ UNCHANGED <<rowLock, fileTable, fileLock, globals, threads, proc, web,
                 status>>

-----------------------------------------------------------------------------
(* kill                                                                     *)

KillProcess(p) ==
  /\ Typed("kill")
  /\ cmd' = [cmd EXCEPT !.pc = "findPid", !.pid = p, !.i = 1]
  /\ UNCHANGED <<tables, globals, threads, proc, web, status>>

(* The first row with the pid; the row's mutex is released before the signal
   is sent. *)
FindPid ==
  /\ cmd.pc = "findPid"
  /\ rowLock[cmd.i] = NoTid
  /\ cmd' = IF threadTable[cmd.i].pid = cmd.pid
            THEN [cmd EXCEPT !.pc = "signal", !.row = cmd.i]
            ELSE IF cmd.i = THREAD_TABLE_SIZE THEN Prompt
            ELSE [cmd EXCEPT !.i = @ + 1]
  /\ UNCHANGED <<tables, globals, threads, proc, web, status>>

(* kill(2) finds the process (a zombie too): its death, if it comes, is a
   step of the process. *)
SignalSent ==
  /\ cmd.pc = "signal"
  /\ InProc(cmd.pid)
  /\ Goto("markKilled")
  /\ UNCHANGED <<tables, globals, threads, proc, web, status>>

(* EPERM, for a process mond did not start. *)
SignalDenied ==
  /\ cmd.pc = "signal"
  /\ InProc(cmd.pid) /\ cmd.pid \in Externals
  /\ cmd' = Prompt
  /\ UNCHANGED <<tables, globals, threads, proc, web, status>>

(* ESRCH: any error other than EPERM ends the program. *)
SignalNoProcess ==
  /\ cmd.pc = "signal"
  /\ ~InProc(cmd.pid)
  /\ status' = "crashed"
  /\ UNCHANGED <<tables, globals, threads, proc, cmd, web>>

(* The row found before is marked, whoever it belongs to by now. *)
MarkKilled ==
  /\ cmd.pc = "markKilled"
  /\ rowLock[cmd.row] = NoTid
  /\ threadTable' = [threadTable EXCEPT ![cmd.row].endStatus = "KILLED"]
  /\ cmd' = Prompt
  /\ UNCHANGED <<rowLock, fileTable, fileLock, globals, threads, proc, web,
                 status>>

-----------------------------------------------------------------------------
(* exit                                                                     *)

(* The user has answered "y" where the prompt asks. *)
ExitMond ==
  /\ Typed("exit")
  /\ cmd' = [cmd EXCEPT !.i = 1,
               !.pc = IF systemThreadState = "RUNNING" THEN "exitSystem" ELSE "exitRows"]
  /\ UNCHANGED <<tables, globals, threads, proc, web, status>>

(* Mutations of the two loops that tell threads to stop: they tell no one. *)
ExitStopSystemNot ==
  /\ cmd.pc = "exitSystem"
  /\ rowLock[SystemRow] = NoTid
  /\ Goto("exitRows")
  /\ UNCHANGED <<tables, globals, threads, proc, web, status>>

ExitStopRowNot ==
  /\ cmd.pc = "exitRows"
  /\ rowLock[cmd.i] = NoTid
  /\ cmd' = IF cmd.i = THREAD_TABLE_SIZE
            THEN [cmd EXCEPT !.pc = "waitSystem", !.i = 0]
            ELSE [cmd EXCEPT !.i = @ + 1]
  /\ UNCHANGED <<tables, globals, threads, proc, web, status>>

(* The system thread and every row that is taken are told to stop. *)
ExitStopSystem ==
  /\ cmd.pc = "exitSystem"
  /\ rowLock[SystemRow] = NoTid
  /\ StopRow(SystemRow)
  /\ Goto("exitRows")
  /\ UNCHANGED <<rowLock, fileTable, fileLock, globals, threads, proc, web,
                 status>>

ExitStopRow ==
  /\ cmd.pc = "exitRows"
  /\ rowLock[cmd.i] = NoTid
  /\ IF threadTable[cmd.i].startTime THEN StopRow(cmd.i) ELSE UNCHANGED threadTable
  /\ cmd' = IF cmd.i = THREAD_TABLE_SIZE
            THEN [cmd EXCEPT !.pc = "waitSystem", !.i = 0]
            ELSE [cmd EXCEPT !.i = @ + 1]
  /\ UNCHANGED <<rowLock, fileTable, fileLock, globals, threads, proc, web,
                 status>>

(* Mutations of the two waits: they do not wait. *)
ExitSystemEndedNot ==
  /\ cmd.pc = "waitSystem"
  /\ Goto("waitMonitors")
  /\ UNCHANGED <<tables, globals, threads, proc, web, status>>

ExitMonitorsEndedNot ==
  /\ cmd.pc = "waitMonitors"
  /\ Goto("clear")
  /\ UNCHANGED <<tables, globals, threads, proc, web, status>>

(* The flag and the semaphore are polled until all threads have ended. *)
ExitSystemEnded ==
  /\ cmd.pc = "waitSystem"
  /\ systemThreadState = "NOT_RUNNING"
  /\ Goto("waitMonitors")
  /\ UNCHANGED <<tables, globals, threads, proc, web, status>>

ExitMonitorsEnded ==
  /\ cmd.pc = "waitMonitors"
  /\ availableThreads = THREAD_TABLE_SIZE
  /\ Goto("clear")
  /\ UNCHANGED <<tables, globals, threads, proc, web, status>>

(* LLClear, without the list's mutex: webmon may be walking the nodes. *)
ClearList ==
  /\ cmd.pc = "clear"
  /\ completedList' = <<>>
  /\ web' = [web EXCEPT !.dangling = ListLocked /\ completedList # <<>>]
  /\ Goto("destroyList")
  /\ UNCHANGED <<tables, availableThreads, systemThreadState, listExists,
                 threads, proc, status>>

(* DestroyLL: a mutex that is held cannot be destroyed, and the list is kept. *)
DestroyList ==
  /\ cmd.pc = "destroyList"
  /\ listExists' = ListLocked
  /\ Goto("destroyTables")
  /\ UNCHANGED <<tables, availableThreads, systemThreadState, completedList,
                 threads, proc, web, status>>

(* Destroying a row's or an entry's mutex that is held calls exit(-1).
   Webmon holds one of them for part of each step that shows a table. *)
NoMutexHeld ==
  /\ \A r \in RowIds : rowLock[r] = NoTid
  /\ \A e \in Entries : fileLock[e] = NoTid

DestroyTables ==
  /\ cmd.pc = "destroyTables"
  /\ \/ NoMutexHeld /\ Goto("return") /\ UNCHANGED status
     \/ /\ ~(NoMutexHeld /\ web.pc \notin {"rows", "files"})
        /\ status' = "crashed"
        /\ UNCHANGED cmd
  /\ UNCHANGED <<tables, globals, threads, proc, web>>

MainReturns ==
  /\ cmd.pc = "return"
  /\ status' = "exited"
  /\ UNCHANGED <<tables, globals, threads, proc, cmd, web>>

-----------------------------------------------------------------------------
(* webmon: refused while webmonActive is set, which is from the first start on. *)
StartWebmon ==
  /\ Typed("webmon")
  /\ web.pc = "off"
  /\ web' = [web EXCEPT !.pc = "start"]
  /\ UNCHANGED <<tables, globals, threads, proc, cmd, status>>

-----------------------------------------------------------------------------
(* The listings, which print under the mutexes of what they show.           *)

(* "listactive": the flag, read without a lock, decides on the system row. *)
ListActive ==
  /\ Typed("listactive")
  /\ cmd' = [cmd EXCEPT !.pc = "listRows",
               !.i = IF systemThreadState = "RUNNING" THEN SystemRow ELSE 1]
  /\ UNCHANGED <<tables, globals, threads, proc, web, status>>

(* printRunning, one row. *)
ListRow ==
  /\ cmd.pc = "listRows"
  /\ rowLock[cmd.i] = NoTid
  /\ cmd' = IF cmd.i = THREAD_TABLE_SIZE THEN Prompt ELSE [cmd EXCEPT !.i = @ + 1]
  /\ UNCHANGED <<tables, globals, threads, proc, web, status>>

(* "listcompleted": the whole walk is made under the list's mutex. *)
ListCompleted ==
  /\ Typed("listcompleted")
  /\ Goto("lockList")
  /\ UNCHANGED <<tables, globals, threads, proc, web, status>>

ListLock ==
  /\ cmd.pc = "lockList"
  /\ ~ListLocked
  /\ Goto("listing")
  /\ UNCHANGED <<tables, globals, threads, proc, web, status>>

ListUnlock ==
  /\ cmd.pc = "listing"
  /\ cmd' = Prompt
  /\ UNCHANGED <<tables, globals, threads, proc, web, status>>

-----------------------------------------------------------------------------
(* What the user decides to type. *)
CommandTyped ==
  \/ \E f \in LogFiles : AddSystem(f)
  \/ \E p \in Pids, f \in LogFiles : AddProcess(p, f)
  \/ \E f \in LogFiles : AddExec(f)
  \/ RemoveSystem
  \/ \E t \in Tids : RemoveThread(t)
  \/ \E p \in Pids : KillProcess(p)
  \/ ExitMond
  \/ StartWebmon
  \/ ListActive \/ ListCompleted

(* What the command thread does on its own once a command is typed. *)
CommandStep ==
  \/ FindRowTaken \/ FindRowFree
  \/ \E p \in Children : Fork(p)
  \/ AddRefused
  \/ WaitExec \/ InitRow \/ ScanMiss \/ ScanHit \/ OpenLog
  \/ \E t \in Tids : CreateThread(t)
  \/ SystemCreated \/ MonitorCreated
  \/ ReadSystemTid \/ StopSystemTid \/ StopTid
  \/ FindPid \/ SignalSent \/ SignalDenied \/ SignalNoProcess \/ MarkKilled
  \/ ExitStopSystem \/ ExitStopRow \/ ExitSystemEnded \/ ExitMonitorsEnded
  \/ ClearList \/ DestroyList \/ DestroyTables \/ MainReturns
  \/ ListRow \/ ListLock \/ ListUnlock
=============================================================================
