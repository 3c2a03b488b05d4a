------------------------------ MODULE MondTables ------------------------------
(***************************************************************************)
(* The state the threads of mond share (mond.h, the globals of mond.c):    *)
(* the thread table, the system thread's row, the file table, the          *)
(* semaphore of free monitor slots, the system thread's flag and the list  *)
(* of completed monitors; and beside it what the operating system keeps:   *)
(* the threads themselves and the processes being monitored.               *)
(*                                                                         *)
(* The modules Commands, MonitorThread, SystemThread and WebmonThread act  *)
(* on this state, one per kind of thread, and Mond composes them.          *)
(***************************************************************************)
EXTENDS Integers, Sequences, FiniteSets

CONSTANTS
  THREAD_TABLE_SIZE,  \* rows of the thread table (10 in mond.h)
  FILE_TABLE_SIZE,    \* rows of the file table (11 in mond.h)
  MAX_THREADS,        \* bound: threads created over the program's life
  LogFiles,           \* the log files (inodes) a user may name
  NoFile,             \* the zero dev/inode of an unused file table row
  Externals,          \* processes that run before mond does
  Children,           \* process ids the kernel hands out to vfork
  NoPid,              \* pid 0, the pid of a cleared row
  SystemPid,          \* pid -1, the pid of the system thread's row
  Commands            \* the commands the user may type

CommandNames == {"add -s", "add -p", "add -e", "remove -s", "remove -t",
                 "kill", "exit", "webmon", "listactive", "listcompleted"}

Pids == Externals \cup Children

ASSUME SizesAssumption ==
  /\ THREAD_TABLE_SIZE \in Nat \ {0}
  /\ FILE_TABLE_SIZE \in Nat
  /\ FILE_TABLE_SIZE > THREAD_TABLE_SIZE
  /\ MAX_THREADS \in Nat

ASSUME NamesAssumption ==
  /\ NoFile \notin LogFiles
  /\ NoPid \notin Pids /\ SystemPid \notin Pids /\ NoPid # SystemPid
  /\ Externals \cap Children = {}
  /\ Commands \subseteq CommandNames

VARIABLES
  threadTable,        \* row -> ThreadTable; the system thread's row is row 0
  rowLock,            \* row -> the thread that holds its mutex
  fileTable,          \* row -> FileTable
  fileLock,           \* row -> the thread that holds its mutex
  availableThreads,   \* the semaphore of free monitor slots
  systemThreadState,  \* the flag, read and written without a lock
  completedList,      \* the rows of the finished threads, in order
  listExists,         \* completedList is not NULL
  proc,               \* pid -> what the kernel knows of the process
  pc,                 \* thread -> the next step of its body
  handle,             \* thread -> its row (threadTableHandle)
  stop,               \* thread -> its local flag stop
  line,               \* thread -> its private copy (threadTableLine)
  cmd,                \* the command thread: next step and locals
  web,                \* the webmon thread: next step, the row it comes to,
                      \* whether the list it walks was freed under it
  status              \* the program: "up", "exited" (main returned), "crashed",
                      \* or "refused": exit(-1), the operating system having
                      \* refused it a file, a process or a thread

tables  == <<threadTable, rowLock, fileTable, fileLock>>
globals == <<availableThreads, systemThreadState, completedList, listExists>>
threads == <<pc, handle, stop, line>>
vars == <<tables, globals, threads, proc, cmd, web, status>>

-----------------------------------------------------------------------------
SystemRow == 0
Rows      == 1..THREAD_TABLE_SIZE
RowIds    == 0..THREAD_TABLE_SIZE
NoRow     == -1
Entries   == 1..FILE_TABLE_SIZE
NoEntry   == 0
Tids      == 1..MAX_THREADS
NoTid     == 0

TerminationStatus == {"RUNNING", "KILLED", "STOPPED", "EXITED"}

(* One row of the thread table.  startTime is kept as "nonzero", interval and
   endTime only ever serve timing and display. *)
ThreadTableRow ==
  [tid       : Tids \cup {NoTid},
   pid       : Pids \cup {NoPid, SystemPid},
   isChild   : BOOLEAN,
   fTable    : Entries \cup {NoEntry},
   fileName  : LogFiles \cup {NoFile},
   startTime : BOOLEAN,
   endStatus : TerminationStatus]

ZeroRow ==
  [tid |-> NoTid, pid |-> NoPid, isChild |-> FALSE, fTable |-> NoEntry,
   fileName |-> NoFile, startTime |-> FALSE, endStatus |-> "RUNNING"]

(* Mutations of Cleared: the cleanup forgets a field. *)
ClearedKeepsStatus(row) ==
  [row EXCEPT !.tid = NoTid, !.pid = NoPid, !.fTable = NoEntry, !.startTime = FALSE]

ClearedKeepsTid(row) ==
  [row EXCEPT !.pid = NoPid, !.fTable = NoEntry, !.startTime = FALSE,
              !.endStatus = "RUNNING"]

ClearedKeepsStart(row) ==
  [row EXCEPT !.tid = NoTid, !.pid = NoPid, !.fTable = NoEntry, !.endStatus = "RUNNING"]

(* A row as the cleanup of a finished thread leaves it: isChild and fileName
   keep their old values. *)
Cleared(row) ==
  [row EXCEPT !.tid = NoTid, !.pid = NoPid, !.fTable = NoEntry,
              !.startTime = FALSE, !.endStatus = "RUNNING"]

(* One row of the file table: filep is open exactly while inode is set (both
   are written together), so inode stands for both. *)
FileTableRow == [inode : LogFiles \cup {NoFile}, count : Nat]

ZeroEntry == [inode |-> NoFile, count |-> 0]

(* Mutation of OneUserLess: the count is read before it is decremented, so the
   last user but one closes the file. *)
OneUserLessClosesEarly(entry) ==
  IF entry.count <= 2 THEN ZeroEntry ELSE [entry EXCEPT !.count = entry.count - 1]

(* The entry after one of its users left: the last one closes the file. *)
OneUserLess(entry) ==
  IF entry.count = 1 THEN ZeroEntry ELSE [entry EXCEPT !.count = entry.count - 1]

ProcStates == {"unborn", "alive", "execFailed", "zombie", "zombie251", "gone"}

(* What waitpid(WNOHANG) makes of a child. *)
WaitedFor(state) == IF state \in {"zombie", "zombie251"} THEN "gone" ELSE state

(* /proc/<pid> exists: open(2) of its files succeeds until the process has
   been waited for. *)
InProc(p) == p \in Pids /\ proc[p] \notin {"unborn", "gone"}

Labels == {"none", "top", "open", "print", "check", "release", "wait",
           "list", "post", "done"}

(* The command thread's locals between two commands. *)
Prompt ==
  [pc |-> "prompt", row |-> NoRow, i |-> 0, tid |-> NoTid, pid |-> NoPid,
   file |-> NoFile, entry |-> NoEntry, exec |-> FALSE]

Init ==
  /\ threadTable = [r \in RowIds |-> ZeroRow]
  /\ rowLock = [r \in RowIds |-> NoTid]
  /\ fileTable = [e \in Entries |-> ZeroEntry]
  /\ fileLock = [e \in Entries |-> NoTid]
  /\ availableThreads = THREAD_TABLE_SIZE
  /\ systemThreadState = "NOT_RUNNING"
  /\ completedList = <<>>
  /\ listExists = TRUE
  /\ proc = [p \in Pids |-> IF p \in Externals THEN "alive" ELSE "unborn"]
  /\ pc = [t \in Tids |-> "none"]
  /\ handle = [t \in Tids |-> NoRow]
  /\ stop = [t \in Tids |-> FALSE]
  /\ line = [t \in Tids |-> ZeroRow]
  /\ cmd = Prompt
  /\ web = [pc |-> "off", i |-> 0, dangling |-> FALSE]
  /\ status = "up"

-----------------------------------------------------------------------------
(* Steps the monitor threads and the system thread have in common.          *)

(* The mutex of completedList is kept over several steps by those that walk the
   list: webmon and "listcompleted". *)
ListLocked == web.pc = "completed" \/ cmd.pc = "listing"

(* Thread t, holding its row's mutex, leaves its log file (the last user
   closes it) and clears its row; both mutexes are released. *)
ReleaseRow(t) ==
  LET r == handle[t]
      e == threadTable[r].fTable
  IN  /\ fileLock[e] = NoTid
      /\ fileTable[e].count > 0
      /\ fileTable' = [fileTable EXCEPT ![e] = OneUserLess(fileTable[e])]
      /\ threadTable' = [threadTable EXCEPT ![r] = Cleared(threadTable[r])]
      /\ rowLock' = [rowLock EXCEPT ![r] = NoTid]
      /\ UNCHANGED fileLock

(* Mutation of CopyRow: the copy is made after the cleanup. *)
CopyRowTooLate(t) ==
  /\ line' = [line EXCEPT ![t] = Cleared(threadTable[handle[t]])]
  /\ rowLock' = [rowLock EXCEPT ![handle[t]] = t]
  /\ UNCHANGED <<threadTable, fileTable, fileLock>>

(* Thread t copies its row and keeps the row's mutex for ReleaseRow. *)
CopyRow(t) ==
  /\ line' = [line EXCEPT ![t] = threadTable[handle[t]]]
  /\ rowLock' = [rowLock EXCEPT ![handle[t]] = t]
  /\ UNCHANGED <<threadTable, fileTable, fileLock>>

(* Mutation of InsertCompleted: the record goes to the head of the list. *)
InsertCompletedAtHead(t) ==
  /\ ~ListLocked
  /\ completedList' = <<line[t]>> \o completedList

(* Thread t appends its copy to the completed list. *)
InsertCompleted(t) ==
  /\ ~ListLocked
  /\ completedList' = Append(completedList, line[t])

(* The body of thread t returns: its locals are gone. *)
EndThread(t) ==
  /\ pc' = [pc EXCEPT ![t] = "done"]
  /\ handle' = [handle EXCEPT ![t] = NoRow]
  /\ stop' = [stop EXCEPT ![t] = FALSE]
  /\ line' = [line EXCEPT ![t] = ZeroRow]
=============================================================================
