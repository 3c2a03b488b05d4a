------------------------------ MODULE MondProofs ------------------------------
(***************************************************************************)
(* What is proved of Mond, for tables of every size and any number of      *)
(* threads, files and processes.  In seven parts, each resting on those    *)
(* before it:                                                              *)
(*   - the type invariant;                                                 *)
(*   - who owns a row of the thread table;                                 *)
(*   - the file table, and what the listings show;                         *)
(*   - the semaphore of monitor slots;                                     *)
(*   - what can make mond fail;                                            *)
(*   - Mond implements Monitoring;                                         *)
(*   - the completed list tells of each end once.                          *)
(***************************************************************************)
EXTENDS MondProperties, MondRefinement, FiniteSetTheorems, TLAPS

-----------------------------------------------------------------------------
(***************************************************************************)
(* The type invariant of Mond, proved for tables of every size.            *)
(*                                                                         *)
(* TypeOK is inductive as it stands, because it says with CommandInRange   *)
(* what keeps each loop of the command thread inside its table.  There is  *)
(* one lemma per thread and, for the command thread, one per command.      *)
(***************************************************************************)

USE SizesAssumption, NamesAssumption
    DEF SizesAssumption, NamesAssumption, tables, globals, threads

(* The initial state is well typed. *)
LEMMA TypeInit == Init => TypeOK
  BY DEF Init, TypeOK, CommandInRange, Prompt, ZeroRow, ZeroEntry,
     ThreadTableRow, FileTableRow,
         CommandLocals, CommandLabels, WebLocals, WebLabels, RowIds, Entries,
         Tids, NoTid, NoRow, NoEntry, TerminationStatus, Labels, ProcStates,
         Pids

(* The bounds of the rows and entries, and what a loop's next index is. *)
LEMMA Ranges ==
  /\ Rows \subseteq RowIds /\ RowIds \subseteq Nat /\ Entries \subseteq Nat
  /\ 1 \in Rows /\ 1 \in Entries /\ SystemRow \in RowIds
  /\ \A i \in Rows : i # THREAD_TABLE_SIZE => i + 1 \in Rows
  /\ \A i \in Entries : i # FILE_TABLE_SIZE => i + 1 \in Entries
  BY DEF Rows, RowIds, Entries, SystemRow

(* The command thread's locals at the prompt are well typed. *)
LEMMA PromptType == Prompt \in CommandLocals
  BY DEF Prompt, CommandLocals, CommandLabels, NoTid, NoRow, NoEntry

(* A step that changes only the command thread's locals keeps the type invariant
   when it keeps theirs. *)
LEMMA CommandMoves ==
  ASSUME TypeOK, cmd' \in CommandLocals, CommandInRange',
         UNCHANGED <<tables, globals, threads, proc, web, status>>
  PROVE  TypeOK'
  BY DEF TypeOK

(* A row that is marked stays a row (remove, kill, exit, and a monitor whose
   process is gone). *)
LEMMA RowMarked ==
  ASSUME NEW table \in [RowIds -> ThreadTableRow], NEW r \in RowIds
  PROVE  /\ [table EXCEPT ![r].endStatus = "STOPPED"] \in [RowIds -> ThreadTableRow]
         /\ [table EXCEPT ![r].endStatus = "KILLED"] \in [RowIds -> ThreadTableRow]
         /\ [table EXCEPT ![r].endStatus = "EXITED"] \in [RowIds -> ThreadTableRow]
  BY DEF ThreadTableRow, TerminationStatus

(* "add -s" fills the system row. *)
LEMMA RowTaken ==
  ASSUME NEW table \in [RowIds -> ThreadTableRow], NEW r \in RowIds
  PROVE  [table EXCEPT ![r].pid = SystemPid, ![r].startTime = TRUE]
           \in [RowIds -> ThreadTableRow]
  BY ZenonT(40) DEF ThreadTableRow

(* add fills a monitor's row up to its start time. *)
LEMMA RowStarted ==
  ASSUME NEW table \in [RowIds -> ThreadTableRow], NEW r \in RowIds,
         NEW exec \in BOOLEAN, NEW p \in Pids \cup {NoPid, SystemPid}
  PROVE  [table EXCEPT ![r] = [table[r] EXCEPT !.isChild = exec, !.pid = p,
                                               !.startTime = TRUE]]
           \in [RowIds -> ThreadTableRow]
<1>1. table[r] \in ThreadTableRow
  OBVIOUS
<1>2. [table[r] EXCEPT !.isChild = exec, !.pid = p, !.startTime = TRUE]
        \in ThreadTableRow
  BY <1>1 DEF ThreadTableRow
<1> QED
  BY <1>2

(* StopRow keeps the thread table's type. *)
LEMMA StopRowType ==
  ASSUME threadTable \in [RowIds -> ThreadTableRow], NEW r \in RowIds, StopRow(r)
  PROVE  threadTable' \in [RowIds -> ThreadTableRow]
  BY RowMarked DEF StopRow

(* add gives a row its log file. *)
LEMMA RowLogs ==
  ASSUME NEW table \in [RowIds -> ThreadTableRow], NEW r \in RowIds,
         NEW e \in Entries \cup {NoEntry}, NEW f \in LogFiles \cup {NoFile}
  PROVE  [table EXCEPT ![r].fTable = e, ![r].fileName = f]
           \in [RowIds -> ThreadTableRow]
  BY ZenonT(40) DEF ThreadTableRow

(* pthread_create stores the id in a row. *)
LEMMA RowCreated ==
  ASSUME NEW table \in [RowIds -> ThreadTableRow], NEW r \in RowIds, NEW t \in Tids
  PROVE  [table EXCEPT ![r].tid = t] \in [RowIds -> ThreadTableRow]
  BY DEF ThreadTableRow

(* Each command the user may type starts with locals of the right type. *)
LEMMA TypeTyped ==
  ASSUME TypeOK, CommandTyped
  PROVE  TypeOK'
<1>0. /\ cmd \in CommandLocals /\ CommandInRange
      /\ threadTable \in [RowIds -> ThreadTableRow]
      /\ fileTable \in [Entries -> FileTableRow]
      /\ proc \in [Pids -> ProcStates] /\ web \in WebLocals
  BY DEF TypeOK
<1>1. CASE \E f \in LogFiles : AddSystem(f)
  <2>0. PICK f \in LogFiles : AddSystem(f)
    BY <1>1
  <2>1. cmd' \in CommandLocals
    BY <1>0, <2>0, Ranges DEF AddSystem, CommandInRange, CommandLocals,
       CommandLabels, Prompt, NoTid, NoEntry
  <2>2. CommandInRange'
    BY <1>0, <2>0, Ranges DEF AddSystem, CommandInRange, CommandLocals, Prompt,
       NoTid, NoEntry
  <2>3. threadTable' \in [RowIds -> ThreadTableRow]
    BY <1>0, <2>0, Ranges, RowTaken DEF AddSystem, CommandInRange,
       CommandLocals, Prompt, NoTid, NoEntry
  <2> QED
    BY <2>0, <2>1, <2>2, <2>3 DEF AddSystem, TypeOK, Prompt, NoTid, NoEntry
<1>2. CASE \E p \in Pids, f \in LogFiles : AddProcess(p, f)
  <2>0. PICK p \in Pids, f \in LogFiles : AddProcess(p, f)
    BY <1>2
  <2>1. cmd' \in CommandLocals
    BY <1>0, <2>0, Ranges DEF AddProcess, CommandInRange, CommandLocals,
       CommandLabels, Prompt, NoRow, NoTid, NoEntry
  <2>2. CommandInRange'
    BY <1>0, <2>0, Ranges DEF AddProcess, CommandInRange, CommandLocals,
       Prompt, NoRow, NoTid, NoEntry
  <2> QED
    BY <2>0, <2>1, <2>2, CommandMoves DEF AddProcess
<1>3. CASE \E f \in LogFiles : AddExec(f)
  <2>0. PICK f \in LogFiles : AddExec(f)
    BY <1>3
  <2>1. cmd' \in CommandLocals
    BY <1>0, <2>0, Ranges DEF AddExec, CommandInRange, CommandLocals,
       CommandLabels, Prompt, NoRow, NoTid, NoEntry
  <2>2. CommandInRange'
    BY <1>0, <2>0, Ranges DEF AddExec, CommandInRange, CommandLocals, Prompt,
       NoRow, NoTid, NoEntry
  <2> QED
    BY <2>0, <2>1, <2>2, CommandMoves DEF AddExec
<1>4. CASE RemoveSystem
  <2>1. cmd' \in CommandLocals
    BY <1>0, <1>4, Ranges DEF RemoveSystem, CommandInRange, CommandLocals,
       CommandLabels, Goto
  <2>2. CommandInRange'
    BY <1>0, <1>4, Ranges DEF RemoveSystem, CommandInRange, CommandLocals, Goto
  <2> QED
    BY <1>4, <2>1, <2>2, CommandMoves DEF RemoveSystem
<1>5. CASE \E t \in Tids : RemoveThread(t)
  <2>0. PICK t \in Tids : RemoveThread(t)
    BY <1>5
  <2>1. cmd' \in CommandLocals
    BY <1>0, <2>0, Ranges DEF RemoveThread, CommandInRange, CommandLocals,
       CommandLabels
  <2>2. CommandInRange'
    BY <1>0, <2>0, Ranges DEF RemoveThread, CommandInRange, CommandLocals
  <2> QED
    BY <2>0, <2>1, <2>2, CommandMoves DEF RemoveThread
<1>6. CASE \E p \in Pids : KillProcess(p)
  <2>0. PICK p \in Pids : KillProcess(p)
    BY <1>6
  <2>1. cmd' \in CommandLocals
    BY <1>0, <2>0, Ranges DEF KillProcess, CommandInRange, CommandLocals,
       CommandLabels
  <2>2. CommandInRange'
    BY <1>0, <2>0, Ranges DEF KillProcess, CommandInRange, CommandLocals
  <2> QED
    BY <2>0, <2>1, <2>2, CommandMoves DEF KillProcess
<1>7. CASE ExitMond
  <2>1. cmd' \in CommandLocals
    BY ZenonT(40), <1>0, <1>7, Ranges DEF ExitMond, CommandInRange, CommandLocals,
       CommandLabels
  <2>2. CommandInRange'
    BY <1>0, <1>7, Ranges DEF ExitMond, CommandInRange, CommandLocals
  <2> QED
    BY <1>7, <2>1, <2>2, CommandMoves DEF ExitMond
<1>8. CASE StartWebmon
  <2>1. cmd' \in CommandLocals
    BY <1>0, <1>8, Ranges DEF StartWebmon, CommandInRange, CommandLocals,
       CommandLabels
  <2>2. CommandInRange'
    BY <1>0, <1>8, Ranges DEF StartWebmon, CommandInRange, CommandLocals
  <2>3. web' \in WebLocals
    BY <1>0, <1>8 DEF StartWebmon, WebLocals, WebLabels, ListLocked
  <2> QED
    BY <1>8, <2>1, <2>2, <2>3 DEF StartWebmon, TypeOK
<1>9. CASE ListActive
  <2>1. cmd' \in CommandLocals
    BY ZenonT(40), <1>0, <1>9, Ranges DEF ListActive, CommandInRange, CommandLocals,
       CommandLabels
  <2>2. CommandInRange'
    BY <1>0, <1>9, Ranges DEF ListActive, CommandInRange, CommandLocals
  <2> QED
    BY <1>9, <2>1, <2>2, CommandMoves DEF ListActive
<1>10. CASE ListCompleted
  <2>1. cmd' \in CommandLocals
    BY <1>0, <1>10, Ranges DEF ListCompleted, CommandInRange, CommandLocals,
       CommandLabels, Goto
  <2>2. CommandInRange'
    BY <1>0, <1>10, Ranges DEF ListCompleted, CommandInRange, CommandLocals, Goto
  <2> QED
    BY <1>10, <2>1, <2>2, CommandMoves DEF ListCompleted
<1> QED
  BY <1>1, <1>2, <1>3, <1>4, <1>5, <1>6, <1>7, <1>8, <1>9, <1>10 DEF CommandTyped

(* The steps of add keep the type invariant. *)
LEMMA TypeAdd ==
  ASSUME TypeOK,
         \/ FindRowTaken
         \/ FindRowFree
         \/ \E p \in Children : Fork(p)
         \/ WaitExec
         \/ InitRow
         \/ ScanMiss
         \/ ScanHit
         \/ OpenLog
         \/ \E t \in Tids : CreateThread(t)
         \/ SystemCreated
         \/ MonitorCreated
  PROVE  TypeOK'
<1>0. /\ cmd \in CommandLocals /\ CommandInRange
      /\ threadTable \in [RowIds -> ThreadTableRow]
      /\ fileTable \in [Entries -> FileTableRow]
      /\ proc \in [Pids -> ProcStates] /\ web \in WebLocals
  BY DEF TypeOK
<1>1. CASE FindRowTaken
  <2>1. cmd' \in CommandLocals
    BY <1>0, <1>1, Ranges, PromptType DEF FindRowTaken, CommandInRange,
       CommandLocals, CommandLabels
  <2>2. CommandInRange'
    BY <1>0, <1>1, Ranges DEF FindRowTaken, CommandInRange, CommandLocals, Prompt
  <2> QED
    BY <1>1, <2>1, <2>2, CommandMoves DEF FindRowTaken
<1>2. CASE FindRowFree
  <2>1. cmd' \in CommandLocals
    BY <1>0, <1>2, Ranges DEF FindRowFree, CommandInRange, CommandLocals,
       CommandLabels
  <2>2. CommandInRange'
    BY <1>0, <1>2, Ranges DEF FindRowFree, CommandInRange, CommandLocals
  <2> QED
    BY <1>2, <2>1, <2>2, CommandMoves DEF FindRowFree
<1>3. CASE \E p \in Children : Fork(p)
  <2>0. PICK p \in Children : Fork(p)
    BY <1>3
  <2>1. cmd' \in CommandLocals
    BY <1>0, <2>0, Ranges DEF Fork, CommandInRange, CommandLocals,
       CommandLabels, Pids
  <2>2. CommandInRange'
    BY <1>0, <2>0, Ranges DEF Fork, CommandInRange, CommandLocals, Pids
  <2>3. proc' \in [Pids -> ProcStates]
    BY <1>0, <2>0 DEF Fork, CommandInRange, CommandLocals, ProcStates,
       WaitedFor, Pids
  <2> QED
    BY <2>0, <2>1, <2>2, <2>3 DEF Fork, TypeOK, Pids
<1>4. CASE WaitExec
  <2>1. cmd' \in CommandLocals
    BY <1>0, <1>4, Ranges, PromptType DEF WaitExec, CommandInRange,
       CommandLocals, CommandLabels
  <2>2. CommandInRange'
    BY <1>0, <1>4, Ranges DEF WaitExec, CommandInRange, CommandLocals, Prompt
  <2>3. proc' \in [Pids -> ProcStates]
    BY <1>0, <1>4 DEF WaitExec, CommandInRange, CommandLocals, ProcStates,
       WaitedFor, Pids
  <2> QED
    BY <1>4, <2>1, <2>2, <2>3 DEF WaitExec, TypeOK
<1>5. CASE InitRow
  <2>1. cmd' \in CommandLocals
    BY <1>0, <1>5, Ranges DEF InitRow, CommandInRange, CommandLocals,
       CommandLabels
  <2>2. CommandInRange'
    BY <1>0, <1>5, Ranges DEF InitRow, CommandInRange, CommandLocals
  <2>3. threadTable' \in [RowIds -> ThreadTableRow]
    <3>1. cmd.row \in RowIds /\ cmd.exec \in BOOLEAN
            /\ cmd.pid \in Pids \cup {NoPid, SystemPid}
      BY <1>0, <1>5, Ranges DEF InitRow, CommandInRange, CommandLocals
    <3> QED
      BY <1>0, <1>5, <3>1, RowStarted DEF InitRow
  <2> QED
    BY <1>5, <2>1, <2>2, <2>3 DEF InitRow, TypeOK
<1>6. CASE ScanMiss
  <2>1. cmd' \in CommandLocals
    <3>1. /\ cmd.i \in Entries /\ cmd.i + 1 \in Nat
          /\ cmd.entry \in Entries \cup {NoEntry}
      BY <1>0, <1>6, Ranges DEF ScanMiss, CommandInRange, CommandLocals
    <3>2. PICK e \in Entries \cup {NoEntry}, l \in {"openLog", "scan"} :
             cmd' = [cmd EXCEPT !.entry = e, !.i = @ + 1, !.pc = l]
      <4>1. CASE fileTable[cmd.i].inode = NoFile
        BY <1>6, <3>1, <4>1 DEF ScanMiss
      <4>2. CASE fileTable[cmd.i].inode # NoFile
        BY <1>6, <3>1, <4>2 DEF ScanMiss
      <4> QED
        BY <4>1, <4>2
    <3>3. cmd \in CommandLocals
      BY <1>0
    <3> QED
      BY <3>1, <3>2, <3>3 DEF CommandLocals, CommandLabels
  <2>2. CommandInRange'
    BY <1>0, <1>6, Ranges DEF ScanMiss, CommandInRange, CommandLocals
  <2> QED
    BY <1>6, <2>1, <2>2, CommandMoves DEF ScanMiss
<1>7. CASE ScanHit
  <2>1. cmd' \in CommandLocals
    BY <1>0, <1>7, Ranges DEF ScanHit, CommandInRange, CommandLocals,
       CommandLabels, UseEntry, NoEntry
  <2>2. CommandInRange'
    BY <1>0, <1>7, Ranges DEF ScanHit, CommandInRange, CommandLocals, UseEntry,
       NoEntry
  <2>3. threadTable' \in [RowIds -> ThreadTableRow]
    BY <1>0, <1>7, Ranges, RowLogs DEF ScanHit, CommandInRange, CommandLocals,
       UseEntry, NoEntry
  <2>4. fileTable' \in [Entries -> FileTableRow]
    BY <1>0, <1>7 DEF ScanHit, CommandInRange, CommandLocals, FileTableRow,
       UseEntry, NoEntry
  <2> QED
    BY <1>7, <2>1, <2>2, <2>3, <2>4 DEF ScanHit, TypeOK, UseEntry, NoEntry
<1>8. CASE OpenLog
  <2>1. cmd' \in CommandLocals
    <3>1. CASE cmd.entry = NoEntry
      BY <1>0, <1>8, <3>1 DEF OpenLog
    <3>2. CASE cmd.entry # NoEntry
      <4>1. cmd' = [cmd EXCEPT !.pc = "create", !.entry = NoEntry, !.i = 0]
        BY <1>8, <3>2 DEF OpenLog, UseEntry
      <4> QED
        BY <1>0, <4>1 DEF NoEntry, CommandLocals, CommandLabels
    <3> QED
      BY <3>1, <3>2
  <2>2. CommandInRange'
    BY ZenonT(40), <1>0, <1>8, Ranges DEF OpenLog, CommandInRange, CommandLocals, UseEntry,
       NoEntry
  <2>3. threadTable' \in [RowIds -> ThreadTableRow]
    <3>1. cmd.row \in RowIds /\ cmd.entry \in Entries \cup {NoEntry}
            /\ cmd.file \in LogFiles \cup {NoFile}
      <4>1. cmd.row \in RowIds
        BY <1>0, <1>8 DEF OpenLog, CommandInRange
      <4>2. cmd.entry \in Entries \cup {NoEntry}
        BY <1>0 DEF CommandLocals
      <4>3. cmd.file \in LogFiles \cup {NoFile}
        BY <1>0 DEF CommandLocals
      <4> QED
        BY <4>1, <4>2, <4>3
    <3>2. CASE cmd.entry = NoEntry
      BY <1>0, <1>8, <3>2 DEF OpenLog
    <3>3. CASE cmd.entry # NoEntry
      <4>1. threadTable' = [threadTable EXCEPT ![cmd.row].fTable = cmd.entry,
                                               ![cmd.row].fileName = cmd.file]
        BY <1>8, <3>3 DEF OpenLog, UseEntry
      <4> QED
        BY <1>0, <3>1, <4>1, RowLogs
    <3> QED
      BY <3>2, <3>3
  <2>4. fileTable' \in [Entries -> FileTableRow]
    BY <1>0, <1>8 DEF OpenLog, CommandInRange, CommandLocals, FileTableRow,
       UseEntry, NoEntry
  <2> QED
    BY <1>8, <2>1, <2>2, <2>3, <2>4 DEF OpenLog, TypeOK, UseEntry, NoEntry
<1>9. CASE \E t \in Tids : CreateThread(t)
  <2>0. PICK t \in Tids : CreateThread(t)
    BY <1>9
  <2>1. cmd' \in CommandLocals
    BY <1>0, <2>0, Ranges DEF CreateThread, CommandInRange, CommandLocals,
       CommandLabels, Goto
  <2>2. CommandInRange'
    BY <1>0, <2>0, Ranges DEF CreateThread, CommandInRange, CommandLocals, Goto
  <2>3. threadTable' \in [RowIds -> ThreadTableRow]
    BY <1>0, <2>0, Ranges, RowCreated DEF CreateThread, CommandInRange,
       CommandLocals, Goto
  <2>4. /\ pc' \in [Tids -> Labels]
        /\ handle' \in [Tids -> RowIds \cup {NoRow}]
    BY <1>0, <2>0 DEF CreateThread, TypeOK, Labels, CommandInRange
  <2> QED
    BY <2>0, <2>1, <2>2, <2>3, <2>4 DEF CreateThread, TypeOK, Goto
<1>10. CASE SystemCreated
  <2>1. cmd' \in CommandLocals
    BY <1>0, <1>10, Ranges, PromptType DEF SystemCreated, CommandInRange,
       CommandLocals, CommandLabels
  <2>2. CommandInRange'
    BY <1>0, <1>10, Ranges DEF SystemCreated, CommandInRange, CommandLocals,
       Prompt
  <2> QED
    BY <1>10, <2>1, <2>2 DEF SystemCreated, TypeOK
<1>11. CASE MonitorCreated
  <2>1. cmd' \in CommandLocals
    BY <1>0, <1>11, Ranges, PromptType DEF MonitorCreated, CommandInRange,
       CommandLocals, CommandLabels
  <2>2. CommandInRange'
    BY <1>0, <1>11, Ranges DEF MonitorCreated, CommandInRange, CommandLocals,
       Prompt
  <2> QED
    BY <1>11, <2>1, <2>2 DEF MonitorCreated, TypeOK
<1> QED
  BY <1>1, <1>2, <1>3, <1>4, <1>5, <1>6, <1>7, <1>8, <1>9, <1>10, <1>11

(* The steps of remove and kill keep the type invariant. *)
LEMMA TypeRemoveKill ==
  ASSUME TypeOK,
         \/ ReadSystemTid
         \/ StopSystemTid
         \/ StopTid
         \/ FindPid
         \/ SignalSent
         \/ SignalDenied
         \/ SignalNoProcess
         \/ MarkKilled
  PROVE  TypeOK'
<1>0. /\ cmd \in CommandLocals /\ CommandInRange
      /\ threadTable \in [RowIds -> ThreadTableRow]
      /\ fileTable \in [Entries -> FileTableRow]
      /\ proc \in [Pids -> ProcStates] /\ web \in WebLocals
  BY DEF TypeOK
<1>1. CASE ReadSystemTid
  <2>1. cmd' \in CommandLocals
    <3>1. threadTable[SystemRow].tid \in Tids \cup {NoTid}
      BY <1>0, Ranges DEF ThreadTableRow
    <3> QED
      BY <1>0, <1>1, <3>1 DEF ReadSystemTid, CommandLocals, CommandLabels
  <2>2. CommandInRange'
    BY <1>0, <1>1, Ranges DEF ReadSystemTid, CommandInRange, CommandLocals
  <2> QED
    BY <1>1, <2>1, <2>2, CommandMoves DEF ReadSystemTid
<1>2. CASE StopSystemTid
  <2>1. cmd' \in CommandLocals
    <3>1. CASE threadTable[SystemRow].tid = cmd.tid
      BY <1>2, <3>1, PromptType DEF StopSystemTid
    <3>2. CASE threadTable[SystemRow].tid # cmd.tid
      <4>1. cmd' = [cmd EXCEPT !.pc = "stopTid", !.i = 1]
        BY <1>2, <3>2 DEF StopSystemTid
      <4> QED
        BY <1>0, <4>1 DEF CommandLocals, CommandLabels
    <3> QED
      BY <3>1, <3>2
  <2>2. CommandInRange'
    <3>1. CASE threadTable[SystemRow].tid = cmd.tid
      BY <1>0, <1>2, <3>1 DEF StopSystemTid, Prompt, CommandInRange
    <3>2. CASE threadTable[SystemRow].tid # cmd.tid
      BY <1>0, <1>2, <3>2, Ranges DEF StopSystemTid, CommandInRange, CommandLocals
    <3> QED
      BY <3>1, <3>2
  <2>3. threadTable' \in [RowIds -> ThreadTableRow]
    <3>1. SystemRow \in RowIds
      BY <1>0, <1>2, Ranges DEF StopSystemTid, CommandInRange
    <3>2. CASE threadTable[SystemRow].tid = cmd.tid
      BY <1>0, <1>2, <3>1, <3>2, StopRowType DEF StopSystemTid
    <3>3. CASE threadTable[SystemRow].tid # cmd.tid
      BY <1>0, <1>2, <3>3 DEF StopSystemTid
    <3> QED
      BY <3>2, <3>3
  <2> QED
    BY <1>2, <2>1, <2>2, <2>3 DEF StopSystemTid, TypeOK, StopRow
<1>3. CASE StopTid
  <2>1. cmd' \in CommandLocals
    BY <1>0, <1>3, Ranges, PromptType DEF StopTid, CommandInRange,
       CommandLocals, CommandLabels, StopRow
  <2>2. CommandInRange'
    BY <1>0, <1>3, Ranges DEF StopTid, CommandInRange, CommandLocals, Prompt,
       StopRow
  <2>3. threadTable' \in [RowIds -> ThreadTableRow]
    <3>1. cmd.i \in RowIds
      BY <1>0, <1>3, Ranges DEF StopTid, CommandInRange
    <3>2. CASE threadTable[cmd.i].tid = cmd.tid
      BY <1>0, <1>3, <3>1, <3>2, StopRowType DEF StopTid
    <3>3. CASE threadTable[cmd.i].tid # cmd.tid
      BY <1>0, <1>3, <3>3 DEF StopTid
    <3> QED
      BY <3>2, <3>3
  <2> QED
    BY <1>3, <2>1, <2>2, <2>3 DEF StopTid, TypeOK, StopRow
<1>4. CASE FindPid
  <2>1. cmd' \in CommandLocals
    <3>1. cmd.i \in RowIds /\ cmd.i + 1 \in Nat
      BY <1>0, <1>4, Ranges DEF FindPid, CommandInRange
    <3>2. CASE threadTable[cmd.i].pid = cmd.pid
      BY <1>0, <1>4, <3>1, <3>2 DEF FindPid, CommandLocals, CommandLabels
    <3>3. CASE threadTable[cmd.i].pid # cmd.pid
      BY <1>0, <1>4, <3>1, <3>3, PromptType DEF FindPid, CommandLocals
    <3> QED
      BY <3>2, <3>3
  <2>2. CommandInRange'
    BY <1>0, <1>4, Ranges DEF FindPid, CommandInRange, CommandLocals, Prompt
  <2> QED
    BY <1>4, <2>1, <2>2, CommandMoves DEF FindPid
<1>5. CASE SignalSent
  <2>1. cmd' \in CommandLocals
    BY <1>0, <1>5, Ranges DEF SignalSent, CommandInRange, CommandLocals,
       CommandLabels, Goto
  <2>2. CommandInRange'
    BY <1>0, <1>5, Ranges DEF SignalSent, CommandInRange, CommandLocals, Goto
  <2> QED
    BY <1>5, <2>1, <2>2, CommandMoves DEF SignalSent
<1>6. CASE SignalDenied
  <2>1. cmd' \in CommandLocals
    BY <1>0, <1>6, Ranges, PromptType DEF SignalDenied, CommandInRange,
       CommandLocals, CommandLabels
  <2>2. CommandInRange'
    BY <1>0, <1>6, Ranges DEF SignalDenied, CommandInRange, CommandLocals, Prompt
  <2> QED
    BY <1>6, <2>1, <2>2, CommandMoves DEF SignalDenied
<1>7. CASE SignalNoProcess
  <2>1. cmd' \in CommandLocals
    BY <1>0, <1>7, Ranges DEF SignalNoProcess, CommandInRange, CommandLocals,
       CommandLabels
  <2>2. CommandInRange'
    BY <1>0, <1>7, Ranges DEF SignalNoProcess, CommandInRange, CommandLocals
  <2> QED
    BY <1>7, <2>1, <2>2 DEF SignalNoProcess, TypeOK
<1>8. CASE MarkKilled
  <2>1. cmd' \in CommandLocals
    BY <1>0, <1>8, Ranges, PromptType DEF MarkKilled, CommandInRange,
       CommandLocals, CommandLabels
  <2>2. CommandInRange'
    BY <1>0, <1>8, Ranges DEF MarkKilled, CommandInRange, CommandLocals, Prompt
  <2>3. threadTable' \in [RowIds -> ThreadTableRow]
    BY <1>0, <1>8, Ranges, RowMarked DEF MarkKilled, CommandInRange, CommandLocals
  <2> QED
    BY <1>8, <2>1, <2>2, <2>3 DEF MarkKilled, TypeOK
<1> QED
  BY <1>1, <1>2, <1>3, <1>4, <1>5, <1>6, <1>7, <1>8

(* The steps of exit and of the program's end keep the type invariant. *)
LEMMA TypeExit ==
  ASSUME TypeOK,
         \/ ExitStopSystem
         \/ ExitStopRow
         \/ ExitSystemEnded
         \/ ExitMonitorsEnded
         \/ ClearList
         \/ DestroyList
         \/ DestroyTables
         \/ MainReturns
  PROVE  TypeOK'
<1>0. /\ cmd \in CommandLocals /\ CommandInRange
      /\ threadTable \in [RowIds -> ThreadTableRow]
      /\ fileTable \in [Entries -> FileTableRow]
      /\ proc \in [Pids -> ProcStates] /\ web \in WebLocals
  BY DEF TypeOK
<1>1. CASE ExitStopSystem
  <2>1. cmd' \in CommandLocals
    BY <1>0, <1>1, Ranges DEF ExitStopSystem, CommandInRange, CommandLocals,
       CommandLabels, StopRow, Goto
  <2>2. CommandInRange'
    BY <1>0, <1>1, Ranges DEF ExitStopSystem, Goto, CommandInRange, CommandLocals
  <2>3. threadTable' \in [RowIds -> ThreadTableRow]
    BY <1>0, <1>1, Ranges, RowMarked DEF ExitStopSystem, CommandInRange,
       CommandLocals, StopRow, Goto
  <2> QED
    BY <1>1, <2>1, <2>2, <2>3 DEF ExitStopSystem, TypeOK, StopRow, Goto
<1>2. CASE ExitStopRow
  <2>1. cmd' \in CommandLocals
    <3>1. cmd.i + 1 \in Nat
      BY <1>0, <1>2, Ranges DEF ExitStopRow, CommandInRange
    <3>2. CASE cmd.i = THREAD_TABLE_SIZE
      BY <1>0, <1>2, <3>2 DEF ExitStopRow, CommandLocals, CommandLabels
    <3>3. CASE cmd.i # THREAD_TABLE_SIZE
      BY <1>0, <1>2, <3>1, <3>3 DEF ExitStopRow, CommandLocals
    <3> QED
      BY <3>2, <3>3
  <2>2. CommandInRange'
    BY <1>0, <1>2, Ranges DEF ExitStopRow, CommandInRange, CommandLocals
  <2>3. threadTable' \in [RowIds -> ThreadTableRow]
    <3>1. cmd.i \in RowIds
      BY <1>0, <1>2, Ranges DEF ExitStopRow, CommandInRange
    <3>2. CASE threadTable[cmd.i].startTime
      BY <1>0, <1>2, <3>1, <3>2, StopRowType DEF ExitStopRow
    <3>3. CASE ~threadTable[cmd.i].startTime
      BY <1>0, <1>2, <3>3 DEF ExitStopRow
    <3> QED
      BY <3>2, <3>3
  <2> QED
    BY <1>2, <2>1, <2>2, <2>3 DEF ExitStopRow, TypeOK, StopRow
<1>3. CASE ExitSystemEnded
  <2>1. cmd' \in CommandLocals
    BY <1>0, <1>3, Ranges DEF ExitSystemEnded, CommandInRange, CommandLocals,
       CommandLabels, Goto
  <2>2. CommandInRange'
    BY <1>0, <1>3, Ranges DEF ExitSystemEnded, CommandInRange, CommandLocals, Goto
  <2> QED
    BY <1>3, <2>1, <2>2, CommandMoves DEF ExitSystemEnded
<1>4. CASE ExitMonitorsEnded
  <2>1. cmd' \in CommandLocals
    BY <1>0, <1>4, Ranges DEF ExitMonitorsEnded, CommandInRange, CommandLocals,
       CommandLabels, Goto
  <2>2. CommandInRange'
    BY <1>0, <1>4, Ranges DEF ExitMonitorsEnded, CommandInRange, CommandLocals,
       Goto
  <2> QED
    BY <1>4, <2>1, <2>2, CommandMoves DEF ExitMonitorsEnded
<1>5. CASE ClearList
  <2>1. cmd' \in CommandLocals
    BY <1>0, <1>5, Ranges DEF ClearList, CommandInRange, CommandLocals,
       CommandLabels, Goto
  <2>2. CommandInRange'
    BY <1>0, <1>5, Ranges DEF ClearList, CommandInRange, CommandLocals, Goto
  <2>3. web' \in WebLocals
    BY <1>0, <1>5 DEF ClearList, WebLocals, WebLabels, ListLocked
  <2> QED
    BY <1>5, <2>1, <2>2, <2>3 DEF ClearList, TypeOK, Goto
<1>6. CASE DestroyList
  <2>1. cmd' \in CommandLocals
    BY <1>0, <1>6, Ranges DEF DestroyList, CommandInRange, CommandLocals,
       CommandLabels, Goto, ListLocked
  <2>2. CommandInRange'
    BY <1>0, <1>6, Ranges DEF DestroyList, CommandInRange, CommandLocals, Goto,
       ListLocked
  <2> QED
    BY <1>6, <2>1, <2>2 DEF DestroyList, TypeOK, Goto, ListLocked
<1>7. CASE DestroyTables
  <2>1. cmd' \in CommandLocals
    BY <1>0, <1>7, Ranges DEF DestroyTables, CommandInRange, CommandLocals,
       CommandLabels, Goto
  <2>2. CommandInRange'
    BY <1>0, <1>7, Ranges DEF DestroyTables, CommandInRange, CommandLocals, Goto
  <2> QED
    BY <1>7, <2>1, <2>2 DEF DestroyTables, TypeOK, Goto
<1>8. CASE MainReturns
  <2>1. cmd' \in CommandLocals
    BY <1>0, <1>8, Ranges DEF MainReturns, CommandInRange, CommandLocals,
       CommandLabels
  <2>2. CommandInRange'
    BY <1>0, <1>8, Ranges DEF MainReturns, CommandInRange, CommandLocals
  <2> QED
    BY <1>8, <2>1, <2>2 DEF MainReturns, TypeOK
<1> QED
  BY <1>1, <1>2, <1>3, <1>4, <1>5, <1>6, <1>7, <1>8

(* The steps of the listings keep the type invariant. *)
LEMMA TypeList ==
  ASSUME TypeOK, ListRow \/ ListLock \/ ListUnlock
  PROVE  TypeOK'
<1>0. cmd \in CommandLocals /\ CommandInRange
  BY DEF TypeOK
<1>1. CASE ListRow
  <2>1. cmd' \in CommandLocals
    BY <1>0, <1>1, Ranges, PromptType DEF ListRow, CommandInRange, CommandLocals
  <2>2. CommandInRange'
    <3>1. CASE cmd.i = THREAD_TABLE_SIZE
      BY <1>0, <1>1, <3>1 DEF ListRow, CommandInRange, Prompt
    <3>2. CASE cmd.i # THREAD_TABLE_SIZE
      <4>1. cmd.i \in RowIds /\ cmd.i + 1 \in RowIds
        BY <1>0, <1>1, <3>2 DEF ListRow, CommandInRange, RowIds
      <4>2. cmd' = [cmd EXCEPT !.i = cmd.i + 1] /\ cmd.pc = "listRows"
        BY <1>1, <3>2 DEF ListRow
      <4> QED
        BY <1>0, <4>1, <4>2 DEF CommandInRange, CommandLocals
    <3> QED
      BY <3>1, <3>2
  <2> QED
    BY <1>1, <2>1, <2>2, CommandMoves DEF ListRow
<1>2. CASE ListLock
  <2>1. cmd' \in CommandLocals
    BY <1>0, <1>2 DEF ListLock, CommandLocals, CommandLabels, Goto
  <2>2. CommandInRange'
    BY <1>0, <1>2 DEF ListLock, CommandInRange, CommandLocals, Goto
  <2> QED
    BY <1>2, <2>1, <2>2, CommandMoves DEF ListLock
<1>3. CASE ListUnlock
  <2>1. cmd' \in CommandLocals
    BY <1>3, PromptType DEF ListUnlock
  <2>2. CommandInRange'
    BY <1>0, <1>3 DEF ListUnlock, CommandInRange, Prompt
  <2> QED
    BY <1>3, <2>1, <2>2, CommandMoves DEF ListUnlock
<1> QED
  BY <1>1, <1>2, <1>3

(* What the operating system refuses ends the program and changes nothing else. *)
LEMMA RefusedStep ==
  ASSUME AddRefused \/ WebmonRefused
  PROVE  /\ status' = "refused"
         /\ UNCHANGED <<threadTable, rowLock, fileTable, fileLock, availableThreads,
                        systemThreadState, completedList, listExists, pc, handle, stop,
                        line, proc, cmd, web>>
BY DEF AddRefused, ForkFails, StatFails, OpenFails, CreateFails, RefusedAt, WebmonRefused,
   tables, globals, threads

LEMMA TypeRefused ==
  ASSUME TypeOK, AddRefused \/ WebmonRefused
  PROVE  TypeOK'
BY RefusedStep DEF TypeOK, CommandInRange

(* The command thread keeps the type invariant. *)
LEMMA TypeCommand ==
  ASSUME TypeOK, CommandStep
  PROVE  TypeOK'
BY TypeAdd, TypeRemoveKill, TypeExit, TypeList, TypeRefused DEF CommandStep

(* The cleanup of a row leaves a row. *)
LEMMA ClearedType ==
  ASSUME NEW row \in ThreadTableRow
  PROVE  Cleared(row) \in ThreadTableRow
  BY DEF ThreadTableRow, Cleared, NoTid, NoEntry, TerminationStatus

(* An entry with one user less is an entry. *)
LEMMA OneUserLessType ==
  ASSUME NEW entry \in FileTableRow, entry.count > 0
  PROVE  OneUserLess(entry) \in FileTableRow
  BY DEF FileTableRow, OneUserLess, ZeroEntry

(* The cleanup keeps the types of both tables and of their mutexes. *)
LEMMA ReleaseRowType ==
  ASSUME TypeOK, NEW t \in Tids, handle[t] \in RowIds, ReleaseRow(t)
  PROVE  /\ threadTable' \in [RowIds -> ThreadTableRow]
         /\ rowLock' \in [RowIds -> Tids \cup {NoTid}]
         /\ fileTable' \in [Entries -> FileTableRow]
         /\ fileLock' = fileLock
<1>1. threadTable[handle[t]] \in ThreadTableRow
  BY DEF TypeOK
<1>2. threadTable' \in [RowIds -> ThreadTableRow]
  BY <1>1, ClearedType DEF ReleaseRow, TypeOK
<1>3. rowLock' \in [RowIds -> Tids \cup {NoTid}]
  BY DEF ReleaseRow, TypeOK
<1>4. CASE threadTable[handle[t]].fTable \in Entries
  BY <1>2, <1>3, <1>4, OneUserLessType DEF ReleaseRow, TypeOK
<1>5. CASE threadTable[handle[t]].fTable \notin Entries
  BY <1>2, <1>3, <1>5 DEF ReleaseRow, TypeOK
<1> QED
  BY <1>4, <1>5

(* A monitor thread keeps the type invariant. *)
LEMMA TypeMonitor ==
  ASSUME TypeOK, NEW t \in Tids, MonitorNext(t)
  PROVE  TypeOK'
<1>0. /\ handle[t] \in RowIds
      /\ threadTable[handle[t]] \in ThreadTableRow
  BY DEF MonitorNext, IsMonitor, Rows, RowIds, TypeOK
<1>c. cmd' = cmd => CommandInRange'
  BY DEF TypeOK, CommandInRange
<1> USE <1>0, <1>c DEF TypeOK, MyRow
<1>1. CASE MonitorLockRow(t)
  BY <1>1 DEF MonitorLockRow, Labels
<1>2. CASE MonitorOpen(t)
  BY <1>2 DEF MonitorOpen, Labels
<1>3. CASE MonitorProcessGone(t)
  <2>1. threadTable' \in [RowIds -> ThreadTableRow]
    BY <1>3, RowMarked DEF MonitorProcessGone
  <2> QED
    BY <1>3, <2>1 DEF MonitorProcessGone, Labels
<1>4. CASE MonitorPrint(t)
  BY <1>4 DEF MonitorPrint, Labels
<1>5. CASE MonitorPrintFails(t)
  BY <1>5 DEF MonitorPrintFails
<1>6. CASE MonitorContinue(t)
  BY <1>6 DEF MonitorContinue, Labels
<1>7. CASE MonitorTerminate(t)
  BY <1>7 DEF MonitorTerminate, CopyRow, Labels
<1>8. CASE MonitorRelease(t)
  BY <1>8, ReleaseRowType DEF MonitorRelease, Labels
<1>9. CASE MonitorWait(t)
  <2>1. proc' \in [Pids -> ProcStates]
    BY <1>9 DEF MonitorWait, WaitedFor, ProcStates
  <2> QED
    BY <1>9, <2>1 DEF MonitorWait, Labels
<1>10. CASE MonitorRecord(t)
  <2>1. completedList' \in Seq(ThreadTableRow)
    BY <1>10 DEF MonitorRecord, InsertCompleted
  <2> QED
    BY <1>10, <2>1 DEF MonitorRecord, Labels
<1>11. CASE MonitorPost(t)
  BY <1>11 DEF MonitorPost, EndThread, Labels, ZeroRow, ThreadTableRow,
     TerminationStatus
<1> QED
  BY <1>1, <1>2, <1>3, <1>4, <1>5, <1>6, <1>7, <1>8, <1>9, <1>10, <1>11
     DEF MonitorNext

(* The system thread keeps the type invariant. *)
LEMMA TypeSystem ==
  ASSUME TypeOK, NEW t \in Tids, SystemNext(t)
  PROVE  TypeOK'
<1>0. /\ handle[t] = SystemRow
      /\ SystemRow \in RowIds
      /\ threadTable[SystemRow] \in ThreadTableRow
  BY DEF SystemNext, IsSystem, SystemRow, RowIds, TypeOK
<1>c. cmd' = cmd => CommandInRange'
  BY DEF TypeOK, CommandInRange
<1> USE <1>0, <1>c DEF TypeOK
<1>1. CASE SystemLockRow(t)
  BY <1>1 DEF SystemLockRow, Labels
<1>2. CASE SystemPrint(t)
  BY <1>2 DEF SystemPrint, Labels
<1>3. CASE SystemContinue(t)
  BY <1>3 DEF SystemContinue, Labels
<1>4. CASE SystemTerminate(t)
  BY <1>4 DEF SystemTerminate, CopyRow, Labels
<1>5. CASE SystemRelease(t)
  BY <1>5, ReleaseRowType DEF SystemRelease, Labels
<1>6. CASE SystemRecord(t)
  <2>1. completedList' \in Seq(ThreadTableRow)
    BY <1>6 DEF SystemRecord, InsertCompleted
  <2> QED
    BY <1>6, <2>1 DEF SystemRecord, Labels
<1>7. CASE SystemPost(t)
  BY <1>7 DEF SystemPost, EndThread, Labels, ZeroRow, ThreadTableRow,
     TerminationStatus, NoTid, NoEntry
<1> QED
  BY <1>1, <1>2, <1>3, <1>4, <1>5, <1>6, <1>7 DEF SystemNext

(* Webmon keeps the type invariant. *)
LEMMA TypeWebmon ==
  ASSUME TypeOK, WebmonNext
  PROVE  TypeOK'
<1>0. /\ web \in WebLocals /\ ZeroRow \in ThreadTableRow
      /\ threadTable \in [RowIds -> ThreadTableRow]
  BY DEF TypeOK, ZeroRow, ThreadTableRow, TerminationStatus, NoTid, NoEntry
<1>1. 1 \in RowIds /\ SystemRow \in RowIds
  BY Ranges
<1>2. \A i \in RowIds : i # THREAD_TABLE_SIZE => i + 1 \in RowIds
  BY DEF RowIds
<1>3. CommandInRange'
  BY DEF WebmonNext, WebmonRefresh, WebmonShowRow, WebmonLockList,
         WebmonUnlockList, WebmonShowFiles, TypeOK, CommandInRange,
     WebmonRefused
<1>4. CASE WebmonRefresh
  <2>1. web' \in WebLocals
    BY <1>0, <1>1, <1>4 DEF WebmonRefresh, WebLocals, WebLabels
  <2> QED
    BY <1>3, <1>4, <2>1 DEF WebmonRefresh, TypeOK
<1>5. CASE WebmonShowRow
  <2>1. web' \in WebLocals
    <3>1. CASE TablesDestroyed
      BY <1>0, <1>5, <3>1 DEF WebmonShowRow
    <3>2. CASE ~TablesDestroyed
      <4> DEFINE next == IF web.i = THREAD_TABLE_SIZE THEN 0 ELSE web.i + 1
                 label == IF web.i = THREAD_TABLE_SIZE THEN "lockList" ELSE "rows"
      <4>1. web' = [web EXCEPT !.i = next, !.pc = label]
        BY <1>5, <3>2 DEF WebmonShowRow
      <4>2. web.i \in RowIds
        BY <1>0 DEF WebLocals
      <4>4. next \in RowIds
        BY <1>1, <1>2, <4>2 DEF SystemRow
      <4>5. label \in WebLabels
        BY DEF WebLabels
      <4> HIDE DEF next, label
      <4> QED
        BY <1>0, <4>1, <4>4, <4>5 DEF WebLocals
    <3> QED
      BY <3>1, <3>2
  <2> QED
    BY <1>3, <1>5, <2>1 DEF WebmonShowRow, TypeOK
<1>6. CASE WebmonLockList
  <2>1. web' \in WebLocals
    BY <1>0, <1>6 DEF WebmonLockList, WebLocals, WebLabels
  <2> QED
    BY <1>3, <1>6, <2>1 DEF WebmonLockList, TypeOK
<1>7. CASE WebmonUnlockList
  <2>1. web' \in WebLocals
    BY <1>0, <1>7 DEF WebmonUnlockList, WebLocals, WebLabels
  <2> QED
    BY <1>3, <1>7, <2>1 DEF WebmonUnlockList, TypeOK
<1>8. CASE WebmonShowFiles
  <2>1. web' \in WebLocals
    BY <1>0, <1>8 DEF WebmonShowFiles, WebLocals, WebLabels
  <2> QED
    BY <1>3, <1>8, <2>1 DEF WebmonShowFiles, TypeOK
<1> QED
  BY <1>4, <1>5, <1>6, <1>7, <1>8, TypeRefused DEF WebmonNext

(* Processes dying and being reaped keep the type invariant. *)
LEMMA TypeProcess ==
  ASSUME TypeOK, NEW p \in Pids, ProcessDies(p) \/ ProcessReaped(p)
  PROVE  TypeOK'
<1>1. proc' \in [Pids -> ProcStates]
  BY DEF ProcessDies, ProcessReaped, TypeOK, ProcStates
<1>2. CommandInRange'
  BY DEF ProcessDies, ProcessReaped, TypeOK, CommandInRange
<1> QED
  BY <1>1, <1>2 DEF ProcessDies, ProcessReaped, TypeOK

(* Every step of the program keeps the type invariant. *)
LEMMA TypeNext ==
  ASSUME TypeOK, [Next]_vars
  PROVE  TypeOK'
<1>1. CASE UserStep
  BY <1>1, TypeTyped DEF UserStep
<1>2. CASE CommandGoesOn
  BY <1>2, TypeCommand DEF CommandGoesOn
<1>3. CASE \E t \in Tids : ThreadStep(t)
  BY <1>3, TypeMonitor, TypeSystem DEF ThreadStep
<1>4. CASE WebmonStep
  BY <1>4, TypeWebmon DEF WebmonStep
<1>5. CASE ProcessStep
  BY <1>5, TypeProcess DEF ProcessStep
<1>6. CASE UNCHANGED vars
  BY <1>6 DEF vars, TypeOK, CommandInRange
<1> QED
  BY <1>1, <1>2, <1>3, <1>4, <1>5, <1>6 DEF Next, Ended

(* Every variable keeps its type, and no loop of the command thread leaves its
   table, for tables of any size and any number of threads. *)
THEOREM TypeCorrect == Spec => []TypeOK
<1>1. Init => TypeOK
  BY TypeInit
<1>2. TypeOK /\ [Next]_vars => TypeOK'
  BY TypeNext
<1> QED
  BY <1>1, <1>2, PTL DEF Spec

-----------------------------------------------------------------------------
(***************************************************************************)
(* Who owns a row of the thread table: the proof that Ownership is an      *)
(* inductive invariant, and what follows from it.                          *)
(*                                                                         *)
(* Most steps are "quiet": they leave alone all that Ownership speaks of.  *)
(* The others are the steps of add, the creation of a thread, its cleanup  *)
(* and its last step.                                                      *)
(***************************************************************************)

(* The rows keep their ids, start times and log files, and their marks. *)
QuietRows ==
  \A r \in RowIds :
    /\ threadTable'[r].tid = threadTable[r].tid
    /\ threadTable'[r].startTime = threadTable[r].startTime
    /\ threadTable'[r].fTable = threadTable[r].fTable
    /\ threadTable[r].endStatus # "RUNNING" => threadTable'[r].endStatus # "RUNNING"

(* Threads keep their rows and do not cross the ends of their ownership. *)
QuietThreads ==
  /\ handle' = handle
  /\ \A t \in Tids : (Owns(t)' <=> Owns(t)) /\ (Live(t)' <=> Live(t))

(* A flag stop is set only by an owner with a mark in its row. *)
QuietStop ==
  \A t \in Tids :
    stop'[t] => \/ stop[t]
                \/ Owns(t) /\ threadTable'[handle[t]].endStatus # "RUNNING"

Quiet == QuietRows /\ QuietThreads /\ QuietStop /\ systemThreadState' = systemThreadState

(* The command thread does not add a thread before the step or after it. *)
CommandElsewhere ==
  /\ cmd.pc # "created"
  /\ cmd'.pc \notin {"fork", "waitExec", "init", "scan", "openLog", "create", "created"}

(* A step that leaves ids, start times, log files, rows of threads and the flag
   alone keeps the ownership invariant, wherever else the command thread goes. *)
LEMMA OwnershipQuiet ==
  ASSUME TypeOK, Ownership, Quiet, cmd' = cmd \/ CommandElsewhere
  PROVE  Ownership'
<1> USE DEF Ownership, Quiet
<1>0. \A t \in Tids : (Owns(t) => Live(t)) /\ (Live(t) => handle[t] \in RowIds)
  BY DEF LiveHaveRows, Owns, Live
<1>1. LiveHaveRows'
  BY <1>0 DEF QuietThreads, QuietStop, LiveHaveRows
<1>2. StopHasReason'
  BY <1>0 DEF QuietThreads, QuietRows, QuietStop, StopHasReason
<1>3. RowIsOwned'
  BY <1>0 DEF QuietThreads, QuietRows, RowIsOwned
<1>4. IdsAreOwners'
  <2>1. \A r \in RowIds : threadTable[r].tid \in Tids \cup {NoTid}
    BY DEF TypeOK, ThreadTableRow
  <2> QED
    BY <2>1 DEF QuietThreads, QuietRows, IdsAreOwners
<1>5. AddHasItsRow'
  <2>1. RowChosen \/ RowFilled => cmd.row \in RowIds
    BY Ranges DEF TypeOK, CommandInRange, RowChosen, RowFilled
  <2> QED
    BY <2>1 DEF QuietRows, AddHasItsRow, CommandElsewhere, RowChosen, RowFilled
<1>6. FlagIsRight'
  BY DEF QuietThreads, FlagIsRight, FlagNotSetYet, IsSystem, CommandElsewhere,
     RowFilled
<1> QED
  BY <1>1, <1>2, <1>3, <1>4, <1>5, <1>6

(* Marking a row changes nothing of the row but its endStatus. *)
LEMMA MarkIsQuiet ==
  ASSUME threadTable \in [RowIds -> ThreadTableRow], NEW r \in RowIds,
         NEW s \in {"STOPPED", "KILLED", "EXITED"},
         threadTable' = [threadTable EXCEPT ![r].endStatus = s]
  PROVE  QuietRows /\ threadTable'[r].endStatus = s
  BY DEF ThreadTableRow, QuietRows

(* A thread that goes on with its row in hand, or from the list to its post,
   keeps all there is to know of owners. *)
LEMMA QuietLabels ==
  ASSUME NEW t \in Tids, pc \in [Tids -> Labels],
         NEW l, pc' = [pc EXCEPT ![t] = l],
         \/ Owns(t) /\ l \in {"top", "open", "print", "check", "release", "wait"}
         \/ pc[t] = "list" /\ l = "post",
         handle' = handle
  PROVE  QuietThreads
  BY DEF QuietThreads, Owns, Live

(* An unchanged thread table is quiet. *)
LEMMA SameRows == threadTable' = threadTable => QuietRows
  BY DEF QuietRows
(* Unchanged flags stop are quiet. *)
LEMMA SameStop == stop' = stop => QuietStop
  BY DEF QuietStop

(* All steps of a monitor but its cleanup and its post are quiet: with stop set it
   never finds RUNNING, so it never leaves its loop with its row still taken
   (monitorThread.c:120-181). *)
LEMMA QuietMonitor ==
  ASSUME TypeOK, Ownership, NEW t \in Tids, MonitorNext(t),
         pc[t] \notin {"release", "post"}
  PROVE  Quiet /\ cmd' = cmd
<1>0. /\ handle[t] \in RowIds
      /\ threadTable \in [RowIds -> ThreadTableRow] /\ pc \in [Tids -> Labels]
      /\ stop \in [Tids -> BOOLEAN]
  BY Ranges DEF MonitorNext, IsMonitor, TypeOK
<1> USE <1>0, SameRows, SameStop, QuietLabels DEF Quiet
<1>1. CASE MonitorLockRow(t)
  <2>1. QuietThreads
    BY <1>1 DEF MonitorLockRow, Owns
  <2> QED
    BY <1>1, <2>1 DEF MonitorLockRow
<1>2. CASE MonitorOpen(t)
  <2>1. QuietThreads
    BY <1>2 DEF MonitorOpen, Owns
  <2>2. QuietStop
    BY <1>2 DEF MonitorOpen, QuietStop
  <2> QED
    BY <1>2, <2>1, <2>2 DEF MonitorOpen
<1>3. CASE MonitorProcessGone(t)
  <2>1. QuietThreads
    BY <1>3 DEF MonitorProcessGone, Owns
  <2>2. QuietRows /\ threadTable'[handle[t]].endStatus # "RUNNING"
    BY <1>3, MarkIsQuiet DEF MonitorProcessGone, MyRow
  <2>3. QuietStop
    BY <1>3, <2>2 DEF MonitorProcessGone, QuietStop, Owns
  <2> QED
    BY <1>3, <2>1, <2>2, <2>3 DEF MonitorProcessGone
<1>4. CASE MonitorPrint(t)
  <2>1. QuietThreads
    BY <1>4 DEF MonitorPrint, Owns
  <2> QED
    BY <1>4, <2>1 DEF MonitorPrint
<1>5. CASE MonitorPrintFails(t)
  BY <1>5 DEF MonitorPrintFails, QuietThreads, Owns, Live
<1>6. CASE MonitorContinue(t)
  <2>1. ~stop[t]
    BY <1>6 DEF MonitorContinue, MyRow, Ownership, StopHasReason, Owns
  <2>2. QuietThreads
    BY <1>6, <2>1 DEF MonitorContinue, Owns
  <2> QED
    BY <1>6, <2>2 DEF MonitorContinue
<1>7. CASE MonitorTerminate(t)
  <2>1. QuietThreads
    BY <1>7 DEF MonitorTerminate, Owns
  <2> QED
    BY <1>7, <2>1 DEF MonitorTerminate, CopyRow
<1>8. CASE MonitorRelease(t)
  BY <1>8 DEF MonitorRelease
<1>9. CASE MonitorWait(t)
  <2>1. QuietThreads
    BY <1>9 DEF MonitorWait, Owns
  <2> QED
    BY <1>9, <2>1 DEF MonitorWait
<1>10. CASE MonitorRecord(t)
  <2>1. QuietThreads
    BY <1>10 DEF MonitorRecord, Owns
  <2> QED
    BY <1>10, <2>1 DEF MonitorRecord
<1>11. CASE MonitorPost(t)
  BY <1>11 DEF MonitorPost
<1> QED
  BY <1>1, <1>2, <1>3, <1>4, <1>5, <1>6, <1>7, <1>8, <1>9, <1>10, <1>11
     DEF MonitorNext
(* Threads that do not move are quiet. *)
LEMMA SameThreads == pc' = pc /\ handle' = handle => QuietThreads
  BY DEF QuietThreads, Owns, Live

(* So is what the operating system refuses. *)
LEMMA RefusedIsQuiet ==
  ASSUME AddRefused \/ WebmonRefused
  PROVE  Quiet /\ cmd' = cmd
BY RefusedStep, SameRows, SameStop, SameThreads DEF Quiet

(* All steps of the system thread but its cleanup and its post are quiet. *)
LEMMA QuietSystem ==
  ASSUME TypeOK, NEW t \in Tids, SystemNext(t), pc[t] \notin {"release", "post"}
  PROVE  Quiet /\ cmd' = cmd
<1>0. pc \in [Tids -> Labels]
  BY DEF TypeOK
<1> USE <1>0, SameRows, SameStop, QuietLabels DEF Quiet
<1>1. CASE SystemLockRow(t)
  <2>1. QuietThreads
    BY <1>1 DEF SystemLockRow, Owns
  <2> QED
    BY <1>1, <2>1 DEF SystemLockRow
<1>2. CASE SystemPrint(t)
  <2>1. QuietThreads
    BY <1>2 DEF SystemPrint, Owns
  <2> QED
    BY <1>2, <2>1 DEF SystemPrint
<1>3. CASE SystemContinue(t)
  <2>1. QuietThreads
    BY <1>3 DEF SystemContinue, Owns
  <2> QED
    BY <1>3, <2>1 DEF SystemContinue
<1>4. CASE SystemTerminate(t)
  <2>1. QuietThreads
    BY <1>4 DEF SystemTerminate, Owns
  <2> QED
    BY <1>4, <2>1 DEF SystemTerminate, CopyRow
<1>5. CASE SystemRelease(t)
  BY <1>5 DEF SystemRelease
<1>6. CASE SystemRecord(t)
  <2>1. QuietThreads
    BY <1>6 DEF SystemRecord, Owns
  <2> QED
    BY <1>6, <2>1 DEF SystemRecord
<1>7. CASE SystemPost(t)
  BY <1>7 DEF SystemPost
<1> QED
  BY <1>1, <1>2, <1>3, <1>4, <1>5, <1>6, <1>7 DEF SystemNext

(* Webmon and the processes are quiet. *)
LEMMA QuietEnvironment ==
  ASSUME WebmonNext \/ \E p \in Pids : ProcessDies(p) \/ ProcessReaped(p)
  PROVE  Quiet /\ cmd' = cmd
<1>1. /\ UNCHANGED <<tables, globals, threads, cmd>>
  BY DEF WebmonNext, WebmonRefresh, WebmonShowRow, WebmonLockList,
         WebmonUnlockList, WebmonShowFiles, ProcessDies, ProcessReaped,
     WebmonRefused
<1> QED
  BY <1>1, SameRows, SameStop, SameThreads DEF Quiet

(* What the user types is quiet, but for "add -s". *)
LEMMA QuietTyped ==
  ASSUME TypeOK,
         \/ \E p \in Pids, f \in LogFiles : AddProcess(p, f)
         \/ \E f \in LogFiles : AddExec(f)
         \/ RemoveSystem
         \/ \E t \in Tids : RemoveThread(t)
         \/ \E p \in Pids : KillProcess(p)
         \/ ExitMond
         \/ StartWebmon
         \/ ListActive
         \/ ListCompleted
  PROVE  Quiet /\ (cmd' = cmd \/ CommandElsewhere)
<1>0. cmd \in CommandLocals /\ CommandInRange
      /\ threadTable \in [RowIds -> ThreadTableRow]
  BY DEF TypeOK
<1> USE <1>0, SameRows, SameStop, SameThreads, MarkIsQuiet DEF Quiet
<1>1. CASE \E p \in Pids, f \in LogFiles : AddProcess(p, f)
  <2>1. cmd' = cmd \/ CommandElsewhere
    <3>1. PICK p \in Pids, f \in LogFiles : AddProcess(p, f)
      BY <1>1
    <3>2. cmd.pc = "prompt" /\ cmd'.pc = "findRow"
      BY <3>1 DEF AddProcess, Prompt, Typed
    <3> QED
      BY <3>2 DEF CommandElsewhere
  <2> QED
    BY <1>1, <2>1 DEF AddProcess
<1>2. CASE \E f \in LogFiles : AddExec(f)
  <2>1. cmd' = cmd \/ CommandElsewhere
    <3>1. PICK f \in LogFiles : AddExec(f)
      BY <1>2
    <3>2. cmd.pc = "prompt" /\ cmd'.pc = "findRow"
      BY <3>1 DEF AddExec, CommandLocals, Prompt, Goto, Typed
    <3> QED
      BY <3>2 DEF CommandElsewhere
  <2> QED
    BY <1>2, <2>1 DEF AddExec
<1>3. CASE RemoveSystem
  <2>1. cmd' = cmd \/ CommandElsewhere
    <3>1. cmd.pc = "prompt" /\ cmd'.pc = "readSystemTid"
      BY <1>3 DEF RemoveSystem, CommandLocals, Prompt, Goto, Typed
    <3> QED
      BY <3>1 DEF CommandElsewhere
  <2> QED
    BY <1>3, <2>1 DEF RemoveSystem
<1>4. CASE \E t \in Tids : RemoveThread(t)
  <2>1. cmd' = cmd \/ CommandElsewhere
    <3>1. PICK t \in Tids : RemoveThread(t)
      BY <1>4
    <3>2. cmd.pc = "prompt" /\ cmd'.pc = "stopSystemTid"
      BY <3>1 DEF RemoveThread, CommandLocals, Prompt, Goto, Typed
    <3> QED
      BY <3>2 DEF CommandElsewhere
  <2> QED
    BY <1>4, <2>1 DEF RemoveThread
<1>5. CASE \E p \in Pids : KillProcess(p)
  <2>1. cmd' = cmd \/ CommandElsewhere
    <3>1. PICK p \in Pids : KillProcess(p)
      BY <1>5
    <3>2. cmd.pc = "prompt" /\ cmd'.pc = "findPid"
      BY <3>1 DEF KillProcess, CommandLocals, Prompt, Goto, Typed
    <3> QED
      BY <3>2 DEF CommandElsewhere
  <2> QED
    BY <1>5, <2>1 DEF KillProcess
<1>6. CASE ExitMond
  <2>1. cmd' = cmd \/ CommandElsewhere
    BY <1>6 DEF ExitMond, CommandElsewhere, CommandLocals, Prompt, Goto, Typed
  <2> QED
    BY <1>6, <2>1 DEF ExitMond
<1>7. CASE StartWebmon
  <2>1. cmd' = cmd \/ CommandElsewhere
    BY <1>7 DEF StartWebmon, CommandElsewhere, CommandLocals, Prompt, Goto, Typed
  <2> QED
    BY <1>7, <2>1 DEF StartWebmon
<1>8. CASE ListActive \/ ListCompleted
  <2>1. cmd' = cmd \/ CommandElsewhere
    BY <1>8 DEF ListActive, ListCompleted, CommandElsewhere, CommandLocals, Goto,
       Typed
  <2> QED
    BY <1>8, <2>1 DEF ListActive, ListCompleted
<1> QED
  BY <1>1, <1>2, <1>3, <1>4, <1>5, <1>6, <1>7, <1>8

(* remove, kill, exit and the search for a row are quiet. *)
LEMMA QuietCommand ==
  ASSUME TypeOK,
         \/ FindRowTaken
         \/ ReadSystemTid
         \/ StopSystemTid
         \/ StopTid
         \/ FindPid
         \/ SignalSent
         \/ SignalDenied
         \/ SignalNoProcess
         \/ MarkKilled
         \/ ExitStopSystem
         \/ ExitStopRow
         \/ ExitSystemEnded
         \/ ExitMonitorsEnded
         \/ ClearList
         \/ DestroyList
         \/ DestroyTables
         \/ MainReturns
         \/ ListRow
         \/ ListLock
         \/ ListUnlock
  PROVE  Quiet /\ (cmd' = cmd \/ CommandElsewhere)
<1>0. cmd \in CommandLocals /\ CommandInRange
      /\ threadTable \in [RowIds -> ThreadTableRow]
  BY DEF TypeOK
<1> USE <1>0, SameRows, SameStop, SameThreads, MarkIsQuiet DEF Quiet
<1>1. CASE FindRowTaken
  <2>1. cmd' = cmd \/ CommandElsewhere
    BY <1>1 DEF FindRowTaken, CommandElsewhere, CommandLocals, Prompt, Goto, Typed
  <2> QED
    BY <1>1, <2>1 DEF FindRowTaken
<1>2. CASE ReadSystemTid
  <2>1. cmd' = cmd \/ CommandElsewhere
    BY <1>2 DEF ReadSystemTid, CommandElsewhere, CommandLocals, Prompt, Goto,
       Typed
  <2> QED
    BY <1>2, <2>1 DEF ReadSystemTid
<1>3. CASE StopSystemTid
  <2>1. cmd' = cmd \/ CommandElsewhere
    <3>1. cmd' = Prompt \/ cmd' = [cmd EXCEPT !.pc = "stopTid", !.i = 1]
      BY <1>3 DEF StopSystemTid
    <3>2. cmd.pc = "stopSystemTid"
      BY <1>3 DEF StopSystemTid
    <3>3. Prompt.pc = "prompt" /\ [cmd EXCEPT !.pc = "stopTid", !.i = 1].pc = "stopTid"
      BY DEF Prompt, CommandLocals
    <3>4. cmd'.pc \in {"prompt", "stopTid"}
      BY <3>1, <3>3
    <3> QED
      BY <3>2, <3>4 DEF CommandElsewhere
  <2>2. QuietRows
    BY <1>3, Ranges DEF StopSystemTid, StopRow, CommandInRange
  <2> QED
    BY <1>3, <2>1, <2>2 DEF StopSystemTid
<1>4. CASE StopTid
  <2>1. cmd' = cmd \/ CommandElsewhere
    BY <1>4 DEF StopTid, CommandElsewhere, CommandLocals, Prompt, Goto, Typed
  <2>2. QuietRows
    BY <1>4, Ranges DEF StopTid, StopRow, CommandInRange
  <2> QED
    BY <1>4, <2>1, <2>2 DEF StopTid
<1>5. CASE FindPid
  <2>1. cmd' = cmd \/ CommandElsewhere
    BY <1>5 DEF FindPid, CommandElsewhere, CommandLocals, Prompt, Goto, Typed
  <2> QED
    BY <1>5, <2>1 DEF FindPid
<1>6. CASE SignalSent
  <2>1. cmd' = cmd \/ CommandElsewhere
    BY <1>6 DEF SignalSent, CommandElsewhere, CommandLocals, Prompt, Goto, Typed
  <2> QED
    BY <1>6, <2>1 DEF SignalSent
<1>7. CASE SignalDenied
  <2>1. cmd' = cmd \/ CommandElsewhere
    BY <1>7 DEF SignalDenied, CommandElsewhere, CommandLocals, Prompt, Goto, Typed
  <2> QED
    BY <1>7, <2>1 DEF SignalDenied
<1>8. CASE SignalNoProcess
  <2>1. cmd' = cmd \/ CommandElsewhere
    BY <1>8 DEF SignalNoProcess, CommandElsewhere, CommandLocals, Prompt, Goto,
       Typed
  <2> QED
    BY <1>8, <2>1 DEF SignalNoProcess
<1>9. CASE MarkKilled
  <2>1. cmd' = cmd \/ CommandElsewhere
    BY <1>9 DEF MarkKilled, CommandElsewhere, CommandLocals, Prompt, Goto, Typed
  <2>2. QuietRows
    BY <1>9, Ranges DEF MarkKilled, StopRow, CommandInRange
  <2> QED
    BY <1>9, <2>1, <2>2 DEF MarkKilled
<1>10. CASE ExitStopSystem
  <2>1. cmd' = cmd \/ CommandElsewhere
    BY <1>10 DEF ExitStopSystem, CommandElsewhere, CommandLocals, Prompt, Goto,
       Typed
  <2>2. QuietRows
    BY <1>10, Ranges DEF ExitStopSystem, StopRow, CommandInRange
  <2> QED
    BY <1>10, <2>1, <2>2 DEF ExitStopSystem
<1>11. CASE ExitStopRow
  <2>1. cmd' = cmd \/ CommandElsewhere
    BY <1>11 DEF ExitStopRow, CommandElsewhere, CommandLocals, Prompt, Goto, Typed
  <2>2. QuietRows
    BY <1>11, Ranges DEF ExitStopRow, StopRow, CommandInRange
  <2> QED
    BY <1>11, <2>1, <2>2 DEF ExitStopRow
<1>12. CASE ExitSystemEnded
  <2>1. cmd' = cmd \/ CommandElsewhere
    BY <1>12 DEF ExitSystemEnded, CommandElsewhere, CommandLocals, Prompt,
       Goto, Typed
  <2> QED
    BY <1>12, <2>1 DEF ExitSystemEnded
<1>13. CASE ExitMonitorsEnded
  <2>1. cmd' = cmd \/ CommandElsewhere
    BY <1>13 DEF ExitMonitorsEnded, CommandElsewhere, CommandLocals, Prompt,
       Goto, Typed
  <2> QED
    BY <1>13, <2>1 DEF ExitMonitorsEnded
<1>14. CASE ClearList
  <2>1. cmd' = cmd \/ CommandElsewhere
    BY <1>14 DEF ClearList, CommandElsewhere, CommandLocals, Prompt, Goto, Typed
  <2> QED
    BY <1>14, <2>1 DEF ClearList
<1>15. CASE DestroyList
  <2>1. cmd' = cmd \/ CommandElsewhere
    BY <1>15 DEF DestroyList, CommandElsewhere, CommandLocals, Prompt, Goto, Typed
  <2> QED
    BY <1>15, <2>1 DEF DestroyList
<1>16. CASE DestroyTables
  <2>1. cmd' = cmd \/ CommandElsewhere
    BY <1>16 DEF DestroyTables, CommandElsewhere, CommandLocals, Prompt, Goto,
       Typed
  <2> QED
    BY <1>16, <2>1 DEF DestroyTables
<1>17. CASE MainReturns
  <2>1. cmd' = cmd \/ CommandElsewhere
    BY <1>17 DEF MainReturns, CommandElsewhere, CommandLocals, Prompt, Goto, Typed
  <2> QED
    BY <1>17, <2>1 DEF MainReturns
<1>18. CASE ListRow \/ ListLock \/ ListUnlock
  <2>1. cmd' = cmd \/ CommandElsewhere
    BY <1>18 DEF ListRow, ListLock, ListUnlock, CommandElsewhere, CommandLocals,
       Prompt, Goto
  <2> QED
    BY <1>18, <2>1 DEF ListRow, ListLock, ListUnlock
<1> QED
  BY <1>1, <1>2, <1>3, <1>4, <1>5, <1>6, <1>7, <1>8, <1>9, <1>10, <1>11, <1>12,
     <1>13, <1>14, <1>15, <1>16, <1>17, <1>18

(* A step of add before the creation: it touches no owned row, and it gives the
   row it works on what AddHasItsRow asks for. *)
AddGoesOn ==
  /\ UNCHANGED <<pc, handle, stop, systemThreadState>>
  /\ \A r \in RowIds :
       /\ threadTable'[r].tid = threadTable[r].tid
       /\ threadTable'[r].endStatus = threadTable[r].endStatus
       /\ threadTable[r].startTime => threadTable'[r].startTime
       /\ threadTable[r].tid # NoTid => threadTable'[r].fTable = threadTable[r].fTable
  /\ cmd.pc # "created" /\ cmd'.pc # "created"
  /\ (RowChosen \/ RowFilled)' =>
       cmd'.row \in RowIds /\ threadTable[cmd'.row].tid = NoTid
  /\ RowFilled' => threadTable'[cmd'.row].startTime
  /\ cmd'.pc = "create" => threadTable'[cmd'.row].fTable # NoEntry
  /\ RowFilled' /\ cmd'.row = SystemRow => systemThreadState = "NOT_RUNNING"

(* The steps of add before the thread's creation keep the ownership invariant. *)
LEMMA OwnershipAdd ==
  ASSUME TypeOK, Ownership, AddGoesOn
  PROVE  Ownership'
<1> USE DEF Ownership
<1>0. \A t \in Tids : /\ (Owns(t) => Live(t)) /\ (Live(t) => handle[t] \in RowIds)
                      /\ (Owns(t)' <=> Owns(t)) /\ (Live(t)' <=> Live(t))
  BY DEF LiveHaveRows, Owns, Live, AddGoesOn
<1>1. LiveHaveRows'
  BY <1>0 DEF AddGoesOn, LiveHaveRows
<1>2. StopHasReason'
  BY <1>0 DEF AddGoesOn, StopHasReason
<1>3. RowIsOwned'
  <2> SUFFICES ASSUME NEW t \in Tids, Owns(t)'
               PROVE  /\ threadTable'[handle'[t]].tid = t
                      /\ threadTable'[handle'[t]].startTime
                      /\ threadTable'[handle'[t]].fTable # NoEntry
    BY DEF RowIsOwned
  <2>1. /\ threadTable[handle[t]].tid = t
        /\ threadTable[handle[t]].startTime
        /\ threadTable[handle[t]].fTable # NoEntry
        /\ handle[t] \in RowIds /\ handle' = handle /\ t # NoTid
    BY <1>0 DEF RowIsOwned, AddGoesOn, Tids, NoTid
  <2> QED
    BY <2>1 DEF AddGoesOn
<1>4. IdsAreOwners'
  <2>1. \A r \in RowIds : threadTable[r].tid \in Tids \cup {NoTid}
    BY DEF TypeOK, ThreadTableRow
  <2> QED
    BY <1>0, <2>1 DEF AddGoesOn, IdsAreOwners
<1>5. AddHasItsRow'
  BY DEF AddGoesOn, AddHasItsRow
<1>6. FlagIsRight'
  BY <1>0 DEF AddGoesOn, FlagIsRight, FlagNotSetYet, IsSystem
<1> QED
  BY <1>1, <1>2, <1>3, <1>4, <1>5, <1>6

(* Each of these steps only works on the row it has chosen, which is no thread's
   (commands.c:52-118, 627-690). *)
LEMMA OwnershipAddStep ==
  ASSUME TypeOK, Ownership,
         \/ \E f \in LogFiles : AddSystem(f)
         \/ FindRowFree
         \/ \E p \in Children : Fork(p)
         \/ WaitExec \/ InitRow \/ ScanMiss \/ ScanHit \/ OpenLog
  PROVE  AddGoesOn
<1>0. /\ cmd \in CommandLocals /\ CommandInRange
      /\ threadTable \in [RowIds -> ThreadTableRow]
      /\ AddHasItsRow /\ FlagIsRight
      /\ SystemRow \in RowIds /\ Rows \subseteq RowIds
      /\ \A r \in Rows : r # SystemRow
  BY Ranges DEF TypeOK, Ownership, SystemRow, Rows
<1> USE <1>0
<1>1. CASE \E f \in LogFiles : AddSystem(f)
  <2>1. PICK f \in LogFiles : AddSystem(f)
    BY <1>1
  <2>2. /\ cmd'.pc = "scan" /\ cmd'.row = SystemRow /\ cmd.pc = "prompt"
        /\ systemThreadState = "NOT_RUNNING"
        /\ UNCHANGED <<pc, handle, stop, systemThreadState>>
    BY <2>1 DEF AddSystem, Prompt, Typed
  <2>3. threadTable[SystemRow].tid = NoTid
    <3>1. \A t \in Tids : Owns(t) => handle[t] # SystemRow
      BY <2>2 DEF FlagIsRight, FlagNotSetYet, IsSystem, Owns, Live
    <3>2. threadTable[SystemRow].tid \in Tids \cup {NoTid}
      BY DEF ThreadTableRow
    <3> QED
      BY <3>1, <3>2 DEF Ownership, IdsAreOwners
  <2>4. /\ threadTable'[SystemRow].startTime
        /\ \A r \in RowIds :
             /\ threadTable'[r].tid = threadTable[r].tid
             /\ threadTable'[r].endStatus = threadTable[r].endStatus
             /\ threadTable[r].startTime => threadTable'[r].startTime
             /\ threadTable'[r].fTable = threadTable[r].fTable
    BY <2>1 DEF AddSystem, ThreadTableRow
  <2> QED
    BY <2>2, <2>3, <2>4 DEF AddGoesOn, RowChosen, RowFilled
<1>2. CASE FindRowFree
  <2>1. /\ cmd.pc = "findRow" /\ cmd'.pc \in {"fork", "init"} /\ cmd'.row = cmd.i
        /\ cmd.i \in RowIds /\ ~threadTable[cmd.i].startTime
        /\ UNCHANGED <<pc, handle, stop, systemThreadState, threadTable>>
    BY <1>2 DEF FindRowFree, CommandLocals, CommandInRange
  <2> QED
    BY <2>1 DEF AddGoesOn, RowChosen, RowFilled, Ownership, IdsAreOwners
<1>3. CASE \E p \in Children : Fork(p)
  <2>1. /\ cmd.pc = "fork" /\ cmd'.pc = "waitExec" /\ cmd'.row = cmd.row
        /\ cmd.row \in RowIds
        /\ UNCHANGED <<pc, handle, stop, systemThreadState, threadTable>>
    BY <1>3 DEF Fork, CommandLocals, CommandInRange
  <2> QED
    BY <2>1 DEF AddGoesOn, RowChosen, RowFilled, AddHasItsRow
<1>4. CASE WaitExec
  <2>1. /\ cmd.pc = "waitExec" /\ cmd.row \in RowIds
        /\ cmd'.pc = "prompt" \/ (cmd'.pc = "init" /\ cmd'.row = cmd.row)
        /\ UNCHANGED <<pc, handle, stop, systemThreadState, threadTable>>
    BY <1>4 DEF WaitExec, CommandLocals, CommandInRange, Prompt
  <2> QED
    BY <2>1 DEF AddGoesOn, RowChosen, RowFilled, AddHasItsRow
<1>5. CASE InitRow
  <2>1. /\ cmd.pc = "init" /\ cmd'.pc = "scan" /\ cmd'.row = cmd.row
        /\ cmd.row \in RowIds /\ cmd.row # SystemRow
        /\ UNCHANGED <<pc, handle, stop, systemThreadState>>
    BY <1>5 DEF InitRow, CommandLocals, CommandInRange
  <2>2. /\ threadTable'[cmd.row].startTime
        /\ \A r \in RowIds :
             /\ threadTable'[r].tid = threadTable[r].tid
             /\ threadTable'[r].endStatus = threadTable[r].endStatus
             /\ threadTable[r].startTime => threadTable'[r].startTime
             /\ threadTable'[r].fTable = threadTable[r].fTable
    BY <1>5, <2>1 DEF InitRow, ThreadTableRow
  <2> QED
    BY <2>1, <2>2 DEF AddGoesOn, RowChosen, RowFilled, AddHasItsRow
<1>6. CASE ScanMiss
  <2>1. /\ cmd.pc = "scan" /\ cmd'.pc \in {"scan", "openLog"} /\ cmd'.row = cmd.row
        /\ cmd.row \in RowIds
        /\ UNCHANGED <<pc, handle, stop, systemThreadState, threadTable>>
    BY <1>6 DEF ScanMiss, CommandLocals, CommandInRange
  <2> QED
    BY <2>1 DEF AddGoesOn, RowChosen, RowFilled, AddHasItsRow, FlagIsRight
<1>7. ASSUME NEW e \in Entries, UseEntry(e), RowFilled, cmd.row \in RowIds,
             UNCHANGED <<pc, handle, stop, systemThreadState>>
      PROVE  AddGoesOn
  <2>1. cmd'.pc = "create" /\ cmd'.row = cmd.row
    BY <1>7 DEF UseEntry, CommandLocals
  <2>2. threadTable' = [threadTable EXCEPT ![cmd.row].fTable = e,
                                           ![cmd.row].fileName = cmd.file]
    BY <1>7 DEF UseEntry
  <2>3. /\ threadTable'[cmd.row].fTable = e
        /\ \A r \in RowIds :
             /\ threadTable'[r].tid = threadTable[r].tid
             /\ threadTable'[r].endStatus = threadTable[r].endStatus
             /\ threadTable'[r].startTime = threadTable[r].startTime
             /\ r # cmd.row => threadTable'[r].fTable = threadTable[r].fTable
    BY <1>7, <2>2 DEF ThreadTableRow
  <2>4. e # NoEntry
    BY DEF Entries, NoEntry
  <2> QED
    BY <1>7, <2>1, <2>3, <2>4 DEF AddGoesOn, RowChosen, RowFilled,
       AddHasItsRow, FlagIsRight
<1>8. CASE ScanHit
  <2>1. /\ cmd.i \in Entries /\ UseEntry(cmd.i) /\ cmd.row \in RowIds
        /\ UNCHANGED <<pc, handle, stop, systemThreadState>>
    BY <1>8 DEF ScanHit, CommandInRange
  <2>2. RowFilled
    BY <1>8 DEF ScanHit, RowFilled
  <2> QED
    BY <1>7, <2>1, <2>2
<1>9. CASE OpenLog
  <2>1. /\ cmd.row \in RowIds /\ RowFilled /\ cmd.pc = "openLog"
        /\ UNCHANGED <<pc, handle, stop, systemThreadState>>
    BY <1>9 DEF OpenLog, CommandInRange, RowFilled
  <2>2. CASE cmd.entry = NoEntry
    <3>1. UNCHANGED <<threadTable, cmd>>
      BY <1>9, <2>2 DEF OpenLog
    <3> QED
      BY <2>1, <3>1 DEF AddGoesOn, RowChosen, RowFilled, AddHasItsRow, FlagIsRight
  <2>3. CASE cmd.entry # NoEntry
    <3>1. cmd.entry \in Entries /\ UseEntry(cmd.entry)
      BY <1>9, <2>3 DEF OpenLog, CommandLocals
    <3> QED
      BY <1>7, <2>1, <3>1
  <2> QED
    BY <2>2, <2>3
<1> QED
  BY <1>1, <1>2, <1>3, <1>4, <1>5, <1>6, <1>8, <1>9

(* pthread_create hands the chosen row to the new thread (commands.c:123). *)
LEMMA OwnershipCreate ==
  ASSUME TypeOK, Ownership, NEW t \in Tids, CreateThread(t)
  PROVE  Ownership'
<1> DEFINE r == cmd.row
<1>0. /\ cmd \in CommandLocals /\ r \in RowIds /\ pc \in [Tids -> Labels]
      /\ threadTable \in [RowIds -> ThreadTableRow]
      /\ handle \in [Tids -> RowIds \cup {NoRow}]
  BY DEF TypeOK, CommandInRange, CreateThread
<1>1. /\ cmd.pc = "create" /\ cmd'.pc = "created" /\ cmd'.row = r
      /\ pc[t] = "none" /\ pc' = [pc EXCEPT ![t] = "top"]
      /\ handle' = [handle EXCEPT ![t] = r]
      /\ stop' = stop /\ systemThreadState' = systemThreadState
  BY <1>0 DEF CreateThread, FreeTids, Goto, CommandLocals
<1>2. /\ threadTable'[r].tid = t
      /\ \A q \in RowIds :
           /\ q # r => threadTable'[q].tid = threadTable[q].tid
           /\ threadTable'[q].endStatus = threadTable[q].endStatus
           /\ threadTable'[q].startTime = threadTable[q].startTime
           /\ threadTable'[q].fTable = threadTable[q].fTable
  BY <1>0 DEF CreateThread, ThreadTableRow
<1>3. /\ threadTable[r].tid = NoTid
      /\ threadTable[r].startTime
      /\ threadTable[r].fTable # NoEntry
      /\ r = SystemRow => systemThreadState = "NOT_RUNNING"
  BY <1>1 DEF Ownership, AddHasItsRow, FlagIsRight, RowFilled
<1>4. /\ ~Live(t) /\ Owns(t)' /\ Live(t)' /\ ~stop[t]
      /\ \A u \in Tids : u # t => /\ (Owns(u)' <=> Owns(u)) /\ (Live(u)' <=> Live(u))
                                 /\ handle'[u] = handle[u]
      /\ handle'[t] = r
      /\ \A u \in Tids : (Owns(u) => Live(u)) /\ (Live(u) => handle[u] \in RowIds)
  BY <1>0, <1>1 DEF Owns, Live, Ownership, LiveHaveRows
<1>5. \A u \in Tids : Owns(u) => /\ handle[u] \in RowIds /\ handle[u] # r /\ u # t
                                 /\ threadTable[handle[u]].tid = u
  BY <1>3, <1>4 DEF Ownership, RowIsOwned, Tids, NoTid
<1> HIDE DEF r
<1> USE DEF Ownership
<1>6. LiveHaveRows'
  BY <1>0, <1>1, <1>4 DEF LiveHaveRows
<1>7. StopHasReason'
  BY <1>1, <1>2, <1>4, <1>5 DEF StopHasReason
<1>8. RowIsOwned'
  BY <1>0, <1>2, <1>3, <1>4, <1>5 DEF RowIsOwned
<1>9. IdsAreOwners'
  <2>1. \A q \in RowIds : threadTable[q].tid \in Tids \cup {NoTid}
    BY DEF TypeOK, ThreadTableRow
  <2> QED
    BY <1>2, <1>3, <1>4, <1>5, <2>1 DEF IdsAreOwners
<1>10. AddHasItsRow'
  BY <1>1 DEF AddHasItsRow, RowChosen, RowFilled
<1>11. FlagIsRight'
  <2>1. r = SystemRow => \A u \in Tids : Live(u) => ~IsSystem(u)
    BY <1>1, <1>3 DEF FlagIsRight, FlagNotSetYet
  <2>2. \A u \in Tids : u # t => (IsSystem(u)' <=> IsSystem(u))
    BY <1>4 DEF IsSystem
  <2>3. IsSystem(t)' <=> r = SystemRow
    BY <1>4 DEF IsSystem
  <2> QED
    BY <1>1, <1>4, <2>1, <2>2, <2>3 DEF FlagIsRight, FlagNotSetYet, RowFilled, r
<1> QED
  BY <1>6, <1>7, <1>8, <1>9, <1>10, <1>11

(* Setting the flag or taking the slot keeps the ownership invariant. *)
LEMMA OwnershipCreated ==
  ASSUME TypeOK, Ownership, SystemCreated \/ MonitorCreated
  PROVE  Ownership'
<1>1. /\ UNCHANGED <<pc, handle, stop, threadTable>>
      /\ cmd.pc = "created" /\ cmd'.pc = "prompt"
      /\ cmd.row = SystemRow => systemThreadState' = "RUNNING"
      /\ cmd.row # SystemRow => systemThreadState' = systemThreadState
  BY DEF SystemCreated, MonitorCreated, Prompt
<1> USE DEF Ownership
<1>2. /\ LiveHaveRows' /\ StopHasReason' /\ RowIsOwned' /\ IdsAreOwners'
  BY <1>1 DEF LiveHaveRows, StopHasReason, RowIsOwned, IdsAreOwners, Owns, Live
<1>3. AddHasItsRow'
  BY <1>1 DEF AddHasItsRow, RowChosen, RowFilled
<1>4. FlagIsRight'
  BY <1>1 DEF FlagIsRight, RowFilled, FlagNotSetYet, Live, IsSystem
<1> QED
  BY <1>2, <1>3, <1>4

(* The cleanup gives the row back (monitorThread.c:218-249). *)
LEMMA OwnershipRelease ==
  ASSUME TypeOK, Ownership, NEW t \in Tids,
         MonitorRelease(t) \/ SystemRelease(t)
  PROVE  Ownership'
<1> DEFINE r == handle[t]
<1>0. /\ pc \in [Tids -> Labels] /\ stop \in [Tids -> BOOLEAN]
      /\ threadTable \in [RowIds -> ThreadTableRow]
  BY DEF TypeOK
<1>1. /\ pc[t] = "release" /\ pc' = [pc EXCEPT ![t] = "list"]
      /\ stop' = [stop EXCEPT ![t] = TRUE]
      /\ UNCHANGED <<handle, systemThreadState, cmd>>
      /\ threadTable' = [threadTable EXCEPT ![r] = Cleared(threadTable[r])]
  BY DEF MonitorRelease, SystemRelease, ReleaseRow
<1>2. r \in RowIds /\ threadTable[r].tid = t
  BY <1>1 DEF Ownership, LiveHaveRows, RowIsOwned, Live, Owns
<1>3. /\ threadTable'[r].tid = NoTid
      /\ \A q \in RowIds : q # r => threadTable'[q] = threadTable[q]
  BY <1>0, <1>1, <1>2 DEF Cleared, ThreadTableRow
<1>4. /\ Owns(t) /\ ~Owns(t)'
      /\ \A u \in Tids : u # t => (Owns(u)' <=> Owns(u)) /\ stop'[u] = stop[u]
      /\ \A u \in Tids : Live(u)' <=> Live(u)
      /\ \A u \in Tids : (Owns(u) => Live(u)) /\ (Live(u) => handle[u] \in RowIds)
  BY <1>0, <1>1 DEF Owns, Live, Ownership, LiveHaveRows
<1>5. \A u \in Tids : Owns(u) /\ u # t => handle[u] \in RowIds /\ handle[u] # r
  BY <1>2, <1>4 DEF Ownership, RowIsOwned
<1>6. t # NoTid
  BY DEF Tids, NoTid
<1> HIDE DEF r
<1> USE DEF Ownership
<1>7. LiveHaveRows'
  BY <1>1, <1>4 DEF LiveHaveRows
<1>8. StopHasReason'
  BY <1>1, <1>3, <1>4, <1>5 DEF StopHasReason
<1>9. RowIsOwned'
  BY <1>1, <1>3, <1>4, <1>5 DEF RowIsOwned
<1>10. IdsAreOwners'
  <2>1. \A q \in RowIds : threadTable[q].tid \in Tids \cup {NoTid}
    BY DEF TypeOK, ThreadTableRow
  <2> QED
    BY <1>1, <1>3, <1>4, <2>1 DEF IdsAreOwners, r
<1>11. AddHasItsRow'
  <2>1. RowChosen \/ RowFilled => cmd.row \in RowIds /\ cmd.row # r
    BY <1>2, <1>6, Ranges DEF AddHasItsRow, TypeOK, CommandInRange, RowChosen,
       RowFilled
  <2> QED
    BY <1>1, <1>3, <2>1 DEF AddHasItsRow, RowChosen, RowFilled
<1>12. FlagIsRight'
  BY <1>1, <1>4 DEF FlagIsRight, FlagNotSetYet, IsSystem, RowFilled
<1> QED
  BY <1>7, <1>8, <1>9, <1>10, <1>11, <1>12

(* The last step of a thread keeps the ownership invariant: the system thread
   that clears the flag is the only one. *)
LEMMA OwnershipPost ==
  ASSUME TypeOK, Ownership, NEW t \in Tids,
         \/ MonitorPost(t)
         \/ SystemPost(t) /\ IsSystem(t)
  PROVE  Ownership'
<1>0. /\ pc \in [Tids -> Labels] /\ stop \in [Tids -> BOOLEAN]
      /\ handle \in [Tids -> RowIds \cup {NoRow}]
  BY DEF TypeOK
<1>1. /\ pc[t] = "post" /\ pc' = [pc EXCEPT ![t] = "done"]
      /\ handle' = [handle EXCEPT ![t] = NoRow]
      /\ stop' = [stop EXCEPT ![t] = FALSE]
      /\ UNCHANGED <<threadTable, cmd>>
      /\ systemThreadState' # systemThreadState => IsSystem(t)
  BY DEF MonitorPost, SystemPost, EndThread
<1>2. /\ ~Owns(t) /\ ~Owns(t)' /\ Live(t) /\ ~Live(t)'
      /\ handle'[t] = NoRow /\ ~stop'[t]
      /\ \A u \in Tids : u # t => /\ (Owns(u)' <=> Owns(u)) /\ (Live(u)' <=> Live(u))
                                 /\ handle'[u] = handle[u] /\ stop'[u] = stop[u]
  BY <1>0, <1>1 DEF Owns, Live
<1> USE DEF Ownership
<1>3. LiveHaveRows'
  BY <1>2 DEF LiveHaveRows
<1>4. StopHasReason' /\ RowIsOwned'
  BY <1>1, <1>2 DEF StopHasReason, RowIsOwned
<1>5. IdsAreOwners'
  <2>1. \A q \in RowIds : threadTable[q].tid \in Tids \cup {NoTid}
    BY DEF TypeOK, ThreadTableRow
  <2> QED
    BY <1>1, <1>2, <2>1 DEF IdsAreOwners
<1>6. AddHasItsRow'
  BY <1>1 DEF AddHasItsRow, RowChosen, RowFilled
<1>7. FlagIsRight'
  <2>1. \A u \in Tids : u # t => (IsSystem(u)' <=> IsSystem(u))
    BY <1>2 DEF IsSystem
  <2>2. IsSystem(t) => \A u \in Tids : Live(u)' => ~IsSystem(u)'
    BY <1>2, <2>1 DEF FlagIsRight
  <2>3. RowFilled' /\ cmd'.row = SystemRow => systemThreadState' = "NOT_RUNNING"
    BY <1>1 DEF FlagIsRight, RowFilled, MonitorPost, SystemPost
  <2> QED
    BY <1>1, <1>2, <2>1, <2>2, <2>3 DEF FlagIsRight, FlagNotSetYet
<1> QED
  BY <1>3, <1>4, <1>5, <1>6, <1>7

(* Every step of the program keeps the ownership invariant. *)
LEMMA OwnershipNext ==
  ASSUME TypeOK, Ownership, [Next]_vars
  PROVE  Ownership'
<1>1. CASE UserStep
  BY <1>1, QuietTyped, OwnershipQuiet, OwnershipAddStep, OwnershipAdd
     DEF UserStep, CommandTyped
<1>2. CASE CommandGoesOn
  BY <1>2, QuietCommand, OwnershipQuiet, OwnershipAddStep, OwnershipAdd,
     OwnershipCreate, OwnershipCreated, RefusedIsQuiet DEF CommandGoesOn, CommandStep
<1>3. CASE \E t \in Tids : ThreadStep(t)
  <2>1. PICK t \in Tids : MonitorNext(t) \/ SystemNext(t)
    BY <1>3 DEF ThreadStep
  <2>2. CASE pc[t] \notin {"release", "post"}
    BY <2>1, <2>2, QuietMonitor, QuietSystem, OwnershipQuiet
  <2>3. CASE pc[t] = "release"
    <3>1. MonitorRelease(t) \/ SystemRelease(t)
      BY <2>1, <2>3
         DEF MonitorNext, MonitorLockRow, MonitorOpen, MonitorProcessGone,
             MonitorPrint, MonitorPrintFails, MonitorContinue, MonitorTerminate,
             MonitorWait, MonitorRecord, MonitorPost,
             SystemNext, SystemLockRow, SystemPrint, SystemContinue,
             SystemTerminate, SystemRecord, SystemPost
    <3> QED
      BY <3>1, OwnershipRelease
  <2>4. CASE pc[t] = "post"
    <3>1. MonitorPost(t) \/ (SystemPost(t) /\ IsSystem(t))
      BY <2>1, <2>4
         DEF MonitorNext, MonitorLockRow, MonitorOpen, MonitorProcessGone,
             MonitorPrint, MonitorPrintFails, MonitorContinue, MonitorTerminate,
             MonitorWait, MonitorRecord, MonitorRelease,
             SystemNext, SystemLockRow, SystemPrint, SystemContinue,
             SystemTerminate, SystemRecord, SystemRelease
    <3> QED
      BY <3>1, OwnershipPost
  <2> QED
    BY <2>2, <2>3, <2>4
<1>4. CASE WebmonStep \/ ProcessStep
  BY <1>4, QuietEnvironment, OwnershipQuiet DEF WebmonStep, ProcessStep
<1>5. CASE UNCHANGED vars
  BY <1>5, SameRows, SameStop, SameThreads, OwnershipQuiet DEF vars, Quiet
<1> QED
  BY <1>1, <1>2, <1>3, <1>4, <1>5 DEF Next, Ended

(* At the start no thread and no row is owned. *)
LEMMA OwnershipInit == Init => Ownership
<1> SUFFICES ASSUME Init PROVE Ownership
  OBVIOUS
<1>1. /\ \A t \in Tids : ~Live(t) /\ ~Owns(t) /\ handle[t] = NoRow /\ ~stop[t]
      /\ \A r \in RowIds : threadTable[r].tid = NoTid
      /\ cmd.pc = "prompt"
  BY DEF Init, Live, Owns, ZeroRow, Prompt
<1> QED
  BY <1>1 DEF Ownership, LiveHaveRows, StopHasReason, RowIsOwned, IdsAreOwners,
              AddHasItsRow, FlagIsRight, RowChosen, RowFilled

(* Rows, threads and the flag agree for ever, for tables of any size and any
   number of threads. *)
THEOREM OwnershipCorrect == Spec => []Ownership
<1>1. Init => TypeOK /\ Ownership
  BY TypeInit, OwnershipInit
<1>2. TypeOK /\ Ownership /\ [Next]_vars => (TypeOK /\ Ownership)'
  BY TypeNext, OwnershipNext
<1> QED
  BY <1>1, <1>2, PTL DEF Spec

(* A thread works on its own row until its own cleanup, never on a cleared row or
   on another thread's (monitorThread.c:111). *)
THEOREM RowsAreOwned == Spec => []RowIsOwned
<1>1. Ownership => RowIsOwned
  BY DEF Ownership
<1> QED
  BY <1>1, OwnershipCorrect, PTL

(* There is never more than one system thread, and none while the flag is down
   (mond.c:127, systemThread.c:306). *)
THEOREM SystemThreadIsAlone == Spec => []OneSystemThread
<1>1. TypeOK /\ Ownership => OneSystemThread
  <2> SUFFICES ASSUME TypeOK, Ownership PROVE OneSystemThread
    OBVIOUS
  <2> DEFINE systems == {t \in Tids : Live(t) /\ IsSystem(t)}
  <2>1. \A t, u \in systems : t = u
    BY DEF Ownership, FlagIsRight
  <2>2. Cardinality(systems) <= 1
    <3>1. CASE systems = {}
      BY <3>1, FS_EmptySet
    <3>2. CASE systems # {}
      <4>1. PICK t \in systems : TRUE
        BY <3>2
      <4>2. systems = {t}
        BY <2>1, <4>1
      <4>3. Cardinality({t}) = 1
        BY FS_Singleton
      <4> HIDE DEF systems
      <4> QED
        BY <4>2, <4>3
    <3> QED
      BY <3>1, <3>2
  <2>3. systemThreadState = "NOT_RUNNING" /\ cmd.pc # "created" => systems = {}
    BY DEF Ownership, FlagIsRight, FlagNotSetYet
  <2> QED
    BY <2>2, <2>3 DEF OneSystemThread
<1> QED
  BY <1>1, TypeCorrect, OwnershipCorrect, PTL

HIDE DEF tables, globals, threads
HIDE NamesAssumption
HIDE SizesAssumption

-----------------------------------------------------------------------------
(***************************************************************************)
(* The file table, for tables of any size: an entry counts the rows that   *)
(* log to it, a file has one entry, the scan of add always finds one, and  *)
(* what the listings show of a row is complete.                            *)
(***************************************************************************)

(* Steps that leave the files alone.                                        *)

(* A row's user, process and log file stay what they are. *)
SameUse(r) ==
  /\ threadTable'[r].tid = threadTable[r].tid
  /\ threadTable'[r].pid = threadTable[r].pid
  /\ threadTable'[r].startTime = threadTable[r].startTime
  /\ threadTable'[r].fTable = threadTable[r].fTable
  /\ threadTable'[r].fileName = threadTable[r].fileName

QuietFiles == fileTable' = fileTable /\ \A r \in RowIds : SameUse(r)

(* The command thread is not in the middle of an add, before or after. *)
NotAdding ==
  /\ cmd.pc \notin {"scan", "openLog", "create"}
  /\ cmd'.pc \notin {"findRow", "fork", "waitExec", "init", "scan", "openLog", "create"}

(* A step that keeps the number of users of every entry keeps CountIsUsers. *)
LEMMA SameUsers ==
  ASSUME fileTable' = fileTable,
         \A r \in RowIds : threadTable'[r].fTable = threadTable[r].fTable,
         CountIsUsers
  PROVE  CountIsUsers'
<1> SUFFICES ASSUME NEW e \in Entries
             PROVE  fileTable[e].count
                      = Cardinality({r \in RowIds : threadTable'[r].fTable = e})
  BY DEF CountIsUsers
<1>1. {r \in RowIds : threadTable'[r].fTable = e}
        = {r \in RowIds : threadTable[r].fTable = e}
  OBVIOUS
<1> QED
  BY <1>1 DEF CountIsUsers

(* Quiet steps keep the file invariant. *)
LEMMA FilesQuiet ==
  ASSUME FileInvariant, QuietFiles, cmd' = cmd \/ NotAdding
  PROVE  FileInvariant'
<1> USE DEF FileInvariant, QuietFiles, SameUse
<1>1. RowsInUse'
  <2>1. cmd' = cmd \/ (~RowFilled /\ cmd.pc # "create")
    BY DEF NotAdding, RowFilled
  <2>2. cmd' = cmd => (RowFilled' <=> RowFilled)
    BY DEF RowFilled
  <2> SUFFICES ASSUME NEW r \in RowIds
               PROVE  /\ threadTable'[r].startTime => threadTable'[r].pid # NoPid
                      /\ threadTable'[r].startTime
                           => threadTable'[r].tid # NoTid \/ (RowFilled' /\ cmd'.row = r)
                      /\ threadTable'[r].fTable # NoEntry
                           => threadTable'[r].tid # NoTid
                                \/ (cmd'.pc = "create" /\ cmd'.row = r)
    BY DEF RowsInUse
  <2> QED
    BY <2>1, <2>2 DEF RowsInUse
<1>2. CountIsUsers'
  BY SameUsers
<1>3. LogsToItsFile' /\ UnusedHaveNoFile'
  BY DEF LogsToItsFile, UnusedHaveNoFile
<1>4. AddHasItsWords' /\ ScanIsRight'
  BY DEF NotAdding, AddHasItsWords, ScanIsRight, RowChosen
<1> QED
  BY <1>1, <1>2, <1>3, <1>4

(* A mark in a row is quiet. *)
LEMMA MarkKeepsUse ==
  ASSUME threadTable \in [RowIds -> ThreadTableRow], NEW r \in RowIds, NEW s,
         threadTable' = [threadTable EXCEPT ![r].endStatus = s]
  PROVE  \A q \in RowIds : SameUse(q)
  BY DEF ThreadTableRow, SameUse

(* A step that leaves the table alone is quiet in every row. *)
LEMMA SameTableSameUse ==
  threadTable' = threadTable => \A r \in RowIds : SameUse(r)
  BY DEF SameUse

(* So is what the operating system refuses. *)
LEMMA RefusedKeepsFiles ==
  ASSUME AddRefused \/ WebmonRefused
  PROVE  QuietFiles /\ cmd' = cmd
BY RefusedStep, SameTableSameUse DEF QuietFiles

(* Every step of a monitor or of the system thread but its cleanup is quiet. *)
LEMMA ThreadsAreQuiet ==
  ASSUME TypeOK, NEW t \in Tids, MonitorNext(t) \/ SystemNext(t), pc[t] # "release"
  PROVE  QuietFiles /\ cmd' = cmd
<1>0. threadTable \in [RowIds -> ThreadTableRow]
  BY DEF TypeOK
<1>1. CASE MonitorProcessGone(t) /\ handle[t] \in Rows
  <2>1. handle[t] \in RowIds
    BY <1>1, Ranges
  <2>2. fileTable' = fileTable /\ cmd' = cmd
    BY <1>1 DEF MonitorProcessGone
  <2>3. \/ threadTable' = threadTable
        \/ threadTable' = [threadTable EXCEPT ![handle[t]].endStatus = "EXITED"]
    BY <1>1 DEF MonitorProcessGone
  <2> QED
    BY <1>0, <2>1, <2>2, <2>3, MarkKeepsUse, SameTableSameUse DEF QuietFiles
<1>2. CASE /\ ~MonitorProcessGone(t)
           /\ UNCHANGED <<threadTable, fileTable, cmd>>
  BY <1>2, SameTableSameUse DEF QuietFiles
<1>3. \/ MonitorProcessGone(t) /\ handle[t] \in Rows
      \/ UNCHANGED <<threadTable, fileTable, cmd>>
  BY DEF MonitorNext, IsMonitor, MonitorLockRow, MonitorOpen, MonitorPrint,
         MonitorPrintFails, MonitorContinue, MonitorTerminate, MonitorRelease,
         MonitorWait, MonitorRecord, MonitorPost, SystemNext, SystemLockRow,
         SystemPrint, SystemContinue, SystemTerminate, SystemRelease,
         SystemRecord, SystemPost, CopyRow, tables
<1> QED
  BY <1>1, <1>2, <1>3, SameTableSameUse DEF QuietFiles

(* So are the steps of webmon and of the processes. *)
LEMMA EnvironmentIsQuiet ==
  ASSUME WebmonNext \/ \E p \in Pids : ProcessDies(p) \/ ProcessReaped(p)
  PROVE  QuietFiles /\ cmd' = cmd
<1>1. UNCHANGED <<threadTable, fileTable, cmd>>
  BY DEF WebmonNext, WebmonRefresh, WebmonShowRow, WebmonLockList,
         WebmonUnlockList, WebmonShowFiles, ProcessDies, ProcessReaped, tables,
     WebmonRefused
<1> QED
  BY <1>1, SameTableSameUse DEF QuietFiles

(* The commands that do not add are quiet when they are typed, *)
LEMMA TypedIsQuiet ==
  ASSUME TypeOK,
         \/ RemoveSystem
         \/ \E t \in Tids : RemoveThread(t)
         \/ \E p \in Pids : KillProcess(p)
         \/ ExitMond
         \/ StartWebmon
         \/ ListActive
         \/ ListCompleted
  PROVE  QuietFiles /\ (cmd' = cmd \/ NotAdding)
<1>0. cmd \in CommandLocals
  BY DEF TypeOK
<1>1. UNCHANGED <<threadTable, fileTable>>
  BY DEF RemoveSystem, RemoveThread, KillProcess, ExitMond, StartWebmon,
         ListActive, ListCompleted, tables
<1>2. cmd' = cmd \/ NotAdding
  <2>1. CASE StartWebmon
    BY <2>1 DEF StartWebmon
  <2>2. CASE RemoveSystem \/ ListCompleted
    BY <1>0, <2>2 DEF RemoveSystem, ListCompleted, Typed, Goto, NotAdding, CommandLocals
  <2>3. ASSUME NEW t \in Tids, RemoveThread(t) PROVE NotAdding
    BY <1>0, <2>3 DEF RemoveThread, Typed, NotAdding, CommandLocals
  <2>4. ASSUME NEW p \in Pids, KillProcess(p) PROVE NotAdding
    BY <1>0, <2>4 DEF KillProcess, Typed, NotAdding, CommandLocals
  <2>5. CASE ExitMond \/ ListActive
    BY <1>0, <2>5 DEF ExitMond, ListActive, Typed, NotAdding, CommandLocals
  <2> QED
    BY <2>1, <2>2, <2>3, <2>4, <2>5
<1> QED
  BY <1>1, <1>2, SameTableSameUse DEF QuietFiles

(* and when they are carried out. *)
LEMMA CarriedOutIsQuiet ==
  ASSUME TypeOK,
         \/ SystemCreated \/ MonitorCreated
         \/ ReadSystemTid \/ StopSystemTid \/ StopTid
         \/ FindPid \/ SignalSent \/ SignalDenied \/ SignalNoProcess \/ MarkKilled
         \/ ExitStopSystem \/ ExitStopRow \/ ExitSystemEnded \/ ExitMonitorsEnded
         \/ ClearList \/ DestroyList \/ DestroyTables \/ MainReturns
         \/ ListRow \/ ListLock \/ ListUnlock
  PROVE  QuietFiles /\ (cmd' = cmd \/ NotAdding)
<1>0. /\ cmd \in CommandLocals /\ CommandInRange
      /\ threadTable \in [RowIds -> ThreadTableRow]
  BY DEF TypeOK
<1>1. fileTable' = fileTable
  BY DEF SystemCreated, MonitorCreated, ReadSystemTid, StopSystemTid, StopTid,
         FindPid, SignalSent, SignalDenied, SignalNoProcess, MarkKilled,
         ExitStopSystem, ExitStopRow, ExitSystemEnded, ExitMonitorsEnded,
         ClearList, DestroyList, DestroyTables, MainReturns, ListRow, ListLock,
         ListUnlock, tables
<1>2. \A r \in RowIds : SameUse(r)
  <2>1. CASE StopSystemTid \/ ExitStopSystem
    <3>1. \/ threadTable' = threadTable
          \/ threadTable' = [threadTable EXCEPT ![SystemRow].endStatus = "STOPPED"]
      BY <2>1 DEF StopSystemTid, ExitStopSystem, StopRow
    <3> QED
      BY <1>0, <3>1, Ranges, MarkKeepsUse, SameTableSameUse
  <2>2. CASE StopTid \/ ExitStopRow
    <3>1. /\ cmd.i \in RowIds
          /\ \/ threadTable' = threadTable
             \/ threadTable' = [threadTable EXCEPT ![cmd.i].endStatus = "STOPPED"]
      BY <1>0, <2>2, Ranges DEF StopTid, ExitStopRow, StopRow, CommandInRange
    <3> QED
      BY <1>0, <3>1, MarkKeepsUse, SameTableSameUse
  <2>3. CASE MarkKilled
    <3>1. /\ cmd.row \in RowIds
          /\ threadTable' = [threadTable EXCEPT ![cmd.row].endStatus = "KILLED"]
      BY <1>0, <2>3, Ranges DEF MarkKilled, CommandInRange
    <3> QED
      BY <1>0, <3>1, MarkKeepsUse
  <2>4. CASE ~(StopSystemTid \/ ExitStopSystem \/ StopTid \/ ExitStopRow \/ MarkKilled)
    <3>1. threadTable' = threadTable
      BY <2>4 DEF SystemCreated, MonitorCreated, ReadSystemTid, FindPid, SignalSent,
         SignalDenied, SignalNoProcess, ExitSystemEnded, ExitMonitorsEnded,
         ClearList, DestroyList, DestroyTables, MainReturns, ListRow, ListLock,
         ListUnlock, tables
    <3> QED
      BY <3>1, SameTableSameUse
  <2> QED
    BY <2>1, <2>2, <2>3, <2>4
<1>3. cmd' = cmd \/ NotAdding
  <2>1. cmd.pc \notin {"scan", "openLog", "create"}
    BY DEF SystemCreated, MonitorCreated, ReadSystemTid, StopSystemTid, StopTid,
         FindPid, SignalSent, SignalDenied, SignalNoProcess, MarkKilled,
         ExitStopSystem, ExitStopRow, ExitSystemEnded, ExitMonitorsEnded,
         ClearList, DestroyList, DestroyTables, MainReturns, ListRow, ListLock,
         ListUnlock
  <2>2. \/ cmd' = cmd \/ cmd' = Prompt
        \/ \E i \in Nat : cmd' = [cmd EXCEPT !.i = i]
        \/ \E i \in Nat : cmd' = [cmd EXCEPT !.pc = "waitSystem", !.i = i]
        \/ \E i \in Nat : cmd' = [cmd EXCEPT !.pc = "stopTid", !.i = i]
        \/ \E t : cmd' = [cmd EXCEPT !.pc = "stopSystemTid", !.tid = t]
        \/ \E r : cmd' = [cmd EXCEPT !.pc = "signal", !.row = r]
        \/ \E l \in {"markKilled", "exitRows", "waitMonitors", "clear", "destroyList",
                      "destroyTables", "return", "listing"} : cmd' = [cmd EXCEPT !.pc = l]
    <3>1. CASE SystemCreated \/ MonitorCreated
      BY <3>1 DEF SystemCreated, MonitorCreated
    <3>2. CASE ReadSystemTid
      BY <3>2 DEF ReadSystemTid
    <3>3. CASE StopSystemTid
      BY <3>3 DEF StopSystemTid
    <3>4. CASE StopTid \/ FindPid \/ ListRow \/ ExitStopRow
      <4>1. cmd.i \in Nat /\ cmd.i + 1 \in Nat
        BY <1>0 DEF CommandLocals
      <4> QED
        BY <3>4, <4>1 DEF StopTid, FindPid, ListRow, ExitStopRow
    <3>5. CASE SignalSent \/ SignalDenied \/ SignalNoProcess \/ MarkKilled
      BY <3>5 DEF SignalSent, SignalDenied, SignalNoProcess, MarkKilled, Goto
    <3>6. CASE ExitStopSystem \/ ExitSystemEnded \/ ExitMonitorsEnded
      BY <3>6 DEF ExitStopSystem, ExitSystemEnded, ExitMonitorsEnded, Goto
    <3>7. CASE ClearList \/ DestroyList \/ DestroyTables \/ MainReturns
      BY <3>7 DEF ClearList, DestroyList, DestroyTables, MainReturns, Goto
    <3>8. CASE ListLock \/ ListUnlock
      BY <3>8 DEF ListLock, ListUnlock, Goto
    <3> QED
      BY <3>1, <3>2, <3>3, <3>4, <3>5, <3>6, <3>7, <3>8
  <2>3. cmd.pc \notin {"findRow", "fork", "waitExec", "init"}
    BY DEF SystemCreated, MonitorCreated, ReadSystemTid, StopSystemTid, StopTid,
         FindPid, SignalSent, SignalDenied, SignalNoProcess, MarkKilled,
         ExitStopSystem, ExitStopRow, ExitSystemEnded, ExitMonitorsEnded,
         ClearList, DestroyList, DestroyTables, MainReturns, ListRow, ListLock,
         ListUnlock
  <2>4. \/ cmd'.pc = cmd.pc
        \/ cmd'.pc \in {"prompt", "waitSystem", "stopTid", "stopSystemTid", "signal",
                        "markKilled", "exitRows", "waitMonitors", "clear",
                        "destroyList", "destroyTables", "return", "listing"}
    <3>1. ASSUME NEW l, NEW x,
                 \/ cmd' = [cmd EXCEPT !.pc = l]
                 \/ cmd' = [cmd EXCEPT !.pc = l, !.i = x]
                 \/ cmd' = [cmd EXCEPT !.pc = l, !.tid = x]
                 \/ cmd' = [cmd EXCEPT !.pc = l, !.row = x]
          PROVE  cmd'.pc = l
      BY <1>0, <3>1 DEF CommandLocals
    <3>2. CASE cmd' = cmd \/ cmd' = Prompt \/ \E i \in Nat : cmd' = [cmd EXCEPT !.i = i]
      BY <1>0, <3>2 DEF CommandLocals, Prompt
    <3>3. CASE \/ \E i \in Nat : cmd' = [cmd EXCEPT !.pc = "waitSystem", !.i = i]
               \/ \E i \in Nat : cmd' = [cmd EXCEPT !.pc = "stopTid", !.i = i]
               \/ \E t : cmd' = [cmd EXCEPT !.pc = "stopSystemTid", !.tid = t]
               \/ \E r : cmd' = [cmd EXCEPT !.pc = "signal", !.row = r]
      <4>1. cmd'.pc \in {"waitSystem", "stopTid", "stopSystemTid", "signal"}
        BY <3>1, <3>3
      <4> QED
        BY <4>1
    <3>4. CASE \E l \in {"markKilled", "exitRows", "waitMonitors", "clear", "destroyList",
                    "destroyTables", "return", "listing"} : cmd' = [cmd EXCEPT !.pc = l]
      BY <3>1, <3>4
    <3> QED
      BY <2>2, <3>2, <3>3, <3>4
  <2> QED
    BY <2>1, <2>3, <2>4 DEF NotAdding
<1> QED
  BY <1>1, <1>2, <1>3 DEF QuietFiles
-----------------------------------------------------------------------------
(* add, up to the scan.                                                     *)

(* A quiet step of add keeps what the invariant says of the tables. *)
LEMMA FilesQuietAdd ==
  ASSUME FileInvariant, QuietFiles, cmd.pc \notin {"scan", "openLog", "create"},
         AddHasItsWords', ScanIsRight'
  PROVE  FileInvariant'
<1> USE DEF FileInvariant, QuietFiles, SameUse
<1>1. RowsInUse'
  BY DEF RowsInUse, RowFilled
<1>2. CountIsUsers'
  BY SameUsers
<1>3. LogsToItsFile' /\ UnusedHaveNoFile'
  BY DEF LogsToItsFile, UnusedHaveNoFile
<1> QED
  BY <1>1, <1>2, <1>3

(* The search for a row and the fork keep the file invariant. *)
LEMMA FilesBeforeScan ==
  ASSUME TypeOK, FileInvariant,
         \/ \E p \in Pids, f \in LogFiles : AddProcess(p, f)
         \/ \E f \in LogFiles : AddExec(f)
         \/ FindRowTaken \/ FindRowFree
         \/ \E p \in Children : Fork(p)
         \/ WaitExec
  PROVE  FileInvariant'
<1>0. cmd \in CommandLocals /\ AddHasItsWords
  BY DEF TypeOK, FileInvariant
<1>1. QuietFiles /\ cmd.pc \notin {"scan", "openLog", "create"}
  <2>1. UNCHANGED <<threadTable, fileTable>> /\ cmd.pc \notin {"scan", "openLog", "create"}
    BY DEF AddProcess, AddExec, FindRowTaken, FindRowFree, Fork, WaitExec, Typed, tables
  <2> QED
    BY <2>1, SameTableSameUse DEF QuietFiles
<1>2. AddHasItsWords' /\ ScanIsRight'
  <2> USE <1>0 DEF AddHasItsWords, ScanIsRight, RowChosen, CommandLocals, Prompt
  <2>1. ASSUME NEW p \in Pids, NEW f \in LogFiles, AddProcess(p, f)
        PROVE  AddHasItsWords' /\ ScanIsRight'
    BY <2>1 DEF AddProcess
  <2>2. ASSUME NEW f \in LogFiles, AddExec(f) PROVE AddHasItsWords' /\ ScanIsRight'
    BY <2>2 DEF AddExec
  <2>3. CASE FindRowTaken
    BY <2>3 DEF FindRowTaken
  <2>4. CASE FindRowFree
    BY <2>4 DEF FindRowFree
  <2>5. ASSUME NEW p \in Children, Fork(p) PROVE AddHasItsWords' /\ ScanIsRight'
    BY <2>5 DEF Fork, Pids
  <2>6. CASE WaitExec
    BY <2>6 DEF WaitExec
  <2> QED
    BY <2>1, <2>2, <2>3, <2>4, <2>5, <2>6
<1> QED
  BY <1>1, <1>2, FilesQuietAdd

(* There are more entries than rows that can use one while one row has none:
   some entry is unused (mond.h: FILE_TABLE_SIZE is THREAD_TABLE_SIZE + 1). *)
LEMMA SomeEntryIsUnused ==
  ASSUME TypeOK, CountIsUsers, UnusedHaveNoFile,
         NEW r \in RowIds, threadTable[r].fTable = NoEntry
  PROVE  \E e \in Entries : fileTable[e].inode = NoFile
<1> SUFFICES ASSUME \A e \in Entries : fileTable[e].inode # NoFile
             PROVE  FALSE
  OBVIOUS
<1> DEFINE user == [e \in Entries |-> CHOOSE q \in RowIds : threadTable[q].fTable = e]
<1>1. \A e \in Entries : \E q \in RowIds : threadTable[q].fTable = e
  <2> SUFFICES ASSUME NEW e \in Entries, {q \in RowIds : threadTable[q].fTable = e} = {}
               PROVE  FALSE
    OBVIOUS
  <2> QED
    BY FS_EmptySet DEF CountIsUsers, UnusedHaveNoFile
<1>2. \A e \in Entries : user[e] \in RowIds \ {r} /\ threadTable[user[e]].fTable = e
  BY <1>1 DEF Entries, NoEntry
<1>3. user \in [Entries -> RowIds \ {r}]
  BY <1>2
<1>4. /\ IsFiniteSet(Entries) /\ Cardinality(Entries) = FILE_TABLE_SIZE
      /\ IsFiniteSet(RowIds) /\ Cardinality(RowIds) = THREAD_TABLE_SIZE + 1
  <2>1. /\ 1 \in Int /\ 0 \in Int
        /\ FILE_TABLE_SIZE \in Int /\ THREAD_TABLE_SIZE \in Int
        /\ FILE_TABLE_SIZE >= 1 /\ THREAD_TABLE_SIZE >= 0
    BY SizesAssumption
  <2>2. /\ IsFiniteSet(1..FILE_TABLE_SIZE)
        /\ Cardinality(1..FILE_TABLE_SIZE) = FILE_TABLE_SIZE - 1 + 1
    BY <2>1, FS_Interval
  <2>3. /\ IsFiniteSet(0..THREAD_TABLE_SIZE)
        /\ Cardinality(0..THREAD_TABLE_SIZE) = THREAD_TABLE_SIZE - 0 + 1
    BY <2>1, FS_Interval
  <2> QED
    BY <2>1, <2>2, <2>3 DEF Entries, RowIds
<1>5. /\ IsFiniteSet(RowIds \ {r})
      /\ Cardinality(RowIds \ {r}) = THREAD_TABLE_SIZE
  <2>1. Cardinality(RowIds \ {r}) = Cardinality(RowIds) - 1
    BY <1>4, FS_RemoveElement
  <2>2. IsFiniteSet(RowIds \ {r})
    BY <1>4, FS_RemoveElement
  <2> QED
    BY <1>4, <2>1, <2>2, SizesAssumption
<1>6. Cardinality(RowIds \ {r}) < Cardinality(Entries)
  BY <1>4, <1>5, SizesAssumption
<1> HIDE DEF user
<1>7. \E d, e \in Entries : d # e /\ user[d] = user[e]
  BY <1>3, <1>4, <1>5, <1>6, FS_PigeonHole
<1> QED
  BY <1>2, <1>7

(* A row is taken and the scan begins: one unused entry lies ahead. *)
LEMMA FilesScanStarts ==
  ASSUME TypeOK, Ownership, FileInvariant,
         InitRow \/ \E f \in LogFiles : AddSystem(f)
  PROVE  FileInvariant'
<1> DEFINE r == cmd'.row
<1>0. /\ cmd \in CommandLocals /\ CommandInRange /\ AddHasItsWords /\ RowsInUse
      /\ threadTable \in [RowIds -> ThreadTableRow]
      /\ fileTable \in [Entries -> FileTableRow]
      /\ cmd.pc \notin {"scan", "openLog", "create"}
  BY DEF TypeOK, FileInvariant, InitRow, AddSystem, Typed
<1> DEFINE ScanBegins ==
      /\ r \in RowIds
      /\ cmd'.pc = "scan" /\ cmd'.i = 1 /\ cmd'.entry = NoEntry /\ cmd'.file \in LogFiles
      /\ fileTable' = fileTable
      /\ \E p \in Pids \cup {SystemPid}, c \in BOOLEAN :
           threadTable' = [threadTable EXCEPT ![r] =
             [threadTable[r] EXCEPT !.isChild = c, !.pid = p, !.startTime = TRUE]]
<1>1. ScanBegins
  <2>1. CASE InitRow
    <3>1. /\ cmd.row \in RowIds /\ cmd.pid \in Pids /\ cmd.exec \in BOOLEAN
          /\ cmd.file \in LogFiles /\ cmd.entry = NoEntry
      BY <1>0, <2>1, Ranges DEF InitRow, CommandInRange, AddHasItsWords, RowChosen,
         CommandLocals
    <3>2. /\ cmd'.row = cmd.row /\ cmd'.pc = "scan" /\ cmd'.i = 1
          /\ cmd'.entry = cmd.entry /\ cmd'.file = cmd.file
      BY <1>0, <2>1 DEF InitRow, CommandLocals
    <3>3. /\ fileTable' = fileTable
          /\ threadTable' = [threadTable EXCEPT ![cmd.row] =
               [threadTable[cmd.row] EXCEPT !.isChild = cmd.exec, !.pid = cmd.pid,
                                            !.startTime = TRUE]]
      BY <2>1 DEF InitRow
    <3> QED
      BY <3>1, <3>2, <3>3
  <2>2. ASSUME NEW f \in LogFiles, AddSystem(f) PROVE ScanBegins
    <3>1. /\ cmd'.row = SystemRow /\ cmd'.pc = "scan" /\ cmd'.i = 1
          /\ cmd'.entry = NoEntry /\ cmd'.file = f
      BY <2>2 DEF AddSystem, Prompt
    <3>2. /\ fileTable' = fileTable /\ SystemRow \in RowIds
          /\ threadTable' = [threadTable EXCEPT ![SystemRow].pid = SystemPid,
                                                ![SystemRow].startTime = TRUE]
      BY <2>2, Ranges DEF AddSystem
    <3>3. threadTable' = [threadTable EXCEPT ![SystemRow] =
            [threadTable[SystemRow] EXCEPT !.isChild = threadTable[SystemRow].isChild,
                                           !.pid = SystemPid, !.startTime = TRUE]]
      BY <1>0, <3>2 DEF ThreadTableRow
    <3>4. threadTable[SystemRow].isChild \in BOOLEAN
      BY <1>0, <3>2 DEF ThreadTableRow
    <3> QED
      BY <3>1, <3>2, <3>3, <3>4
  <2> QED
    BY <2>1, <2>2
<1>2. AddGoesOn
  BY OwnershipAddStep
<1>3. threadTable[r].tid = NoTid
  BY <1>1, <1>2 DEF AddGoesOn, RowFilled
<1> HIDE DEF r
<1>4. threadTable[r].fTable = NoEntry
  BY <1>0, <1>1, <1>3 DEF RowsInUse
<1>5. /\ \A q \in RowIds : /\ threadTable'[q].tid = threadTable[q].tid
                           /\ threadTable'[q].fTable = threadTable[q].fTable
                           /\ threadTable'[q].fileName = threadTable[q].fileName
                           /\ q # r => threadTable'[q].pid = threadTable[q].pid
                           /\ q # r => threadTable'[q].startTime = threadTable[q].startTime
      /\ threadTable'[r].pid # NoPid
  <2>1. PICK p \in Pids \cup {SystemPid}, c \in BOOLEAN :
          threadTable' = [threadTable EXCEPT ![r] =
            [threadTable[r] EXCEPT !.isChild = c, !.pid = p, !.startTime = TRUE]]
    BY <1>1
  <2>2. p # NoPid
    BY NamesAssumption
  <2>3. r \in RowIds
    BY <1>1
  <2>4. threadTable'[r] = [threadTable[r] EXCEPT !.isChild = c, !.pid = p, !.startTime = TRUE]
    BY <1>0, <2>1, <2>3
  <2>5. \A q \in RowIds : q # r => threadTable'[q] = threadTable[q]
    BY <1>0, <2>1, <2>3
  <2>6. threadTable[r] \in ThreadTableRow
    BY <1>0, <2>3
  <2>7. /\ threadTable'[r].tid = threadTable[r].tid
        /\ threadTable'[r].fTable = threadTable[r].fTable
        /\ threadTable'[r].fileName = threadTable[r].fileName
        /\ threadTable'[r].pid = p
    BY <2>4, <2>6 DEF ThreadTableRow
  <2> QED
    BY <2>2, <2>5, <2>7
<1>6. RowsInUse'
  <2>1. \A q \in RowIds : q # r /\ threadTable[q].startTime => threadTable[q].tid # NoTid
    BY <1>0 DEF RowsInUse, RowFilled
  <2>2. \A q \in RowIds : threadTable[q].fTable # NoEntry => threadTable[q].tid # NoTid
    BY <1>0 DEF RowsInUse
  <2>3. RowFilled' /\ cmd'.row = r
    BY <1>1 DEF RowFilled, r
  <2>4. ASSUME NEW q \in RowIds
        PROVE  threadTable'[q].startTime => threadTable'[q].pid # NoPid
    <3>1. CASE q = r
      BY <1>5, <3>1
    <3>2. CASE q # r
      BY <1>0, <1>5, <3>2 DEF RowsInUse
    <3> QED
      BY <3>1, <3>2
  <2>5. ASSUME NEW q \in RowIds, q # r
        PROVE  threadTable'[q].startTime => threadTable'[q].tid # NoTid
    BY <1>5, <2>1, <2>5
  <2>6. ASSUME NEW q \in RowIds
        PROVE  threadTable'[q].fTable # NoEntry => threadTable'[q].tid # NoTid
    BY <1>5, <2>2
  <2> QED
    BY <2>3, <2>4, <2>5, <2>6 DEF RowsInUse
<1>7. CountIsUsers'
  BY <1>1, <1>5, SameUsers DEF FileInvariant
<1>8. LogsToItsFile' /\ UnusedHaveNoFile'
  BY <1>1, <1>5 DEF LogsToItsFile, UnusedHaveNoFile, FileInvariant
<1>9. AddHasItsWords'
  BY <1>1 DEF AddHasItsWords, RowChosen
<1>10. ScanIsRight'
  <2>1. \E e \in Entries : fileTable[e].inode = NoFile
    BY <1>1, <1>4, SomeEntryIsUnused DEF FileInvariant
  <2>2. \A e \in Entries : e >= 1 /\ ~(e < 1)
    BY DEF Entries
  <2> QED
    BY <1>1, <2>1, <2>2 DEF ScanIsRight
<1> QED
  BY <1>6, <1>7, <1>8, <1>9, <1>10 DEF FileInvariant
-----------------------------------------------------------------------------
(* add, from the scan to the creation of the thread.                        *)

(* One entry that is not the one looked for. *)
LEMMA FilesScanMiss ==
  ASSUME TypeOK, FileInvariant, ScanMiss
  PROVE  FileInvariant'
<1>0. /\ cmd \in CommandLocals /\ cmd.i \in Entries /\ FILE_TABLE_SIZE \in Nat
      /\ RowsInUse /\ ScanIsRight
  BY SizesAssumption DEF TypeOK, CommandInRange, ScanMiss, FileInvariant
<1>1. /\ cmd.pc = "scan" /\ cmd'.file = cmd.file /\ cmd'.row = cmd.row
      /\ cmd'.i = cmd.i + 1
      /\ cmd'.entry = IF fileTable[cmd.i].inode = NoFile THEN cmd.i ELSE cmd.entry
      /\ cmd'.pc = IF cmd.i = FILE_TABLE_SIZE THEN "openLog" ELSE "scan"
      /\ fileTable[cmd.i].inode # cmd.file
      /\ fileTable' = fileTable /\ threadTable' = threadTable
  <2> DEFINE n == IF fileTable[cmd.i].inode = NoFile THEN cmd.i ELSE cmd.entry
             l == IF cmd.i = FILE_TABLE_SIZE THEN "openLog" ELSE "scan"
  <2>1. cmd' = [cmd EXCEPT !.entry = n, !.i = cmd.i + 1, !.pc = l]
    BY DEF ScanMiss
  <2>2. /\ cmd.pc = "scan" /\ fileTable[cmd.i].inode # cmd.file
        /\ fileTable' = fileTable /\ threadTable' = threadTable
    BY DEF ScanMiss, tables
  <2> HIDE DEF n, l
  <2>3. /\ cmd'.file = cmd.file /\ cmd'.row = cmd.row
        /\ cmd'.i = cmd.i + 1 /\ cmd'.entry = n /\ cmd'.pc = l
    BY <1>0, <2>1 DEF CommandLocals
  <2> QED
    BY <2>2, <2>3 DEF n, l
<1>2. RowsInUse'
  <2>1. RowFilled /\ RowFilled' /\ cmd.pc # "create" /\ cmd'.pc # "create"
    BY <1>1 DEF RowFilled
  <2> QED
    BY <1>0, <1>1, <2>1 DEF RowsInUse
<1>3. CountIsUsers' /\ LogsToItsFile' /\ UnusedHaveNoFile' /\ AddHasItsWords'
  BY <1>1, SameUsers DEF FileInvariant, LogsToItsFile, UnusedHaveNoFile,
     AddHasItsWords, RowChosen
<1>4. ScanIsRight'
  <2>1. cmd'.file \in LogFiles
    BY <1>0, <1>1 DEF ScanIsRight
  <2>2. ASSUME NEW e \in Entries, cmd'.pc = "openLog" \/ e < cmd'.i
        PROVE  fileTable'[e].inode # cmd'.file
    <3>1. e < cmd.i \/ e = cmd.i
      BY <1>0, <1>1, <2>2 DEF Entries
    <3> QED
      BY <1>0, <1>1, <3>1 DEF ScanIsRight
  <2>3. CASE fileTable[cmd.i].inode = NoFile
    <3>1. cmd'.entry = cmd.i /\ cmd.i # NoEntry
      BY <1>0, <1>1, <2>3 DEF Entries, NoEntry
    <3> QED
      BY <1>1, <2>1, <2>2, <2>3, <3>1 DEF ScanIsRight
  <2>4. CASE fileTable[cmd.i].inode # NoFile
    <3>1. cmd'.entry = cmd.entry
      BY <1>1, <2>4
    <3>2. CASE cmd.entry = NoEntry
      <4>1. PICK e \in Entries : e >= cmd.i /\ fileTable[e].inode = NoFile
        BY <1>0, <1>1, <3>2 DEF ScanIsRight
      <4>2. e >= cmd.i + 1 /\ cmd.i # FILE_TABLE_SIZE
        BY <1>0, <2>4, <4>1 DEF Entries
      <4>3. cmd'.pc = "scan" /\ e >= cmd'.i /\ fileTable'[e].inode = NoFile
        BY <1>1, <4>1, <4>2
      <4> QED
        BY <2>1, <2>2, <3>1, <3>2, <4>3 DEF ScanIsRight
    <3>3. CASE cmd.entry # NoEntry
      <4>1. fileTable'[cmd'.entry].inode = NoFile
        BY <1>0, <1>1, <3>1, <3>3 DEF ScanIsRight
      <4> QED
        BY <2>1, <2>2, <3>1, <3>3, <4>1 DEF ScanIsRight
    <3> QED
      BY <3>2, <3>3
  <2> QED
    BY <2>3, <2>4
<1> QED
  BY <1>2, <1>3, <1>4 DEF FileInvariant

(* An entry that a row logs to is in use. *)
LEMMA UsedHasFile ==
  ASSUME CountIsUsers, UnusedHaveNoFile, NEW r \in RowIds,
         NEW e \in Entries, threadTable[r].fTable = e
  PROVE  fileTable[e].inode # NoFile
<1> DEFINE users == {q \in RowIds : threadTable[q].fTable = e}
<1>1. r \in users
  OBVIOUS
<1>2. IsFiniteSet(users)
  <2>1. IsFiniteSet(RowIds)
    BY SizesAssumption, FS_Interval DEF RowIds
  <2> QED
    BY <2>1, FS_Subset
<1>3. Cardinality(users) # 0
  <2> HIDE DEF users
  <2> QED
    BY <1>1, <1>2, FS_EmptySet
<1> QED
  BY <1>3 DEF CountIsUsers, UnusedHaveNoFile

(* The row under way becomes one more user of an entry that has its file, or
   that is given it. *)
LEMMA FilesUseEntry ==
  ASSUME TypeOK, Ownership, FileInvariant, NEW e \in Entries, UseEntry(e),
         cmd.pc \in {"scan", "openLog"},
         fileTable[e].inode \in {cmd.file, NoFile},
         \A d \in Entries : d # e => fileTable[d].inode # cmd.file,
         fileTable'[e].inode = cmd.file,
         fileTable'[e].count = fileTable[e].count + 1,
         \A d \in Entries : d # e => /\ fileTable'[d].inode = fileTable[d].inode
                                     /\ fileTable'[d].count = fileTable[d].count
  PROVE  FileInvariant'
<1> DEFINE r == cmd.row
<1>0. /\ cmd \in CommandLocals /\ r \in RowIds /\ RowFilled /\ cmd.pc # "create"
      /\ threadTable \in [RowIds -> ThreadTableRow]
      /\ RowsInUse /\ ScanIsRight /\ cmd.file \in LogFiles
  BY DEF TypeOK, CommandInRange, FileInvariant, RowFilled, ScanIsRight
<1>1. /\ cmd'.pc = "create" /\ cmd'.row = r /\ RowFilled'
  BY <1>0 DEF UseEntry, CommandLocals, RowFilled
<1>2. /\ threadTable'[r].fTable = e /\ threadTable'[r].fileName = cmd.file
      /\ \A q \in RowIds :
           /\ threadTable'[q].tid = threadTable[q].tid
           /\ threadTable'[q].pid = threadTable[q].pid
           /\ threadTable'[q].startTime = threadTable[q].startTime
           /\ q # r => threadTable'[q].fTable = threadTable[q].fTable
           /\ q # r => threadTable'[q].fileName = threadTable[q].fileName
  BY <1>0 DEF UseEntry, ThreadTableRow
<1>3. threadTable[r].fTable = NoEntry
  BY <1>0 DEF RowsInUse, Ownership, AddHasItsRow
<1>4. e # NoEntry /\ NoFile # cmd.file
  BY <1>0, NamesAssumption DEF Entries, NoEntry
<1> HIDE DEF r
<1>5. RowsInUse'
  <2>1. ASSUME NEW q \in RowIds
        PROVE  /\ threadTable'[q].startTime => threadTable'[q].pid # NoPid
               /\ threadTable'[q].startTime => threadTable'[q].tid # NoTid \/ q = r
               /\ threadTable'[q].fTable # NoEntry
                    => threadTable'[q].tid # NoTid \/ q = r
    BY <1>0, <1>2 DEF RowsInUse, r
  <2> QED
    BY <1>1, <2>1 DEF RowsInUse
<1>6. CountIsUsers'
  <2> SUFFICES ASSUME NEW d \in Entries
               PROVE  fileTable'[d].count
                        = Cardinality({q \in RowIds : threadTable'[q].fTable = d})
    BY DEF CountIsUsers
  <2> DEFINE users == {q \in RowIds : threadTable[q].fTable = d}
             newUsers == {q \in RowIds : threadTable'[q].fTable = d}
  <2>1. fileTable[d].count = Cardinality(users)
    BY DEF FileInvariant, CountIsUsers
  <2>2. CASE d # e
    <3>1. newUsers = users
      BY <1>2, <1>3, <1>4, <2>2 DEF Entries, NoEntry
    <3> QED
      BY <2>1, <2>2, <3>1
  <2>3. CASE d = e
    <3>1. newUsers = users \cup {r} /\ r \notin users
      BY <1>0, <1>2, <1>3, <1>4, <2>3
    <3>2. IsFiniteSet(users)
      <4>1. IsFiniteSet(RowIds)
        <5>1. 0 \in Int /\ THREAD_TABLE_SIZE \in Int
          BY SizesAssumption
        <5> QED
          BY <5>1, FS_Interval DEF RowIds
      <4> QED
        BY <4>1, FS_Subset
    <3> HIDE DEF users, newUsers
    <3>3. Cardinality(newUsers) = Cardinality(users) + 1
      BY <3>1, <3>2, FS_AddElement
    <3>4. fileTable'[d].count = Cardinality(newUsers)
      BY <2>1, <2>3, <3>3
    <3> QED
      BY <3>4 DEF newUsers
  <2> QED
    BY <2>2, <2>3
<1>7. LogsToItsFile'
  <2>1. ASSUME NEW q \in RowIds, threadTable'[q].fTable # NoEntry
        PROVE  fileTable'[threadTable'[q].fTable].inode = threadTable'[q].fileName
    <3>1. CASE q = r
      BY <1>2, <3>1
    <3>2. CASE q # r /\ threadTable[q].fTable = e
      <4>1. fileTable[e].inode = cmd.file
        BY <3>2, UsedHasFile DEF FileInvariant
      <4>2. fileTable[e].inode = threadTable[q].fileName
        BY <1>4, <3>2 DEF FileInvariant, LogsToItsFile
      <4> QED
        BY <1>2, <3>2, <4>1, <4>2
    <3>3. CASE q # r /\ threadTable[q].fTable # e
      <4>1. threadTable[q].fTable \in Entries
        BY <1>0, <1>2, <2>1, <3>3 DEF ThreadTableRow
      <4>2. fileTable[threadTable[q].fTable].inode = threadTable[q].fileName
        BY <1>2, <2>1, <3>3 DEF FileInvariant, LogsToItsFile
      <4> QED
        BY <1>2, <3>3, <4>1, <4>2
    <3> QED
      BY <3>1, <3>2, <3>3
  <2>2. ASSUME NEW d \in Entries, NEW c \in Entries, d # c,
               fileTable'[d].inode = fileTable'[c].inode
        PROVE  fileTable'[d].inode = NoFile
    BY <2>2 DEF FileInvariant, LogsToItsFile
  <2> QED
    BY <2>1, <2>2 DEF LogsToItsFile
<1>8. UnusedHaveNoFile'
  <2>1. fileTable'[e].count # 0
    BY DEF TypeOK, FileTableRow
  <2> QED
    BY <1>4, <2>1 DEF FileInvariant, UnusedHaveNoFile
<1>9. AddHasItsWords' /\ ScanIsRight'
  BY <1>1 DEF AddHasItsWords, ScanIsRight, RowChosen
<1> QED
  BY <1>5, <1>6, <1>7, <1>8, <1>9 DEF FileInvariant

(* The scan ends at the entry of the file, or at one it is opened in. *)
LEMMA FilesScanEnds ==
  ASSUME TypeOK, Ownership, FileInvariant, ScanHit \/ OpenLog
  PROVE  FileInvariant'
<1>0. /\ cmd \in CommandLocals /\ CommandInRange /\ ScanIsRight /\ LogsToItsFile
      /\ fileTable \in [Entries -> FileTableRow]
  BY DEF TypeOK, FileInvariant
<1>1. CASE ScanHit
  <2>1. /\ cmd.pc = "scan" /\ cmd.i \in Entries /\ UseEntry(cmd.i)
        /\ fileTable[cmd.i].inode = cmd.file
        /\ fileTable' = [fileTable EXCEPT ![cmd.i].count = fileTable[cmd.i].count + 1]
    BY <1>0, <1>1 DEF ScanHit, CommandInRange
  <2>2. cmd.file # NoFile
    BY <1>0, <2>1, NamesAssumption DEF ScanIsRight
  <2>3. \A d \in Entries : d # cmd.i => fileTable[d].inode # cmd.file
    BY <1>0, <2>1, <2>2 DEF LogsToItsFile
  <2>4. /\ fileTable'[cmd.i].inode = cmd.file
        /\ fileTable'[cmd.i].count = fileTable[cmd.i].count + 1
        /\ \A d \in Entries : d # cmd.i => /\ fileTable'[d].inode = fileTable[d].inode
                                           /\ fileTable'[d].count = fileTable[d].count
    BY <1>0, <2>1 DEF FileTableRow
  <2> QED
    BY <2>1, <2>3, <2>4, FilesUseEntry
<1>2. CASE OpenLog
  <2>1. cmd.pc = "openLog" /\ cmd.entry \in Entries /\ fileTable[cmd.entry].inode = NoFile
    BY <1>0, <1>2 DEF OpenLog, ScanIsRight, CommandLocals
  <2>2. cmd.entry # NoEntry
    BY <2>1 DEF Entries, NoEntry
  <2>3. /\ UseEntry(cmd.entry)
        /\ fileTable' = [fileTable EXCEPT ![cmd.entry].inode = cmd.file,
                                          ![cmd.entry].count = fileTable[cmd.entry].count + 1]
    BY <1>2, <2>2 DEF OpenLog
  <2>4. \A d \in Entries : d # cmd.entry => fileTable[d].inode # cmd.file
    BY <1>0, <2>1 DEF ScanIsRight
  <2>5. /\ fileTable'[cmd.entry].inode = cmd.file
        /\ fileTable'[cmd.entry].count = fileTable[cmd.entry].count + 1
        /\ \A d \in Entries : d # cmd.entry => /\ fileTable'[d].inode = fileTable[d].inode
                                               /\ fileTable'[d].count = fileTable[d].count
    BY <1>0, <2>1, <2>3 DEF FileTableRow
  <2> QED
    BY <2>1, <2>3, <2>4, <2>5, FilesUseEntry
<1> QED
  BY <1>1, <1>2

(* The row under way is given its thread. *)
LEMMA FilesCreate ==
  ASSUME TypeOK, FileInvariant, NEW t \in Tids, CreateThread(t)
  PROVE  FileInvariant'
<1>0. /\ cmd \in CommandLocals /\ cmd.row \in RowIds /\ t # NoTid
      /\ threadTable \in [RowIds -> ThreadTableRow] /\ RowsInUse
  BY DEF TypeOK, CommandInRange, CreateThread, FileInvariant, Tids, NoTid
<1>1. /\ cmd.pc = "create" /\ cmd'.pc = "created" /\ fileTable' = fileTable
      /\ threadTable' = [threadTable EXCEPT ![cmd.row].tid = t]
  BY <1>0 DEF CreateThread, Goto, CommandLocals
<1>2. /\ threadTable'[cmd.row].tid = t
      /\ \A q \in RowIds :
           /\ threadTable'[q].pid = threadTable[q].pid
           /\ threadTable'[q].startTime = threadTable[q].startTime
           /\ threadTable'[q].fTable = threadTable[q].fTable
           /\ threadTable'[q].fileName = threadTable[q].fileName
           /\ q # cmd.row => threadTable'[q].tid = threadTable[q].tid
  BY <1>0, <1>1 DEF ThreadTableRow
<1>3. RowsInUse'
  <2>1. ASSUME NEW q \in RowIds
        PROVE  /\ threadTable'[q].startTime => threadTable'[q].pid # NoPid
               /\ threadTable'[q].startTime => threadTable'[q].tid # NoTid
               /\ threadTable'[q].fTable # NoEntry => threadTable'[q].tid # NoTid
    BY <1>0, <1>2 DEF RowsInUse
  <2> QED
    BY <2>1 DEF RowsInUse
<1>4. CountIsUsers'
  BY <1>1, <1>2, SameUsers DEF FileInvariant
<1>5. LogsToItsFile' /\ UnusedHaveNoFile'
  BY <1>1, <1>2 DEF LogsToItsFile, UnusedHaveNoFile, FileInvariant
<1>6. AddHasItsWords' /\ ScanIsRight'
  BY <1>1 DEF AddHasItsWords, ScanIsRight, RowChosen
<1> QED
  BY <1>3, <1>4, <1>5, <1>6 DEF FileInvariant

-----------------------------------------------------------------------------
(* The cleanup of a row.                                                    *)

(* A thread leaves its log file, which is closed only with its last user. *)
LEMMA FilesRelease ==
  ASSUME TypeOK, Ownership, FileInvariant, NEW t \in Tids,
         MonitorRelease(t) \/ SystemRelease(t)
  PROVE  FileInvariant'
<1> DEFINE r == handle[t]
           e == threadTable[r].fTable
           users == {q \in RowIds : threadTable[q].fTable = e}
<1>0. /\ threadTable \in [RowIds -> ThreadTableRow]
      /\ fileTable \in [Entries -> FileTableRow]
      /\ RowsInUse /\ CountIsUsers /\ LogsToItsFile /\ UnusedHaveNoFile
      /\ AddHasItsWords /\ ScanIsRight
  BY DEF TypeOK, FileInvariant
<1>1. /\ pc[t] = "release" /\ cmd' = cmd /\ fileTable[e].count > 0
      /\ fileTable' = [fileTable EXCEPT ![e] = OneUserLess(fileTable[e])]
      /\ threadTable' = [threadTable EXCEPT ![r] = Cleared(threadTable[r])]
  BY DEF MonitorRelease, SystemRelease, ReleaseRow
<1>2. r \in RowIds /\ e # NoEntry
  BY <1>1 DEF Ownership, LiveHaveRows, RowIsOwned, Live, Owns
<1>3. e \in Entries
  BY <1>0, <1>2 DEF ThreadTableRow
<1>4. /\ ~threadTable'[r].startTime /\ threadTable'[r].fTable = NoEntry
      /\ \A q \in RowIds : q # r => threadTable'[q] = threadTable[q]
  BY <1>0, <1>1, <1>2 DEF Cleared, ThreadTableRow
<1>5. fileTable[e] \in FileTableRow /\ fileTable'[e] = OneUserLess(fileTable[e])
      /\ \A d \in Entries : d # e => fileTable'[d] = fileTable[d]
  BY <1>0, <1>1, <1>3
<1>6. fileTable[e].count = Cardinality(users) /\ IsFiniteSet(users) /\ r \in users
  <2>1. IsFiniteSet(RowIds)
    BY SizesAssumption, FS_Interval DEF RowIds
  <2>2. IsFiniteSet(users)
    BY <2>1, FS_Subset
  <2> QED
    BY <1>0, <1>2, <1>3, <2>2 DEF CountIsUsers
<1>7. /\ Cardinality(users \ {r}) = fileTable[e].count - 1
      /\ IsFiniteSet(users \ {r})
  <2> HIDE DEF users, r, e
  <2> QED
    BY <1>6, FS_RemoveElement
<1>8. /\ fileTable'[e].count = fileTable[e].count - 1
      /\ fileTable[e].count = 1 => fileTable'[e].inode = NoFile
      /\ fileTable[e].count # 1 => fileTable'[e].inode = fileTable[e].inode
  BY <1>5 DEF OneUserLess, ZeroEntry, FileTableRow
<1>9. fileTable[e].count = 1 => users \ {r} = {}
  <2> HIDE DEF users, r, e
  <2> QED
    BY <1>7, FS_EmptySet
<1>10. RowsInUse'
  <2>1. ASSUME NEW q \in RowIds, q # r
        PROVE  threadTable'[q] = threadTable[q]
    BY <1>4, <2>1
  <2>2. RowFilled' <=> RowFilled
    BY <1>1 DEF RowFilled
  <2> HIDE DEF r, e, users
  <2> QED
    BY <1>0, <1>1, <1>4, <2>2 DEF RowsInUse
<1>11. CountIsUsers'
  <2> SUFFICES ASSUME NEW d \in Entries
               PROVE  fileTable'[d].count
                        = Cardinality({q \in RowIds : threadTable'[q].fTable = d})
    BY DEF CountIsUsers
  <2> DEFINE newUsers == {q \in RowIds : threadTable'[q].fTable = d}
  <2>1. CASE d = e
    <3>1. newUsers = users \ {r}
      BY <1>2, <1>4, <2>1
    <3> QED
      BY <1>7, <1>8, <2>1, <3>1
  <2>2. CASE d # e
    <3>1. newUsers = {q \in RowIds : threadTable[q].fTable = d}
      BY <1>2, <1>4, <2>2 DEF Entries, NoEntry
    <3> QED
      BY <1>0, <1>5, <2>2, <3>1 DEF CountIsUsers
  <2> QED
    BY <2>1, <2>2
<1>12. LogsToItsFile'
  <2>1. ASSUME NEW q \in RowIds, threadTable'[q].fTable # NoEntry
        PROVE  fileTable'[threadTable'[q].fTable].inode = threadTable'[q].fileName
    <3>1. q # r /\ threadTable'[q] = threadTable[q]
      BY <1>4, <2>1
    <3>2. fileTable[threadTable[q].fTable].inode = threadTable[q].fileName
      BY <1>0, <2>1, <3>1 DEF LogsToItsFile
    <3>3. threadTable[q].fTable \in Entries
      BY <1>0, <2>1, <3>1 DEF ThreadTableRow
    <3>4. CASE threadTable[q].fTable = e
      <4>1. fileTable[e].count # 1
        BY <1>9, <3>1, <3>4
      <4> QED
        BY <1>8, <3>1, <3>2, <3>4, <4>1
    <3>5. CASE threadTable[q].fTable # e
      BY <1>5, <3>1, <3>2, <3>3, <3>5
    <3> QED
      BY <3>4, <3>5
  <2> HIDE DEF r, e, users
  <2>2. ASSUME NEW d \in Entries, NEW c \in Entries, d # c,
               fileTable'[d].inode = fileTable'[c].inode
        PROVE  fileTable'[d].inode = NoFile
    BY <1>0, <1>5, <1>8, <2>2 DEF LogsToItsFile
  <2> QED
    BY <2>1, <2>2 DEF LogsToItsFile
<1> HIDE DEF r, e, users
<1>13. UnusedHaveNoFile'
  <2>1. fileTable[e].count \in Nat
    BY <1>5 DEF FileTableRow
  <2>2. fileTable'[e].inode = NoFile <=> fileTable'[e].count = 0
    BY <1>0, <1>1, <1>3, <1>8, <2>1 DEF UnusedHaveNoFile
  <2> QED
    BY <1>0, <1>5, <2>2 DEF UnusedHaveNoFile
<1>14. AddHasItsWords'
  BY <1>0, <1>1 DEF AddHasItsWords, RowChosen
<1>15. ScanIsRight'
  <2>1. \A d \in Entries : fileTable'[d].inode \in {fileTable[d].inode, NoFile}
    BY <1>5, <1>8
  <2> SUFFICES ASSUME cmd.pc \in {"scan", "openLog"}
               PROVE  ScanIsRight'
    BY <1>1 DEF ScanIsRight
  <2>2. cmd.file \in LogFiles /\ NoFile # cmd.file
    BY <1>0, NamesAssumption DEF ScanIsRight
  <2>3. \A d \in Entries :
          cmd.pc = "openLog" \/ d < cmd.i => fileTable'[d].inode # cmd.file
    BY <1>0, <2>1, <2>2 DEF ScanIsRight
  <2>4. CASE cmd.entry = NoEntry
    BY <1>0, <1>1, <2>1, <2>2, <2>3, <2>4 DEF ScanIsRight
  <2>5. CASE cmd.entry # NoEntry
    <3>1. cmd.entry \in Entries
      BY <2>5 DEF TypeOK, CommandLocals
    <3> QED
      BY <1>0, <1>1, <2>1, <2>2, <2>3, <2>5, <3>1 DEF ScanIsRight
  <2> QED
    BY <2>4, <2>5
<1> QED
  BY <1>10, <1>11, <1>12, <1>13, <1>14, <1>15 DEF FileInvariant

-----------------------------------------------------------------------------
(* The file invariant is inductive, next to TypeOK and Ownership.           *)

(* Every step of the program keeps the file invariant. *)
LEMMA FilesNext ==
  ASSUME TypeOK, Ownership, FileInvariant, [Next]_vars
  PROVE  FileInvariant'
<1>1. CASE UserStep
  <2>1. CASE \/ \E p \in Pids, f \in LogFiles : AddProcess(p, f)
             \/ \E f \in LogFiles : AddExec(f)
    BY <2>1, FilesBeforeScan
  <2>2. CASE \E f \in LogFiles : AddSystem(f)
    BY <2>2, FilesScanStarts
  <2>3. CASE ~ \/ \E p \in Pids, f \in LogFiles : AddProcess(p, f)
               \/ \E f \in LogFiles : AddExec(f)
               \/ \E f \in LogFiles : AddSystem(f)
    BY <1>1, <2>3, TypedIsQuiet, FilesQuiet DEF UserStep, CommandTyped
  <2> QED
    BY <2>1, <2>2, <2>3
<1>2. CASE CommandGoesOn
  BY <1>2, CarriedOutIsQuiet, FilesQuiet, FilesBeforeScan, FilesScanStarts,
     FilesScanMiss, FilesScanEnds, FilesCreate, RefusedKeepsFiles
     DEF CommandGoesOn, CommandStep
<1>3. CASE \E t \in Tids : ThreadStep(t)
  <2>1. PICK t \in Tids : MonitorNext(t) \/ SystemNext(t)
    BY <1>3 DEF ThreadStep
  <2>2. CASE pc[t] # "release"
    BY <2>1, <2>2, ThreadsAreQuiet, FilesQuiet
  <2>3. CASE pc[t] = "release"
    <3>1. MonitorRelease(t) \/ SystemRelease(t)
      BY <2>1, <2>3
         DEF MonitorNext, MonitorLockRow, MonitorOpen, MonitorProcessGone,
             MonitorPrint, MonitorPrintFails, MonitorContinue, MonitorTerminate,
             MonitorWait, MonitorRecord, MonitorPost,
             SystemNext, SystemLockRow, SystemPrint, SystemContinue,
             SystemTerminate, SystemRecord, SystemPost
    <3> QED
      BY <3>1, FilesRelease
  <2> QED
    BY <2>2, <2>3
<1>4. CASE WebmonStep \/ ProcessStep
  BY <1>4, EnvironmentIsQuiet, FilesQuiet DEF WebmonStep, ProcessStep
<1>5. CASE UNCHANGED vars
  <2>1. UNCHANGED <<threadTable, fileTable, cmd>>
    BY <1>5 DEF vars, tables
  <2> QED
    BY <2>1, SameTableSameUse, FilesQuiet DEF QuietFiles
<1> QED
  BY <1>1, <1>2, <1>3, <1>4, <1>5 DEF Next, Ended

(* At the start nothing logs to any file. *)
LEMMA FilesInit == Init => FileInvariant
<1> SUFFICES ASSUME Init PROVE FileInvariant
  OBVIOUS
<1>1. /\ \A r \in RowIds : /\ ~threadTable[r].startTime
                           /\ threadTable[r].fTable = NoEntry
      /\ \A e \in Entries : fileTable[e].count = 0 /\ fileTable[e].inode = NoFile
      /\ cmd.pc = "prompt"
  BY DEF Init, ZeroRow, ZeroEntry, Prompt
<1>2. CountIsUsers
  <2> SUFFICES ASSUME NEW e \in Entries
               PROVE  Cardinality({r \in RowIds : threadTable[r].fTable = e}) = 0
    BY <1>1 DEF CountIsUsers
  <2>1. {r \in RowIds : threadTable[r].fTable = e} = {}
    BY <1>1 DEF Entries, NoEntry
  <2> QED
    BY <2>1, FS_EmptySet
<1> QED
  BY <1>1, <1>2 DEF FileInvariant, RowsInUse, LogsToItsFile, UnusedHaveNoFile,
     AddHasItsWords, ScanIsRight, RowChosen, RowFilled

(* The rows and the file table agree for ever, for tables of any size and any
   number of threads, files and processes. *)
THEOREM FilesCorrect == Spec => []FileInvariant
<1>1. Init => TypeOK /\ Ownership /\ FileInvariant
  BY TypeInit, OwnershipInit, FilesInit
<1>2. TypeOK /\ Ownership /\ FileInvariant /\ [Next]_vars
        => (TypeOK /\ Ownership /\ FileInvariant)'
  BY TypeNext, OwnershipNext, FilesNext
<1> QED
  BY <1>1, <1>2, PTL DEF Spec

(* The count of an entry is the number of its users, so that the last of them,
   and no other, closes the file (monitorThread.c:218-234). *)
THEOREM CountsAreRight == Spec => []CountIsUsers
<1>1. FileInvariant => CountIsUsers
  BY DEF FileInvariant
<1> QED
  BY <1>1, FilesCorrect, PTL

(* A row logs to the file its user named, and no file has two entries
   (commands.c:627-690). *)
THEOREM RowsLogToTheirFiles == Spec => []LogsToItsFile
<1>1. FileInvariant => LogsToItsFile
  BY DEF FileInvariant
<1> QED
  BY <1>1, FilesCorrect, PTL

(* The pointer getFileTableEntry opens the file in is never NULL: with more
   entries than rows one is always free, and the scan cannot miss it
   (commands.c:686). *)
THEOREM EntryIsAlwaysFound == Spec => []EntryIsFound
<1>1. FileInvariant => EntryIsFound
  BY DEF FileInvariant, ScanIsRight, EntryIsFound
<1> QED
  BY <1>1, FilesCorrect, PTL

(* A row with the id of a thread is complete. *)
LEMMA OwnedRowsAreComplete ==
  ASSUME TypeOK, Ownership, FileInvariant, NEW r \in RowIds,
         threadTable[r].tid # NoTid
  PROVE  /\ threadTable[r].startTime
         /\ threadTable[r].pid # NoPid
         /\ threadTable[r].fTable # NoEntry
         /\ threadTable[r].fileName # NoFile
<1> DEFINE row == threadTable[r]
<1>1. row \in ThreadTableRow
  BY DEF TypeOK
<1>2. row.tid \in Tids /\ Owns(row.tid) /\ handle[row.tid] = r
  BY <1>1 DEF Ownership, IdsAreOwners, ThreadTableRow
<1>3. row.startTime /\ row.fTable # NoEntry /\ row.fTable \in Entries
  BY <1>1, <1>2 DEF Ownership, RowIsOwned, ThreadTableRow
<1>4. row.pid # NoPid
  BY <1>3 DEF FileInvariant, RowsInUse
<1>5. fileTable[row.fTable].inode = row.fileName
  BY <1>3 DEF FileInvariant, LogsToItsFile
<1>6. fileTable[row.fTable].inode # NoFile
  BY <1>3, UsedHasFile DEF FileInvariant
<1> QED
  BY <1>3, <1>4, <1>5, <1>6

(* listactive only shows rows that have their thread and their log file
   (commands.c:137-143). *)
THEOREM ListedRowsAreComplete == Spec => []ListedIsComplete
<1>1. TypeOK /\ Ownership /\ FileInvariant => ListedIsComplete
  <2> SUFFICES ASSUME TypeOK, Ownership, FileInvariant, cmd.pc = "listRows",
                      threadTable[cmd.i].startTime
               PROVE  /\ threadTable[cmd.i].tid # NoTid
                      /\ threadTable[cmd.i].fTable # NoEntry
                      /\ threadTable[cmd.i].fileName # NoFile
    BY DEF ListedIsComplete
  <2>1. cmd.i \in RowIds
    BY DEF TypeOK, CommandInRange
  <2>2. threadTable[cmd.i].tid # NoTid
    BY <2>1 DEF FileInvariant, RowsInUse, RowFilled
  <2> QED
    BY <2>1, <2>2, OwnedRowsAreComplete
<1> QED
  BY <1>1, TypeCorrect, OwnershipCorrect, FilesCorrect, PTL

(* webmon reads a row under its mutex while the command thread fills rows
   without it.  Since the thread's id comes last, a row shown with an id is that
   thread's, with its process and its log file; and of the rows without one, only
   the row add is filling is shown, with whatever file name it still has
   (webmon.c:407-439, commands.c:114-123). *)
THEOREM ShownRowsAreConsistent == Spec => []ShownIsConsistent
<1>1. TypeOK /\ Ownership /\ FileInvariant => ShownIsConsistent
  <2> SUFFICES ASSUME TypeOK, Ownership, FileInvariant PROVE ShownIsConsistent
    OBVIOUS
  <2> DEFINE row == threadTable[web.i]
  <2>1. web.i \in RowIds
    BY DEF TypeOK, WebLocals
  <2>2. ASSUME row.startTime, row.tid = NoTid PROVE RowFilled /\ cmd.row = web.i
    BY <2>1, <2>2 DEF FileInvariant, RowsInUse
  <2>3. ASSUME row.tid # NoTid
        PROVE  /\ Owns(row.tid) /\ handle[row.tid] = web.i
               /\ row.pid # NoPid
               /\ row.fTable # NoEntry
               /\ fileTable[row.fTable].inode = row.fileName
    <3>1. Owns(row.tid) /\ handle[row.tid] = web.i
      BY <2>1, <2>3 DEF Ownership, IdsAreOwners
    <3>2. row.pid # NoPid /\ row.fTable # NoEntry
      BY <2>1, <2>3, OwnedRowsAreComplete
    <3>3. fileTable[row.fTable].inode = row.fileName
      BY <2>1, <3>2 DEF FileInvariant, LogsToItsFile
    <3> QED
      BY <3>1, <3>2, <3>3
  <2> QED
    BY <2>2, <2>3 DEF ShownIsConsistent
<1> QED
  BY <1>1, TypeCorrect, OwnershipCorrect, FilesCorrect, PTL

(* Only the end of the scan gives a row another file name: the cleanup keeps
   the old one. *)
LEMMA NamesChangeInScan ==
  ASSUME TypeOK, [Next]_vars, ~(ScanHit \/ OpenLog), NEW r \in RowIds
  PROVE  threadTable'[r].fileName = threadTable[r].fileName
<1>0. /\ threadTable \in [RowIds -> ThreadTableRow]
      /\ cmd \in CommandLocals /\ CommandInRange
  BY DEF TypeOK
<1>1. CASE QuietFiles \/ threadTable' = threadTable
  BY <1>1 DEF QuietFiles, SameUse
<1>2. CASE InitRow
  BY <1>0, <1>2 DEF InitRow, ThreadTableRow
<1>3. CASE \E f \in LogFiles : AddSystem(f)
  <2>1. threadTable' = [threadTable EXCEPT ![SystemRow].pid = SystemPid,
                                           ![SystemRow].startTime = TRUE]
    BY <1>3 DEF AddSystem
  <2> QED
    BY <1>0, <2>1, Ranges DEF ThreadTableRow
<1>4. CASE \E t \in Tids : CreateThread(t)
  BY <1>0, <1>4 DEF CreateThread, ThreadTableRow
<1>5. ASSUME NEW t \in Tids, MonitorRelease(t) \/ SystemRelease(t)
      PROVE  threadTable'[r].fileName = threadTable[r].fileName
  <2>1. threadTable' = [threadTable EXCEPT ![handle[t]] = Cleared(threadTable[handle[t]])]
    BY <1>5 DEF MonitorRelease, SystemRelease, ReleaseRow
  <2> QED
    BY <1>0, <2>1 DEF Cleared, ThreadTableRow
<1>6. CASE UserStep
  <2>1. CASE \/ \E p \in Pids, f \in LogFiles : AddProcess(p, f)
             \/ \E f \in LogFiles : AddExec(f)
    BY <1>1, <2>1 DEF AddProcess, AddExec, tables
  <2>2. CASE ~ \/ \E p \in Pids, f \in LogFiles : AddProcess(p, f)
               \/ \E f \in LogFiles : AddExec(f)
               \/ \E f \in LogFiles : AddSystem(f)
    BY <1>1, <1>6, <2>2, TypedIsQuiet DEF UserStep, CommandTyped
  <2> QED
    BY <1>3, <2>1, <2>2
<1>7. CASE CommandGoesOn
  <2>1. CASE \/ FindRowTaken \/ FindRowFree \/ WaitExec \/ ScanMiss
             \/ \E p \in Children : Fork(p)
    BY <1>1, <2>1 DEF FindRowTaken, FindRowFree, WaitExec, ScanMiss, Fork, tables
  <2>2. CASE ~ \/ FindRowTaken \/ FindRowFree \/ WaitExec \/ ScanMiss
               \/ \E p \in Children : Fork(p)
               \/ InitRow
               \/ \E t \in Tids : CreateThread(t)
    BY <1>1, <1>7, <2>2, CarriedOutIsQuiet, RefusedKeepsFiles
       DEF CommandGoesOn, CommandStep
  <2> QED
    BY <1>2, <1>4, <2>1, <2>2
<1>8. CASE \E t \in Tids : ThreadStep(t)
  <2>1. PICK t \in Tids : MonitorNext(t) \/ SystemNext(t)
    BY <1>8 DEF ThreadStep
  <2>2. CASE pc[t] # "release"
    BY <1>1, <2>1, <2>2, ThreadsAreQuiet
  <2>3. CASE pc[t] = "release"
    <3>1. MonitorRelease(t) \/ SystemRelease(t)
      BY <2>1, <2>3
         DEF MonitorNext, MonitorLockRow, MonitorOpen, MonitorProcessGone,
             MonitorPrint, MonitorPrintFails, MonitorContinue, MonitorTerminate,
             MonitorWait, MonitorRecord, MonitorPost,
             SystemNext, SystemLockRow, SystemPrint, SystemContinue,
             SystemTerminate, SystemRecord, SystemPost
    <3> QED
      BY <1>5, <3>1
  <2> QED
    BY <2>2, <2>3
<1>9. CASE WebmonStep \/ ProcessStep
  BY <1>1, <1>9, EnvironmentIsQuiet DEF WebmonStep, ProcessStep
<1>10. CASE UNCHANGED vars
  BY <1>1, <1>10 DEF vars, tables
<1> QED
  BY <1>6, <1>7, <1>8, <1>9, <1>10 DEF Next, Ended

(* A thread keeps its log file open: while a row logs to an entry, no cleanup
   of another row closes the entry's file and no add opens another in it
   (monitorThread.c:218-234, commands.c:627-690). *)
THEOREM FilesStayOpen == Spec => FileStaysOpen
<1>1. ASSUME TypeOK, Ownership, FileInvariant, [Next]_vars, NEW r \in RowIds,
             threadTable[r].fTable # NoEntry,
             threadTable'[r].fTable = threadTable[r].fTable
      PROVE  fileTable'[threadTable[r].fTable].inode
               = fileTable[threadTable[r].fTable].inode
  <2>0. /\ threadTable \in [RowIds -> ThreadTableRow]
        /\ cmd \in CommandLocals /\ CommandInRange /\ FileInvariant'
    BY <1>1, FilesNext DEF TypeOK
  <2>1. fileTable[threadTable[r].fTable].inode = threadTable[r].fileName
    BY <1>1 DEF FileInvariant, LogsToItsFile
  <2>2. fileTable'[threadTable'[r].fTable].inode = threadTable'[r].fileName
    BY <1>1, <2>0 DEF FileInvariant, LogsToItsFile
  <2>3. CASE ScanHit \/ OpenLog
    <3>1. PICK d \in Entries : UseEntry(d)
      <4>1. CASE ScanHit
        BY <2>0, <4>1 DEF ScanHit, CommandInRange
      <4>2. CASE OpenLog
        <5>1. cmd.entry # NoEntry /\ cmd.entry \in Entries
          BY <1>1, <2>0, <4>2 DEF OpenLog, FileInvariant, ScanIsRight, CommandLocals
        <5> QED
          BY <4>2, <5>1 DEF OpenLog
      <4> QED
        BY <2>3, <4>1, <4>2
    <3>2. cmd.row \in RowIds /\ threadTable[cmd.row].fTable = NoEntry
      BY <1>1, <2>0, <2>3 DEF ScanHit, OpenLog, CommandInRange, FileInvariant,
         RowsInUse, Ownership, AddHasItsRow, RowFilled
    <3>3. r # cmd.row
      BY <1>1, <3>2
    <3>4. threadTable'[r].fileName = threadTable[r].fileName
      BY <2>0, <3>1, <3>2, <3>3 DEF UseEntry, ThreadTableRow
    <3> QED
      BY <1>1, <2>1, <2>2, <3>4
  <2>4. CASE ~(ScanHit \/ OpenLog)
    BY <1>1, <2>1, <2>2, <2>4, NamesChangeInScan
  <2> QED
    BY <2>3, <2>4
<1>2. TypeOK /\ Ownership /\ FileInvariant /\ [Next]_vars
        => [\A r \in RowIds :
              LET e == threadTable[r].fTable
              IN  e # NoEntry /\ threadTable'[r].fTable = e
                    => fileTable'[e].inode = fileTable[e].inode]_vars
  <2> SUFFICES ASSUME TypeOK, Ownership, FileInvariant, [Next]_vars, NEW r \in RowIds,
                      threadTable[r].fTable # NoEntry,
                      threadTable'[r].fTable = threadTable[r].fTable
               PROVE  fileTable'[threadTable[r].fTable].inode
                        = fileTable[threadTable[r].fTable].inode
    OBVIOUS
  <2> QED
    BY <1>1
<1> QED
  BY <1>2, TypeCorrect, OwnershipCorrect, FilesCorrect, PTL DEF Spec, FileStaysOpen

(* The mark a user left on a thread stays until the thread's own cleanup: the
   death of the process does not overwrite it, and the cleanups of other
   threads are on other rows (monitorThread.c:121-123, 243-249). *)
THEOREM RequestsAreKept == Spec => RequestIsKept
<1>1. ASSUME TypeOK, Ownership, [Next]_vars, NEW t \in Tids, Owns(t), Owns(t)',
             threadTable[handle[t]].endStatus \in {"STOPPED", "KILLED"}
      PROVE  threadTable'[handle[t]].endStatus \in {"STOPPED", "KILLED"}
  <2> DEFINE r == handle[t]
  <2>0. /\ threadTable \in [RowIds -> ThreadTableRow] /\ r \in RowIds
        /\ cmd \in CommandLocals /\ CommandInRange /\ pc \in [Tids -> Labels]
        /\ threadTable[r].tid = t
    BY <1>1 DEF TypeOK, Ownership, LiveHaveRows, RowIsOwned, Owns, Live
  <2> HIDE DEF r
  <2>1. CASE \/ threadTable' = threadTable
             \/ \E q \in RowIds, s \in {"STOPPED", "KILLED"} :
                  threadTable' = [threadTable EXCEPT ![q].endStatus = s]
    BY <1>1, <2>0, <2>1 DEF ThreadTableRow, r
  <2>2. CASE threadTable'[r].endStatus = threadTable[r].endStatus
    BY <1>1, <2>2 DEF r
  <2>3. CASE UserStep
    <3>1. CASE \E f \in LogFiles : AddSystem(f)
      <4>1. threadTable'[r].endStatus = threadTable[r].endStatus
        <5>1. threadTable' = [threadTable EXCEPT ![SystemRow].pid = SystemPid,
                                                 ![SystemRow].startTime = TRUE]
          BY <3>1 DEF AddSystem
        <5> QED
          BY <2>0, <5>1, Ranges DEF ThreadTableRow
      <4> QED
        BY <2>2, <4>1
    <3>2. CASE ~\E f \in LogFiles : AddSystem(f)
      <4>1. threadTable' = threadTable
        BY <2>3, <3>2 DEF UserStep, CommandTyped, AddProcess, AddExec, RemoveSystem,
           RemoveThread, KillProcess, ExitMond, StartWebmon, ListActive, ListCompleted,
           tables
      <4> QED
        BY <2>1, <4>1
    <3> QED
      BY <3>1, <3>2
  <2>4. CASE CommandGoesOn
    <3>1. CASE \/ InitRow \/ ScanHit \/ OpenLog \/ FindRowFree \/ WaitExec \/ ScanMiss
               \/ \E p \in Children : Fork(p)
      <4>1. AddGoesOn
        BY <1>1, <3>1, OwnershipAddStep
      <4>2. threadTable'[r].endStatus = threadTable[r].endStatus
        BY <2>0, <4>1 DEF AddGoesOn
      <4> QED
        BY <2>2, <4>2
    <3>2. CASE \E u \in Tids : CreateThread(u)
      <4>1. threadTable'[r].endStatus = threadTable[r].endStatus
        BY <2>0, <3>2 DEF CreateThread, ThreadTableRow
      <4> QED
        BY <2>2, <4>1
    <3>3. CASE StopSystemTid \/ ExitStopSystem
      BY <2>0, <2>1, <3>3, Ranges DEF StopSystemTid, ExitStopSystem, StopRow
    <3>4. CASE StopTid \/ ExitStopRow
      BY <2>0, <2>1, <3>4, Ranges DEF StopTid, ExitStopRow, StopRow, CommandInRange
    <3>5. CASE MarkKilled
      BY <2>0, <2>1, <3>5, Ranges DEF MarkKilled, CommandInRange
    <3>6. CASE ~ \/ InitRow \/ ScanHit \/ OpenLog \/ FindRowFree \/ WaitExec \/ ScanMiss
                 \/ \E p \in Children : Fork(p)
                 \/ \E u \in Tids : CreateThread(u)
                 \/ StopSystemTid \/ ExitStopSystem \/ StopTid \/ ExitStopRow
                 \/ MarkKilled
      <4>1. threadTable' = threadTable
        BY <2>4, <3>6 DEF CommandGoesOn, CommandStep, FindRowTaken, SystemCreated,
           MonitorCreated, ReadSystemTid, FindPid, SignalSent, SignalDenied,
           SignalNoProcess, ExitSystemEnded, ExitMonitorsEnded, ClearList, DestroyList,
           DestroyTables, MainReturns, ListRow, ListLock, ListUnlock, tables,
           AddRefused, ForkFails, StatFails, OpenFails, CreateFails, RefusedAt
      <4> QED
        BY <2>1, <4>1
    <3> QED
      BY <3>1, <3>2, <3>3, <3>4, <3>5, <3>6
  <2>5. CASE \E u \in Tids : ThreadStep(u)
    <3>1. PICK u \in Tids : MonitorNext(u) \/ SystemNext(u)
      BY <2>5 DEF ThreadStep
    <3>2. CASE MonitorProcessGone(u)
      <4>1. CASE threadTable[handle[u]].endStatus # "RUNNING"
        BY <2>1, <3>2, <4>1 DEF MonitorProcessGone, MyRow
      <4>2. CASE threadTable[handle[u]].endStatus = "RUNNING"
        <5>1. handle[u] # r
          BY <1>1, <4>2 DEF r
        <5>2. threadTable'[r].endStatus = threadTable[r].endStatus
          BY <2>0, <3>2, <5>1 DEF MonitorProcessGone
        <5> QED
          BY <2>2, <5>2
      <4> QED
        BY <4>1, <4>2
    <3>3. CASE MonitorRelease(u) \/ SystemRelease(u)
      <4>1. /\ pc[u] = "release" /\ pc' = [pc EXCEPT ![u] = "list"]
            /\ threadTable' = [threadTable EXCEPT ![handle[u]] =
                                  Cleared(threadTable[handle[u]])]
        BY <3>3 DEF MonitorRelease, SystemRelease, ReleaseRow
      <4>2. u # t
        BY <1>1, <2>0, <4>1 DEF Owns
      <4>3. threadTable[handle[u]].tid = u
        BY <1>1, <4>1 DEF Ownership, RowIsOwned, Owns
      <4>4. handle[u] # r
        BY <2>0, <4>2, <4>3
      <4>5. threadTable'[r].endStatus = threadTable[r].endStatus
        BY <2>0, <4>1, <4>4
      <4> QED
        BY <2>2, <4>5
    <3>4. CASE ~MonitorProcessGone(u) /\ ~MonitorRelease(u) /\ ~SystemRelease(u)
      <4>1. threadTable' = threadTable
        BY <3>1, <3>4 DEF MonitorNext, MonitorLockRow, MonitorOpen, MonitorPrint,
           MonitorPrintFails, MonitorContinue, MonitorTerminate, MonitorWait,
           MonitorRecord, MonitorPost, SystemNext, SystemLockRow, SystemPrint,
           SystemContinue, SystemTerminate, SystemRecord, SystemPost, CopyRow, tables
      <4> QED
        BY <2>1, <4>1
    <3> QED
      BY <3>2, <3>3, <3>4
  <2>6. CASE WebmonStep \/ ProcessStep \/ UNCHANGED vars
    <3>1. threadTable' = threadTable
      BY <2>6 DEF WebmonStep, WebmonNext, WebmonRefresh, WebmonShowRow, WebmonLockList,
         WebmonUnlockList, WebmonShowFiles, ProcessStep, ProcessDies, ProcessReaped,
         vars, tables,
         WebmonRefused
    <3> QED
      BY <2>1, <3>1
  <2> QED
    BY <1>1, <2>3, <2>4, <2>5, <2>6 DEF Next, Ended
<1>2. TypeOK /\ Ownership /\ [Next]_vars
        => [\A t \in Tids :
              LET r == handle[t]
              IN  Owns(t) /\ Owns(t)' /\ threadTable[r].endStatus \in {"STOPPED", "KILLED"}
                    => threadTable'[r].endStatus \in {"STOPPED", "KILLED"}]_vars
  BY <1>1
<1> QED
  BY <1>2, TypeCorrect, OwnershipCorrect, PTL DEF Spec, RequestIsKept

-----------------------------------------------------------------------------
(***************************************************************************)
(* What the semaphore of monitor slots promises, for tables of any size:   *)
(* it counts the monitors that are not there, so that add finds a row      *)
(* where it saw a slot and still has the slot when it takes it, and exit   *)
(* ends no sooner than the threads.                                        *)
(***************************************************************************)

(* The set of rows is finite, and so is the set of monitors. *)
LEMMA FiniteMonitors ==
  /\ IsFiniteSet(Rows) /\ Cardinality(Rows) = THREAD_TABLE_SIZE
  /\ IsFiniteSet(Monitors) /\ Cardinality(Monitors) \in Nat
<1>1. /\ THREAD_TABLE_SIZE \in Int /\ MAX_THREADS \in Int /\ 1 \in Int
      /\ THREAD_TABLE_SIZE >= 1
  BY SizesAssumption
<1>2. /\ IsFiniteSet(1..THREAD_TABLE_SIZE)
      /\ Cardinality(1..THREAD_TABLE_SIZE) = THREAD_TABLE_SIZE - 1 + 1
  BY <1>1, FS_Interval
<1>3. IsFiniteSet(1..MAX_THREADS)
  BY <1>1, FS_Interval
<1>4. IsFiniteSet(Monitors)
  BY <1>3, FS_Subset DEF Monitors, Tids
<1> QED
  BY <1>1, <1>2, <1>4, FS_CardinalityType DEF Rows

-----------------------------------------------------------------------------
(* The semaphore and the monitors.                                          *)

(* The set of the monitors is what it was. *)
SameMonitors ==
  \A t \in Tids : (Live(t) /\ IsMonitor(t))' <=> (Live(t) /\ IsMonitor(t))

(* Then the monitors are the same. *)
LEMMA MonitorsStay == SameMonitors => Monitors' = Monitors
  BY DEF SameMonitors, Monitors

(* Steps that neither begin nor end a monitor, and leave the semaphore alone. *)
LEMMA SlotsSame ==
  ASSUME SlotsAreCounted, SameMonitors, availableThreads' = availableThreads,
         SlotNotTakenYet' <=> SlotNotTakenYet
  PROVE  SlotsAreCounted'
<1>1. Monitors' = Monitors
  BY MonitorsStay
<1> QED
  BY <1>1 DEF SlotsAreCounted

(* A quiet step is such a step. *)
LEMMA QuietMonitors == QuietThreads => SameMonitors
  BY DEF QuietThreads, SameMonitors, IsMonitor

(* Every command step but the creation and what follows it. *)
LEMMA SlotsOfCommands ==
  ASSUME TypeOK, Ownership, SlotsAreCounted, UserStep \/ CommandGoesOn,
         ~SystemCreated, ~MonitorCreated, ~\E t \in Tids : CreateThread(t)
  PROVE  SlotsAreCounted'
<1>1. availableThreads' = availableThreads
  BY DEF UserStep, CommandTyped, AddSystem, AddProcess, AddExec, RemoveSystem,
     RemoveThread, KillProcess, ExitMond, StartWebmon, ListActive, ListCompleted,
     CommandGoesOn, CommandStep, FindRowTaken, FindRowFree, Fork, WaitExec,
     InitRow, ScanMiss, ScanHit, OpenLog,
     ReadSystemTid, StopSystemTid, StopTid, FindPid, SignalSent, SignalDenied,
     SignalNoProcess, MarkKilled, ExitStopSystem, ExitStopRow, ExitSystemEnded,
     ExitMonitorsEnded, ClearList, DestroyList, DestroyTables, MainReturns, ListRow,
     ListLock, ListUnlock, globals,
     AddRefused, ForkFails, StatFails, OpenFails, CreateFails, RefusedAt
<1>2. QuietThreads /\ (SlotNotTakenYet' <=> SlotNotTakenYet)
  <2>1. CASE AddGoesOn
    BY <2>1, SameThreads DEF AddGoesOn, SlotNotTakenYet
  <2>2. CASE Quiet /\ (cmd' = cmd \/ CommandElsewhere)
    BY <2>2 DEF Quiet, CommandElsewhere, SlotNotTakenYet
  <2>3. CASE UserStep
    BY <2>1, <2>2, <2>3, QuietTyped, OwnershipAddStep DEF UserStep, CommandTyped
  <2>4. CASE CommandGoesOn
    BY <2>1, <2>2, <2>4, QuietCommand, OwnershipAddStep, RefusedIsQuiet
       DEF CommandGoesOn, CommandStep
  <2> QED
    BY <2>3, <2>4
<1> QED
  BY <1>1, <1>2, SlotsSame, QuietMonitors

(* The creation of a thread: one monitor more, for a slot that is still to be
   taken. *)
LEMMA SlotsCreate ==
  ASSUME TypeOK, Ownership, SlotsAreCounted, NEW t \in Tids, CreateThread(t)
  PROVE  SlotsAreCounted'
<1>0. /\ cmd \in CommandLocals /\ cmd.row \in RowIds
      /\ pc \in [Tids -> Labels] /\ handle \in [Tids -> RowIds \cup {NoRow}]
      /\ availableThreads \in Nat /\ THREAD_TABLE_SIZE \in Nat
  BY SizesAssumption DEF TypeOK, CommandInRange, CreateThread
<1>1. /\ cmd.pc = "create" /\ cmd'.pc = "created" /\ cmd'.row = cmd.row
      /\ pc[t] = "none" /\ pc' = [pc EXCEPT ![t] = "top"]
      /\ handle' = [handle EXCEPT ![t] = cmd.row]
      /\ availableThreads' = availableThreads
  BY <1>0 DEF CreateThread, FreeTids, Goto, CommandLocals, globals
<1>2. /\ ~Live(t) /\ Live(t)' /\ handle'[t] = cmd.row
      /\ \A u \in Tids : u # t => /\ (Live(u)' <=> Live(u))
                                 /\ handle'[u] = handle[u]
  BY <1>0, <1>1 DEF Live
<1>3. ~SlotNotTakenYet /\ (SlotNotTakenYet' <=> cmd.row \in Rows)
  BY <1>1 DEF SlotNotTakenYet
<1>4. CASE cmd.row \in Rows
  <2>1. Monitors' = Monitors \cup {t} /\ t \notin Monitors
    BY <1>2, <1>4 DEF Monitors, IsMonitor
  <2>2. Cardinality(Monitors') = Cardinality(Monitors) + 1
    BY <2>1, FiniteMonitors, FS_AddElement
  <2>3. availableThreads + Cardinality(Monitors) = THREAD_TABLE_SIZE
    BY <1>0, <1>3, FiniteMonitors DEF SlotsAreCounted
  <2>4. availableThreads' + Cardinality(Monitors') = THREAD_TABLE_SIZE + 1
    <3>1. Cardinality(Monitors) \in Nat /\ availableThreads' = availableThreads
      BY <1>1, FiniteMonitors
    <3> DEFINE n == Cardinality(Monitors)
               m == Cardinality(Monitors')
    <3>2. n \in Nat /\ m = n + 1 /\ availableThreads + n = THREAD_TABLE_SIZE
      BY <2>2, <2>3, <3>1
    <3> HIDE DEF n, m
    <3>3. availableThreads' + m = THREAD_TABLE_SIZE + 1
      BY <1>0, <3>1, <3>2
    <3> QED
      BY <3>3 DEF m
  <2> QED
    BY <1>3, <1>4, <2>4 DEF SlotsAreCounted
<1>5. CASE cmd.row \notin Rows
  <2>1. SameMonitors
    BY <1>2, <1>5 DEF SameMonitors, IsMonitor
  <2> QED
    BY <1>1, <1>3, <1>5, <2>1, SlotsSame
<1> QED
  BY <1>4, <1>5

(* The slot is taken. *)
LEMMA SlotsTaken ==
  ASSUME TypeOK, SlotsAreCounted, SystemCreated \/ MonitorCreated
  PROVE  SlotsAreCounted'
<1>0. /\ cmd \in CommandLocals /\ availableThreads \in Nat
      /\ THREAD_TABLE_SIZE \in Nat /\ SystemRow \notin Rows
  BY SizesAssumption DEF TypeOK, SystemRow, Rows
<1>1. pc' = pc /\ handle' = handle /\ cmd.pc = "created" /\ cmd'.pc = "prompt"
  BY DEF SystemCreated, MonitorCreated, Prompt, threads
<1>2. SameMonitors /\ Monitors' = Monitors
  BY <1>1, SameThreads, QuietMonitors, MonitorsStay
<1>3. ~SlotNotTakenYet'
  BY <1>1 DEF SlotNotTakenYet
<1>4. CASE SystemCreated
  <2>1. ~SlotNotTakenYet /\ availableThreads' = availableThreads
    BY <1>0, <1>4 DEF SystemCreated, SlotNotTakenYet
  <2> QED
    BY <1>2, <1>3, <2>1, SlotsSame
<1>5. CASE MonitorCreated
  <2>1. /\ SlotNotTakenYet /\ availableThreads' = availableThreads - 1
    <3>1. cmd.row \in RowIds /\ cmd.row # SystemRow
      BY <1>1, <1>5 DEF MonitorCreated, TypeOK, CommandInRange
    <3>2. cmd.row \in Rows
      BY <3>1 DEF RowIds, Rows, SystemRow
    <3> QED
      BY <1>1, <1>5, <3>2 DEF MonitorCreated, SlotNotTakenYet
  <2>2. availableThreads + Cardinality(Monitors) = THREAD_TABLE_SIZE + 1
    BY <2>1 DEF SlotsAreCounted
  <2>3. availableThreads' + Cardinality(Monitors') = THREAD_TABLE_SIZE
    BY <1>0, <1>2, <2>1, <2>2, FiniteMonitors
  <2>4. THREAD_TABLE_SIZE = THREAD_TABLE_SIZE + (IF SlotNotTakenYet' THEN 1 ELSE 0)
    BY <1>0, <1>3
  <2> QED
    BY <2>3, <2>4 DEF SlotsAreCounted
<1> QED
  BY <1>4, <1>5

(* The steps of the threads: a monitor's last one posts its slot. *)
LEMMA SlotsOfThreads ==
  ASSUME TypeOK, Ownership, SlotsAreCounted, NEW t \in Tids,
         MonitorNext(t) \/ SystemNext(t)
  PROVE  SlotsAreCounted' /\ cmd' = cmd
<1>0. /\ pc \in [Tids -> Labels] /\ handle \in [Tids -> RowIds \cup {NoRow}]
      /\ availableThreads \in Nat /\ THREAD_TABLE_SIZE \in Nat
  BY SizesAssumption DEF TypeOK
<1>1. CASE pc[t] # "post"
  <2>1. availableThreads' = availableThreads /\ cmd' = cmd
    BY <1>1 DEF MonitorNext, MonitorLockRow, MonitorOpen, MonitorProcessGone,
       MonitorPrint, MonitorPrintFails, MonitorContinue, MonitorTerminate,
       MonitorRelease, MonitorWait, MonitorRecord, MonitorPost,
       SystemNext, SystemLockRow, SystemPrint, SystemContinue, SystemTerminate,
       SystemRelease, SystemRecord, SystemPost, globals
  <2>2. SameMonitors
    <3>1. CASE pc[t] # "release"
      BY <1>1, <3>1, QuietMonitor, QuietSystem, QuietMonitors DEF Quiet
    <3>2. CASE pc[t] = "release"
      <4>1. handle' = handle /\ pc' = [pc EXCEPT ![t] = "list"]
        BY <3>2 DEF MonitorNext, MonitorLockRow, MonitorOpen, MonitorProcessGone,
           MonitorPrint, MonitorPrintFails, MonitorContinue, MonitorTerminate,
           MonitorRelease, MonitorWait, MonitorRecord, MonitorPost,
           SystemNext, SystemLockRow, SystemPrint, SystemContinue, SystemTerminate,
           SystemRelease, SystemRecord, SystemPost
      <4> QED
        BY <1>0, <3>2, <4>1 DEF SameMonitors, Live, IsMonitor
    <3> QED
      BY <3>1, <3>2
  <2> QED
    BY <2>1, <2>2, SlotsSame DEF SlotNotTakenYet
<1>2. CASE pc[t] = "post"
  <2>1. /\ (MonitorPost(t) /\ IsMonitor(t)) \/ (SystemPost(t) /\ IsSystem(t))
        /\ cmd' = cmd
    BY <1>2 DEF MonitorNext, MonitorLockRow, MonitorOpen, MonitorProcessGone,
       MonitorPrint, MonitorPrintFails, MonitorContinue, MonitorTerminate,
       MonitorRelease, MonitorWait, MonitorRecord, MonitorPost,
       SystemNext, SystemLockRow, SystemPrint, SystemContinue, SystemTerminate,
       SystemRelease, SystemRecord, SystemPost
  <2>2. pc' = [pc EXCEPT ![t] = "done"] /\ handle' = [handle EXCEPT ![t] = NoRow]
    BY <2>1 DEF MonitorPost, SystemPost, EndThread
  <2>3. /\ Live(t) /\ ~Live(t)'
        /\ \A u \in Tids : u # t => /\ (Live(u)' <=> Live(u)) /\ handle'[u] = handle[u]
    BY <1>0, <1>2, <2>2 DEF Live
  <2>4. SlotNotTakenYet' <=> SlotNotTakenYet
    BY <2>1 DEF SlotNotTakenYet
  <2>5. CASE MonitorPost(t) /\ IsMonitor(t)
    <3>1. Monitors' = Monitors \ {t} /\ t \in Monitors
      BY <2>3, <2>5 DEF Monitors, IsMonitor
    <3>2. Cardinality(Monitors') = Cardinality(Monitors) - 1
      BY <3>1, FiniteMonitors, FS_RemoveElement
    <3>3. availableThreads' = availableThreads + 1
      BY <2>5 DEF MonitorPost
    <3>4. availableThreads' + Cardinality(Monitors')
            = availableThreads + Cardinality(Monitors)
      BY <1>0, <3>2, <3>3, FiniteMonitors
    <3> QED
      BY <2>1, <2>4, <3>4 DEF SlotsAreCounted
  <2>6. CASE SystemPost(t) /\ IsSystem(t)
    <3>1. ~IsMonitor(t)
      BY <2>6 DEF IsSystem, IsMonitor, SystemRow, Rows
    <3>2. SameMonitors
      BY <2>3, <3>1 DEF SameMonitors, IsMonitor
    <3>3. availableThreads' = availableThreads
      BY <2>6 DEF SystemPost
    <3> QED
      BY <2>1, <2>4, <3>2, <3>3, SlotsSame
  <2> QED
    BY <2>1, <2>5, <2>6
<1> QED
  BY <1>1, <1>2

(* Every step keeps the count. *)
LEMMA SlotsNext ==
  ASSUME TypeOK, Ownership, SlotsAreCounted, [Next]_vars
  PROVE  SlotsAreCounted'
<1>1. CASE UserStep \/ CommandGoesOn
  BY <1>1, SlotsOfCommands, SlotsCreate, SlotsTaken
<1>2. CASE \E t \in Tids : ThreadStep(t)
  BY <1>2, SlotsOfThreads DEF ThreadStep
<1>3. CASE WebmonStep \/ ProcessStep \/ UNCHANGED vars
  <2>1. UNCHANGED <<cmd, availableThreads, pc, handle>>
    BY <1>3 DEF WebmonStep, WebmonNext, WebmonRefresh, WebmonShowRow,
       WebmonLockList, WebmonUnlockList, WebmonShowFiles, ProcessStep, ProcessDies,
       ProcessReaped, vars, globals, threads,
       WebmonRefused
  <2> QED
    BY <2>1, SameThreads, QuietMonitors, SlotsSame DEF SlotNotTakenYet
<1> QED
  BY <1>1, <1>2, <1>3 DEF Next, Ended

(* At the start no slot is taken. *)
LEMMA SlotsInit == Init => SlotsAreCounted
<1> SUFFICES ASSUME Init PROVE SlotsAreCounted
  OBVIOUS
<1>1. Monitors = {}
  BY DEF Init, Monitors, Live
<1>2. ~SlotNotTakenYet /\ availableThreads = THREAD_TABLE_SIZE
  BY DEF Init, Prompt, SlotNotTakenYet
<1> QED
  BY <1>1, <1>2, FS_EmptySet, SizesAssumption DEF SlotsAreCounted

(* The semaphore counts the monitors that are not there, for ever
   (commands.c:129, monitorThread.c:331). *)
THEOREM SlotsAreWellCounted == Spec => []SlotsAreCounted
<1>1. Init => TypeOK /\ Ownership /\ SlotsAreCounted
  BY TypeInit, OwnershipInit, SlotsInit
<1>2. TypeOK /\ Ownership /\ SlotsAreCounted /\ [Next]_vars
        => (TypeOK /\ Ownership /\ SlotsAreCounted)'
  BY TypeNext, OwnershipNext, SlotsNext
<1> QED
  BY <1>1, <1>2, PTL DEF Spec

-----------------------------------------------------------------------------
(* A row for every slot.                                                    *)

(* With a slot free and no addition under way some row is free: the started
   rows have as many threads, each with its own row. *)
LEMMA SomeRowIsFree ==
  ASSUME TypeOK, Ownership, FileInvariant, SlotsAreCounted,
         cmd.pc = "prompt", availableThreads > 0
  PROVE  \E r \in Rows : ~threadTable[r].startTime
<1> SUFFICES ASSUME \A r \in Rows : threadTable[r].startTime
             PROVE  FALSE
  OBVIOUS
<1> DEFINE user == [r \in Rows |-> threadTable[r].tid]
<1>1. \A r \in Rows : /\ threadTable[r].tid \in Monitors
                      /\ handle[threadTable[r].tid] = r
  <2> SUFFICES ASSUME NEW r \in Rows
               PROVE  threadTable[r].tid \in Monitors /\ handle[threadTable[r].tid] = r
    OBVIOUS
  <2>1. r \in RowIds /\ threadTable[r] \in ThreadTableRow
    BY Ranges DEF TypeOK
  <2>2. threadTable[r].tid # NoTid
    BY <2>1 DEF FileInvariant, RowsInUse, RowFilled
  <2>3. /\ threadTable[r].tid \in Tids /\ Owns(threadTable[r].tid)
        /\ handle[threadTable[r].tid] = r
    BY <2>1, <2>2 DEF Ownership, IdsAreOwners, ThreadTableRow
  <2> QED
    BY <2>3 DEF Monitors, IsMonitor, Owns, Live
<1>2. user \in [Rows -> Monitors]
  BY <1>1
<1>3. Cardinality(Monitors) < Cardinality(Rows)
  <2>1. availableThreads + Cardinality(Monitors) = THREAD_TABLE_SIZE
    BY SizesAssumption, FiniteMonitors DEF SlotsAreCounted, SlotNotTakenYet, TypeOK
  <2>2. availableThreads \in Nat /\ Cardinality(Monitors) \in Nat
    BY FiniteMonitors DEF TypeOK
  <2>3. Cardinality(Monitors) < THREAD_TABLE_SIZE
    BY <2>1, <2>2, SizesAssumption
  <2> QED
    BY <2>3, FiniteMonitors
<1>4. \A q, r \in Rows : q # r => user[q] # user[r]
  BY <1>1
<1> HIDE DEF user
<1>5. \E q, r \in Rows : q # r /\ user[q] = user[r]
  BY <1>2, <1>3, FiniteMonitors, FS_PigeonHole
<1> QED
  BY <1>4, <1>5

(* No step but those of add that follow the search starts a row. *)
LEMMA RowsStayFree ==
  ASSUME TypeOK, NEW t \in Tids, MonitorNext(t) \/ SystemNext(t), NEW r \in RowIds,
         threadTable'[r].startTime
  PROVE  threadTable[r].startTime
<1>0. threadTable \in [RowIds -> ThreadTableRow]
  BY DEF TypeOK
<1>1. CASE pc[t] # "release"
  BY <1>1, ThreadsAreQuiet DEF QuietFiles, SameUse
<1>2. CASE pc[t] = "release"
  <2>1. threadTable' = [threadTable EXCEPT ![handle[t]] = Cleared(threadTable[handle[t]])]
    BY <1>2 DEF MonitorNext, MonitorLockRow, MonitorOpen, MonitorProcessGone,
       MonitorPrint, MonitorPrintFails, MonitorContinue, MonitorTerminate,
       MonitorRelease, MonitorWait, MonitorRecord, MonitorPost,
       SystemNext, SystemLockRow, SystemPrint, SystemContinue, SystemTerminate,
       SystemRelease, SystemRecord, SystemPost, ReleaseRow
  <2>2. CASE handle[t] = r
    <3>1. threadTable'[r] = Cleared(threadTable[r]) /\ threadTable[r] \in ThreadTableRow
      BY <1>0, <2>1, <2>2
    <3>2. threadTable'[r].startTime = FALSE
      BY <3>1 DEF Cleared, ThreadTableRow
    <3> QED
      BY <3>2
  <2>3. CASE handle[t] # r
    <3>1. threadTable'[r] = threadTable[r]
      BY <1>0, <2>1, <2>3
    <3> QED
      BY <3>1
  <2> QED
    BY <2>2, <2>3
<1> QED
  BY <1>1, <1>2

(* Every step of the program keeps a free row ahead of the search. *)
LEMMA RowNext ==
  ASSUME TypeOK, Ownership, FileInvariant, SlotsAreCounted, RowIsFound, [Next]_vars
  PROVE  RowIsFound'
<1>0. /\ cmd \in CommandLocals /\ CommandInRange /\ Rows \subseteq RowIds
      /\ Rows \subseteq Nat
  BY Ranges DEF TypeOK, Rows
<1>1. ASSUME cmd' = cmd,
             \A r \in RowIds : threadTable'[r].startTime => threadTable[r].startTime
      PROVE  RowIsFound'
  <2>1. cmd.pc = "findRow" => cmd.i \in Rows
    BY <1>0 DEF CommandInRange
  <2> QED
    BY <1>0, <1>1, <2>1 DEF RowIsFound
<1>2. CASE cmd'.pc # "findRow"
  BY <1>2 DEF RowIsFound
<1>3. CASE \/ \E p \in Pids, f \in LogFiles : AddProcess(p, f)
           \/ \E f \in LogFiles : AddExec(f)
  <2>1. /\ cmd.pc = "prompt" /\ availableThreads > 0
        /\ cmd'.i = 1 /\ threadTable' = threadTable
    BY <1>3 DEF AddProcess, AddExec, Typed, Prompt, tables
  <2>2. \E r \in Rows : ~threadTable[r].startTime
    BY <2>1, SomeRowIsFree
  <2>3. \A r \in Rows : r >= 1
    BY DEF Rows
  <2> QED
    BY <2>1, <2>2, <2>3 DEF RowIsFound
<1>4. CASE FindRowTaken
  <2>1. /\ cmd.pc = "findRow" /\ threadTable[cmd.i].startTime
        /\ threadTable' = threadTable /\ cmd.i \in Rows
    BY <1>0, <1>4 DEF FindRowTaken, CommandInRange, tables
  <2>2. PICK r \in Rows : r >= cmd.i /\ ~threadTable[r].startTime
    BY <2>1 DEF RowIsFound
  <2>3. r # cmd.i /\ r >= cmd.i + 1
    <3>1. r # cmd.i
      BY <2>1, <2>2
    <3>2. cmd.i \in Nat /\ r \in Nat
      BY <1>0, <2>1, <2>2
    <3> DEFINE i == cmd.i
    <3>3. i \in Nat /\ r >= i /\ r # i
      BY <2>2, <3>1, <3>2
    <3> HIDE DEF i
    <3>4. r >= i + 1
      BY <3>2, <3>3
    <3> QED
      BY <3>1, <3>4 DEF i
  <2>4. cmd' = Prompt \/ cmd' = [cmd EXCEPT !.i = cmd.i + 1]
    BY <1>4 DEF FindRowTaken
  <2>5. cmd'.pc = "findRow" => cmd'.i = cmd.i + 1
    BY <1>0, <2>4 DEF Prompt, CommandLocals
  <2> QED
    BY <2>1, <2>2, <2>3, <2>5 DEF RowIsFound
<1>5. CASE UserStep
  <2>1. CASE \E f \in LogFiles : AddSystem(f)
    <3>1. cmd'.pc = "scan"
      BY <2>1 DEF AddSystem, Prompt
    <3> QED
      BY <1>2, <3>1
  <2>2. CASE ~ \/ \E p \in Pids, f \in LogFiles : AddProcess(p, f)
               \/ \E f \in LogFiles : AddExec(f)
               \/ \E f \in LogFiles : AddSystem(f)
    BY <1>1, <1>2, <1>5, <2>2, TypedIsQuiet
       DEF UserStep, CommandTyped, QuietFiles, SameUse, NotAdding
  <2> QED
    BY <1>3, <2>1, <2>2
<1>6. CASE CommandGoesOn
  <2>1. CASE \/ FindRowFree \/ WaitExec \/ InitRow \/ ScanMiss \/ ScanHit
             \/ \E p \in Children : Fork(p)
             \/ \E t \in Tids : CreateThread(t)
    <3>0. Prompt.pc = "prompt"
      BY DEF Prompt
    <3>1. cmd'.pc \in {"fork", "init", "waitExec", "prompt", "scan", "openLog", "create",
                       "created"}
      <4>1. CASE FindRowFree \/ InitRow \/ \E p \in Children : Fork(p)
        BY <1>0, <4>1 DEF FindRowFree, Fork, InitRow, CommandLocals
      <4>2. CASE WaitExec
        BY <1>0, <3>0, <4>2 DEF WaitExec, CommandLocals
      <4>3. CASE ScanMiss \/ ScanHit
        BY <1>0, <4>3 DEF ScanMiss, ScanHit, UseEntry, CommandLocals
      <4>4. CASE \E t \in Tids : CreateThread(t)
        BY <1>0, <4>4 DEF CreateThread, Goto, CommandLocals
      <4> QED
        BY <2>1, <4>1, <4>2, <4>3, <4>4
    <3> QED
      BY <1>2, <3>1
  <2>2. CASE OpenLog
    <3>1. cmd'.pc \in {"openLog", "create"}
      BY <1>0, <2>2 DEF OpenLog, UseEntry, CommandLocals
    <3> QED
      BY <1>2, <3>1
  <2>3. CASE ~ \/ FindRowTaken \/ FindRowFree \/ WaitExec \/ InitRow \/ ScanMiss
               \/ ScanHit \/ OpenLog
               \/ \E p \in Children : Fork(p)
               \/ \E t \in Tids : CreateThread(t)
    BY <1>1, <1>2, <1>6, <2>3, CarriedOutIsQuiet
       DEF CommandGoesOn, CommandStep, QuietFiles, SameUse, NotAdding,
       AddRefused, ForkFails, StatFails, OpenFails, CreateFails, RefusedAt
  <2> QED
    BY <1>4, <2>1, <2>2, <2>3
<1>7. CASE \E t \in Tids : ThreadStep(t)
  BY <1>1, <1>7, SlotsOfThreads, RowsStayFree DEF ThreadStep
<1>8. CASE WebmonStep \/ ProcessStep
  BY <1>1, <1>8, EnvironmentIsQuiet DEF WebmonStep, ProcessStep, QuietFiles, SameUse
<1>9. CASE UNCHANGED vars
  BY <1>1, <1>9 DEF vars, tables
<1> QED
  BY <1>5, <1>6, <1>7, <1>8, <1>9 DEF Next, Ended

(* The search of add finds a row, though rows are freed and slots posted while
   it goes on: the slot seen at the prompt stands for a row that no one else
   takes (mond.c:183, commands.c:71). *)
THEOREM RowIsAlwaysFound == Spec => []RowIsFound
<1>1. Init => RowIsFound
  BY DEF Init, Prompt, RowIsFound
<1>2. TypeOK /\ Ownership /\ FileInvariant /\ SlotsAreCounted /\ RowIsFound /\ [Next]_vars
        => RowIsFound'
  BY RowNext
<1> QED
  BY <1>1, <1>2, TypeCorrect, OwnershipCorrect, FilesCorrect, SlotsAreWellCounted, PTL
     DEF Spec

-----------------------------------------------------------------------------
(* exit.                                                                    *)

(* exitMond polls the flag and then the semaphore; what it saw stays true, for
   it was the last who could start a thread. *)
Ending == cmd.pc = "waitMonitors" \/ Teardown

ThreadsHaveEnded ==
  /\ Ending => systemThreadState = "NOT_RUNNING"
  /\ Teardown => availableThreads = THREAD_TABLE_SIZE

(* In the teardown no thread lives. *)
LEMMA NoThreadIsLeft ==
  ASSUME TypeOK, Ownership, SlotsAreCounted, ThreadsHaveEnded, Teardown
  PROVE  \A t \in Tids : ~Live(t)
<1>1. ~SlotNotTakenYet /\ ~FlagNotSetYet
  BY DEF Teardown, SlotNotTakenYet, FlagNotSetYet
<1>2. Monitors = {}
  <2>1. availableThreads + Cardinality(Monitors) = THREAD_TABLE_SIZE
    BY <1>1, SizesAssumption, FiniteMonitors DEF SlotsAreCounted, TypeOK
  <2>2. availableThreads = THREAD_TABLE_SIZE
    BY DEF ThreadsHaveEnded
  <2>3. Cardinality(Monitors) \in Nat
    BY FiniteMonitors
  <2>4. Cardinality(Monitors) = 0
    BY <2>1, <2>2, <2>3, SizesAssumption
  <2> QED
    BY <2>4, FiniteMonitors, FS_EmptySet
<1>3. \A t \in Tids : Live(t) => ~IsSystem(t)
  BY <1>1 DEF Ownership, FlagIsRight, ThreadsHaveEnded, Ending
<1>4. \A t \in Tids : Live(t) => handle[t] \in RowIds
  BY DEF Ownership, LiveHaveRows
<1>5. \A t \in Tids : Live(t) => ~IsMonitor(t)
  BY <1>2 DEF Monitors
<1>6. \A r \in RowIds : r = SystemRow \/ r \in Rows
  BY DEF RowIds, Rows, SystemRow
<1> QED
  BY <1>3, <1>4, <1>5, <1>6 DEF IsSystem, IsMonitor

(* Where the commands may lead to the end of the program. *)
LEMMA CommandsEnd ==
  ASSUME TypeOK, UserStep \/ CommandGoesOn
  PROVE  \/ cmd' = cmd
         \/ ~Ending'
         \/ ExitSystemEnded \/ ExitMonitorsEnded
         \/ ClearList \/ DestroyList \/ DestroyTables
<1>0. cmd \in CommandLocals
  BY DEF TypeOK
<1> DEFINE Elsewhere == {"prompt", "findRow", "fork", "waitExec", "init", "scan",
                         "openLog", "create", "created", "readSystemTid",
                         "stopSystemTid", "stopTid", "findPid", "signal", "markKilled",
                         "exitSystem", "exitRows", "waitSystem", "listRows", "lockList",
                         "listing"}
<1>1. cmd'.pc \in Elsewhere => ~Ending'
  BY DEF Ending, Teardown
<1>2. Prompt.pc = "prompt"
  BY DEF Prompt
<1>3. CASE UserStep
  <2>1. CASE StartWebmon
    BY <2>1 DEF StartWebmon
  <2>2. CASE \/ \E f \in LogFiles : AddSystem(f)
             \/ \E p \in Pids, f \in LogFiles : AddProcess(p, f)
             \/ \E f \in LogFiles : AddExec(f)
    <3>1. cmd'.pc \in Elsewhere
      BY <2>2 DEF AddSystem, AddProcess, AddExec, Prompt
    <3> QED
      BY <1>1, <3>1
  <2>3. CASE \/ RemoveSystem \/ ExitMond \/ ListActive \/ ListCompleted
             \/ \E t \in Tids : RemoveThread(t)
             \/ \E p \in Pids : KillProcess(p)
    <3>1. cmd'.pc \in Elsewhere
      BY <1>0, <2>3 DEF RemoveSystem, ExitMond, ListActive, ListCompleted,
         RemoveThread, KillProcess, Goto, CommandLocals
    <3> QED
      BY <1>1, <3>1
  <2> QED
    BY <1>3, <2>1, <2>2, <2>3 DEF UserStep, CommandTyped
<1>4. CASE CommandGoesOn
  <2>1. CASE FindRowTaken \/ FindRowFree \/ InitRow \/ \E p \in Children : Fork(p)
    <3>1. cmd'.pc \in Elsewhere
      <4>1. CASE FindRowTaken
        <5>1. cmd.pc = "findRow" /\ (cmd' = Prompt \/ cmd' = [cmd EXCEPT !.i = cmd.i + 1])
          BY <4>1 DEF FindRowTaken
        <5> QED
          BY <1>0, <1>2, <5>1 DEF CommandLocals
      <4>2. CASE FindRowFree \/ InitRow \/ \E p \in Children : Fork(p)
        BY <1>0, <4>2 DEF FindRowFree, InitRow, Fork, CommandLocals
      <4> QED
        BY <2>1, <4>1, <4>2
    <3> QED
      BY <1>1, <3>1
  <2>2. CASE WaitExec
    <3>1. cmd'.pc \in Elsewhere
      BY <1>0, <1>2, <2>2 DEF WaitExec, CommandLocals
    <3> QED
      BY <1>1, <3>1
  <2>3. CASE ScanMiss \/ ScanHit
    <3>1. cmd'.pc \in Elsewhere
      BY <1>0, <2>3 DEF ScanMiss, ScanHit, UseEntry, CommandLocals
    <3> QED
      BY <1>1, <3>1
  <2>4. CASE OpenLog
    <3>1. cmd' = cmd \/ cmd'.pc \in Elsewhere
      BY <1>0, <2>4 DEF OpenLog, UseEntry, CommandLocals
    <3> QED
      BY <1>1, <3>1
  <2>5. CASE SystemCreated \/ MonitorCreated \/ \E t \in Tids : CreateThread(t)
    <3>1. cmd'.pc \in Elsewhere
      BY <1>0, <1>2, <2>5 DEF SystemCreated, MonitorCreated, CreateThread, Goto, CommandLocals
    <3> QED
      BY <1>1, <3>1
  <2>6. CASE ReadSystemTid \/ SignalSent \/ SignalDenied \/ MarkKilled
    <3>1. cmd'.pc \in Elsewhere
      BY <1>0, <1>2, <2>6 DEF ReadSystemTid, SignalSent, SignalDenied, MarkKilled, Goto,
         CommandLocals
    <3> QED
      BY <1>1, <3>1
  <2>7. CASE StopSystemTid
    <3>1. cmd' = Prompt \/ cmd' = [cmd EXCEPT !.pc = "stopTid", !.i = 1]
      BY <2>7 DEF StopSystemTid
    <3>2. cmd'.pc \in Elsewhere
      BY <1>0, <1>2, <3>1 DEF CommandLocals
    <3> QED
      BY <1>1, <3>2
  <2>8. CASE StopTid \/ ListRow
    <3>1. /\ cmd.pc \in {"stopTid", "listRows"}
          /\ cmd' = Prompt \/ cmd' = [cmd EXCEPT !.i = cmd.i + 1]
      BY <2>8 DEF StopTid, ListRow
    <3>2. cmd'.pc \in Elsewhere
      BY <1>0, <1>2, <3>1 DEF CommandLocals
    <3> QED
      BY <1>1, <3>2
  <2>9. CASE FindPid
    <3>1. /\ cmd.pc = "findPid"
          /\ \/ cmd' = Prompt
             \/ cmd' = [cmd EXCEPT !.i = cmd.i + 1]
             \/ cmd' = [cmd EXCEPT !.pc = "signal", !.row = cmd.i]
      BY <2>9 DEF FindPid
    <3>2. cmd'.pc \in Elsewhere
      BY <1>0, <1>2, <3>1 DEF CommandLocals
    <3> QED
      BY <1>1, <3>2
  <2>10. CASE SignalNoProcess \/ MainReturns
    BY <2>10 DEF SignalNoProcess, MainReturns
  <2>11. CASE ExitStopSystem \/ ListLock \/ ListUnlock
    <3>1. cmd'.pc \in Elsewhere
      BY <1>0, <1>2, <2>11 DEF ExitStopSystem, ListLock, ListUnlock, Goto, CommandLocals
    <3> QED
      BY <1>1, <3>1
  <2>12. CASE ExitStopRow
    <3>1. /\ cmd.pc = "exitRows"
          /\ \/ cmd' = [cmd EXCEPT !.pc = "waitSystem", !.i = 0]
             \/ cmd' = [cmd EXCEPT !.i = cmd.i + 1]
      BY <2>12 DEF ExitStopRow
    <3>2. cmd'.pc \in Elsewhere
      BY <1>0, <3>1 DEF CommandLocals
    <3> QED
      BY <1>1, <3>2
  <2> QED
    BY <1>4, <2>1, <2>2, <2>3, <2>4, <2>5, <2>6, <2>7, <2>8, <2>9, <2>10, <2>11, <2>12
       DEF CommandGoesOn, CommandStep,
       AddRefused, ForkFails, StatFails, OpenFails, CreateFails, RefusedAt
<1> QED
  BY <1>3, <1>4

(* Every step keeps what exitMond saw. *)
LEMMA EndingNext ==
  ASSUME TypeOK, Ownership, SlotsAreCounted, ThreadsHaveEnded, [Next]_vars
  PROVE  ThreadsHaveEnded'
<1>0. cmd \in CommandLocals /\ availableThreads \in Nat
  BY DEF TypeOK
<1>1. ASSUME cmd' = cmd, systemThreadState' = systemThreadState,
             availableThreads' = availableThreads
      PROVE  ThreadsHaveEnded'
  BY <1>1 DEF ThreadsHaveEnded, Ending, Teardown
<1>2. CASE UserStep \/ CommandGoesOn
  <2>1. CASE ~Ending'
    BY <2>1 DEF ThreadsHaveEnded, Ending
  <2>2. CASE ExitSystemEnded
    <3>1. cmd'.pc = "waitMonitors" /\ systemThreadState' = "NOT_RUNNING"
      BY <1>0, <2>2 DEF ExitSystemEnded, Goto, globals, CommandLocals
    <3> QED
      BY <3>1 DEF ThreadsHaveEnded, Teardown
  <2>3. CASE ExitMonitorsEnded
    <3>1. /\ cmd.pc = "waitMonitors" /\ systemThreadState' = systemThreadState
          /\ availableThreads' = THREAD_TABLE_SIZE
      BY <2>3 DEF ExitMonitorsEnded, globals
    <3> QED
      BY <3>1 DEF ThreadsHaveEnded, Ending
  <2>4. CASE ClearList \/ DestroyList \/ DestroyTables
    <3>1. /\ Teardown /\ systemThreadState' = systemThreadState
          /\ availableThreads' = availableThreads
      BY <2>4 DEF ClearList, DestroyList, DestroyTables, Teardown, globals
    <3> QED
      BY <3>1 DEF ThreadsHaveEnded, Ending
  <2>5. CASE cmd' = cmd /\ Ending
    <3>1. UNCHANGED <<systemThreadState, availableThreads>>
      <4>1. CASE UserStep
        BY <4>1 DEF UserStep, CommandTyped, AddSystem, AddProcess, AddExec,
           RemoveSystem, RemoveThread, KillProcess, ExitMond, StartWebmon, ListActive,
           ListCompleted, globals
      <4>2. CASE CommandGoesOn
        BY <2>5, <4>2 DEF Ending, Teardown, CommandGoesOn, CommandStep, FindRowTaken,
           FindRowFree, Fork, WaitExec, InitRow, ScanMiss, ScanHit, OpenLog,
           CreateThread, SystemCreated, MonitorCreated, ReadSystemTid, StopSystemTid,
           StopTid, FindPid, SignalSent, SignalDenied, SignalNoProcess, MarkKilled,
           ExitStopSystem, ExitStopRow, ExitSystemEnded, ExitMonitorsEnded, ClearList,
           DestroyList, DestroyTables, MainReturns, ListRow, ListLock, ListUnlock,
           globals,
           AddRefused, ForkFails, StatFails, OpenFails, CreateFails, RefusedAt
      <4> QED
        BY <1>2, <4>1, <4>2
    <3> QED
      BY <1>1, <2>5, <3>1
  <2>6. CASE cmd' = cmd /\ ~Ending
    BY <2>1, <2>6 DEF Ending, Teardown
  <2> QED
    BY <1>2, <2>1, <2>2, <2>3, <2>4, <2>5, <2>6, CommandsEnd
<1>3. CASE \E t \in Tids : ThreadStep(t)
  <2>1. PICK t \in Tids : MonitorNext(t) \/ SystemNext(t)
    BY <1>3 DEF ThreadStep
  <2>2. cmd' = cmd
    BY <2>1, SlotsOfThreads
  <2>3. pc[t] # "none" /\ pc[t] # "done"
    BY <2>1 DEF MonitorNext, MonitorLockRow, MonitorOpen, MonitorProcessGone,
       MonitorPrint, MonitorPrintFails, MonitorContinue, MonitorTerminate,
       MonitorRelease, MonitorWait, MonitorRecord, MonitorPost,
       SystemNext, SystemLockRow, SystemPrint, SystemContinue, SystemTerminate,
       SystemRelease, SystemRecord, SystemPost
  <2>4. ~Teardown
    BY <2>3, NoThreadIsLeft DEF Live
  <2>5. systemThreadState' \in {systemThreadState, "NOT_RUNNING"}
    BY <2>1 DEF MonitorNext, MonitorLockRow, MonitorOpen, MonitorProcessGone,
       MonitorPrint, MonitorPrintFails, MonitorContinue, MonitorTerminate,
       MonitorRelease, MonitorWait, MonitorRecord, MonitorPost,
       SystemNext, SystemLockRow, SystemPrint, SystemContinue, SystemTerminate,
       SystemRelease, SystemRecord, SystemPost, globals
  <2> QED
    BY <2>2, <2>4, <2>5 DEF ThreadsHaveEnded, Ending, Teardown
<1>4. CASE WebmonStep \/ ProcessStep \/ UNCHANGED vars
  <2>1. UNCHANGED <<cmd, availableThreads, systemThreadState>>
    BY <1>4 DEF WebmonStep, WebmonNext, WebmonRefresh, WebmonShowRow,
       WebmonLockList, WebmonUnlockList, WebmonShowFiles, ProcessStep, ProcessDies,
       ProcessReaped, vars, globals,
       WebmonRefused
  <2> QED
    BY <1>1, <2>1
<1> QED
  BY <1>2, <1>3, <1>4 DEF Next, Ended

(* At the start mond is not ending. *)
LEMMA EndingInit == Init => ThreadsHaveEnded
  BY DEF Init, Prompt, ThreadsHaveEnded, Ending, Teardown

(* What exitMond saw stays true to the program's end. *)
THEOREM ThreadsStayEnded == Spec => []ThreadsHaveEnded
<1>1. TypeOK /\ Ownership /\ SlotsAreCounted /\ ThreadsHaveEnded /\ [Next]_vars
        => ThreadsHaveEnded'
  BY EndingNext
<1> QED
  BY <1>1, EndingInit, TypeCorrect, OwnershipCorrect, SlotsAreWellCounted, PTL DEF Spec

(* main takes the program apart only when no thread is left to use its tables,
   and by then every log file has been closed by its last user
   (commands.c:578-595, mond.c:353-357). *)
THEOREM ExitWaitsForAll == Spec => []ExitWaits
<1>1. TypeOK /\ Ownership /\ FileInvariant /\ SlotsAreCounted /\ ThreadsHaveEnded => ExitWaits
  <2> SUFFICES ASSUME TypeOK, Ownership, FileInvariant, SlotsAreCounted,
                      ThreadsHaveEnded, Teardown
               PROVE  /\ \A t \in Tids : ~Live(t)
                      /\ \A e \in Entries : fileTable[e] = ZeroEntry
    BY DEF ExitWaits
  <2>1. \A t \in Tids : ~Live(t)
    BY NoThreadIsLeft
  <2>2. \A r \in RowIds : threadTable[r].fTable = NoEntry
    <3> SUFFICES ASSUME NEW r \in RowIds, threadTable[r].fTable # NoEntry
                 PROVE  FALSE
      OBVIOUS
    <3>1. threadTable[r].tid # NoTid
      BY DEF FileInvariant, RowsInUse, Teardown
    <3>2. threadTable[r].tid \in Tids
      BY <3>1 DEF TypeOK, ThreadTableRow
    <3>3. Owns(threadTable[r].tid)
      BY <3>1 DEF Ownership, IdsAreOwners
    <3> QED
      BY <2>1, <3>2, <3>3 DEF Owns, Live
  <2>3. ASSUME NEW e \in Entries PROVE fileTable[e] = ZeroEntry
    <3>1. {r \in RowIds : threadTable[r].fTable = e} = {}
      BY <2>2 DEF Entries, NoEntry
    <3>2. fileTable[e].count = 0
      BY <3>1, FS_EmptySet DEF FileInvariant, CountIsUsers
    <3>3. fileTable[e].inode = NoFile
      BY <3>2 DEF FileInvariant, UnusedHaveNoFile
    <3>4. fileTable[e] \in FileTableRow
      BY DEF TypeOK
    <3> QED
      BY <3>2, <3>3, <3>4 DEF FileTableRow, ZeroEntry
  <2> QED
    BY <2>1, <2>3
<1> QED
  BY <1>1, TypeCorrect, OwnershipCorrect, FilesCorrect, SlotsAreWellCounted,
     ThreadsStayEnded, PTL
-----------------------------------------------------------------------------
(* The slot that add saw free is still there when it takes it.              *)

USE SizesAssumption, NamesAssumption
    DEF SizesAssumption, NamesAssumption, tables, globals, threads

(* add is on its way to take a slot. *)
SlotWanted ==
  \/ cmd.pc = "findRow" \/ RowChosen
  \/ (RowFilled \/ cmd.pc = "created") /\ cmd.row # SystemRow

(* The slot stays free from the look at the semaphore to the sem_wait. *)
SlotKept == SlotWanted => availableThreads > 0

(* Only the command thread takes slots; the other threads post them. *)
LEMMA ThreadsPostSlots ==
  ASSUME TypeOK, NEW t \in Tids, MonitorNext(t) \/ SystemNext(t)
  PROVE  cmd' = cmd /\ availableThreads' >= availableThreads
<1>1. availableThreads \in Nat
  BY DEF TypeOK
<1>2. CASE MonitorNext(t)
  BY <1>1, <1>2
     DEF MonitorNext, MonitorLockRow, MonitorOpen, MonitorProcessGone,
         MonitorPrint, MonitorPrintFails, MonitorContinue, MonitorTerminate,
         MonitorRelease, MonitorWait, MonitorRecord, MonitorPost
<1>3. CASE SystemNext(t)
  BY <1>1, <1>3
     DEF SystemNext, SystemLockRow, SystemPrint, SystemContinue,
         SystemTerminate, SystemRelease, SystemRecord, SystemPost
<1> QED
  BY <1>2, <1>3

(* What the user types starts an addition of a monitor only with a slot free. *)
LEMMA SlotTyped ==
  ASSUME TypeOK, CommandTyped
  PROVE  SlotKept'
<1>1. cmd \in CommandLocals /\ cmd.pc = "prompt"
  BY DEF TypeOK, CommandTyped, AddSystem, AddProcess, AddExec, RemoveSystem,
         RemoveThread, KillProcess, ExitMond, StartWebmon, ListActive,
         ListCompleted, Typed
<1>2. CASE \E f \in LogFiles : AddSystem(f)
  <2>1. cmd'.pc = "scan" /\ cmd'.row = SystemRow
    BY <1>2 DEF AddSystem, Prompt
  <2> QED
    BY <2>1 DEF SlotKept, SlotWanted, RowChosen, RowFilled
<1>3. CASE \/ \E p \in Pids, f \in LogFiles : AddProcess(p, f)
           \/ \E f \in LogFiles : AddExec(f)
  BY <1>3 DEF AddProcess, AddExec, SlotKept
<1>4. CASE \/ RemoveSystem \/ ExitMond \/ StartWebmon
           \/ ListActive \/ ListCompleted
           \/ \E t \in Tids : RemoveThread(t)
           \/ \E p \in Pids : KillProcess(p)
  <2>1. cmd'.pc \in {"readSystemTid", "exitSystem", "exitRows", "prompt",
                     "stopSystemTid", "findPid", "listRows", "lockList"}
    BY <1>1, <1>4 DEF RemoveSystem, ExitMond, StartWebmon, RemoveThread,
                      KillProcess, ListActive, ListCompleted, Goto, CommandLocals
  <2> QED
    BY <2>1 DEF SlotKept, SlotWanted, RowChosen, RowFilled
<1> QED
  BY <1>2, <1>3, <1>4 DEF CommandTyped

(* The command thread takes a slot at the end of an addition only. *)
LEMMA SlotCommand ==
  ASSUME TypeOK, SlotKept, CommandStep
  PROVE  SlotKept'
<1>0. cmd \in CommandLocals /\ CommandInRange /\ Rows \subseteq RowIds
      /\ SystemRow \notin Rows
  BY Ranges DEF TypeOK, SystemRow, Rows
<1> USE <1>0
<1>1. CASE \/ FindRowTaken \/ FindRowFree
           \/ \E p \in Children : Fork(p)
           \/ WaitExec
  <2>1. SlotWanted /\ availableThreads' = availableThreads
    BY <1>1 DEF FindRowTaken, FindRowFree, Fork, WaitExec, SlotWanted, RowChosen
  <2> QED
    BY <2>1 DEF SlotKept
<1>2. CASE InitRow
  <2>1. SlotWanted /\ availableThreads' = availableThreads
    BY <1>2 DEF InitRow, SlotWanted, RowChosen
  <2> QED
    BY <2>1 DEF SlotKept
<1>3. CASE ScanMiss \/ ScanHit \/ OpenLog \/ \E t \in Tids : CreateThread(t)
  <2>1. RowFilled /\ cmd'.row = cmd.row /\ availableThreads' = availableThreads
    BY <1>3 DEF ScanMiss, ScanHit, OpenLog, UseEntry, CreateThread, Goto,
                RowFilled, CommandLocals
  <2>2. cmd'.pc \in {"scan", "openLog", "create", "created"}
    BY <1>3 DEF ScanMiss, ScanHit, OpenLog, UseEntry, CreateThread, Goto, CommandLocals
  <2> QED
    BY <2>1, <2>2 DEF SlotKept, SlotWanted, RowChosen, RowFilled
<1>4. CASE SystemCreated \/ MonitorCreated
  <2>1. cmd'.pc = "prompt"
    BY <1>4 DEF SystemCreated, MonitorCreated, Prompt
  <2> QED
    BY <2>1 DEF SlotKept, SlotWanted, RowChosen, RowFilled
<1>5. CASE \/ ReadSystemTid \/ StopSystemTid \/ StopTid
           \/ FindPid \/ SignalSent \/ SignalDenied \/ SignalNoProcess \/ MarkKilled
  <2>1. \/ cmd' = cmd /\ cmd.pc = "signal"
        \/ cmd'.pc \in {"prompt", "stopSystemTid", "stopTid", "findPid", "signal", "markKilled"}
    <3>1. Prompt.pc = "prompt"
      BY DEF Prompt
    <3>2. CASE ReadSystemTid \/ SignalSent \/ SignalDenied \/ SignalNoProcess \/ MarkKilled
      BY <3>1, <3>2 DEF ReadSystemTid, SignalSent, SignalDenied, SignalNoProcess,
                        MarkKilled, Goto, CommandLocals
    <3>3. CASE StopSystemTid
      <4>1. cmd' = Prompt \/ cmd' = [cmd EXCEPT !.pc = "stopTid", !.i = 1]
        BY <3>3 DEF StopSystemTid
      <4>2. [cmd EXCEPT !.pc = "stopTid", !.i = 1].pc = "stopTid"
        BY DEF CommandLocals
      <4> QED
        BY <3>1, <4>1, <4>2
    <3>4. CASE StopTid
      BY <3>1, <3>4 DEF StopTid, CommandLocals
    <3>5. CASE FindPid
      BY <3>1, <3>5 DEF FindPid, CommandLocals
    <3> QED
      BY <1>5, <3>2, <3>3, <3>4, <3>5
  <2> QED
    BY <2>1 DEF SlotKept, SlotWanted, RowChosen, RowFilled
<1>6. CASE \/ ExitStopSystem \/ ExitStopRow \/ ExitSystemEnded \/ ExitMonitorsEnded
           \/ ClearList \/ DestroyList \/ DestroyTables \/ MainReturns
  <2>1. cmd'.pc \in {"exitRows", "waitSystem", "waitMonitors", "clear", "destroyList",
                     "destroyTables", "return"}
    BY <1>6 DEF ExitStopSystem, ExitStopRow, ExitSystemEnded, ExitMonitorsEnded,
                ClearList, DestroyList, DestroyTables, MainReturns, Goto, CommandLocals
  <2> QED
    BY <2>1 DEF SlotKept, SlotWanted, RowChosen, RowFilled
<1>7. CASE ListRow \/ ListLock \/ ListUnlock
  <2>1. cmd'.pc \in {"prompt", "listRows", "listing"}
    BY <1>7 DEF ListRow, ListLock, ListUnlock, Goto, Prompt, CommandLocals
  <2> QED
    BY <2>1 DEF SlotKept, SlotWanted, RowChosen, RowFilled
<1>8. CASE AddRefused
  BY <1>8, RefusedStep DEF SlotKept, SlotWanted, RowChosen, RowFilled
<1> QED
  BY <1>1, <1>2, <1>3, <1>4, <1>5, <1>6, <1>7, <1>8 DEF CommandStep

(* Every step of the program keeps the slot of an addition. *)
LEMMA SlotNext ==
  ASSUME TypeOK, SlotKept, [Next]_vars
  PROVE  SlotKept'
<1>0. availableThreads \in Nat /\ availableThreads' \in Nat
  BY TypeNext DEF TypeOK
<1>1. ASSUME cmd' = cmd, availableThreads' >= availableThreads
      PROVE  SlotKept'
  <2>1. SlotWanted' <=> SlotWanted
    BY <1>1 DEF SlotWanted, RowChosen, RowFilled
  <2> QED
    BY <1>0, <1>1, <2>1 DEF SlotKept
<1>2. CASE UserStep \/ CommandGoesOn
  BY <1>2, SlotTyped, SlotCommand DEF UserStep, CommandGoesOn
<1>3. CASE \E t \in Tids : ThreadStep(t)
  BY <1>1, <1>3, ThreadsPostSlots DEF ThreadStep
<1>4. CASE WebmonStep \/ ProcessStep \/ UNCHANGED vars
  <2>1. UNCHANGED <<cmd, availableThreads>>
    BY <1>4 DEF WebmonStep, WebmonNext, WebmonRefresh, WebmonShowRow,
                WebmonLockList, WebmonUnlockList, WebmonShowFiles,
                ProcessStep, ProcessDies, ProcessReaped, vars,
       WebmonRefused
  <2> QED
    BY <1>0, <1>1, <2>1
<1> QED
  BY <1>2, <1>3, <1>4 DEF Next, Ended

(* The sem_wait of add never blocks the command thread (commands.c:129): the
   slot it saw free at the prompt can be taken by no one else. *)
THEOREM SlotIsStillThere == Spec => []SlotIsThere
<1>1. Init => TypeOK /\ SlotKept
  BY TypeInit DEF Init, Prompt, SlotKept, SlotWanted, RowChosen, RowFilled
<1>2. TypeOK /\ SlotKept /\ [Next]_vars => (TypeOK /\ SlotKept)'
  BY TypeNext, SlotNext
<1>3. SlotKept => SlotIsThere
  BY DEF SlotKept, SlotIsThere, SlotNotTakenYet, SlotWanted, SystemRow, Rows
<1> QED
  BY <1>1, <1>2, <1>3, PTL DEF Spec

HIDE DEF tables, globals, threads
HIDE NamesAssumption
HIDE SizesAssumption

-----------------------------------------------------------------------------
(***************************************************************************)
(* What can make mond fail, for tables of any size and any number of       *)
(* threads and processes: each child is waited for by one thread, which    *)
(* finds it there, and mond fails in the three known ways only.            *)
(***************************************************************************)

(* Rows and the processes they watch.                                       *)

(* No row is given a child to watch. *)
NoNewWatch ==
  \A r \in RowIds :
    /\ threadTable'[r].isChild = threadTable[r].isChild
    /\ \/ threadTable'[r].pid \in {threadTable[r].pid, NoPid}
       \/ r = SystemRow /\ threadTable'[r].pid = SystemPid

(* Then nobody is watched who was not watched before. *)
LEMMA WatchesStay ==
  ASSUME NoNewWatch
  PROVE  \A r \in RowIds, p \in Pids : Watch(r, p)' => Watch(r, p)
BY NamesAssumption DEF NoNewWatch, Watch

(* A mark, a log file, a thread's id or a cleanup make no row watch a child. *)
LEMMA RowStepsWatchNoOne ==
  ASSUME threadTable \in [RowIds -> ThreadTableRow], NEW r \in RowIds, NEW x, NEW y,
         \/ threadTable' = threadTable
         \/ threadTable' = [threadTable EXCEPT ![r].endStatus = x]
         \/ threadTable' = [threadTable EXCEPT ![r].tid = x]
         \/ threadTable' = [threadTable EXCEPT ![r].fTable = x, ![r].fileName = y]
         \/ threadTable' = [threadTable EXCEPT ![r] = Cleared(threadTable[r])]
  PROVE  NoNewWatch
<1> SUFFICES ASSUME NEW q \in RowIds
             PROVE  /\ threadTable'[q].isChild = threadTable[q].isChild
                    /\ threadTable'[q].pid \in {threadTable[q].pid, NoPid}
  BY DEF NoNewWatch
<1>1. CASE threadTable' = [threadTable EXCEPT ![r] = Cleared(threadTable[r])]
  <2>1. Cleared(threadTable[r]).pid = NoPid
        /\ Cleared(threadTable[r]).isChild = threadTable[r].isChild
    BY DEF ThreadTableRow, Cleared
  <2> QED
    BY <1>1, <2>1
<1>2. CASE ~(threadTable' = [threadTable EXCEPT ![r] = Cleared(threadTable[r])])
  BY <1>2 DEF ThreadTableRow
<1> QED
  BY <1>1, <1>2

(* Only add gives a row a child to watch. *)
LEMMA OnlyAddWatches ==
  ASSUME TypeOK, [Next]_vars, ~InitRow
  PROVE  NoNewWatch
<1>0. /\ threadTable \in [RowIds -> ThreadTableRow]
      /\ cmd \in CommandLocals /\ CommandInRange
      /\ handle \in [Tids -> RowIds \cup {NoRow}]
  BY DEF TypeOK
<1>1. CASE threadTable' = threadTable
  BY <1>1 DEF NoNewWatch
<1>2. CASE UserStep
  <2>1. CASE \E f \in LogFiles : AddSystem(f)
    <3>1. threadTable' = [threadTable EXCEPT ![SystemRow].pid = SystemPid,
                                             ![SystemRow].startTime = TRUE]
      BY <2>1 DEF AddSystem
    <3> QED
      BY <1>0, <3>1, Ranges DEF ThreadTableRow, NoNewWatch
  <2>2. CASE ~\E f \in LogFiles : AddSystem(f)
    <3>1. threadTable' = threadTable
      BY <1>2, <2>2 DEF UserStep, CommandTyped, AddProcess, AddExec, RemoveSystem,
         RemoveThread, KillProcess, ExitMond, StartWebmon, ListActive, ListCompleted,
         tables
    <3> QED
      BY <1>1, <3>1
  <2> QED
    BY <2>1, <2>2
<1>3. CASE CommandGoesOn
  <2>1. CASE StopSystemTid \/ ExitStopSystem
    <3>1. \/ threadTable' = threadTable
          \/ threadTable' = [threadTable EXCEPT ![SystemRow].endStatus = "STOPPED"]
      BY <2>1 DEF StopSystemTid, ExitStopSystem, StopRow
    <3> QED
      BY <1>0, <3>1, Ranges, RowStepsWatchNoOne
  <2>2. CASE StopTid \/ ExitStopRow
    <3>1. /\ cmd.i \in RowIds
          /\ \/ threadTable' = threadTable
             \/ threadTable' = [threadTable EXCEPT ![cmd.i].endStatus = "STOPPED"]
      BY <1>0, <2>2, Ranges DEF StopTid, ExitStopRow, StopRow, CommandInRange
    <3> QED
      BY <1>0, <3>1, RowStepsWatchNoOne
  <2>3. CASE MarkKilled
    <3>1. /\ cmd.row \in RowIds
          /\ threadTable' = [threadTable EXCEPT ![cmd.row].endStatus = "KILLED"]
      BY <1>0, <2>3, Ranges DEF MarkKilled, CommandInRange
    <3> QED
      BY <1>0, <3>1, RowStepsWatchNoOne
  <2>4. CASE ScanHit \/ OpenLog
    <3>1. cmd.row \in RowIds
      BY <1>0, <2>4 DEF ScanHit, OpenLog, CommandInRange
    <3>2. \/ threadTable' = threadTable
          \/ \E e : threadTable' = [threadTable EXCEPT ![cmd.row].fTable = e,
                                                       ![cmd.row].fileName = cmd.file]
      BY <2>4 DEF ScanHit, OpenLog, UseEntry
    <3> QED
      BY <1>0, <3>1, <3>2, RowStepsWatchNoOne
  <2>5. CASE \E t \in Tids : CreateThread(t)
    <3>1. /\ cmd.row \in RowIds
          /\ \E t \in Tids : threadTable' = [threadTable EXCEPT ![cmd.row].tid = t]
      BY <1>0, <2>5 DEF CreateThread, CommandInRange
    <3> QED
      BY <1>0, <3>1, RowStepsWatchNoOne
  <2>6. CASE \/ FindRowTaken \/ FindRowFree \/ WaitExec \/ ScanMiss
             \/ \E p \in Children : Fork(p)
    <3>1. threadTable' = threadTable
      BY <2>6 DEF FindRowTaken, FindRowFree, WaitExec, ScanMiss, Fork, tables
    <3> QED
      BY <1>1, <3>1
  <2>7. CASE \/ SystemCreated \/ MonitorCreated \/ ReadSystemTid \/ FindPid
             \/ SignalSent \/ SignalDenied \/ SignalNoProcess
             \/ ExitSystemEnded \/ ExitMonitorsEnded
             \/ ClearList \/ DestroyList \/ DestroyTables \/ MainReturns
             \/ ListRow \/ ListLock \/ ListUnlock \/ AddRefused
    <3>1. threadTable' = threadTable
      BY <2>7, RefusedStep DEF SystemCreated, MonitorCreated, ReadSystemTid, FindPid, SignalSent,
         SignalDenied, SignalNoProcess, ExitSystemEnded, ExitMonitorsEnded,
         ClearList, DestroyList, DestroyTables, MainReturns, ListRow, ListLock,
         ListUnlock, tables
    <3> QED
      BY <1>1, <3>1
  <2> QED
    BY <1>3, <2>1, <2>2, <2>3, <2>4, <2>5, <2>6, <2>7 DEF CommandGoesOn, CommandStep
<1>4. CASE \E t \in Tids : ThreadStep(t)
  <2>1. PICK t \in Tids : MonitorNext(t) \/ SystemNext(t)
    BY <1>4 DEF ThreadStep
  <2>2. handle[t] \in RowIds
    BY <2>1, Ranges DEF MonitorNext, SystemNext, IsMonitor, IsSystem
  <2>3. \/ threadTable' = threadTable
        \/ threadTable' = [threadTable EXCEPT ![handle[t]].endStatus = "EXITED"]
        \/ threadTable' = [threadTable EXCEPT ![handle[t]] = Cleared(threadTable[handle[t]])]
    BY <2>1 DEF MonitorNext, MonitorLockRow, MonitorOpen, MonitorProcessGone,
       MonitorPrint, MonitorPrintFails, MonitorContinue, MonitorTerminate,
       MonitorRelease, MonitorWait, MonitorRecord, MonitorPost,
       SystemNext, SystemLockRow, SystemPrint, SystemContinue, SystemTerminate,
       SystemRelease, SystemRecord, SystemPost, CopyRow, ReleaseRow, tables
  <2> QED
    BY <1>0, <2>2, <2>3, RowStepsWatchNoOne
<1>5. CASE WebmonStep \/ ProcessStep \/ UNCHANGED vars
  <2>1. threadTable' = threadTable
    BY <1>5 DEF WebmonStep, WebmonNext, WebmonRefresh, WebmonShowRow, WebmonLockList,
       WebmonUnlockList, WebmonShowFiles, ProcessStep, ProcessDies, ProcessReaped,
       vars, tables,
       WebmonRefused
  <2> QED
    BY <1>1, <2>1
<1> QED
  BY <1>2, <1>3, <1>4, <1>5 DEF Next, Ended

-----------------------------------------------------------------------------
(* Processes: born once, and waited for by add, by their monitor, or, when they
   are not mond's, by someone else. *)
LEMMA BornOnce ==
  ASSUME TypeOK, [Next]_vars
  PROVE  \A p \in Pids : proc[p] # "unborn" => proc'[p] # "unborn"
<1>0. proc \in [Pids -> ProcStates]
  BY DEF TypeOK
<1>1. CASE proc' = proc
  BY <1>1
<1>2. ASSUME NEW p, NEW s, s # "unborn" \/ s = proc[p], proc' = [proc EXCEPT ![p] = s]
      PROVE  \A q \in Pids : proc[q] # "unborn" => proc'[q] # "unborn"
  BY <1>0, <1>2
<1>3. CASE WaitExec
  <2>1. proc' = [proc EXCEPT ![cmd.pid] = WaitedFor(proc[cmd.pid])]
    BY <1>3 DEF WaitExec
  <2>2. WaitedFor(proc[cmd.pid]) \in {"gone", proc[cmd.pid]}
    BY DEF WaitedFor
  <2> QED
    BY <1>2, <2>1, <2>2
<1>4. ASSUME NEW t \in Tids, MonitorWait(t)
      PROVE  \A q \in Pids : proc[q] # "unborn" => proc'[q] # "unborn"
  <2> DEFINE p == MyRow(t).pid
  <2>1. proc' = proc \/ proc' = [proc EXCEPT ![p] = WaitedFor(proc[p])]
    BY <1>4 DEF MonitorWait
  <2>2. WaitedFor(proc[p]) \in {"gone", proc[p]}
    BY DEF WaitedFor
  <2> QED
    BY <1>1, <1>2, <2>1, <2>2
<1>5. ASSUME NEW p \in Pids, ProcessDies(p) \/ ProcessReaped(p)
      PROVE  \A q \in Pids : proc[q] # "unborn" => proc'[q] # "unborn"
  <2>1. \E s \in {"zombie", "zombie251", "gone"} : proc' = [proc EXCEPT ![p] = s]
    BY <1>5 DEF ProcessDies, ProcessReaped
  <2> QED
    BY <1>2, <2>1
<1>6. CASE \E p \in Children : Fork(p)
  <2>1. PICK p \in Children : Fork(p)
    BY <1>6
  <2>2. \E s \in {"alive", "execFailed"} : proc' = [proc EXCEPT ![p] = s]
    BY <2>1 DEF Fork
  <2> QED
    BY <1>2, <2>2
<1>7. CASE UserStep
  BY <1>1, <1>7 DEF UserStep, CommandTyped, AddSystem, AddProcess, AddExec,
     RemoveSystem, RemoveThread, KillProcess, ExitMond, StartWebmon, ListActive,
     ListCompleted
<1>8. CASE CommandGoesOn /\ ~WaitExec /\ ~\E p \in Children : Fork(p)
  BY <1>1, <1>8 DEF CommandGoesOn, CommandStep, FindRowTaken, FindRowFree, InitRow,
     ScanMiss, ScanHit, OpenLog, CreateThread, SystemCreated, MonitorCreated,
     ReadSystemTid, StopSystemTid, StopTid, FindPid, SignalSent, SignalDenied,
     SignalNoProcess, MarkKilled, ExitStopSystem, ExitStopRow, ExitSystemEnded,
     ExitMonitorsEnded, ClearList, DestroyList, DestroyTables, MainReturns, ListRow,
     ListLock, ListUnlock,
     AddRefused, ForkFails, StatFails, OpenFails, CreateFails, RefusedAt
<1>9. ASSUME NEW t \in Tids, MonitorNext(t) \/ SystemNext(t), ~MonitorWait(t)
      PROVE  proc' = proc
  BY <1>9 DEF MonitorNext, MonitorLockRow, MonitorOpen, MonitorProcessGone,
     MonitorPrint, MonitorPrintFails, MonitorContinue, MonitorTerminate,
     MonitorRelease, MonitorRecord, MonitorPost, SystemNext, SystemLockRow,
     SystemPrint, SystemContinue, SystemTerminate, SystemRelease, SystemRecord,
     SystemPost
<1>10. CASE WebmonStep \/ UNCHANGED vars
  BY <1>1, <1>10 DEF WebmonStep, WebmonNext, WebmonRefresh, WebmonShowRow,
     WebmonLockList, WebmonUnlockList, WebmonShowFiles, vars,
     WebmonRefused
<1> QED
  BY <1>1, <1>3, <1>4, <1>5, <1>6, <1>7, <1>8, <1>9, <1>10
     DEF Next, Ended, ThreadStep, ProcessStep

(* A child is waited for by add and by its monitor only. *)
LEMMA ChildrenWaitForMond ==
  ASSUME TypeOK, [Next]_vars, ~WaitExec, ~\E t \in Tids : MonitorWait(t)
  PROVE  \A p \in Children : proc[p] # "gone" => proc'[p] # "gone"
<1>0. proc \in [Pids -> ProcStates] /\ Children \subseteq Pids
  BY DEF TypeOK, Pids
<1>1. CASE proc' = proc
  BY <1>1
<1>2. ASSUME NEW p \in Pids, ProcessDies(p) \/ ProcessReaped(p)
      PROVE  \A q \in Children : proc[q] # "gone" => proc'[q] # "gone"
  <2>1. CASE ProcessDies(p)
    <3>1. \E s \in {"zombie", "zombie251"} : proc' = [proc EXCEPT ![p] = s]
      BY <2>1 DEF ProcessDies
    <3> QED
      BY <1>0, <3>1
  <2>2. CASE ProcessReaped(p)
    <3>1. p \notin Children /\ proc' = [proc EXCEPT ![p] = "gone"]
      BY <2>2, NamesAssumption DEF ProcessReaped
    <3> QED
      BY <1>0, <3>1
  <2> QED
    BY <1>2, <2>1, <2>2
<1>3. CASE \E p \in Children : Fork(p)
  <2>1. PICK p \in Children : Fork(p)
    BY <1>3
  <2>2. \E s \in {"alive", "execFailed"} : proc' = [proc EXCEPT ![p] = s]
    BY <2>1 DEF Fork
  <2> QED
    BY <1>0, <2>2
<1>4. CASE UserStep
  BY <1>1, <1>4 DEF UserStep, CommandTyped, AddSystem, AddProcess, AddExec,
     RemoveSystem, RemoveThread, KillProcess, ExitMond, StartWebmon, ListActive,
     ListCompleted
<1>5. CASE CommandGoesOn /\ ~\E p \in Children : Fork(p)
  BY <1>1, <1>5 DEF CommandGoesOn, CommandStep, FindRowTaken, FindRowFree, InitRow,
     ScanMiss, ScanHit, OpenLog, CreateThread, SystemCreated, MonitorCreated,
     ReadSystemTid, StopSystemTid, StopTid, FindPid, SignalSent, SignalDenied,
     SignalNoProcess, MarkKilled, ExitStopSystem, ExitStopRow, ExitSystemEnded,
     ExitMonitorsEnded, ClearList, DestroyList, DestroyTables, MainReturns, ListRow,
     ListLock, ListUnlock,
     AddRefused, ForkFails, StatFails, OpenFails, CreateFails, RefusedAt
<1>6. ASSUME NEW t \in Tids, MonitorNext(t) \/ SystemNext(t)
      PROVE  proc' = proc
  BY <1>6 DEF MonitorNext, MonitorLockRow, MonitorOpen, MonitorProcessGone,
     MonitorPrint, MonitorPrintFails, MonitorContinue, MonitorTerminate,
     MonitorRelease, MonitorRecord, MonitorPost, SystemNext, SystemLockRow,
     SystemPrint, SystemContinue, SystemTerminate, SystemRelease, SystemRecord,
     SystemPost
<1>7. CASE WebmonStep \/ UNCHANGED vars
  BY <1>1, <1>7 DEF WebmonStep, WebmonNext, WebmonRefresh, WebmonShowRow,
     WebmonLockList, WebmonUnlockList, WebmonShowFiles, vars,
     WebmonRefused
<1> QED
  BY <1>1, <1>2, <1>3, <1>4, <1>5, <1>6, <1>7 DEF Next, Ended, ThreadStep, ProcessStep

-----------------------------------------------------------------------------
(* The parts of the child invariant, one after the other.                   *)

(* At the start there are no children. *)
LEMMA ChildrenInit == Init => ChildInvariant
<1> SUFFICES ASSUME Init PROVE ChildInvariant
  OBVIOUS
<1>1. \A r \in RowIds : ~threadTable[r].isChild
  BY DEF Init, ZeroRow
<1>2. cmd.pc = "prompt" /\ \A t \in Tids : pc[t] = "none"
  BY DEF Init, Prompt
<1> QED
  BY <1>1, <1>2 DEF ChildInvariant, WatchedAreChildren, ChildIsNew, WatchedIsThere,
     ChildInHand, Watch

(* What add does to the row it works on. *)
LEMMA InitRowWatches ==
  ASSUME TypeOK, InitRow
  PROVE  /\ cmd.row \in Rows /\ cmd.row \in RowIds
         /\ \A r \in RowIds, p \in Pids :
              Watch(r, p)' => Watch(r, p) \/ (r = cmd.row /\ cmd.exec /\ p = cmd.pid)
<1>1. /\ threadTable \in [RowIds -> ThreadTableRow]
      /\ cmd.row \in Rows /\ cmd.row \in RowIds
  BY Ranges DEF TypeOK, CommandInRange, InitRow
<1>2. threadTable' = [threadTable EXCEPT ![cmd.row] =
                        [threadTable[cmd.row] EXCEPT !.isChild = cmd.exec,
                                                     !.pid = cmd.pid,
                                                     !.startTime = TRUE]]
  BY DEF InitRow
<1>3. ASSUME NEW r \in RowIds, NEW p \in Pids, Watch(r, p)'
      PROVE  Watch(r, p) \/ (r = cmd.row /\ cmd.exec /\ p = cmd.pid)
  BY <1>1, <1>2, <1>3 DEF Watch, ThreadTableRow
<1> QED
  BY <1>1, <1>3

(* Rows that are marked as watching a child watch a child. *)
LEMMA WatchedNext ==
  ASSUME TypeOK, ChildInvariant, [Next]_vars
  PROVE  WatchedAreChildren'
<1>1. /\ \A p \in Pids : proc[p] # "unborn" => proc'[p] # "unborn"
      /\ threadTable \in [RowIds -> ThreadTableRow]
      /\ WatchedAreChildren
  BY BornOnce DEF TypeOK, ChildInvariant
<1>2. CASE InitRow
  <2>1. /\ cmd.row \in Rows
        /\ \A r \in RowIds, p \in Pids :
             Watch(r, p)' => Watch(r, p) \/ (r = cmd.row /\ cmd.exec /\ p = cmd.pid)
    BY <1>2, InitRowWatches
  <2>2. cmd.exec => /\ cmd.pid \in Children /\ proc[cmd.pid] # "unborn"
                    /\ \A r \in RowIds : ~Watch(r, cmd.pid)
    BY <1>2 DEF InitRow, ChildInvariant, ChildIsNew, ChildInHand
  <2>3. \A r \in RowIds : threadTable'[r].isChild =>
          r \in Rows /\ threadTable'[r].pid \in Children \cup {NoPid}
    <3>1. threadTable' = [threadTable EXCEPT ![cmd.row] =
                            [threadTable[cmd.row] EXCEPT !.isChild = cmd.exec,
                                                         !.pid = cmd.pid,
                                                         !.startTime = TRUE]]
      BY <1>2 DEF InitRow
    <3> QED
      BY <1>1, <2>1, <2>2, <3>1, Ranges DEF WatchedAreChildren, ThreadTableRow
  <2>4. \A r \in RowIds, p \in Pids : Watch(r, p)' => proc'[p] # "unborn"
    BY <1>1, <2>1, <2>2 DEF WatchedAreChildren
  <2>5. \A r, s \in RowIds, p \in Pids : Watch(r, p)' /\ Watch(s, p)' => r = s
    BY <1>1, <2>1, <2>2 DEF WatchedAreChildren
  <2> QED
    BY <2>3, <2>4, <2>5 DEF WatchedAreChildren
<1>3. CASE ~InitRow
  <2>1. NoNewWatch /\ \A r \in RowIds, p \in Pids : Watch(r, p)' => Watch(r, p)
    BY <1>3, OnlyAddWatches, WatchesStay
  <2>2. \A r \in RowIds : threadTable'[r].isChild =>
          r \in Rows /\ threadTable'[r].pid \in Children \cup {NoPid}
    BY <1>1, <2>1 DEF WatchedAreChildren, NoNewWatch, SystemRow, Rows
  <2>3. \A r \in RowIds, p \in Pids : Watch(r, p)' => proc'[p] # "unborn"
    BY <1>1, <2>1 DEF WatchedAreChildren
  <2>4. \A r, s \in RowIds, p \in Pids : Watch(r, p)' /\ Watch(s, p)' => r = s
    BY <1>1, <2>1 DEF WatchedAreChildren
  <2> QED
    BY <2>2, <2>3, <2>4 DEF WatchedAreChildren
<1> QED
  BY <1>2, <1>3

(* Where the command thread is not on its way to a child, before or after. *)
LEMMA AddElsewhere ==
  ASSUME TypeOK, [Next]_vars, ~FindRowFree, ~WaitExec, ~\E p \in Children : Fork(p)
  PROVE  cmd' = cmd \/ cmd'.pc \notin {"fork", "waitExec", "init"}
<1>0. cmd \in CommandLocals
  BY DEF TypeOK
<1>1. Prompt.pc = "prompt"
  BY DEF Prompt
<1>2. CASE UserStep
  <2>1. CASE \/ \E f \in LogFiles : AddSystem(f)
             \/ \E p \in Pids, f \in LogFiles : AddProcess(p, f)
             \/ \E f \in LogFiles : AddExec(f)
    BY <2>1 DEF AddSystem, AddProcess, AddExec, Prompt
  <2>2. CASE ~ \/ \E f \in LogFiles : AddSystem(f)
               \/ \E p \in Pids, f \in LogFiles : AddProcess(p, f)
               \/ \E f \in LogFiles : AddExec(f)
    BY <1>2, <2>2, TypedIsQuiet DEF UserStep, CommandTyped, NotAdding
  <2> QED
    BY <2>1, <2>2
<1>3. CASE CommandGoesOn
  <2>1. CASE FindRowTaken
    <3>1. cmd.pc = "findRow" /\ (cmd' = Prompt \/ cmd' = [cmd EXCEPT !.i = cmd.i + 1])
      BY <2>1 DEF FindRowTaken
    <3> QED
      BY <1>0, <1>1, <3>1 DEF CommandLocals
  <2>2. CASE InitRow \/ ScanMiss \/ ScanHit
    BY <1>0, <2>2 DEF InitRow, ScanMiss, ScanHit, UseEntry, CommandLocals
  <2>3. CASE OpenLog
    BY <1>0, <2>3 DEF OpenLog, UseEntry, CommandLocals
  <2>4. CASE \E t \in Tids : CreateThread(t)
    BY <1>0, <2>4 DEF CreateThread, Goto, CommandLocals
  <2>5. CASE ~ \/ FindRowTaken \/ InitRow \/ ScanMiss \/ ScanHit \/ OpenLog
               \/ \E t \in Tids : CreateThread(t)
    BY <1>3, <2>5, CarriedOutIsQuiet DEF CommandGoesOn, CommandStep, NotAdding,
       AddRefused, ForkFails, StatFails, OpenFails, CreateFails, RefusedAt
  <2> QED
    BY <2>1, <2>2, <2>3, <2>4, <2>5
<1>4. CASE (\E t \in Tids : ThreadStep(t)) \/ WebmonStep \/ ProcessStep \/ UNCHANGED vars
  BY <1>4 DEF ThreadStep, MonitorNext, MonitorLockRow, MonitorOpen, MonitorProcessGone,
     MonitorPrint, MonitorPrintFails, MonitorContinue, MonitorTerminate,
     MonitorRelease, MonitorWait, MonitorRecord, MonitorPost, SystemNext,
     SystemLockRow, SystemPrint, SystemContinue, SystemTerminate, SystemRelease,
     SystemRecord, SystemPost, WebmonStep, WebmonNext, WebmonRefresh, WebmonShowRow,
     WebmonLockList, WebmonUnlockList, WebmonShowFiles, ProcessStep, ProcessDies,
     ProcessReaped, vars,
     WebmonRefused
<1> QED
  BY <1>2, <1>3, <1>4 DEF Next, Ended

(* A child just forked is in no row yet. *)
LEMMA ChildIsNewNext ==
  ASSUME TypeOK, ChildInvariant, [Next]_vars
  PROVE  ChildIsNew'
<1>0. /\ cmd \in CommandLocals /\ proc \in [Pids -> ProcStates]
      /\ \A p \in Pids : proc[p] # "unborn" => proc'[p] # "unborn"
      /\ Children \subseteq Pids
      /\ ChildIsNew /\ WatchedAreChildren
  BY BornOnce DEF TypeOK, ChildInvariant, Pids
<1>1. CASE FindRowFree
  <2>1. \/ cmd.exec /\ cmd' = [cmd EXCEPT !.row = cmd.i, !.pc = "fork"]
        \/ ~cmd.exec /\ cmd' = [cmd EXCEPT !.row = cmd.i, !.pc = "init"]
    BY <1>1 DEF FindRowFree
  <2>2. \/ cmd'.pc = "fork" /\ cmd'.exec
        \/ cmd'.pc = "init" /\ ~cmd'.exec
    BY <1>0, <2>1 DEF CommandLocals
  <2> QED
    BY <2>2 DEF ChildIsNew, ChildInHand
<1>2. ASSUME NEW p \in Children, Fork(p) PROVE ChildIsNew'
  <2>1. cmd'.pc = "waitExec" /\ cmd'.pid = p /\ cmd'.exec = cmd.exec /\ cmd.pc = "fork"
    BY <1>0, <1>2 DEF Fork, CommandLocals
  <2>2. proc'[p] # "unborn" /\ proc[p] = "unborn" /\ threadTable' = threadTable
    <3>1. PICK s \in {"alive", "execFailed"} : proc' = [proc EXCEPT ![p] = s]
      BY <1>2 DEF Fork
    <3> QED
      BY <1>0, <1>2, <3>1 DEF Fork, tables
  <2>3. \A r \in RowIds : ~Watch(r, p)'
    BY <1>0, <2>2 DEF WatchedAreChildren, Watch
  <2> QED
    BY <1>0, <2>1, <2>2, <2>3 DEF ChildIsNew, ChildInHand, Watch
<1>3. CASE WaitExec
  <2>1. \/ cmd' = Prompt
        \/ cmd' = [cmd EXCEPT !.pc = "init"]
    BY <1>3 DEF WaitExec
  <2>2. cmd.pc = "waitExec" /\ threadTable' = threadTable
    BY <1>3 DEF WaitExec, tables
  <2>3. CASE cmd' = Prompt
    BY <2>3 DEF Prompt, ChildIsNew, ChildInHand
  <2>4. CASE cmd' = [cmd EXCEPT !.pc = "init"]
    <3>1. cmd'.pc = "init" /\ cmd'.pid = cmd.pid /\ cmd'.exec = cmd.exec
      BY <1>0, <2>4 DEF CommandLocals
    <3> QED
      BY <1>0, <2>2, <3>1 DEF ChildIsNew, ChildInHand, Watch
  <2> QED
    BY <2>1, <2>3, <2>4
<1>4. CASE ~FindRowFree /\ ~WaitExec /\ ~\E p \in Children : Fork(p)
  <2>1. CASE cmd'.pc \notin {"fork", "waitExec", "init"}
    BY <2>1 DEF ChildIsNew, ChildInHand
  <2>2. CASE cmd' = cmd /\ ~InitRow
    <3>1. \A r \in RowIds, p \in Pids : Watch(r, p)' => Watch(r, p)
      BY <2>2, OnlyAddWatches, WatchesStay
    <3> QED
      BY <1>0, <2>2, <3>1 DEF ChildIsNew, ChildInHand
  <2>3. CASE InitRow
    <3>1. cmd'.pc = "scan"
      BY <1>0, <2>3 DEF InitRow, CommandLocals
    <3> QED
      BY <2>1, <3>1
  <2> QED
    BY <1>4, <2>1, <2>2, <2>3, AddElsewhere
<1> QED
  BY <1>1, <1>2, <1>3, <1>4

(* A thread between its look into /proc and the next waitpid. *)
Waiting(t) == pc[t] = "wait" \/ (pc[t] = "check" /\ ~stop[t])

(* Where a thread's step may lead. *)
LEMMA NewlyWaiting ==
  ASSUME TypeOK, NEW t \in Tids, MonitorNext(t) \/ SystemNext(t), Waiting(t)'
  PROVE  /\ handle'[t] = handle[t]
         /\ Waiting(t) \/ (handle[t] \in Rows /\ InProc(MyRow(t).pid)) \/ IsSystem(t)
<1>0. /\ pc \in [Tids -> Labels] /\ stop \in [Tids -> BOOLEAN]
  BY DEF TypeOK
<1>1. CASE SystemNext(t)
  BY <1>0, <1>1 DEF Waiting, SystemNext, SystemLockRow, SystemPrint, SystemContinue,
     SystemTerminate, SystemRelease, SystemRecord, SystemPost, EndThread
<1>2. CASE IsMonitor(t) /\ MonitorPrint(t)
  BY <1>2 DEF MonitorPrint, IsMonitor
<1>3. CASE MonitorContinue(t)
  <2>1. stop[t] => pc'[t] = "list"
    BY <1>0, <1>3 DEF MonitorContinue
  <2> QED
    BY <1>0, <1>3, <2>1 DEF MonitorContinue, Waiting
<1>4. CASE MonitorProcessGone(t)
  BY <1>0, <1>4 DEF MonitorProcessGone, Waiting
<1>5. CASE \/ MonitorLockRow(t) \/ MonitorOpen(t) \/ MonitorTerminate(t)
           \/ MonitorRelease(t) \/ MonitorWait(t) \/ MonitorRecord(t) \/ MonitorPost(t)
  <2>1. pc'[t] \in {"open", "print", "release", "list", "top", "post", "done"}
    BY <1>0, <1>5 DEF MonitorLockRow, MonitorOpen, MonitorTerminate, MonitorRelease,
       MonitorWait, MonitorRecord, MonitorPost, EndThread
  <2> QED
    BY <2>1 DEF Waiting
<1>6. CASE MonitorPrintFails(t)
  BY <1>6 DEF MonitorPrintFails, threads, Waiting
<1> QED
  BY <1>1, <1>2, <1>3, <1>4, <1>5, <1>6 DEF MonitorNext

(* The threads a step does not belong to wait as before. *)
LEMMA OthersWaitOn ==
  ASSUME TypeOK, NEW t \in Tids, MonitorNext(t) \/ SystemNext(t), NEW u \in Tids, u # t
  PROVE  /\ handle'[u] = handle[u]
         /\ Waiting(u)' <=> Waiting(u)
<1>0. /\ pc \in [Tids -> Labels] /\ stop \in [Tids -> BOOLEAN]
      /\ handle \in [Tids -> RowIds \cup {NoRow}]
  BY DEF TypeOK
<1>1. pc'[u] = pc[u]
  BY <1>0 DEF MonitorNext, MonitorLockRow, MonitorOpen, MonitorProcessGone,
     MonitorPrint, MonitorPrintFails, MonitorContinue, MonitorTerminate,
     MonitorRelease, MonitorWait, MonitorRecord, MonitorPost, SystemNext,
     SystemLockRow, SystemPrint, SystemContinue, SystemTerminate, SystemRelease,
     SystemRecord, SystemPost, EndThread, threads
<1>2. stop'[u] = stop[u] /\ handle'[u] = handle[u]
  BY <1>0 DEF MonitorNext, MonitorLockRow, MonitorOpen, MonitorProcessGone,
     MonitorPrint, MonitorPrintFails, MonitorContinue, MonitorTerminate,
     MonitorRelease, MonitorWait, MonitorRecord, MonitorPost, SystemNext,
     SystemLockRow, SystemPrint, SystemContinue, SystemTerminate, SystemRelease,
     SystemRecord, SystemPost, EndThread, threads
<1> QED
  BY <1>1, <1>2 DEF Waiting

(* When a thread steps no other thread waits for a child in that step. *)
LEMMA OneThreadSteps ==
  ASSUME TypeOK, NEW u \in Tids, MonitorNext(u) \/ SystemNext(u), ~MonitorWait(u)
  PROVE  ~\E v \in Tids : MonitorWait(v)
<1> SUFFICES ASSUME NEW v \in Tids, MonitorWait(v) PROVE FALSE
  OBVIOUS
<1>1. pc \in [Tids -> Labels]
  BY DEF TypeOK
<1>2. pc[v] = "wait" /\ pc'[v] = "top" /\ \A w \in Tids : w # v => pc'[w] = pc[w]
  BY <1>1 DEF MonitorWait
<1>3. pc'[u] = pc[u]
  BY <1>2
<1> QED
  BY <1>1, <1>2, <1>3 DEF MonitorNext, MonitorLockRow, MonitorOpen, MonitorProcessGone,
     MonitorPrint, MonitorPrintFails, MonitorContinue, MonitorTerminate,
     MonitorRelease, MonitorRecord, MonitorPost, SystemNext, SystemLockRow,
     SystemPrint, SystemContinue, SystemTerminate, SystemRelease, SystemRecord,
     SystemPost, EndThread, threads

(* A child whose monitor is about to wait for it has not been waited for. *)
LEMMA WatchedIsThereNext ==
  ASSUME TypeOK, Ownership, ChildInvariant, [Next]_vars
  PROVE  WatchedIsThere'
<1>0. /\ pc \in [Tids -> Labels] /\ proc \in [Pids -> ProcStates]
      /\ WatchedAreChildren /\ ChildIsNew /\ Children \subseteq Pids
      /\ cmd \in CommandLocals
  BY DEF TypeOK, ChildInvariant, Pids
<1>1. \A t \in Tids : Waiting(t) =>
        /\ \A p \in Pids : Watch(handle[t], p) => proc[p] # "gone"
        /\ Owns(t) /\ handle[t] \in RowIds /\ threadTable[handle[t]].tid = t
  BY DEF ChildInvariant, WatchedIsThere, Waiting, Ownership, RowIsOwned, LiveHaveRows,
     Owns, Live
<1> SUFFICES ASSUME NEW t \in Tids, Waiting(t)', NEW p \in Pids, Watch(handle[t], p)'
             PROVE  proc'[p] # "gone"
  BY DEF WatchedIsThere, Waiting
<1>2. ASSUME ~InitRow, handle[t] \in RowIds, handle'[t] = handle[t]
      PROVE  Watch(handle[t], p) /\ p \in Children /\ handle[t] \in Rows
  <2>1. NoNewWatch
    BY <1>2, OnlyAddWatches
  <2>2. threadTable'[handle[t]].isChild /\ threadTable'[handle[t]].pid = p
    BY <1>2 DEF Watch
  <2>3. Watch(handle[t], p)
    BY <1>2, <2>1, <2>2, WatchesStay DEF Watch
  <2> QED
    BY <1>0, <1>2, <2>3, NamesAssumption DEF WatchedAreChildren, Watch
<1>3. CASE UNCHANGED <<pc, stop, handle>> /\ ~InitRow
  <2>1. Waiting(t) /\ handle'[t] = handle[t]
    BY <1>3 DEF Waiting
  <2>2. Watch(handle[t], p) /\ p \in Children /\ proc[p] # "gone"
    BY <1>1, <1>2, <1>3, <2>1
  <2>3. CASE WaitExec
    <3>1. proc' = [proc EXCEPT ![cmd.pid] = WaitedFor(proc[cmd.pid])]
      BY <2>3 DEF WaitExec
    <3>2. p # cmd.pid
      BY <1>0, <1>1, <2>1, <2>2, <2>3 DEF ChildIsNew, ChildInHand, WaitExec
    <3> QED
      BY <1>0, <2>2, <3>1, <3>2
  <2>4. CASE ~WaitExec /\ ~\E u \in Tids : MonitorWait(u)
    BY <2>2, <2>4, ChildrenWaitForMond
  <2>5. CASE \E u \in Tids : MonitorWait(u)
    <3>1. PICK u \in Tids : MonitorWait(u)
      BY <2>5
    <3>2. pc[u] = "wait" /\ pc'[u] = "top"
      BY <1>0, <3>1 DEF MonitorWait
    <3> QED
      BY <1>3, <3>2
  <2> QED
    BY <2>3, <2>4, <2>5
<1>4. CASE InitRow
  <2>1. UNCHANGED <<pc, stop, handle, proc>> /\ cmd.pc = "init"
    BY <1>4 DEF InitRow, threads
  <2>2. Waiting(t) /\ handle'[t] = handle[t]
    BY <2>1 DEF Waiting
  <2>3. handle[t] # cmd.row
    BY <1>1, <2>1, <2>2 DEF Ownership, AddHasItsRow, RowChosen, NoTid, Tids
  <2>4. threadTable'[handle[t]].isChild /\ threadTable'[handle[t]].pid = p
    BY <2>2 DEF Watch
  <2>5. Watch(handle[t], p)
    BY <1>1, <1>4, <2>2, <2>3, <2>4, InitRowWatches DEF Watch
  <2> QED
    BY <1>1, <2>1, <2>2, <2>5
<1>5. ASSUME NEW u \in Tids, CreateThread(u) PROVE proc'[p] # "gone"
  <2>1. /\ pc' = [pc EXCEPT ![u] = "top"] /\ stop' = stop /\ proc' = proc
        /\ handle' = [handle EXCEPT ![u] = cmd.row] /\ ~InitRow
    BY <1>5 DEF CreateThread, InitRow
  <2>2. t # u
    BY <1>0, <2>1 DEF Waiting
  <2>3. Waiting(t) /\ handle'[t] = handle[t]
    BY <1>0, <2>1, <2>2 DEF Waiting, TypeOK
  <2> QED
    BY <1>1, <1>2, <2>1, <2>3
<1>6. ASSUME NEW u \in Tids, MonitorNext(u) \/ SystemNext(u) PROVE proc'[p] # "gone"
  <2>0. ~InitRow /\ ~WaitExec
    <3>1. cmd' = cmd
      BY <1>6 DEF MonitorNext, MonitorLockRow, MonitorOpen, MonitorProcessGone,
         MonitorPrint, MonitorPrintFails, MonitorContinue, MonitorTerminate,
         MonitorRelease, MonitorWait, MonitorRecord, MonitorPost, SystemNext,
         SystemLockRow, SystemPrint, SystemContinue, SystemTerminate, SystemRelease,
         SystemRecord, SystemPost
    <3>2. InitRow => cmd'.pc # cmd.pc
      BY <1>0 DEF InitRow, CommandLocals
    <3>3. WaitExec => cmd'.pc # cmd.pc
      <4>1. Prompt.pc = "prompt"
        BY DEF Prompt
      <4>2. WaitExec => /\ cmd.pc = "waitExec"
                        /\ cmd' = Prompt \/ cmd' = [cmd EXCEPT !.pc = "init"]
        BY DEF WaitExec
      <4> QED
        BY <1>0, <4>1, <4>2 DEF CommandLocals
    <3> QED
      BY <3>1, <3>2, <3>3
  <2>1. CASE MonitorWait(u)
    <3>1. t # u
      BY <1>0, <2>1 DEF MonitorWait, Waiting
    <3>2. Waiting(t) /\ handle'[t] = handle[t]
      BY <1>6, <3>1, OthersWaitOn
    <3>3. Watch(handle[t], p) /\ proc[p] # "gone"
      BY <1>1, <1>2, <2>0, <3>2
    <3>4. proc' = proc \/ (/\ MyRow(u).isChild
                           /\ proc' = [proc EXCEPT ![MyRow(u).pid] = WaitedFor(proc[MyRow(u).pid])])
      BY <2>1 DEF MonitorWait
    <3>5. Waiting(u)
      BY <2>1 DEF MonitorWait, Waiting
    <3>6. MyRow(u).isChild /\ MyRow(u).pid = p => FALSE
      BY <1>0, <1>1, <3>1, <3>2, <3>3, <3>5 DEF WatchedAreChildren, Watch, MyRow
    <3> QED
      BY <1>0, <3>3, <3>4, <3>6
  <2>2. CASE ~MonitorWait(u)
    <3>1. ~\E v \in Tids : MonitorWait(v)
      BY <1>6, <2>2, OneThreadSteps
    <3>2. p \in Children => (proc[p] # "gone" => proc'[p] # "gone")
      BY <2>0, <3>1, ChildrenWaitForMond
    <3>3. CASE t # u
      <4>1. Waiting(t) /\ handle'[t] = handle[t]
        BY <1>6, <3>3, OthersWaitOn
      <4> QED
        BY <1>1, <1>2, <2>0, <3>2, <4>1
    <3>4. CASE t = u
      <4>1. /\ handle'[t] = handle[t]
            /\ Waiting(t) \/ (handle[t] \in Rows /\ InProc(MyRow(t).pid)) \/ IsSystem(t)
        BY <1>6, <3>4, NewlyWaiting
      <4>2. handle[t] \in RowIds
        BY <1>1, <4>1, Ranges DEF IsSystem
      <4>3. Watch(handle[t], p) /\ p \in Children /\ handle[t] \in Rows
        BY <1>2, <2>0, <4>1, <4>2
      <4>4. proc[p] # "gone"
        BY <1>1, <4>1, <4>3 DEF Watch, InProc, MyRow, IsSystem, SystemRow, Rows
      <4> QED
        BY <3>2, <4>3, <4>4
    <3> QED
      BY <3>3, <3>4
  <2> QED
    BY <2>1, <2>2
<1>7. CASE UserStep \/ WebmonStep \/ ProcessStep \/ UNCHANGED vars
  <2>1. UNCHANGED <<pc, stop, handle>>
    BY <1>7 DEF UserStep, CommandTyped, AddSystem, AddProcess, AddExec, RemoveSystem,
       RemoveThread, KillProcess, ExitMond, StartWebmon, ListActive, ListCompleted,
       WebmonStep, WebmonNext, WebmonRefresh, WebmonShowRow, WebmonLockList,
       WebmonUnlockList, WebmonShowFiles, ProcessStep, ProcessDies, ProcessReaped,
       vars, threads,
       WebmonRefused
  <2> QED
    BY <1>3, <1>4, <2>1
<1>8. CASE CommandGoesOn /\ ~\E u \in Tids : CreateThread(u)
  <2>1. UNCHANGED <<pc, stop, handle>>
    BY <1>8 DEF CommandGoesOn, CommandStep, FindRowTaken, FindRowFree, Fork, WaitExec,
       InitRow, ScanMiss, ScanHit, OpenLog, SystemCreated, MonitorCreated,
       ReadSystemTid, StopSystemTid, StopTid, FindPid, SignalSent, SignalDenied,
       SignalNoProcess, MarkKilled, ExitStopSystem, ExitStopRow, ExitSystemEnded,
       ExitMonitorsEnded, ClearList, DestroyList, DestroyTables, MainReturns, ListRow,
       ListLock, ListUnlock, threads,
       AddRefused, ForkFails, StatFails, OpenFails, CreateFails, RefusedAt
  <2> QED
    BY <1>3, <1>4, <2>1
<1> QED
  BY <1>5, <1>6, <1>7, <1>8 DEF Next, Ended, ThreadStep

(* The rows that watch a child of mond name a process it has forked, which nobody
   has waited for before the row's own monitor does (add, commands.c:83-116;
   monitorThread.c:266-272). *)
THEOREM ChildrenCorrect == Spec => []ChildInvariant
<1>1. TypeOK /\ Ownership /\ ChildInvariant /\ [Next]_vars => ChildInvariant'
  BY WatchedNext, ChildIsNewNext, WatchedIsThereNext DEF ChildInvariant
<1> QED
  BY <1>1, ChildrenInit, TypeCorrect, OwnershipCorrect, PTL DEF Spec

(* A monitor calls waitpid for its child only while the child has not been
   waited for: neither another monitor nor add takes its end away
   (monitorThread.c:266-272, commands.c:98-112). *)
THEOREM ChildIsStillThere == Spec => []ChildIsThere
<1>1. TypeOK /\ Ownership /\ FileInvariant /\ ChildInvariant => ChildIsThere
  <2> SUFFICES ASSUME TypeOK, Ownership, FileInvariant, ChildInvariant,
                      NEW t \in Tids, pc[t] = "wait", threadTable[handle[t]].isChild
               PROVE  proc[threadTable[handle[t]].pid] # "gone"
    BY DEF ChildIsThere
  <2>1. handle[t] \in RowIds /\ threadTable[handle[t]].startTime
    BY DEF Ownership, RowIsOwned, LiveHaveRows, Owns, Live
  <2>2. threadTable[handle[t]].pid \in Pids
    BY <2>1 DEF FileInvariant, RowsInUse, ChildInvariant, WatchedAreChildren, Pids
  <2> QED
    BY <2>1, <2>2 DEF ChildInvariant, WatchedIsThere, Watch
<1> QED
  BY <1>1, ChildrenCorrect, TypeCorrect, OwnershipCorrect, FilesCorrect, PTL

-----------------------------------------------------------------------------
(* Mutexes.                                                                 *)

(* Who holds the mutexes stays as it is when no thread steps. *)
LEMMA LocksStay ==
  ASSUME TypeOK, Ownership, LocksAreHeld,
         UNCHANGED <<rowLock, fileLock, pc, handle>>,
         \A r \in RowIds : threadTable[r].tid # NoTid
                             => threadTable'[r].fTable = threadTable[r].fTable
  PROVE  LocksAreHeld'
<1>1. \A e \in Entries : fileLock[e] # NoTid =>
        MyRow(fileLock[e])' = threadTable'[handle[fileLock[e]]]
  BY DEF MyRow
<1>2. ASSUME NEW e \in Entries, fileLock[e] # NoTid
      PROVE  threadTable'[handle[fileLock[e]]].fTable = threadTable[handle[fileLock[e]]].fTable
  <2>1. fileLock[e] \in Tids /\ pc[fileLock[e]] = "print"
    BY <1>2 DEF TypeOK, LocksAreHeld
  <2>2. /\ handle[fileLock[e]] \in RowIds
        /\ threadTable[handle[fileLock[e]]].tid = fileLock[e]
    BY <2>1 DEF Ownership, RowIsOwned, LiveHaveRows, Owns, Live
  <2> QED
    BY <1>2, <2>2
<1> QED
  BY <1>1, <1>2 DEF LocksAreHeld, MyRow

(* Every step of a thread keeps who holds what. *)
LEMMA LocksOfThreads ==
  ASSUME TypeOK, Ownership, LocksAreHeld, NEW t \in Tids, MonitorNext(t) \/ SystemNext(t)
  PROVE  LocksAreHeld'
<1>0. /\ rowLock \in [RowIds -> Tids \cup {NoTid}]
      /\ fileLock \in [Entries -> Tids \cup {NoTid}]
      /\ pc \in [Tids -> Labels]
      /\ handle \in [Tids -> RowIds \cup {NoRow}]
      /\ threadTable \in [RowIds -> ThreadTableRow]
      /\ handle[t] \in RowIds
      /\ NoTid \notin Tids
  <2>1. handle[t] \in RowIds
    BY Ranges DEF MonitorNext, SystemNext, IsMonitor, IsSystem
  <2>2. NoTid \notin Tids
    BY DEF NoTid, Tids
  <2> QED
    BY <2>1, <2>2 DEF TypeOK
<1>1. \A u \in Tids : u # t => pc'[u] = pc[u] /\ handle'[u] = handle[u]
  BY <1>0 DEF MonitorNext, MonitorLockRow, MonitorOpen, MonitorProcessGone,
     MonitorPrint, MonitorPrintFails, MonitorContinue, MonitorTerminate,
     MonitorRelease, MonitorWait, MonitorRecord, MonitorPost, SystemNext,
     SystemLockRow, SystemPrint, SystemContinue, SystemTerminate, SystemRelease,
     SystemRecord, SystemPost, EndThread, threads
<1>2. \A u \in Tids : u # t /\ pc[u] = "print"
        => threadTable'[handle[u]].fTable = threadTable[handle[u]].fTable
  <2> SUFFICES ASSUME NEW u \in Tids, u # t, pc[u] = "print"
               PROVE  threadTable'[handle[u]].fTable = threadTable[handle[u]].fTable
    OBVIOUS
  <2>1. handle[u] \in RowIds /\ threadTable[handle[u]].tid = u
    BY DEF Ownership, RowIsOwned, LiveHaveRows, Owns, Live
  <2>2. CASE pc[t] # "release"
    BY <2>1, <2>2, ThreadsAreQuiet DEF QuietFiles, SameUse
  <2>3. CASE pc[t] = "release"
    <3>1. threadTable[handle[t]].tid = t
      BY <2>3 DEF Ownership, RowIsOwned, Owns
    <3>2. threadTable' = [threadTable EXCEPT ![handle[t]] = Cleared(threadTable[handle[t]])]
      BY <2>3 DEF MonitorNext, MonitorLockRow, MonitorOpen, MonitorProcessGone,
         MonitorPrint, MonitorPrintFails, MonitorContinue, MonitorTerminate,
         MonitorRelease, MonitorWait, MonitorRecord, MonitorPost, SystemNext,
         SystemLockRow, SystemPrint, SystemContinue, SystemTerminate, SystemRelease,
         SystemRecord, SystemPost, ReleaseRow
    <3> QED
      BY <1>0, <2>1, <3>1, <3>2
  <2> QED
    BY <2>2, <2>3
<1>3. ASSUME NEW r \in RowIds, rowLock'[r] # NoTid
      PROVE  handle'[rowLock'[r]] = r /\ pc'[rowLock'[r]] \in {"open", "print", "release"}
  <2>1. rowLock[r] # NoTid =>
          handle[rowLock[r]] = r /\ pc[rowLock[r]] \in {"open", "print", "release"}
    BY DEF LocksAreHeld
  <2>2. CASE rowLock'[r] # t
    <3>1. rowLock'[r] = rowLock[r] /\ rowLock[r] \in Tids
      BY <1>0, <1>3, <2>2 DEF MonitorNext, MonitorLockRow, MonitorOpen,
         MonitorProcessGone, MonitorPrint, MonitorPrintFails, MonitorContinue,
         MonitorTerminate, MonitorRelease, MonitorWait, MonitorRecord, MonitorPost,
         SystemNext, SystemLockRow, SystemPrint, SystemContinue, SystemTerminate,
         SystemRelease, SystemRecord, SystemPost, IsMonitor, IsSystem, ReleaseRow,
         CopyRow, tables
    <3> QED
      BY <1>1, <1>3, <2>1, <2>2, <3>1
  <2>3. CASE rowLock'[r] = t
    <3>1. CASE pc[t] \in {"top", "check"}
      <4>1. rowLock[r] # t
        BY <1>0, <2>1, <3>1
      <4>2. r = handle[t] /\ handle'[t] = handle[t] /\ pc'[t] \in {"open", "release"}
        BY <1>0, <2>3, <3>1, <4>1 DEF MonitorNext, MonitorLockRow, MonitorOpen,
           MonitorProcessGone, MonitorPrint, MonitorPrintFails, MonitorContinue,
           MonitorTerminate, MonitorRelease, MonitorWait, MonitorRecord, MonitorPost,
           SystemNext, SystemLockRow, SystemPrint, SystemContinue, SystemTerminate,
           SystemRelease, SystemRecord, SystemPost, IsMonitor, IsSystem, CopyRow, tables
      <4> QED
        BY <2>3, <4>2
    <3>2. CASE pc[t] \notin {"top", "check"}
      <4>1. rowLock[r] = t
        BY <1>0, <2>3, <3>2 DEF MonitorNext, MonitorLockRow, MonitorOpen,
           MonitorProcessGone, MonitorPrint, MonitorPrintFails, MonitorContinue,
           MonitorTerminate, MonitorRelease, MonitorWait, MonitorRecord, MonitorPost,
           SystemNext, SystemLockRow, SystemPrint, SystemContinue, SystemTerminate,
           SystemRelease, SystemRecord, SystemPost, IsMonitor, IsSystem, ReleaseRow, tables
      <4>2. handle[t] = r /\ pc[t] \in {"open", "print", "release"}
        BY <1>0, <2>1, <4>1
      <4>3. handle'[t] = handle[t] /\ pc'[t] \in {"open", "print", "release"}
        BY <1>0, <2>3, <4>2 DEF MonitorNext, MonitorLockRow, MonitorOpen,
           MonitorProcessGone, MonitorPrint, MonitorPrintFails, MonitorContinue,
           MonitorTerminate, MonitorRelease, MonitorWait, MonitorRecord, MonitorPost,
           SystemNext, SystemLockRow, SystemPrint, SystemContinue, SystemTerminate,
           SystemRelease, SystemRecord, SystemPost, IsMonitor, IsSystem, ReleaseRow,
           threads, tables
      <4> QED
        BY <2>3, <4>2, <4>3
    <3> QED
      BY <3>1, <3>2
  <2> QED
    BY <2>2, <2>3
<1>4. ASSUME NEW e \in Entries, fileLock'[e] # NoTid
      PROVE  /\ pc'[fileLock'[e]] = "print"
             /\ threadTable'[handle'[fileLock'[e]]].fTable = e
  <2>1. fileLock[e] # NoTid => pc[fileLock[e]] = "print" /\ MyRow(fileLock[e]).fTable = e
    BY DEF LocksAreHeld
  <2>2. CASE fileLock'[e] # t
    <3>1. fileLock'[e] = fileLock[e] /\ fileLock[e] \in Tids
      BY <1>0, <1>4, <2>2 DEF MonitorNext, MonitorLockRow, MonitorOpen,
         MonitorProcessGone, MonitorPrint, MonitorPrintFails, MonitorContinue,
         MonitorTerminate, MonitorRelease, MonitorWait, MonitorRecord, MonitorPost,
         SystemNext, SystemLockRow, SystemPrint, SystemContinue, SystemTerminate,
         SystemRelease, SystemRecord, SystemPost, ReleaseRow, CopyRow, tables
    <3> QED
      BY <1>1, <1>2, <1>4, <2>1, <2>2, <3>1 DEF MyRow
  <2>3. CASE fileLock'[e] = t
    <3>1. CASE MonitorOpen(t)
      <4>1. e = MyRow(t).fTable
        BY <1>0, <2>1, <2>3, <3>1 DEF MonitorOpen
      <4>2. pc'[t] = "print" /\ handle' = handle /\ threadTable' = threadTable
        BY <1>0, <3>1 DEF MonitorOpen
      <4> QED
        BY <2>3, <4>1, <4>2 DEF MyRow
    <3>2. CASE ~MonitorOpen(t)
      <4>1. fileLock[e] = t
        BY <1>0, <2>3, <3>2 DEF MonitorNext, MonitorLockRow,
           MonitorProcessGone, MonitorPrint, MonitorPrintFails, MonitorContinue,
           MonitorTerminate, MonitorRelease, MonitorWait, MonitorRecord, MonitorPost,
           SystemNext, SystemLockRow, SystemPrint, SystemContinue, SystemTerminate,
           SystemRelease, SystemRecord, SystemPost, ReleaseRow, CopyRow, tables
      <4>2. pc[t] = "print" /\ MyRow(t).fTable = e
        BY <1>0, <2>1, <4>1
      <4>3. MonitorPrint(t) \/ MonitorPrintFails(t)
        BY <3>2, <4>2 DEF MonitorNext, MonitorLockRow, MonitorProcessGone,
           MonitorContinue, MonitorTerminate, MonitorRelease, MonitorWait,
           MonitorRecord, MonitorPost, SystemNext, SystemLockRow, SystemPrint,
           SystemContinue, SystemTerminate, SystemRelease, SystemRecord, SystemPost
      <4>4. ~MonitorPrint(t)
        BY <1>0, <2>3, <4>2 DEF MonitorPrint
      <4>5. UNCHANGED <<threadTable, pc, handle>>
        BY <4>3, <4>4 DEF MonitorPrintFails, tables, threads
      <4> QED
        BY <2>3, <4>2, <4>5 DEF MyRow
    <3> QED
      BY <3>1, <3>2
  <2> QED
    BY <2>2, <2>3
<1> QED
  BY <1>3, <1>4 DEF LocksAreHeld, MyRow

(* A new thread holds nothing. *)
LEMMA LocksCreate ==
  ASSUME TypeOK, Ownership, LocksAreHeld, NEW t \in Tids, CreateThread(t)
  PROVE  LocksAreHeld'
<1>0. /\ rowLock \in [RowIds -> Tids \cup {NoTid}]
      /\ fileLock \in [Entries -> Tids \cup {NoTid}]
      /\ pc \in [Tids -> Labels] /\ handle \in [Tids -> RowIds \cup {NoRow}]
      /\ threadTable \in [RowIds -> ThreadTableRow] /\ cmd.row \in RowIds
  BY DEF TypeOK, CommandInRange, CreateThread
<1>1. /\ pc[t] = "none" /\ pc' = [pc EXCEPT ![t] = "top"]
      /\ handle' = [handle EXCEPT ![t] = cmd.row]
      /\ threadTable' = [threadTable EXCEPT ![cmd.row].tid = t]
      /\ UNCHANGED <<rowLock, fileLock>>
  BY DEF CreateThread, FreeTids
<1>2. ASSUME NEW u \in Tids, pc[u] \in {"open", "print", "release"}
      PROVE  /\ pc'[u] = pc[u] /\ handle'[u] = handle[u]
             /\ threadTable'[handle[u]].fTable = threadTable[handle[u]].fTable
  <2>1. u # t /\ handle[u] \in RowIds
    BY <1>1, <1>2 DEF Ownership, LiveHaveRows, Live
  <2> QED
    BY <1>0, <1>1, <2>1 DEF ThreadTableRow
<1>3. ASSUME NEW r \in RowIds, rowLock[r] # NoTid
      PROVE  handle'[rowLock[r]] = r /\ pc'[rowLock[r]] \in {"open", "print", "release"}
  BY <1>0, <1>2, <1>3 DEF LocksAreHeld
<1>4. ASSUME NEW e \in Entries, fileLock[e] # NoTid
      PROVE  pc'[fileLock[e]] = "print" /\ threadTable'[handle'[fileLock[e]]].fTable = e
  BY <1>0, <1>2, <1>4 DEF LocksAreHeld, MyRow
<1> QED
  BY <1>1, <1>3, <1>4 DEF LocksAreHeld, MyRow

(* A row's lock is held by whoever uses the row, a log file's by whoever prints to it. *)
LEMMA LocksNext ==
  ASSUME TypeOK, Ownership, LocksAreHeld, [Next]_vars
  PROVE  LocksAreHeld'
<1>0. /\ threadTable \in [RowIds -> ThreadTableRow]
      /\ cmd \in CommandLocals /\ CommandInRange
  BY DEF TypeOK
<1>1. ASSUME \A r \in RowIds : SameUse(r), UNCHANGED <<rowLock, fileLock, pc, handle>>
      PROVE  LocksAreHeld'
  BY <1>1, LocksStay DEF SameUse
<1>2. CASE UserStep
  <2>1. UNCHANGED <<rowLock, fileLock, pc, handle>>
    BY <1>2 DEF UserStep, CommandTyped, AddSystem, AddProcess, AddExec, RemoveSystem,
       RemoveThread, KillProcess, ExitMond, StartWebmon, ListActive, ListCompleted,
       threads, tables
  <2>2. CASE \E f \in LogFiles : AddSystem(f)
    <3>1. threadTable' = [threadTable EXCEPT ![SystemRow].pid = SystemPid,
                                             ![SystemRow].startTime = TRUE]
      BY <2>2 DEF AddSystem
    <3>2. \A r \in RowIds : threadTable'[r].fTable = threadTable[r].fTable
      BY <1>0, <3>1, Ranges DEF ThreadTableRow
    <3> QED
      BY <2>1, <3>2, LocksStay
  <2>3. CASE ~\E f \in LogFiles : AddSystem(f)
    <3>1. threadTable' = threadTable
      BY <1>2, <2>3 DEF UserStep, CommandTyped, AddProcess, AddExec, RemoveSystem,
         RemoveThread, KillProcess, ExitMond, StartWebmon, ListActive, ListCompleted,
         tables
    <3> QED
      BY <1>1, <2>1, <3>1, SameTableSameUse
  <2> QED
    BY <2>2, <2>3
<1>3. CASE CommandGoesOn /\ ~\E t \in Tids : CreateThread(t)
  <2>1. UNCHANGED <<rowLock, fileLock, pc, handle>>
    BY <1>3 DEF CommandGoesOn, CommandStep, FindRowTaken, FindRowFree, Fork, WaitExec,
       InitRow, ScanMiss, ScanHit, OpenLog, SystemCreated, MonitorCreated,
       ReadSystemTid, StopSystemTid, StopTid, FindPid, SignalSent, SignalDenied,
       SignalNoProcess, MarkKilled, ExitStopSystem, ExitStopRow, ExitSystemEnded,
       ExitMonitorsEnded, ClearList, DestroyList, DestroyTables, MainReturns, ListRow,
       ListLock, ListUnlock, threads, tables,
       AddRefused, ForkFails, StatFails, OpenFails, CreateFails, RefusedAt
  <2>2. CASE InitRow
    <3>1. threadTable' = [threadTable EXCEPT ![cmd.row] =
                            [threadTable[cmd.row] EXCEPT !.isChild = cmd.exec,
                                                         !.pid = cmd.pid,
                                                         !.startTime = TRUE]]
      BY <2>2 DEF InitRow
    <3>2. \A r \in RowIds : threadTable'[r].fTable = threadTable[r].fTable
      BY <1>0, <3>1 DEF ThreadTableRow
    <3> QED
      BY <2>1, <3>2, LocksStay
  <2>3. CASE ScanHit \/ OpenLog
    <3>1. threadTable[cmd.row].tid = NoTid
      BY <2>3 DEF ScanHit, OpenLog, Ownership, AddHasItsRow, RowFilled
    <3>2. \/ threadTable' = threadTable
          \/ \E e : threadTable' = [threadTable EXCEPT ![cmd.row].fTable = e,
                                                       ![cmd.row].fileName = cmd.file]
      BY <2>3 DEF ScanHit, OpenLog, UseEntry
    <3>3. \A r \in RowIds : r # cmd.row => threadTable'[r].fTable = threadTable[r].fTable
      BY <1>0, <3>2
    <3> QED
      BY <2>1, <3>1, <3>3, LocksStay
  <2>4. CASE \/ FindRowTaken \/ FindRowFree \/ WaitExec \/ ScanMiss \/ AddRefused
             \/ \E p \in Children : Fork(p)
    <3>1. threadTable' = threadTable
      BY <2>4, RefusedStep DEF FindRowTaken, FindRowFree, WaitExec, ScanMiss, Fork, tables
    <3> QED
      BY <1>1, <2>1, <3>1, SameTableSameUse
  <2>5. CASE ~ \/ InitRow \/ ScanHit \/ OpenLog \/ FindRowTaken \/ FindRowFree
               \/ WaitExec \/ ScanMiss \/ AddRefused \/ \E p \in Children : Fork(p)
    <3>1. \A r \in RowIds : SameUse(r)
      BY <1>3, <2>5, CarriedOutIsQuiet DEF CommandGoesOn, CommandStep, QuietFiles
    <3> QED
      BY <1>1, <2>1, <3>1
  <2> QED
    BY <2>2, <2>3, <2>4, <2>5
<1>4. CASE WebmonStep \/ ProcessStep \/ UNCHANGED vars
  <2>1. UNCHANGED <<rowLock, fileLock, pc, handle, threadTable>>
    BY <1>4 DEF WebmonStep, WebmonNext, WebmonRefresh, WebmonShowRow, WebmonLockList,
       WebmonUnlockList, WebmonShowFiles, ProcessStep, ProcessDies, ProcessReaped,
       vars, threads, tables,
       WebmonRefused
  <2> QED
    BY <1>1, <2>1, SameTableSameUse
<1> QED
  BY <1>2, <1>3, <1>4, LocksCreate, LocksOfThreads DEF Next, Ended, ThreadStep

-----------------------------------------------------------------------------
(* The end of the program, and its failures.                                *)

(* Once the program is being taken apart it goes on until it is. *)
LEMMA TeardownGoesOn ==
  ASSUME TypeOK, [Next]_vars, Teardown
  PROVE  Teardown'
<1>0. cmd \in CommandLocals
  BY DEF TypeOK
<1>1. CASE cmd' = cmd
  BY <1>1 DEF Teardown
<1>2. ~UserStep \/ cmd' = cmd
  BY DEF Teardown, UserStep, CommandTyped, AddSystem, AddProcess, AddExec,
     RemoveSystem, RemoveThread, KillProcess, ExitMond, StartWebmon, ListActive,
     ListCompleted, Typed
<1>3. CASE CommandGoesOn
  <2>1. ClearList \/ DestroyList \/ DestroyTables \/ MainReturns
    BY <1>3 DEF Teardown, CommandGoesOn, CommandStep, FindRowTaken, FindRowFree, Fork,
       WaitExec, InitRow, ScanMiss, ScanHit, OpenLog, CreateThread, SystemCreated,
       MonitorCreated, ReadSystemTid, StopSystemTid, StopTid, FindPid, SignalSent,
       SignalDenied, SignalNoProcess, MarkKilled, ExitStopSystem, ExitStopRow,
       ExitSystemEnded, ExitMonitorsEnded, ListRow, ListLock, ListUnlock,
       AddRefused, ForkFails, StatFails, OpenFails, CreateFails, RefusedAt
  <2>2. \/ cmd' = cmd
        \/ \E l \in {"destroyList", "destroyTables", "return"} : cmd' = [cmd EXCEPT !.pc = l]
    BY <2>1 DEF ClearList, DestroyList, DestroyTables, MainReturns, Goto
  <2> QED
    BY <1>0, <1>1, <2>2 DEF Teardown, CommandLocals
<1>4. CASE (\E t \in Tids : ThreadStep(t)) \/ WebmonStep \/ ProcessStep \/ UNCHANGED vars
  <2>1. cmd' = cmd
    BY <1>4 DEF ThreadStep, MonitorNext, MonitorLockRow, MonitorOpen,
       MonitorProcessGone, MonitorPrint, MonitorPrintFails, MonitorContinue,
       MonitorTerminate, MonitorRelease, MonitorWait, MonitorRecord, MonitorPost,
       SystemNext, SystemLockRow, SystemPrint, SystemContinue, SystemTerminate,
       SystemRelease, SystemRecord, SystemPost, WebmonStep, WebmonNext,
       WebmonRefresh, WebmonShowRow, WebmonLockList, WebmonUnlockList,
       WebmonShowFiles, ProcessStep, ProcessDies, ProcessReaped, vars,
       WebmonRefused
  <2> QED
    BY <1>1, <2>1
<1> QED
  BY <1>1, <1>2, <1>3, <1>4 DEF Next, Ended

(* The list of ended monitors is whole until exit clears it. *)
LEMMA ListNext ==
  ASSUME TypeOK, ListIsWhole, [Next]_vars
  PROVE  ListIsWhole'
<1>0. cmd \in CommandLocals /\ web \in WebLocals
  BY DEF TypeOK
<1>1. CASE Teardown
  BY <1>1, TeardownGoesOn DEF ListIsWhole
<1>2. ASSUME ClearList \/ DestroyList PROVE Teardown
  BY <1>2 DEF ClearList, DestroyList, Teardown
<1>3. CASE ~Teardown
  <2>1. listExists /\ ~web.dangling
    BY <1>3 DEF ListIsWhole
  <2>2. listExists' = listExists
    BY <1>2, <1>3 DEF Next, Ended, UserStep, CommandTyped, AddSystem, AddProcess,
       AddExec, RemoveSystem, RemoveThread, KillProcess, ExitMond, StartWebmon,
       ListActive, ListCompleted, CommandGoesOn, CommandStep, FindRowTaken,
       FindRowFree, Fork, WaitExec, InitRow, ScanMiss, ScanHit, OpenLog, CreateThread,
       SystemCreated, MonitorCreated, ReadSystemTid, StopSystemTid, StopTid, FindPid,
       SignalSent, SignalDenied, SignalNoProcess, MarkKilled, ExitStopSystem,
       ExitStopRow, ExitSystemEnded, ExitMonitorsEnded, DestroyTables, MainReturns,
       ListRow, ListLock, ListUnlock, ThreadStep, MonitorNext, MonitorLockRow,
       MonitorOpen, MonitorProcessGone, MonitorPrint, MonitorPrintFails,
       MonitorContinue, MonitorTerminate, MonitorRelease, MonitorWait, MonitorRecord,
       MonitorPost, SystemNext, SystemLockRow, SystemPrint, SystemContinue,
       SystemTerminate, SystemRelease, SystemRecord, SystemPost, WebmonStep,
       WebmonNext, WebmonRefresh, WebmonShowRow, WebmonLockList, WebmonUnlockList,
       WebmonShowFiles, ProcessStep, ProcessDies, ProcessReaped, vars, globals,
       AddRefused, ForkFails, StatFails, OpenFails, CreateFails, RefusedAt,
       WebmonRefused
  <2>3. ~web'.dangling
    <3>1. CASE web' = web
      BY <2>1, <3>1
    <3>2. CASE StartWebmon
      BY <1>0, <2>1, <3>2 DEF StartWebmon, WebLocals
    <3>3. CASE WebmonStep
      <4>1. CASE \/ WebmonRefresh \/ WebmonRefused \/ WebmonUnlockList
                 \/ WebmonShowFiles \/ WebmonLockList
        <5>1. \/ web' = web
              \/ \E i : web' = [web EXCEPT !.pc = "rows", !.i = i]
              \/ web' = [web EXCEPT !.pc = "files", !.dangling = FALSE]
              \/ web' = [web EXCEPT !.pc = "start"]
              \/ web' = [web EXCEPT !.pc = "completed"]
          BY <4>1, RefusedStep DEF WebmonRefresh, WebmonUnlockList, WebmonShowFiles, WebmonLockList
        <5> QED
          BY <1>0, <2>1, <5>1 DEF WebLocals
      <4>2. CASE WebmonShowRow
        <5>1. \/ web' = web
              \/ \E i, l : web' = [web EXCEPT !.i = i, !.pc = l]
          <6>1. CASE TablesDestroyed
            BY <4>2, <6>1 DEF WebmonShowRow
          <6>2. CASE ~TablesDestroyed
            <7> DEFINE i == IF web.i = THREAD_TABLE_SIZE THEN 0 ELSE web.i + 1
                       l == IF web.i = THREAD_TABLE_SIZE THEN "lockList" ELSE "rows"
            <7>1. web' = [web EXCEPT !.i = i, !.pc = l]
              BY <4>2, <6>2 DEF WebmonShowRow
            <7> QED
              BY <7>1
          <6> QED
            BY <6>1, <6>2
        <5> QED
          BY <1>0, <2>1, <5>1 DEF WebLocals
      <4> QED
        BY <3>3, <4>1, <4>2 DEF WebmonStep, WebmonNext
    <3>4. ASSUME UserStep, ~StartWebmon PROVE web' = web
      BY <3>4 DEF UserStep, CommandTyped, AddSystem, AddProcess, AddExec, RemoveSystem,
         RemoveThread, KillProcess, ExitMond, ListActive, ListCompleted
    <3>5. ASSUME CommandGoesOn PROVE web' = web
      BY <1>2, <1>3, <3>5 DEF CommandGoesOn, CommandStep, FindRowTaken, FindRowFree,
         Fork, WaitExec, InitRow, ScanMiss, ScanHit, OpenLog, CreateThread,
         SystemCreated, MonitorCreated, ReadSystemTid, StopSystemTid, StopTid, FindPid,
         SignalSent, SignalDenied, SignalNoProcess, MarkKilled, ExitStopSystem,
         ExitStopRow, ExitSystemEnded, ExitMonitorsEnded, DestroyTables,
         MainReturns, ListRow, ListLock, ListUnlock,
         AddRefused, ForkFails, StatFails, OpenFails, CreateFails, RefusedAt
    <3>6. ASSUME \E t \in Tids : ThreadStep(t) PROVE web' = web
      BY <3>6 DEF ThreadStep, MonitorNext, MonitorLockRow, MonitorOpen,
         MonitorProcessGone, MonitorPrint, MonitorPrintFails, MonitorContinue,
         MonitorTerminate, MonitorRelease, MonitorWait, MonitorRecord, MonitorPost,
         SystemNext, SystemLockRow, SystemPrint, SystemContinue, SystemTerminate,
         SystemRelease, SystemRecord, SystemPost
    <3>7. ASSUME ProcessStep \/ UNCHANGED vars PROVE web' = web
      BY <3>7 DEF ProcessStep, ProcessDies, ProcessReaped, vars
    <3> QED
      BY <3>1, <3>2, <3>3, <3>4, <3>5, <3>6, <3>7 DEF Next, Ended
  <2> QED
    BY <2>1, <2>2, <2>3 DEF ListIsWhole
<1> QED
  BY <1>1, <1>3

(* In the teardown the mutexes are free. *)
LEMMA NothingIsHeld ==
  ASSUME TypeOK, Ownership, SlotsAreCounted, ThreadsHaveEnded, LocksAreHeld, Teardown
  PROVE  NoMutexHeld
<1>1. \A t \in Tids : pc[t] \in {"none", "done"}
  BY NoThreadIsLeft DEF Live
<1>2. /\ rowLock \in [RowIds -> Tids \cup {NoTid}]
      /\ fileLock \in [Entries -> Tids \cup {NoTid}]
  BY DEF TypeOK
<1>3. \A r \in RowIds : rowLock[r] = NoTid
  BY <1>1, <1>2 DEF LocksAreHeld
<1>4. \A e \in Entries : fileLock[e] = NoTid
  BY <1>1, <1>2 DEF LocksAreHeld
<1> QED
  BY <1>3, <1>4 DEF NoMutexHeld

(* What the operating system refuses is asked for by add or by webmon. *)
RefusedWhere == cmd.pc \in {"fork", "scan", "openLog", "create"} \/ web.pc = "start"

LEMMA RefusedNext ==
  ASSUME FailsOnlyAsKnown, [Next]_vars, status' = "refused"
  PROVE  RefusedWhere'
<1>1. CASE status = "up"
  <2>1. AddRefused \/ WebmonRefused
    BY <1>1 DEF Next, vars, Ended,
       UserStep, CommandTyped, AddSystem, AddProcess, AddExec, RemoveSystem,
       RemoveThread, KillProcess, ExitMond, StartWebmon, ListActive, ListCompleted,
       CommandGoesOn, CommandStep, FindRowTaken, FindRowFree, Fork, WaitExec, InitRow,
       ScanMiss, ScanHit, OpenLog, CreateThread, SystemCreated, MonitorCreated,
       ReadSystemTid, StopSystemTid, StopTid, FindPid, SignalSent, SignalDenied,
       SignalNoProcess, MarkKilled, ExitStopSystem, ExitStopRow, ExitSystemEnded,
       ExitMonitorsEnded, ClearList, DestroyList, DestroyTables, MainReturns, ListRow,
       ListLock, ListUnlock,
       ThreadStep, MonitorNext, MonitorLockRow, MonitorOpen, MonitorProcessGone,
       MonitorPrint, MonitorPrintFails, MonitorContinue, MonitorTerminate,
       MonitorRelease, MonitorWait, MonitorRecord, MonitorPost, SystemNext,
       SystemLockRow, SystemPrint, SystemContinue, SystemTerminate, SystemRelease,
       SystemRecord, SystemPost,
       WebmonStep, WebmonNext, WebmonRefresh, WebmonShowRow, WebmonLockList,
       WebmonUnlockList, WebmonShowFiles, ProcessStep, ProcessDies, ProcessReaped
  <2> QED
    BY <2>1 DEF AddRefused, ForkFails, StatFails, OpenFails, CreateFails, RefusedAt,
       WebmonRefused, RefusedWhere
<1>2. CASE status # "up"
  <2>1. status = "refused" /\ cmd' = cmd /\ web' = web
    BY <1>2 DEF Next, Ended, vars, UserStep, CommandGoesOn, ThreadStep, WebmonStep,
       ProcessStep
  <2> QED
    BY <2>1 DEF FailsOnlyAsKnown, RefusedWhere
<1> QED
  BY <1>1, <1>2

(* A step that crashes mond is one of the known three. *)
LEMMA FailsNext ==
  ASSUME TypeOK, Ownership, SlotsAreCounted, ThreadsHaveEnded, EntryIsFound, ChildIsThere,
         FailureInvariant, [Next]_vars
  PROVE  FailsOnlyAsKnown'
<1> SUFFICES ASSUME status' = "crashed" PROVE FailsOnlyAsKnown'
  BY RefusedNext DEF FailsOnlyAsKnown, FailureInvariant, RefusedWhere
<1>0. ListIsWhole /\ LocksAreHeld /\ FailsOnlyAsKnown
  BY DEF FailureInvariant
<1>1. CASE UNCHANGED vars
  <2>1. status = "crashed" /\ UNCHANGED <<pc, handle, threadTable, proc, cmd, web>>
    BY <1>1 DEF vars, tables, threads
  <2>2. FailsOnlyAsKnown' <=> FailsOnlyAsKnown
    BY <1>1, <2>1 DEF FailsOnlyAsKnown, IsSystem, InProc, Teardown
  <2> QED
    BY <1>0, <2>2
<1>2. CASE status = "up"
  <2>1. ASSUME NEW t \in Tids, MonitorNext(t) \/ SystemNext(t) PROVE FailsOnlyAsKnown'
    <3>1. CASE MonitorPrintFails(t) /\ IsMonitor(t)
      <4>1. /\ pc[t] = "print" /\ ~InProc(threadTable[handle[t]].pid)
            /\ UNCHANGED <<pc, handle, threadTable, proc>>
        BY <3>1 DEF MonitorPrintFails, MyRow, threads, tables
      <4>2. ~IsSystem(t)
        BY <3>1 DEF IsMonitor, IsSystem, SystemRow, Rows
      <4> QED
        BY <4>1, <4>2 DEF FailsOnlyAsKnown, IsSystem, InProc
    <3>2. CASE MonitorWait(t)
      BY <1>2, <3>2 DEF MonitorWait, ChildIsThere, MyRow
    <3>3. CASE ~(MonitorPrintFails(t) /\ IsMonitor(t)) /\ ~MonitorWait(t)
      <4>1. status' = status
        BY <2>1, <3>3 DEF MonitorNext, MonitorLockRow, MonitorOpen, MonitorProcessGone,
           MonitorPrint, MonitorContinue, MonitorTerminate, MonitorRelease,
           MonitorRecord, MonitorPost, SystemNext, SystemLockRow, SystemPrint,
           SystemContinue, SystemTerminate, SystemRelease, SystemRecord, SystemPost
      <4> QED
        BY <1>2, <4>1
    <3> QED
      BY <3>1, <3>2, <3>3
  <2>2. CASE CommandGoesOn
    <3>1. CASE OpenLog
      BY <1>2, <3>1 DEF OpenLog, EntryIsFound
    <3>2. CASE SignalNoProcess
      <4>1. cmd.pc = "signal" /\ ~InProc(cmd.pid) /\ UNCHANGED <<cmd, proc>>
        BY <3>2 DEF SignalNoProcess
      <4> QED
        BY <4>1 DEF FailsOnlyAsKnown, InProc
    <3>3. CASE DestroyTables
      <4>1. Teardown /\ web' = web
        BY <3>3 DEF DestroyTables, Teardown
      <4>2. NoMutexHeld
        BY <1>0, <4>1, NothingIsHeld
      <4>3. web.pc \in {"rows", "files"}
        BY <1>2, <3>3, <4>2 DEF DestroyTables
      <4>4. Teardown'
        BY <4>1, TeardownGoesOn
      <4> QED
        BY <4>1, <4>3, <4>4 DEF FailsOnlyAsKnown
    <3>4. CASE ~OpenLog /\ ~SignalNoProcess /\ ~DestroyTables
      <4>1. status' \in {status, "exited"}
        BY <2>2, <3>4 DEF CommandGoesOn, CommandStep, FindRowTaken, FindRowFree, Fork,
           WaitExec, InitRow, ScanMiss, ScanHit, CreateThread, SystemCreated,
           MonitorCreated, ReadSystemTid, StopSystemTid, StopTid, FindPid, SignalSent,
           SignalDenied, MarkKilled, ExitStopSystem, ExitStopRow, ExitSystemEnded,
           ExitMonitorsEnded, ClearList, DestroyList, MainReturns, ListRow, ListLock,
           ListUnlock,
           AddRefused, ForkFails, StatFails, OpenFails, CreateFails, RefusedAt
      <4> QED
        BY <1>2, <4>1
    <3> QED
      BY <3>1, <3>2, <3>3, <3>4
  <2>3. CASE WebmonStep
    <3>1. Teardown /\ web.pc # "off"
      BY <1>0, <1>2, <2>3 DEF WebmonStep, WebmonNext, WebmonRefresh, WebmonShowRow,
         WebmonLockList, WebmonUnlockList, WebmonShowFiles, TablesDestroyed, Teardown,
         ListIsWhole,
         WebmonRefused
    <3>2. web' = web
      BY <1>2, <2>3 DEF WebmonStep, WebmonNext, WebmonRefresh, WebmonShowRow,
         WebmonLockList, WebmonUnlockList, WebmonShowFiles,
         WebmonRefused
    <3>3. Teardown'
      BY <3>1, TeardownGoesOn
    <3> QED
      BY <3>1, <3>2, <3>3 DEF FailsOnlyAsKnown
  <2>4. CASE UserStep \/ ProcessStep
    BY <1>2, <2>4 DEF UserStep, CommandTyped, AddSystem, AddProcess, AddExec,
       RemoveSystem, RemoveThread, KillProcess, ExitMond, StartWebmon, ListActive,
       ListCompleted, ProcessStep, ProcessDies, ProcessReaped
  <2> QED
    BY <1>1, <2>1, <2>2, <2>3, <2>4 DEF Next, Ended, ThreadStep
<1>3. CASE status # "up"
  BY <1>1, <1>3 DEF Next, Ended, UserStep, CommandGoesOn, ThreadStep, WebmonStep,
     ProcessStep
<1> QED
  BY <1>2, <1>3

(* At the start nothing has failed. *)
LEMMA FailureInit == Init => FailureInvariant
BY DEF Init, FailureInvariant, LocksAreHeld, ListIsWhole, FailsOnlyAsKnown, RowIds, Entries

(* Whatever is typed, whatever dies and in whatever order the threads run: mond
   fails when a process is waited for while it is read, when kill comes after
   the end of its process, or when exit leaves webmon behind, and in no other
   way (logLibrary.c:48, commands.c:435, mond.c:353-357). *)
THEOREM FailuresAreKnown == Spec => []FailsOnlyAsKnown
<1>1. TypeOK /\ Ownership /\ SlotsAreCounted /\ ThreadsHaveEnded /\ EntryIsFound
        /\ ChildIsThere /\ FailureInvariant /\ [Next]_vars
        => FailureInvariant'
  <2> SUFFICES ASSUME TypeOK, Ownership, SlotsAreCounted, ThreadsHaveEnded, EntryIsFound,
                      ChildIsThere, FailureInvariant, [Next]_vars
               PROVE  FailureInvariant'
    OBVIOUS
  <2>1. LocksAreHeld' /\ ListIsWhole'
    BY LocksNext, ListNext DEF FailureInvariant
  <2> QED
    BY <2>1, FailsNext DEF FailureInvariant
<1>2. FailureInvariant => FailsOnlyAsKnown
  BY DEF FailureInvariant
<1> QED
  BY <1>1, <1>2, FailureInit, TypeCorrect, OwnershipCorrect, SlotsAreWellCounted,
     ThreadsStayEnded, EntryIsAlwaysFound, ChildIsStillThere, PTL DEF Spec

-----------------------------------------------------------------------------
(* The end of the program, when there is no web page to leave behind.       *)

NoWebmon == "webmon" \notin Commands

(* Without the webmon command webmon never starts. *)
LEMMA WebmonStaysOff ==
  ASSUME TypeOK, NoWebmon, web.pc = "off", [Next]_vars
  PROVE  web'.pc = "off"
<1>0. web \in WebLocals
  BY DEF TypeOK
<1>1. CASE ClearList
  <2>1. \E d : web' = [web EXCEPT !.dangling = d]
    BY <1>1 DEF ClearList
  <2> QED
    BY <1>0, <2>1 DEF WebLocals
<1>2. ASSUME UserStep PROVE web' = web
  BY <1>2 DEF NoWebmon, UserStep, CommandTyped, AddSystem, AddProcess, AddExec,
     RemoveSystem, RemoveThread, KillProcess, ExitMond, StartWebmon, ListActive,
     ListCompleted, Typed
<1>3. ASSUME CommandGoesOn, ~ClearList PROVE web' = web
  BY <1>3 DEF CommandGoesOn, CommandStep, FindRowTaken, FindRowFree, Fork, WaitExec,
     InitRow, ScanMiss, ScanHit, OpenLog, CreateThread, SystemCreated, MonitorCreated,
     ReadSystemTid, StopSystemTid, StopTid, FindPid, SignalSent, SignalDenied,
     SignalNoProcess, MarkKilled, ExitStopSystem, ExitStopRow, ExitSystemEnded,
     ExitMonitorsEnded, DestroyList, DestroyTables, MainReturns, ListRow, ListLock,
     ListUnlock,
     AddRefused, ForkFails, StatFails, OpenFails, CreateFails, RefusedAt
<1>4. ASSUME \E t \in Tids : ThreadStep(t) PROVE web' = web
  BY <1>4 DEF ThreadStep, MonitorNext, MonitorLockRow, MonitorOpen,
     MonitorProcessGone, MonitorPrint, MonitorPrintFails, MonitorContinue,
     MonitorTerminate, MonitorRelease, MonitorWait, MonitorRecord, MonitorPost,
     SystemNext, SystemLockRow, SystemPrint, SystemContinue, SystemTerminate,
     SystemRelease, SystemRecord, SystemPost
<1>5. ~WebmonStep
  BY DEF WebmonStep, WebmonNext, WebmonRefresh, WebmonShowRow, WebmonLockList,
     WebmonUnlockList, WebmonShowFiles,
     WebmonRefused
<1>6. ASSUME ProcessStep \/ UNCHANGED vars PROVE web' = web
  BY <1>6 DEF ProcessStep, ProcessDies, ProcessReaped, vars
<1> QED
  BY <1>1, <1>2, <1>3, <1>4, <1>5, <1>6 DEF Next, Ended

(* Where webmon is never started the end of the program is orderly: once
   exitMond has returned, nothing is left that uses the list or the mutexes that
   main then takes apart (mond.c:353-357, commands.c:578-595). *)
THEOREM ExitWithoutWebmonIsClean == NoWebmon => (Spec => []ExitIsClean)
<1> SUFFICES ASSUME NoWebmon PROVE Spec => []ExitIsClean
  OBVIOUS
<1> DEFINE Off == web.pc = "off"
<1>1. Init => Off
  BY DEF Init
<1>2. TypeOK /\ Off /\ [Next]_vars => Off'
  BY WebmonStaysOff
<1>3. TypeOK /\ Ownership /\ SlotsAreCounted /\ ThreadsHaveEnded /\ FailsOnlyAsKnown /\ Off
        => ExitIsClean
  <2> SUFFICES ASSUME TypeOK, Ownership, SlotsAreCounted, ThreadsHaveEnded,
                      FailsOnlyAsKnown, Off, Teardown, status \in {"crashed", "refused"}
               PROVE  FALSE
    BY DEF ExitIsClean, TypeOK
  <2>1. \A t \in Tids : pc[t] # "print"
    BY NoThreadIsLeft DEF Live
  <2>2. cmd.pc \notin {"signal", "fork", "scan", "openLog", "create"}
    BY DEF Teardown
  <2> QED
    BY <2>1, <2>2 DEF FailsOnlyAsKnown
<1> HIDE DEF Off
<1> QED
  BY <1>1, <1>2, <1>3, TypeCorrect, OwnershipCorrect, SlotsAreWellCounted,
     ThreadsStayEnded, FailuresAreKnown, PTL DEF Spec

-----------------------------------------------------------------------------
(* The marks in rows without a thread.                                      *)

(* The user types none of the two commands that mark a row they have not found
   a thread in. *)
OrdersOnly == Commands \cap {"kill", "remove -s"} = {}

ExitBegun == cmd.pc \in {"exitSystem", "exitRows", "waitSystem", "waitMonitors"} \/ Teardown

(* Until the program's end a row without a thread has no mark, since what
   removes a thread looks for its id. *)
MarksHaveOwners ==
  /\ cmd.pc \notin {"readSystemTid", "findPid", "signal", "markKilled"}
  /\ cmd.pc \in {"stopSystemTid", "stopTid"} => cmd.tid # NoTid
  /\ ~ExitBegun =>
       \A r \in RowIds : threadTable[r].tid = NoTid => threadTable[r].endStatus = "RUNNING"

(* Where the command thread goes. *)
LEMMA OrdersMove ==
  ASSUME TypeOK, OrdersOnly, MarksHaveOwners, UserStep \/ CommandGoesOn
  PROVE  /\ cmd'.pc \notin {"readSystemTid", "findPid", "signal", "markKilled"}
         /\ cmd'.pc \in {"stopSystemTid", "stopTid"} => cmd'.tid # NoTid
         /\ ExitBegun => ExitBegun'
<1>0. cmd \in CommandLocals /\ Prompt.pc = "prompt"
  BY DEF TypeOK, Prompt
<1> DEFINE Goal == /\ cmd'.pc \notin {"readSystemTid", "findPid", "signal", "markKilled"}
                   /\ cmd'.pc \in {"stopSystemTid", "stopTid"} => cmd'.tid # NoTid
                   /\ ExitBegun => ExitBegun'
           Quietly == {"prompt", "findRow", "fork", "waitExec", "init", "scan", "openLog",
                       "create", "created", "listRows", "lockList", "listing"}
<1>1. cmd' = cmd => Goal
  BY DEF MarksHaveOwners, ExitBegun, Teardown
<1>2. ~ExitBegun /\ cmd'.pc \in Quietly => Goal
  OBVIOUS
<1>3. CASE UserStep
  <2>1. ~ExitBegun \/ cmd' = cmd
    BY <1>3 DEF UserStep, CommandTyped, AddSystem, AddProcess, AddExec, RemoveSystem,
       RemoveThread, KillProcess, ExitMond, StartWebmon, ListActive, ListCompleted,
       Typed, ExitBegun, Teardown
  <2>2. ~RemoveSystem /\ ~\E p \in Pids : KillProcess(p)
    BY DEF OrdersOnly, RemoveSystem, KillProcess, Typed
  <2>3. CASE \/ \E f \in LogFiles : AddSystem(f)
             \/ \E p \in Pids, f \in LogFiles : AddProcess(p, f)
             \/ \E f \in LogFiles : AddExec(f)
    <3>1. cmd'.pc \in Quietly
      BY <2>3 DEF AddSystem, AddProcess, AddExec, Prompt
    <3> QED
      BY <1>1, <1>2, <2>1, <3>1
  <2>4. CASE ListActive \/ ListCompleted
    <3>1. cmd'.pc \in Quietly
      BY <1>0, <2>4 DEF ListActive, ListCompleted, Goto, CommandLocals
    <3> QED
      BY <1>1, <1>2, <2>1, <3>1
  <2>5. ASSUME NEW t \in Tids, RemoveThread(t) PROVE Goal
    <3>1. cmd'.pc = "stopSystemTid" /\ cmd'.tid = t
      BY <1>0, <2>5 DEF RemoveThread, CommandLocals
    <3> QED
      BY <1>1, <2>1, <3>1 DEF NoTid, Tids
  <2>6. CASE ExitMond
    <3>1. cmd'.pc \in {"exitSystem", "exitRows"}
      BY <1>0, <2>6 DEF ExitMond, CommandLocals
    <3> QED
      BY <3>1 DEF ExitBegun
  <2>7. CASE StartWebmon
    BY <1>1, <2>7 DEF StartWebmon
  <2> QED
    BY <1>3, <2>2, <2>3, <2>4, <2>5, <2>6, <2>7 DEF UserStep, CommandTyped
<1>4. CASE CommandGoesOn
  <2>1. CASE FindRowTaken \/ ListRow
    <3>1. /\ cmd.pc \in {"findRow", "listRows"}
          /\ cmd' = Prompt \/ cmd' = [cmd EXCEPT !.i = cmd.i + 1]
      BY <2>1 DEF FindRowTaken, ListRow
    <3> QED
      BY <1>0, <1>2, <3>1 DEF CommandLocals, ExitBegun, Teardown
  <2>2. CASE FindRowFree \/ InitRow \/ \E p \in Children : Fork(p)
    <3>1. ~ExitBegun /\ cmd'.pc \in Quietly
      BY <1>0, <2>2 DEF FindRowFree, InitRow, Fork, CommandLocals, ExitBegun, Teardown
    <3> QED
      BY <1>2, <3>1
  <2>3. CASE WaitExec
    <3>1. cmd.pc = "waitExec" /\ (cmd' = Prompt \/ cmd' = [cmd EXCEPT !.pc = "init"])
      BY <2>3 DEF WaitExec
    <3> QED
      BY <1>0, <1>2, <3>1 DEF CommandLocals, ExitBegun, Teardown
  <2>4. CASE ScanMiss \/ ScanHit
    <3>1. ~ExitBegun /\ cmd'.pc \in Quietly
      BY <1>0, <2>4 DEF ScanMiss, ScanHit, UseEntry, CommandLocals, ExitBegun, Teardown
    <3> QED
      BY <1>2, <3>1
  <2>5. CASE OpenLog
    <3>1. ~ExitBegun /\ (cmd' = cmd \/ cmd'.pc \in Quietly)
      BY <1>0, <2>5 DEF OpenLog, UseEntry, CommandLocals, ExitBegun, Teardown
    <3> QED
      BY <1>1, <1>2, <3>1
  <2>6. CASE SystemCreated \/ MonitorCreated \/ \E t \in Tids : CreateThread(t)
    <3>1. ~ExitBegun /\ cmd'.pc \in Quietly
      BY <1>0, <2>6 DEF SystemCreated, MonitorCreated, CreateThread, Goto, CommandLocals,
         ExitBegun, Teardown
    <3> QED
      BY <1>2, <3>1
  <2>7. CASE StopSystemTid \/ StopTid
    <3>1. /\ cmd.pc \in {"stopSystemTid", "stopTid"}
          /\ \/ cmd' = Prompt
             \/ cmd' = [cmd EXCEPT !.pc = "stopTid", !.i = 1]
             \/ cmd' = [cmd EXCEPT !.i = cmd.i + 1]
      BY <2>7 DEF StopSystemTid, StopTid
    <3>2. cmd.tid # NoTid /\ ~ExitBegun
      BY <3>1 DEF MarksHaveOwners, ExitBegun, Teardown
    <3>3. cmd'.pc = "prompt" \/ (cmd'.pc \in {"stopSystemTid", "stopTid"} /\ cmd'.tid = cmd.tid)
      BY <1>0, <3>1 DEF CommandLocals
    <3> QED
      BY <3>2, <3>3
  <2>8. CASE \/ ReadSystemTid \/ FindPid \/ SignalSent \/ SignalDenied
             \/ SignalNoProcess \/ MarkKilled
    BY <2>8 DEF MarksHaveOwners, ReadSystemTid, FindPid, SignalSent, SignalDenied,
       SignalNoProcess, MarkKilled
  <2>9. CASE \/ ExitStopSystem \/ ExitSystemEnded \/ ExitMonitorsEnded
             \/ ClearList \/ DestroyList \/ DestroyTables \/ MainReturns
    <3>1. \/ cmd' = cmd
          \/ \E l \in {"exitRows", "waitMonitors", "clear", "destroyList",
                       "destroyTables", "return"} : cmd' = [cmd EXCEPT !.pc = l]
      BY <2>9 DEF ExitStopSystem, ExitSystemEnded, ExitMonitorsEnded, ClearList,
         DestroyList, DestroyTables, MainReturns, Goto
    <3> QED
      BY <1>0, <1>1, <3>1 DEF CommandLocals, ExitBegun, Teardown
  <2>10. CASE ExitStopRow
    <3>1. /\ cmd.pc = "exitRows"
          /\ \/ cmd' = [cmd EXCEPT !.pc = "waitSystem", !.i = 0]
             \/ cmd' = [cmd EXCEPT !.i = cmd.i + 1]
      BY <2>10 DEF ExitStopRow
    <3> QED
      BY <1>0, <3>1 DEF CommandLocals, ExitBegun
  <2>11. CASE ListLock \/ ListUnlock
    <3>1. ~ExitBegun /\ cmd'.pc \in Quietly
      BY <1>0, <2>11 DEF ListLock, ListUnlock, Goto, CommandLocals, ExitBegun, Teardown
    <3> QED
      BY <1>2, <3>1
  <2>12. CASE AddRefused
    BY <1>1, <2>12, RefusedStep
  <2> QED
    BY <1>4, <2>1, <2>2, <2>3, <2>4, <2>5, <2>6, <2>7, <2>8, <2>9, <2>10, <2>11, <2>12
       DEF CommandGoesOn, CommandStep
<1> QED
  BY <1>3, <1>4

(* No row loses its thread with a mark, and none without a thread gets one. *)
NoStrayMark ==
  \A r \in RowIds :
    threadTable'[r].tid = NoTid =>
      \/ threadTable'[r].endStatus = "RUNNING"
      \/ /\ threadTable[r].tid = NoTid
         /\ threadTable'[r].endStatus = threadTable[r].endStatus

(* A mark on a thread's row is no stray one. *)
LEMMA MarkOfThread ==
  ASSUME threadTable \in [RowIds -> ThreadTableRow], NEW r \in RowIds,
         threadTable[r].tid # NoTid, NEW s,
         threadTable' = [threadTable EXCEPT ![r].endStatus = s]
  PROVE  NoStrayMark
BY DEF NoStrayMark, ThreadTableRow

(* A step that leaves the table alone marks nobody. *)
LEMMA SameTableNoMark == threadTable' = threadTable => NoStrayMark
  BY DEF NoStrayMark

(* Every step until the user types exit. *)
LEMMA MarksGoToThreads ==
  ASSUME TypeOK, Ownership, OrdersOnly, MarksHaveOwners, [Next]_vars, ~ExitBegun, ~ExitBegun'
  PROVE  NoStrayMark
<1>0. /\ threadTable \in [RowIds -> ThreadTableRow]
      /\ cmd \in CommandLocals /\ CommandInRange
  BY DEF TypeOK
<1>1. CASE UserStep
  <2>1. CASE \E f \in LogFiles : AddSystem(f)
    <3>1. threadTable' = [threadTable EXCEPT ![SystemRow].pid = SystemPid,
                                             ![SystemRow].startTime = TRUE]
      BY <2>1 DEF AddSystem
    <3> QED
      BY <1>0, <3>1, Ranges DEF ThreadTableRow, NoStrayMark
  <2>2. CASE ~\E f \in LogFiles : AddSystem(f)
    <3>1. threadTable' = threadTable
      BY <1>1, <2>2 DEF UserStep, CommandTyped, AddProcess, AddExec, RemoveSystem,
         RemoveThread, KillProcess, ExitMond, StartWebmon, ListActive, ListCompleted,
         tables
    <3> QED
      BY <3>1, SameTableNoMark
  <2> QED
    BY <2>1, <2>2
<1>2. CASE CommandGoesOn
  <2>1. CASE StopSystemTid
    <3>1. \/ threadTable' = threadTable
          \/ /\ threadTable[SystemRow].tid = cmd.tid /\ cmd.tid # NoTid
             /\ threadTable' = [threadTable EXCEPT ![SystemRow].endStatus = "STOPPED"]
      BY <2>1 DEF StopSystemTid, StopRow, MarksHaveOwners
    <3> QED
      BY <1>0, <3>1, Ranges, MarkOfThread, SameTableNoMark
  <2>2. CASE StopTid
    <3>1. /\ cmd.i \in RowIds
          /\ \/ threadTable' = threadTable
             \/ /\ threadTable[cmd.i].tid = cmd.tid /\ cmd.tid # NoTid
                /\ threadTable' = [threadTable EXCEPT ![cmd.i].endStatus = "STOPPED"]
      BY <1>0, <2>2, Ranges DEF StopTid, StopRow, MarksHaveOwners, CommandInRange
    <3> QED
      BY <1>0, <3>1, MarkOfThread, SameTableNoMark
  <2>3. CASE InitRow
    <3>1. threadTable' = [threadTable EXCEPT ![cmd.row] =
                            [threadTable[cmd.row] EXCEPT !.isChild = cmd.exec,
                                                         !.pid = cmd.pid,
                                                         !.startTime = TRUE]]
      BY <2>3 DEF InitRow
    <3>2. \A r \in RowIds : threadTable'[r].tid = threadTable[r].tid
      BY <1>0, <3>1 DEF ThreadTableRow
    <3>3. ASSUME NEW r \in RowIds
          PROVE  threadTable'[r].endStatus = threadTable[r].endStatus
      <4>1. CASE r # cmd.row
        BY <1>0, <3>1, <4>1
      <4>2. CASE r = cmd.row
        <5>1. threadTable'[r] = [threadTable[r] EXCEPT !.isChild = cmd.exec,
                                                       !.pid = cmd.pid,
                                                       !.startTime = TRUE]
          BY <1>0, <3>1, <4>2
        <5>2. threadTable[r] \in ThreadTableRow
          BY <1>0
        <5> QED
          BY <5>1, <5>2 DEF ThreadTableRow
      <4> QED
        BY <4>1, <4>2
    <3> QED
      BY <3>2, <3>3 DEF NoStrayMark
  <2>4. CASE ScanHit \/ OpenLog
    <3>1. \/ threadTable' = threadTable
          \/ \E e : threadTable' = [threadTable EXCEPT ![cmd.row].fTable = e,
                                                       ![cmd.row].fileName = cmd.file]
      BY <2>4 DEF ScanHit, OpenLog, UseEntry
    <3>2. CASE threadTable' = threadTable
      BY <3>2, SameTableNoMark
    <3>3. CASE threadTable' # threadTable
      <4>1. PICK e : threadTable' = [threadTable EXCEPT ![cmd.row].fTable = e,
                                                        ![cmd.row].fileName = cmd.file]
        BY <3>1, <3>3
      <4>2. ASSUME NEW r \in RowIds
            PROVE  /\ threadTable'[r].tid = threadTable[r].tid
                   /\ threadTable'[r].endStatus = threadTable[r].endStatus
        <5>1. threadTable[r] \in ThreadTableRow
          BY <1>0
        <5>2. CASE r # cmd.row
          BY <1>0, <4>1, <5>2
        <5>3. CASE r = cmd.row
          <6>1. threadTable'[r] = [threadTable[r] EXCEPT !.fTable = e,
                                                         !.fileName = cmd.file]
            BY <1>0, <4>1, <5>3
          <6> QED
            BY <5>1, <6>1 DEF ThreadTableRow
        <5> QED
          BY <5>2, <5>3
      <4> QED
        BY <4>2 DEF NoStrayMark
    <3> QED
      BY <3>2, <3>3
  <2>5. CASE \E t \in Tids : CreateThread(t)
    <3>1. PICK t \in Tids : threadTable' = [threadTable EXCEPT ![cmd.row].tid = t]
      BY <2>5 DEF CreateThread
    <3>2. t # NoTid
      BY DEF Tids, NoTid
    <3>3. ASSUME NEW r \in RowIds, threadTable'[r].tid = NoTid
          PROVE  threadTable'[r] = threadTable[r]
      BY <1>0, <3>1, <3>2, <3>3 DEF ThreadTableRow
    <3> QED
      BY <3>3 DEF NoStrayMark
  <2>6. CASE ExitStopSystem \/ ExitStopRow \/ MarkKilled
    BY <2>6 DEF ExitStopSystem, ExitStopRow, MarkKilled, ExitBegun, MarksHaveOwners
  <2>7. CASE \/ FindRowTaken \/ FindRowFree \/ WaitExec \/ ScanMiss
             \/ \E p \in Children : Fork(p)
    <3>1. threadTable' = threadTable
      BY <2>7 DEF FindRowTaken, FindRowFree, WaitExec, ScanMiss, Fork, tables
    <3> QED
      BY <3>1, SameTableNoMark
  <2>8. CASE \/ SystemCreated \/ MonitorCreated \/ ReadSystemTid \/ FindPid
             \/ SignalSent \/ SignalDenied \/ SignalNoProcess
             \/ ExitSystemEnded \/ ExitMonitorsEnded
             \/ ClearList \/ DestroyList \/ DestroyTables \/ MainReturns
             \/ ListRow \/ ListLock \/ ListUnlock \/ AddRefused
    <3>1. threadTable' = threadTable
      BY <2>8, RefusedStep DEF SystemCreated, MonitorCreated, ReadSystemTid, FindPid, SignalSent,
         SignalDenied, SignalNoProcess, ExitSystemEnded, ExitMonitorsEnded,
         ClearList, DestroyList, DestroyTables, MainReturns, ListRow, ListLock,
         ListUnlock, tables
    <3> QED
      BY <3>1, SameTableNoMark
  <2> QED
    BY <1>2, <2>1, <2>2, <2>3, <2>4, <2>5, <2>6, <2>7, <2>8 DEF CommandGoesOn, CommandStep
<1>3. CASE \E t \in Tids : ThreadStep(t)
  <2>1. PICK t \in Tids : MonitorNext(t) \/ SystemNext(t)
    BY <1>3 DEF ThreadStep
  <2>2. handle[t] \in RowIds
    BY <2>1, Ranges DEF MonitorNext, SystemNext, IsMonitor, IsSystem
  <2>3. CASE MonitorProcessGone(t)
    <3>1. threadTable[handle[t]].tid = t /\ t # NoTid
      BY <2>3 DEF MonitorProcessGone, Ownership, RowIsOwned, Owns, Tids, NoTid
    <3>2. \/ threadTable' = threadTable
          \/ threadTable' = [threadTable EXCEPT ![handle[t]].endStatus = "EXITED"]
      BY <2>3 DEF MonitorProcessGone
    <3> QED
      BY <1>0, <2>2, <3>1, <3>2, MarkOfThread, SameTableNoMark
  <2>4. CASE threadTable' = [threadTable EXCEPT ![handle[t]] = Cleared(threadTable[handle[t]])]
    <3>1. Cleared(threadTable[handle[t]]).endStatus = "RUNNING"
      BY <1>0, <2>2 DEF Cleared, ThreadTableRow
    <3> QED
      BY <1>0, <2>2, <2>4, <3>1 DEF NoStrayMark
  <2>5. \/ threadTable' = threadTable \/ MonitorProcessGone(t)
        \/ threadTable' = [threadTable EXCEPT ![handle[t]] = Cleared(threadTable[handle[t]])]
    BY <2>1 DEF MonitorNext, MonitorLockRow, MonitorOpen,
       MonitorPrint, MonitorPrintFails, MonitorContinue, MonitorTerminate,
       MonitorRelease, MonitorWait, MonitorRecord, MonitorPost,
       SystemNext, SystemLockRow, SystemPrint, SystemContinue, SystemTerminate,
       SystemRelease, SystemRecord, SystemPost, CopyRow, ReleaseRow, tables
  <2> QED
    BY <2>3, <2>4, <2>5, SameTableNoMark
<1>4. CASE WebmonStep \/ ProcessStep \/ UNCHANGED vars
  <2>1. threadTable' = threadTable
    BY <1>4 DEF WebmonStep, WebmonNext, WebmonRefresh, WebmonShowRow, WebmonLockList,
       WebmonUnlockList, WebmonShowFiles, ProcessStep, ProcessDies, ProcessReaped,
       vars, tables,
       WebmonRefused
  <2> QED
    BY <2>1, SameTableNoMark
<1> QED
  BY <1>1, <1>2, <1>3, <1>4 DEF Next, Ended

(* Until exit, only a row that a thread has is marked. *)
LEMMA MarksNext ==
  ASSUME TypeOK, Ownership, OrdersOnly, MarksHaveOwners, [Next]_vars
  PROVE  MarksHaveOwners'
<1>1. /\ cmd'.pc \notin {"readSystemTid", "findPid", "signal", "markKilled"}
      /\ cmd'.pc \in {"stopSystemTid", "stopTid"} => cmd'.tid # NoTid
      /\ ExitBegun => ExitBegun'
  <2>1. CASE UserStep \/ CommandGoesOn
    BY <2>1, OrdersMove
  <2>2. CASE ~(UserStep \/ CommandGoesOn)
    <3>1. cmd' = cmd
      BY <2>2 DEF Next, Ended, ThreadStep, MonitorNext, MonitorLockRow, MonitorOpen,
         MonitorProcessGone, MonitorPrint, MonitorPrintFails, MonitorContinue,
         MonitorTerminate, MonitorRelease, MonitorWait, MonitorRecord, MonitorPost,
         SystemNext, SystemLockRow, SystemPrint, SystemContinue, SystemTerminate,
         SystemRelease, SystemRecord, SystemPost, WebmonStep, WebmonNext,
         WebmonRefresh, WebmonShowRow, WebmonLockList, WebmonUnlockList,
         WebmonShowFiles, ProcessStep, ProcessDies, ProcessReaped, vars,
         WebmonRefused
    <3> QED
      BY <3>1 DEF MarksHaveOwners, ExitBegun, Teardown
  <2> QED
    BY <2>1, <2>2
<1>2. ~ExitBegun' => NoStrayMark
  BY <1>1, MarksGoToThreads
<1>3. ~ExitBegun' =>
        \A r \in RowIds : threadTable'[r].tid = NoTid => threadTable'[r].endStatus = "RUNNING"
  BY <1>1, <1>2 DEF NoStrayMark, MarksHaveOwners
<1> QED
  BY <1>1, <1>3 DEF MarksHaveOwners

(* Every thread starts on a row that does not tell it to stop, unless the user
   has typed "kill" or "remove -s": these two, and no other command, mark a row
   without having found a thread there (commands.c:434-474, mond.c:257-267). *)
THEOREM NoThreadStartsMarked == OrdersOnly => (Spec => []StartsRunning)
<1> SUFFICES ASSUME OrdersOnly PROVE Spec => []StartsRunning
  OBVIOUS
<1>1. Init => MarksHaveOwners
  <2> SUFFICES ASSUME Init PROVE MarksHaveOwners
    OBVIOUS
  <2>1. cmd.pc = "prompt" /\ \A r \in RowIds : threadTable[r].endStatus = "RUNNING"
    BY DEF Init, Prompt, ZeroRow
  <2> QED
    BY <2>1 DEF MarksHaveOwners
<1>2. TypeOK /\ Ownership /\ MarksHaveOwners /\ [Next]_vars => MarksHaveOwners'
  BY MarksNext
<1>3. TypeOK /\ Ownership /\ MarksHaveOwners => StartsRunning
  BY DEF TypeOK, CommandInRange, Ownership, AddHasItsRow, RowFilled, MarksHaveOwners,
     ExitBegun, Teardown, StartsRunning
<1> QED
  BY <1>1, <1>2, <1>3, TypeCorrect, OwnershipCorrect, PTL DEF Spec

-----------------------------------------------------------------------------
(***************************************************************************)
(* Mond implements Monitoring, for any tables, threads, files and          *)
(* processes, as long as every thread starts with no reason to end.        *)
(*                                                                         *)
(* The first part says which change of the threads is which step of        *)
(* Monitoring; the second follows a thread's reason from its row to its    *)
(* copy; the third goes through the steps of mond.                         *)
(***************************************************************************)

(* The mapping, part by part.                                               *)

Lives   == [u \in Tids |-> LifeOf(u)]
KindsBy == [u \in Tids |-> KindOf(u)]
Causes  == [u \in Tids |-> ReasonOf(u)]
Ends    == [i \in 1..Len(completedList) |-> RecordOf(completedList[i])]
Up      == status = "up"
Closing == cmd.pc \in {"destroyList", "destroyTables", "return"}

(* What Monitoring shows of a thread stays. *)
ThreadSame(t) ==
  LifeOf(t)' = LifeOf(t) /\ KindOf(t)' = KindOf(t) /\ ReasonOf(t)' = ReasonOf(t)

(* What it shows besides the threads stays. *)
RestSame == Ends' = Ends /\ Up' = Up /\ Closing' = Closing

(* What Monitoring sees besides the monitors depends on these variables alone. *)
LEMMA RestIsSame ==
  ASSUME completedList' = completedList, status' = status, Closing' <=> Closing
  PROVE  RestSame
<1>1. Ends' = Ends
  BY DEF Ends
<1>2. Up' = Up
  BY DEF Up
<1> QED
  BY <1>1, <1>2 DEF RestSame

(* When one thread changes, the functions of all threads change at it. *)
LEMMA OneLife ==
  ASSUME NEW t \in Tids, \A u \in Tids \ {t} : LifeOf(u)' = LifeOf(u),
         NEW x, LifeOf(t)' = x
  PROVE  Lives' = [Lives EXCEPT ![t] = x]
BY DEF Lives

(* One thread changes its kind. *)
LEMMA OneKind ==
  ASSUME NEW t \in Tids, \A u \in Tids \ {t} : KindOf(u)' = KindOf(u),
         NEW x, KindOf(t)' = x
  PROVE  KindsBy' = [KindsBy EXCEPT ![t] = x]
BY DEF KindsBy

(* One thread changes the cause of its end. *)
LEMMA OneCause ==
  ASSUME NEW t \in Tids, \A u \in Tids \ {t} : ReasonOf(u)' = ReasonOf(u),
         NEW x, ReasonOf(t)' = x
  PROVE  Causes' = [Causes EXCEPT ![t] = x]
BY DEF Causes

(* Steps that Monitoring does not see, or sees as the end of the program. *)
LEMMA Unseen ==
  ASSUME \A t \in Tids : ThreadSame(t), completedList' = completedList,
         Closing' <=> Closing, Up
  PROVE  Abstract!Next \/ UNCHANGED Abstract!vars
<1>1. Lives' = Lives /\ KindsBy' = KindsBy /\ Causes' = Causes
  BY DEF ThreadSame, Lives, KindsBy, Causes
<1>2. Ends' = Ends
  BY DEF Ends
<1>3. CASE status' = "up"
  <2>1. Up' = Up
    BY <1>3 DEF Up
  <2> QED
    BY <1>1, <1>2, <2>1
       DEF Lives, KindsBy, Causes, Ends, Up, Closing, Abstract!vars
<1>4. CASE status' # "up"
  <2>1. Up' = FALSE
    BY <1>4 DEF Up
  <2>2. Abstract!Down
    BY <1>1, <1>2, <2>1
       DEF Lives, KindsBy, Causes, Ends, Up, Closing, Abstract!Down
  <2> QED
    BY <2>2 DEF Abstract!Next
<1> QED
  BY <1>3, <1>4

(* The user asks a thread to end. *)
LEMMA SeenAsAsk ==
  ASSUME NEW t \in Tids, \A u \in Tids \ {t} : ThreadSame(u), RestSame, Up,
         LifeOf(t) = "monitoring", LifeOf(t)' = LifeOf(t), KindOf(t)' = KindOf(t),
         NEW why \in {"KILLED", "STOPPED"}, ReasonOf(t)' = why
  PROVE  Abstract!Next
<1>1. Lives' = Lives
  BY DEF ThreadSame, Lives
<1>2. KindsBy' = KindsBy
  BY DEF ThreadSame, KindsBy
<1>3. Causes' = [Causes EXCEPT ![t] = why]
  BY OneCause DEF ThreadSame
<1>4. Lives[t] = "monitoring"
  BY DEF Lives
<1>5. Abstract!Ask(t, why)
  BY <1>1, <1>2, <1>3, <1>4
     DEF RestSame, Lives, KindsBy, Causes, Ends, Up, Closing, Abstract!Ask
<1> QED
  BY <1>5 DEF Abstract!Next, Abstract!Reasons

(* A monitor's process has ended. *)
LEMMA SeenAsLoss ==
  ASSUME NEW t \in Tids, \A u \in Tids \ {t} : ThreadSame(u), RestSame, Up,
         LifeOf(t) = "monitoring", KindOf(t) = "monitor", ReasonOf(t) = "RUNNING",
         LifeOf(t)' = LifeOf(t), KindOf(t)' = KindOf(t), ReasonOf(t)' = "EXITED"
  PROVE  Abstract!Next
<1>1. Lives' = Lives
  BY DEF ThreadSame, Lives
<1>2. KindsBy' = KindsBy
  BY DEF ThreadSame, KindsBy
<1>3. Causes' = [Causes EXCEPT ![t] = "EXITED"]
  BY OneCause DEF ThreadSame
<1>4. Lives[t] = "monitoring" /\ KindsBy[t] = "monitor" /\ Causes[t] = "RUNNING"
  BY DEF Lives, KindsBy, Causes
<1>5. Abstract!LoseProcess(t)
  BY <1>1, <1>2, <1>3, <1>4
     DEF RestSame, Lives, KindsBy, Causes, Ends, Up, Closing, Abstract!LoseProcess
<1> QED
  BY <1>5 DEF Abstract!Next

(* A thread leaves for the reason it has. *)
LEMMA SeenAsLeave ==
  ASSUME NEW t \in Tids, \A u \in Tids \ {t} : ThreadSame(u), RestSame, Up,
         LifeOf(t) = "monitoring", LifeOf(t)' = "leaving", KindOf(t)' = KindOf(t),
         ReasonOf(t) # "RUNNING", ReasonOf(t)' = ReasonOf(t)
  PROVE  Abstract!Next
<1>1. Lives' = [Lives EXCEPT ![t] = "leaving"]
  BY OneLife DEF ThreadSame
<1>2. KindsBy' = KindsBy
  BY DEF ThreadSame, KindsBy
<1>3. Causes' = Causes
  BY DEF ThreadSame, Causes
<1>4. Lives[t] = "monitoring" /\ Causes[t] # "RUNNING"
  BY DEF Lives, Causes
<1>5. Abstract!Leave(t)
  BY <1>1, <1>2, <1>3, <1>4
     DEF RestSame, Lives, KindsBy, Causes, Ends, Up, Closing, Abstract!Leave
<1> QED
  BY <1>5 DEF Abstract!Next

(* A thread is recorded. *)
LEMMA SeenAsRecord ==
  ASSUME NEW t \in Tids, \A u \in Tids \ {t} : ThreadSame(u), Up' = Up, Closing' = Closing, Up,
         LifeOf(t) = "leaving", LifeOf(t)' = "recorded", KindOf(t)' = KindOf(t),
         ReasonOf(t)' = ReasonOf(t),
         Ends' = Append(Ends, [tid |-> t, reason |-> ReasonOf(t)])
  PROVE  Abstract!Next
<1>1. Lives' = [Lives EXCEPT ![t] = "recorded"]
  BY OneLife DEF ThreadSame
<1>2. KindsBy' = KindsBy
  BY DEF ThreadSame, KindsBy
<1>3. Causes' = Causes
  BY DEF ThreadSame, Causes
<1>4. Lives[t] = "leaving" /\ Causes[t] = ReasonOf(t)
  BY DEF Lives, Causes
<1>5. Abstract!Record(t)
  BY <1>1, <1>2, <1>3, <1>4
     DEF RestSame, Lives, KindsBy, Causes, Ends, Up, Closing, Abstract!Record
<1> QED
  BY <1>5 DEF Abstract!Next

(* A recorded thread ends. *)
LEMMA SeenAsEnd ==
  ASSUME NEW t \in Tids, \A u \in Tids \ {t} : ThreadSame(u), RestSame, Up,
         LifeOf(t) = "recorded", LifeOf(t)' = "ended", KindOf(t)' = "none",
         ReasonOf(t)' = "RUNNING"
  PROVE  Abstract!Next
<1>1. Lives' = [Lives EXCEPT ![t] = "ended"]
  BY OneLife DEF ThreadSame
<1>2. KindsBy' = [KindsBy EXCEPT ![t] = "none"]
  BY OneKind DEF ThreadSame
<1>3. Causes' = [Causes EXCEPT ![t] = "RUNNING"]
  BY OneCause DEF ThreadSame
<1>4. Lives[t] = "recorded"
  BY DEF Lives
<1>5. Abstract!End(t)
  BY <1>1, <1>2, <1>3, <1>4
     DEF RestSame, Lives, KindsBy, Causes, Ends, Up, Closing, Abstract!End
<1> QED
  BY <1>5 DEF Abstract!Next

(* The living threads of a kind, as Monitoring counts them. *)
LivingOf(k) == {t \in Tids : KindOf(t) = k}

(* Monitoring counts the threads of a kind as Mond does. *)
LEMMA LivingAre ==
  \A k : /\ Abstract!Living(k) = LivingOf(k)
         /\ Abstract!Cardinality(Abstract!Living(k)) = Cardinality(LivingOf(k))
<1>1. \A k : Abstract!Living(k) = LivingOf(k)
  BY DEF Abstract!Living, LivingOf
<1>2. \A S : Abstract!Cardinality(S) = Cardinality(S)
  BY DEF Abstract!Cardinality, Cardinality
<1> QED
  BY <1>1, <1>2

(* A thread starts where there is room for its kind. *)
LEMMA SeenAsStart ==
  ASSUME NEW t \in Tids, \A u \in Tids \ {t} : ThreadSame(u), RestSame, Up,
         ~Closing, LifeOf(t) = "unborn", LifeOf(t)' = "monitoring",
         NEW k \in {"monitor", "system"}, KindOf(t)' = k,
         ReasonOf(t)' = ReasonOf(t),
         IF k = "system" THEN LivingOf(k) = {}
         ELSE Cardinality(LivingOf(k)) < THREAD_TABLE_SIZE
  PROVE  Abstract!Next
<1>1. Lives' = [Lives EXCEPT ![t] = "monitoring"]
  BY OneLife DEF ThreadSame
<1>2. KindsBy' = [KindsBy EXCEPT ![t] = k]
  BY OneKind DEF ThreadSame
<1>3. Causes' = Causes
  BY DEF ThreadSame, Causes
<1>4. Lives[t] = "unborn"
  BY DEF Lives
<1>5. IF k = "system" THEN Abstract!Living(k) = {}
      ELSE Abstract!Cardinality(Abstract!Living(k)) < THREAD_TABLE_SIZE
  BY LivingAre
<1>6. Abstract!Start(t, k)
  BY <1>1, <1>2, <1>3, <1>4, <1>5
     DEF RestSame, Lives, KindsBy, Causes, Ends, Up, Closing, Abstract!Start
<1> QED
  BY <1>6 DEF Abstract!Next, Abstract!Kinds

(* The history is given up. *)
LEMMA SeenAsClose ==
  ASSUME \A t \in Tids : ThreadSame(t) /\ KindOf(t) = "none", Up, Up' = Up,
         Closing' = TRUE, completedList' = <<>>
  PROVE  Abstract!Next
<1>1. Lives' = Lives /\ KindsBy' = KindsBy /\ Causes' = Causes
  BY DEF ThreadSame, Lives, KindsBy, Causes
<1>2. \A t \in Tids : KindsBy[t] = "none"
  BY DEF KindsBy
<1>3. Ends' = <<>>
  BY DEF Ends
<1>4. Abstract!Close
  BY <1>1, <1>2, <1>3
     DEF Lives, KindsBy, Causes, Ends, Up, Closing, Abstract!Close
<1> QED
  BY <1>4 DEF Abstract!Next

(* One record more. *)
LEMMA OneEndMore ==
  ASSUME completedList \in Seq(ThreadTableRow), NEW row \in ThreadTableRow,
         completedList' = Append(completedList, row)
  PROVE  Ends' = Append(Ends, RecordOf(row))
<1> DEFINE n == Len(completedList)
<1>1. n \in Nat /\ Len(completedList') = n + 1
  OBVIOUS
<1>2. \A i \in 1..n : completedList'[i] = completedList[i]
  OBVIOUS
<1>3. completedList'[n + 1] = row
  OBVIOUS
<1>4. Len(Ends) = n /\ Ends \in Seq({RecordOf(completedList[i]) : i \in 1..n})
  BY <1>1 DEF Ends
<1> QED
  BY <1>1, <1>2, <1>3, <1>4 DEF Ends
-----------------------------------------------------------------------------
(* A thread's reason, from its row to its copy.                             *)

(* Between the copy and the cleanup the row is locked, and the copy has what the
   row has: nothing the user asks of the row in between is lost. *)
CopyIsRow ==
  \A t \in Tids :
    /\ pc[t] = "release" =>
         /\ rowLock[handle[t]] = t
         /\ line[t].endStatus = threadTable[handle[t]].endStatus
         /\ line[t].endStatus # "RUNNING"
    /\ pc[t] \in {"release", "list"} => line[t].tid = t

(* The rows keep their marks, *)
MarksSame ==
  \A r \in RowIds : threadTable'[r].endStatus = threadTable[r].endStatus

(* or one row, which is not locked, gets one from the user. *)
MarkedBy(r, s) ==
  /\ rowLock[r] = NoTid
  /\ threadTable'[r].endStatus = s
  /\ \A q \in RowIds \ {r} : threadTable'[q].endStatus = threadTable[q].endStatus

(* Setting a row's end status is one mark. *)
LEMMA MarkIsOne ==
  ASSUME threadTable \in [RowIds -> ThreadTableRow], NEW r \in RowIds, rowLock[r] = NoTid,
         NEW s \in {"STOPPED", "KILLED"},
         threadTable' = [threadTable EXCEPT ![r].endStatus = s]
  PROVE  \E q \in RowIds, z \in {"STOPPED", "KILLED"} : MarkedBy(q, z)
<1>1. MarkedBy(r, s)
  BY DEF MarkedBy, ThreadTableRow
<1> QED
  BY <1>1

(* What the command thread does to marks and locks. *)
LEMMA CommandsMark ==
  ASSUME TypeOK, Ownership, UserStep \/ CommandGoesOn
  PROVE  /\ rowLock' = rowLock /\ line' = line
         /\ MarksSame \/ \E r \in RowIds, s \in {"STOPPED", "KILLED"} : MarkedBy(r, s)
<1>0. /\ threadTable \in [RowIds -> ThreadTableRow] /\ CommandInRange
      /\ Rows \subseteq RowIds /\ SystemRow \in RowIds
  BY Ranges DEF TypeOK
<1>1. rowLock' = rowLock /\ line' = line
  BY DEF UserStep, CommandTyped, AddSystem, AddProcess, AddExec, RemoveSystem,
     RemoveThread, KillProcess, ExitMond, StartWebmon, ListActive, ListCompleted,
     CommandGoesOn, CommandStep, FindRowTaken, FindRowFree, Fork, WaitExec,
     InitRow, ScanMiss, ScanHit, OpenLog, CreateThread, SystemCreated, MonitorCreated,
     ReadSystemTid, StopSystemTid, StopTid, FindPid, SignalSent, SignalDenied,
     SignalNoProcess, MarkKilled, ExitStopSystem, ExitStopRow, ExitSystemEnded,
     ExitMonitorsEnded, ClearList, DestroyList, DestroyTables, MainReturns, ListRow,
     ListLock, ListUnlock, tables, threads,
     AddRefused, ForkFails, StatFails, OpenFails, CreateFails, RefusedAt
<1>2. CASE AddGoesOn
  BY <1>1, <1>2 DEF AddGoesOn, MarksSame
<1>3. CASE threadTable' = threadTable
  BY <1>1, <1>3 DEF MarksSame
<1>4. CASE \E t \in Tids : CreateThread(t)
  <2>1. PICK t \in Tids : threadTable' = [threadTable EXCEPT ![cmd.row].tid = t]
    BY <1>4 DEF CreateThread
  <2>2. MarksSame
    BY <1>0, <2>1 DEF MarksSame, ThreadTableRow
  <2> QED
    BY <1>1, <2>2
<1>5. CASE StopSystemTid \/ ExitStopSystem
  <2>1. /\ rowLock[SystemRow] = NoTid
        /\ \/ threadTable' = threadTable
           \/ threadTable' = [threadTable EXCEPT ![SystemRow].endStatus = "STOPPED"]
    BY <1>5 DEF StopSystemTid, ExitStopSystem, StopRow
  <2> QED
    BY <1>0, <1>1, <1>3, <2>1, MarkIsOne
<1>6. CASE StopTid \/ ExitStopRow
  <2>1. /\ cmd.i \in RowIds /\ rowLock[cmd.i] = NoTid
        /\ \/ threadTable' = threadTable
           \/ threadTable' = [threadTable EXCEPT ![cmd.i].endStatus = "STOPPED"]
    BY <1>0, <1>6 DEF StopTid, ExitStopRow, StopRow, CommandInRange
  <2> QED
    BY <1>0, <1>1, <1>3, <2>1, MarkIsOne
<1>7. CASE MarkKilled
  <2>1. /\ cmd.row \in RowIds /\ rowLock[cmd.row] = NoTid
        /\ threadTable' = [threadTable EXCEPT ![cmd.row].endStatus = "KILLED"]
    BY <1>0, <1>7 DEF MarkKilled, CommandInRange
  <2> QED
    BY <1>0, <1>1, <2>1, MarkIsOne
<1>8. CASE UserStep
  <2>1. CASE \E f \in LogFiles : AddSystem(f)
    BY <1>2, <2>1, OwnershipAddStep
  <2>2. CASE ~\E f \in LogFiles : AddSystem(f)
    <3>1. threadTable' = threadTable
      BY <1>8, <2>2 DEF UserStep, CommandTyped, AddProcess, AddExec, RemoveSystem,
         RemoveThread, KillProcess, ExitMond, StartWebmon, ListActive, ListCompleted,
         tables
    <3> QED
      BY <1>3, <3>1
  <2> QED
    BY <2>1, <2>2
<1>9. CASE CommandGoesOn
  <2>1. CASE \/ FindRowFree \/ WaitExec \/ InitRow \/ ScanMiss \/ ScanHit \/ OpenLog
             \/ \E p \in Children : Fork(p)
    BY <1>2, <2>1, OwnershipAddStep
  <2>2. CASE \/ FindRowTaken \/ SystemCreated \/ MonitorCreated \/ ReadSystemTid
             \/ FindPid \/ SignalSent \/ SignalDenied \/ SignalNoProcess
             \/ ExitSystemEnded \/ ExitMonitorsEnded
             \/ ClearList \/ DestroyList \/ DestroyTables \/ MainReturns
             \/ ListRow \/ ListLock \/ ListUnlock \/ AddRefused
    <3>1. threadTable' = threadTable
      BY <2>2, RefusedStep DEF FindRowTaken, SystemCreated, MonitorCreated, ReadSystemTid, FindPid,
         SignalSent, SignalDenied, SignalNoProcess, ExitSystemEnded, ExitMonitorsEnded,
         ClearList, DestroyList, DestroyTables, MainReturns, ListRow, ListLock,
         ListUnlock, tables
    <3> QED
      BY <1>3, <3>1
  <2> QED
    BY <1>4, <1>5, <1>6, <1>7, <1>9, <2>1, <2>2 DEF CommandGoesOn, CommandStep
<1> QED
  BY <1>8, <1>9

(* Of the threads, commands touch the one they create. *)
LEMMA CommandsAndThreads ==
  ASSUME UserStep \/ CommandGoesOn, ~\E t \in Tids : CreateThread(t)
  PROVE  pc' = pc /\ handle' = handle
BY DEF UserStep, CommandTyped, AddSystem, AddProcess, AddExec, RemoveSystem,
   RemoveThread, KillProcess, ExitMond, StartWebmon, ListActive, ListCompleted,
   CommandGoesOn, CommandStep, FindRowTaken, FindRowFree, Fork, WaitExec,
   InitRow, ScanMiss, ScanHit, OpenLog, SystemCreated, MonitorCreated,
   ReadSystemTid, StopSystemTid, StopTid, FindPid, SignalSent, SignalDenied,
   SignalNoProcess, MarkKilled, ExitStopSystem, ExitStopRow, ExitSystemEnded,
   ExitMonitorsEnded, ClearList, DestroyList, DestroyTables, MainReturns, ListRow,
   ListLock, ListUnlock, threads,
   AddRefused, ForkFails, StatFails, OpenFails, CreateFails, RefusedAt

(* A thread's step leaves the other threads alone, and their rows. *)
LEMMA OthersStay ==
  ASSUME TypeOK, Ownership, NEW t \in Tids, MonitorNext(t) \/ SystemNext(t),
         NEW u \in Tids, u # t
  PROVE  /\ pc'[u] = pc[u] /\ handle'[u] = handle[u] /\ line'[u] = line[u]
         /\ Owns(u) => /\ rowLock'[handle[u]] = rowLock[handle[u]]
                       /\ threadTable'[handle[u]] = threadTable[handle[u]]
<1>0. /\ pc \in [Tids -> Labels] /\ line \in [Tids -> ThreadTableRow]
      /\ handle \in [Tids -> RowIds \cup {NoRow}]
      /\ threadTable \in [RowIds -> ThreadTableRow]
      /\ rowLock \in [RowIds -> Tids \cup {NoTid}]
      /\ handle[t] \in RowIds
  BY Ranges DEF TypeOK, MonitorNext, SystemNext, IsMonitor, IsSystem
<1>1. pc'[u] = pc[u] /\ handle'[u] = handle[u] /\ line'[u] = line[u]
  BY <1>0 DEF MonitorNext, MonitorLockRow, MonitorOpen, MonitorProcessGone,
     MonitorPrint, MonitorPrintFails, MonitorContinue, MonitorTerminate,
     MonitorRelease, MonitorWait, MonitorRecord, MonitorPost, SystemNext,
     SystemLockRow, SystemPrint, SystemContinue, SystemTerminate, SystemRelease,
     SystemRecord, SystemPost, CopyRow, EndThread, threads
<1>2. CASE Owns(t)
  <2>1. /\ \A r \in RowIds \ {handle[t]} : rowLock'[r] = rowLock[r]
        /\ \A r \in RowIds \ {handle[t]} : threadTable'[r] = threadTable[r]
    BY <1>0 DEF MonitorNext, MonitorLockRow, MonitorOpen, MonitorProcessGone,
       MonitorPrint, MonitorPrintFails, MonitorContinue, MonitorTerminate,
       MonitorRelease, MonitorWait, MonitorRecord, MonitorPost, SystemNext, IsSystem,
       SystemLockRow, SystemPrint, SystemContinue, SystemTerminate, SystemRelease,
       SystemRecord, SystemPost, CopyRow, ReleaseRow, tables
  <2>2. Owns(u) => handle[u] # handle[t] /\ handle[u] \in RowIds
    BY <1>2 DEF Ownership, RowIsOwned, LiveHaveRows, Live, Owns
  <2> QED
    BY <1>1, <2>1, <2>2
<1>3. CASE ~Owns(t)
  <2>1. rowLock' = rowLock /\ threadTable' = threadTable
    BY <1>3 DEF Owns, MonitorNext, MonitorLockRow, MonitorOpen, MonitorProcessGone,
       MonitorPrint, MonitorPrintFails, MonitorContinue, MonitorTerminate,
       MonitorRelease, MonitorWait, MonitorRecord, MonitorPost, SystemNext,
       SystemLockRow, SystemPrint, SystemContinue, SystemTerminate, SystemRelease,
       SystemRecord, SystemPost, tables
  <2> QED
    BY <1>1, <2>1
<1> QED
  BY <1>2, <1>3

(* The copy a thread releases its row with says how the row ended. *)
LEMMA CopyNext ==
  ASSUME TypeOK, Ownership, CopyIsRow, [Next]_vars
  PROVE  CopyIsRow'
<1>0. /\ pc \in [Tids -> Labels] /\ line \in [Tids -> ThreadTableRow]
      /\ handle \in [Tids -> RowIds \cup {NoRow}]
      /\ threadTable \in [RowIds -> ThreadTableRow]
      /\ rowLock \in [RowIds -> Tids \cup {NoTid}]
      /\ \A t \in Tids : pc[t] = "release" => handle[t] \in RowIds
  BY DEF TypeOK, Ownership, LiveHaveRows, Live
<1>1. CASE UserStep \/ CommandGoesOn
  <2>1. /\ rowLock' = rowLock /\ line' = line
        /\ \A r \in RowIds : rowLock[r] # NoTid =>
             threadTable'[r].endStatus = threadTable[r].endStatus
    BY <1>1, CommandsMark DEF MarksSame, MarkedBy
  <2>2. \A t \in Tids : pc'[t] \in {"release", "list"} =>
          pc'[t] = pc[t] /\ handle'[t] = handle[t]
    <3>1. CASE \E t \in Tids : CreateThread(t)
      BY <1>0, <3>1 DEF CreateThread
    <3>2. CASE ~\E t \in Tids : CreateThread(t)
      BY <1>1, <3>2, CommandsAndThreads
    <3> QED
      BY <3>1, <3>2
  <2> QED
    BY <1>0, <2>1, <2>2 DEF CopyIsRow, Tids, NoTid
<1>2. CASE \E t \in Tids : ThreadStep(t)
  <2>1. PICK t \in Tids : MonitorNext(t) \/ SystemNext(t)
    BY <1>2 DEF ThreadStep
  <2>2. ASSUME NEW u \in Tids, u # t
        PROVE  /\ pc'[u] = "release" =>
                    /\ rowLock'[handle'[u]] = u
                    /\ line'[u].endStatus = threadTable'[handle'[u]].endStatus
                    /\ line'[u].endStatus # "RUNNING"
               /\ pc'[u] \in {"release", "list"} => line'[u].tid = u
    BY <2>1, <2>2, OthersStay DEF CopyIsRow, Owns
  <2>3. /\ pc'[t] = "release" =>
             /\ rowLock'[handle'[t]] = t
             /\ line'[t].endStatus = threadTable'[handle'[t]].endStatus
             /\ line'[t].endStatus # "RUNNING"
        /\ pc'[t] \in {"release", "list"} => line'[t].tid = t
    <3>1. CASE MonitorTerminate(t) \/ (SystemTerminate(t) /\ IsSystem(t))
      <4>1. /\ threadTable' = threadTable /\ handle' = handle
            /\ line'[t] = threadTable[handle[t]] /\ rowLock'[handle[t]] = t
            /\ threadTable[handle[t]].endStatus # "RUNNING"
            /\ pc[t] = "check" /\ handle[t] \in RowIds
        BY <1>0, <2>1, <3>1, Ranges DEF MonitorTerminate, SystemTerminate, CopyRow,
           IsSystem, MyRow, TypeOK, Ownership, LiveHaveRows, Live
      <4>2. threadTable[handle[t]].tid = t
        BY <4>1 DEF Ownership, RowIsOwned, Owns
      <4> QED
        BY <4>1, <4>2
    <3>2. CASE MonitorRelease(t) \/ SystemRelease(t)
      <4>1. pc[t] = "release" /\ pc'[t] = "list" /\ line' = line
        BY <1>0, <3>2 DEF MonitorRelease, SystemRelease
      <4> QED
        BY <4>1 DEF CopyIsRow
    <3>3. CASE MonitorContinue(t)
      <4>1. ~stop[t]
        BY <3>3 DEF MonitorContinue, MyRow, Ownership, StopHasReason, Owns
      <4>2. pc'[t] = "wait"
        BY <1>0, <3>3, <4>1 DEF MonitorContinue
      <4> QED
        BY <4>2
    <3>4. CASE MonitorPrintFails(t)
      <4>1. pc[t] = "print" /\ pc' = pc
        BY <3>4 DEF MonitorPrintFails, threads
      <4> QED
        BY <4>1
    <3>5. CASE pc'[t] \notin {"release", "list"}
      BY <3>5
    <3> QED
      BY <1>0, <2>1, <3>1, <3>2, <3>3, <3>4, <3>5 DEF MonitorNext, MonitorLockRow,
         MonitorOpen, MonitorProcessGone, MonitorPrint, MonitorWait, MonitorRecord,
         MonitorPost, SystemNext, SystemLockRow, SystemPrint, SystemContinue,
         SystemRecord, SystemPost, EndThread
  <2> QED
    BY <2>2, <2>3 DEF CopyIsRow
<1>3. CASE WebmonStep \/ ProcessStep \/ UNCHANGED vars
  <2>1. UNCHANGED <<pc, handle, line, threadTable, rowLock>>
    BY <1>3 DEF WebmonStep, WebmonNext, WebmonRefresh, WebmonShowRow, WebmonLockList,
       WebmonUnlockList, WebmonShowFiles, ProcessStep, ProcessDies, ProcessReaped,
       vars, tables, threads,
       WebmonRefused
  <2> QED
    BY <2>1 DEF CopyIsRow
<1> QED
  BY <1>1, <1>2, <1>3 DEF Next, Ended
-----------------------------------------------------------------------------
(* The steps of mond.                                                       *)

(* A thread is the same while its place, its row, its copy and the mark of a row
   of its own are. *)
LEMMA ThreadStays ==
  ASSUME NEW u \in Tids, pc'[u] = pc[u], handle'[u] = handle[u], line'[u] = line[u],
         Owns(u) => threadTable'[handle[u]].endStatus = threadTable[handle[u]].endStatus
  PROVE  ThreadSame(u)
<1>1. Owns(u)' <=> Owns(u)
  BY DEF Owns
<1>2. LifeOf(u)' = LifeOf(u)
  BY <1>1 DEF LifeOf
<1>3. KindOf(u)' = KindOf(u)
  BY DEF KindOf, Live, IsSystem
<1>4. ReasonOf(u)' = ReasonOf(u)
  BY <1>1 DEF ReasonOf, Live
<1> QED
  BY <1>2, <1>3, <1>4 DEF ThreadSame

(* While it owns its row it monitors, for the reason the row has. *)
LEMMA OwnersMonitor ==
  ASSUME NEW u \in Tids, Owns(u)
  PROVE  /\ LifeOf(u) = "monitoring"
         /\ KindOf(u) = IF IsSystem(u) THEN "system" ELSE "monitor"
         /\ ReasonOf(u) = threadTable[handle[u]].endStatus
<1>1. Live(u) /\ pc[u] # "none"
  BY DEF Live, Owns
<1>2. LifeOf(u) = "monitoring"
  BY <1>1 DEF LifeOf, Owns
<1> QED
  BY <1>1, <1>2 DEF KindOf, ReasonOf

(* Before and after its life it is nothing. *)
LEMMA DeadAreNothing ==
  ASSUME LiveHaveRows, NEW u \in Tids, ~Live(u)
  PROVE  KindOf(u) = "none" /\ ReasonOf(u) = "RUNNING"
<1>1. ~IsSystem(u)
  BY DEF LiveHaveRows, IsSystem, SystemRow, NoRow
<1>2. ~Owns(u)
  BY DEF Live, Owns
<1> QED
  BY <1>1, <1>2 DEF KindOf, ReasonOf

(* The history is given up when the list is cleared and at no other step. *)
LEMMA ClosingStays ==
  ASSUME TypeOK, UserStep \/ CommandGoesOn, ~ClearList
  PROVE  Closing' <=> Closing
<1>0. cmd \in CommandLocals
  BY DEF TypeOK
<1>1. CASE cmd' = cmd
  BY <1>1 DEF Closing
<1>2. CASE Closing
  <2>1. cmd' = cmd \/ CommandGoesOn
    BY <1>2 DEF Closing, UserStep, CommandTyped, AddSystem, AddProcess, AddExec,
       RemoveSystem, RemoveThread, KillProcess, ExitMond, StartWebmon, ListActive,
       ListCompleted, Typed
  <2>2. CommandGoesOn => DestroyList \/ DestroyTables \/ MainReturns
    BY <1>2 DEF Closing, CommandGoesOn, CommandStep, FindRowTaken, FindRowFree, Fork,
       WaitExec, InitRow, ScanMiss, ScanHit, OpenLog, CreateThread, SystemCreated,
       MonitorCreated, ReadSystemTid, StopSystemTid, StopTid, FindPid, SignalSent,
       SignalDenied, SignalNoProcess, MarkKilled, ExitStopSystem, ExitStopRow,
       ExitSystemEnded, ExitMonitorsEnded, ClearList, ListRow, ListLock, ListUnlock,
       AddRefused, ForkFails, StatFails, OpenFails, CreateFails, RefusedAt
  <2>3. \/ cmd' = cmd
        \/ \E l \in {"destroyTables", "return"} : cmd' = [cmd EXCEPT !.pc = l]
    BY <2>1, <2>2 DEF DestroyList, DestroyTables, MainReturns, Goto
  <2> QED
    BY <1>0, <1>1, <1>2, <2>3 DEF Closing, CommandLocals
<1>3. CASE ~Closing
  <2>1. CASE ~Ending'
    BY <1>3, <2>1 DEF Ending, Teardown, Closing
  <2>2. CASE ExitSystemEnded \/ ExitMonitorsEnded
    <3>1. \E l \in {"waitMonitors", "clear"} : cmd' = [cmd EXCEPT !.pc = l]
      BY <2>2 DEF ExitSystemEnded, ExitMonitorsEnded, Goto
    <3> QED
      BY <1>0, <1>3, <3>1 DEF Closing, CommandLocals
  <2>3. CASE DestroyList \/ DestroyTables
    BY <1>3, <2>3 DEF Closing, DestroyList, DestroyTables
  <2> QED
    BY <1>1, <2>1, <2>2, <2>3, CommandsEnd
<1> QED
  BY <1>2, <1>3

(* A command that fails leaves the rows alone; the list is the list's alone. *)
LEMMA CommandsFail ==
  ASSUME UserStep \/ CommandGoesOn
  PROVE  /\ status' = status \/ threadTable' = threadTable
         /\ completedList' = completedList \/ ClearList
         /\ status = "up"
<1>1. UserStep => completedList' = completedList /\ status' = status
  BY DEF UserStep, CommandTyped, AddSystem, AddProcess, AddExec, RemoveSystem,
     RemoveThread, KillProcess, ExitMond, StartWebmon, ListActive, ListCompleted, globals
<1>4. CommandGoesOn => /\ completedList' = completedList \/ ClearList
                       /\ \/ status' = status
                          \/ OpenLog \/ SignalNoProcess \/ DestroyTables \/ MainReturns
                          \/ AddRefused
  <2>1. CommandGoesOn => completedList' = completedList \/ ClearList
    BY DEF CommandGoesOn, CommandStep, FindRowTaken, FindRowFree, Fork, WaitExec,
       InitRow, ScanMiss, ScanHit, OpenLog, CreateThread, SystemCreated, MonitorCreated,
       ReadSystemTid, StopSystemTid, StopTid, FindPid, SignalSent, SignalDenied,
       SignalNoProcess, MarkKilled, ExitStopSystem, ExitStopRow, ExitSystemEnded,
       ExitMonitorsEnded, DestroyList, DestroyTables, MainReturns, ListRow, ListLock,
       ListUnlock, globals,
       AddRefused, ForkFails, StatFails, OpenFails, CreateFails, RefusedAt
  <2>2. CommandGoesOn => \/ status' = status
                         \/ OpenLog \/ SignalNoProcess \/ DestroyTables \/ MainReturns
                         \/ AddRefused
    BY DEF CommandGoesOn, CommandStep, FindRowTaken, FindRowFree, Fork, WaitExec,
       InitRow, ScanMiss, ScanHit, CreateThread, SystemCreated, MonitorCreated,
       ReadSystemTid, StopSystemTid, StopTid, FindPid, SignalSent, SignalDenied,
       MarkKilled, ExitStopSystem, ExitStopRow, ExitSystemEnded, ExitMonitorsEnded,
       ClearList, DestroyList, ListRow, ListLock, ListUnlock
  <2> QED
    BY <2>1, <2>2
<1>2. OpenLog \/ SignalNoProcess \/ DestroyTables \/ MainReturns \/ AddRefused
        => status' = status \/ threadTable' = threadTable
  BY RefusedStep DEF OpenLog, SignalNoProcess, DestroyTables, MainReturns, tables
<1>3. status = "up"
  BY DEF UserStep, CommandGoesOn
<1> QED
  BY <1>1, <1>2, <1>3, <1>4

(* A thread is created: Monitoring starts one. *)
LEMMA CreationIsStart ==
  ASSUME TypeOK, Ownership, SlotsAreCounted, SlotIsThere', StartsRunning,
         NEW t \in Tids, CreateThread(t), status = "up"
  PROVE  Abstract!Next
<1> DEFINE r == cmd.row
           k == IF r = SystemRow THEN "system" ELSE "monitor"
<1>0. /\ cmd \in CommandLocals /\ r \in RowIds /\ pc \in [Tids -> Labels]
      /\ threadTable \in [RowIds -> ThreadTableRow]
      /\ handle \in [Tids -> RowIds \cup {NoRow}]
  BY DEF TypeOK, CommandInRange, CreateThread
<1>1. /\ cmd.pc = "create" /\ cmd'.pc = "created" /\ cmd'.row = r
      /\ pc[t] = "none" /\ pc' = [pc EXCEPT ![t] = "top"]
      /\ handle' = [handle EXCEPT ![t] = r]
      /\ threadTable' = [threadTable EXCEPT ![r].tid = t]
      /\ line' = line /\ status' = status
      /\ completedList' = completedList /\ availableThreads' = availableThreads
  BY <1>0 DEF CreateThread, FreeTids, Goto, CommandLocals, globals
<1>2. \A q \in RowIds : threadTable'[q].endStatus = threadTable[q].endStatus
  BY <1>0, <1>1 DEF ThreadTableRow
<1>3. \A u \in Tids : Owns(u) => handle[u] \in RowIds
  BY DEF Ownership, LiveHaveRows, Live, Owns
<1>4. \A u \in Tids \ {t} : ThreadSame(u)
  <2> SUFFICES ASSUME NEW u \in Tids \ {t} PROVE ThreadSame(u)
    OBVIOUS
  <2>1. /\ pc'[u] = pc[u] /\ handle'[u] = handle[u] /\ line'[u] = line[u]
        /\ Owns(u) => threadTable'[handle[u]].endStatus = threadTable[handle[u]].endStatus
    BY <1>0, <1>1, <1>2, <1>3
  <2> QED
    BY <2>1, ThreadStays
<1>5. ~Closing /\ ~Closing' /\ RestSame
  <2>1. ~Closing /\ ~Closing'
    BY <1>1 DEF Closing
  <2> QED
    BY <1>1, <2>1, RestIsSame
<1>6. LifeOf(t) = "unborn" /\ KindOf(t) = "none" /\ ReasonOf(t) = "RUNNING"
  <2>1. ~Live(t)
    BY <1>1 DEF Live
  <2>2. LifeOf(t) = "unborn"
    BY <1>1 DEF LifeOf, Owns
  <2> QED
    BY <2>1, <2>2, DeadAreNothing DEF Ownership
<1>7. LifeOf(t)' = "monitoring" /\ KindOf(t)' = k /\ ReasonOf(t)' = "RUNNING"
  <2>1. Owns(t)' /\ Live(t)' /\ pc'[t] # "none" /\ handle'[t] = r
    BY <1>0, <1>1 DEF Owns, Live
  <2>2. LifeOf(t)' = "monitoring"
    BY <2>1 DEF LifeOf, Owns
  <2>3. KindOf(t)' = k
    BY <2>1 DEF KindOf, IsSystem
  <2>4. threadTable'[r].endStatus = "RUNNING"
    BY <1>0, <1>1, <1>2 DEF StartsRunning
  <2>5. ReasonOf(t)' = "RUNNING"
    BY <2>1, <2>4 DEF ReasonOf
  <2> QED
    BY <2>2, <2>3, <2>5
<1>8. IF k = "system" THEN LivingOf(k) = {} ELSE Cardinality(LivingOf(k)) < THREAD_TABLE_SIZE
  <2>1. CASE r = SystemRow
    <3>1. systemThreadState = "NOT_RUNNING" /\ ~FlagNotSetYet
      BY <1>1, <2>1 DEF Ownership, FlagIsRight, RowFilled, FlagNotSetYet
    <3>2. \A u \in Tids : Live(u) => ~IsSystem(u)
      BY <3>1 DEF Ownership, FlagIsRight
    <3>3. \A u \in Tids : KindOf(u) # "system"
      <4> SUFFICES ASSUME NEW u \in Tids PROVE KindOf(u) # "system"
        OBVIOUS
      <4>1. CASE Live(u)
        BY <3>2, <4>1 DEF KindOf
      <4>2. CASE ~Live(u)
        BY <4>2, DeadAreNothing DEF Ownership
      <4> QED
        BY <4>1, <4>2
    <3>4. LivingOf("system") = {}
      BY <3>3 DEF LivingOf
    <3> QED
      BY <2>1, <3>4
  <2>2. CASE r # SystemRow
    <3>1. r \in Rows
      BY <1>0, <2>2 DEF RowIds, Rows, SystemRow
    <3>2. availableThreads > 0 /\ availableThreads \in Nat
      BY <1>1, <3>1 DEF SlotIsThere, SlotNotTakenYet, TypeOK
    <3>3. availableThreads + Cardinality(Monitors) = THREAD_TABLE_SIZE
      BY <1>1, SizesAssumption, FiniteMonitors DEF SlotsAreCounted, SlotNotTakenYet, TypeOK
    <3>4. Cardinality(Monitors) < THREAD_TABLE_SIZE
      BY <3>2, <3>3, SizesAssumption, FiniteMonitors
    <3>5. \A u \in Tids : Live(u) => (IsMonitor(u) <=> ~IsSystem(u))
      <4>1. \A u \in Tids : Live(u) => handle[u] \in RowIds
        BY DEF Ownership, LiveHaveRows
      <4>2. \A q \in RowIds : q \in Rows <=> q # SystemRow
        BY DEF RowIds, Rows, SystemRow
      <4> QED
        BY <4>1, <4>2 DEF IsMonitor, IsSystem
    <3>6. \A u \in Tids : KindOf(u) = "monitor" <=> Live(u) /\ IsMonitor(u)
      BY <3>5 DEF KindOf
    <3>7. LivingOf("monitor") = Monitors
      BY <3>6 DEF LivingOf, Monitors
    <3> QED
      BY <2>2, <3>4, <3>7
  <2> QED
    BY <2>1, <2>2
<1>9. k \in {"monitor", "system"} /\ Up
  BY DEF Up
<1> HIDE DEF k
<1> QED
  BY <1>4, <1>5, <1>6, <1>7, <1>8, <1>9, SeenAsStart

(* The list is cleared: Monitoring gives the history up. *)
LEMMA ClearingIsClose ==
  ASSUME TypeOK, Ownership, SlotsAreCounted, ThreadsHaveEnded, ClearList, status = "up"
  PROVE  Abstract!Next
<1>0. cmd \in CommandLocals
  BY DEF TypeOK
<1>1. /\ cmd.pc = "clear" /\ cmd' = [cmd EXCEPT !.pc = "destroyList"]
      /\ completedList' = <<>> /\ status' = status
      /\ pc' = pc /\ handle' = handle /\ line' = line /\ threadTable' = threadTable
  BY DEF ClearList, Goto, threads, tables
<1>2. \A t \in Tids : ~Live(t)
  BY <1>1, NoThreadIsLeft DEF Teardown
<1>3. \A t \in Tids : ThreadSame(t)
  BY <1>1, ThreadStays
<1>4. \A t \in Tids : KindOf(t) = "none"
  BY <1>2, DeadAreNothing DEF Ownership
<1>5. Up /\ Up' = Up /\ Closing' = TRUE
  BY <1>0, <1>1 DEF Up, Closing, CommandLocals
<1> QED
  BY <1>1, <1>3, <1>4, <1>5, SeenAsClose

(* Everything else the command thread does asks one thread to end or is not
   seen. *)
LEMMA CommandsSeen ==
  ASSUME TypeOK, Ownership, SlotsAreCounted, ThreadsHaveEnded, SlotIsThere', StartsRunning,
         UserStep \/ CommandGoesOn
  PROVE  Abstract!Next \/ UNCHANGED Abstract!vars
<1>0. Up /\ status = "up"
  BY CommandsFail DEF Up
<1>1. CASE \E t \in Tids : CreateThread(t)
  BY <1>0, <1>1, CreationIsStart
<1>2. CASE ClearList
  BY <1>0, <1>2, ClearingIsClose
<1>3. CASE ~(\E t \in Tids : CreateThread(t)) /\ ~ClearList
  <2>1. /\ pc' = pc /\ handle' = handle /\ line' = line
        /\ completedList' = completedList /\ (Closing' <=> Closing)
    BY <1>3, CommandsAndThreads, CommandsMark, CommandsFail, ClosingStays
  <2>2. \A u \in Tids : Owns(u) => handle[u] \in RowIds
    BY DEF Ownership, LiveHaveRows, Live, Owns
  <2>3. CASE MarksSame \/ threadTable' = threadTable
    <3>1. \A u \in Tids : ThreadSame(u)
      BY <2>1, <2>2, <2>3, ThreadStays DEF MarksSame
    <3> QED
      BY <1>0, <2>1, <3>1, Unseen
  <2>4. ASSUME NEW r \in RowIds, NEW s \in {"STOPPED", "KILLED"}, MarkedBy(r, s),
               status' = status
        PROVE  Abstract!Next \/ UNCHANGED Abstract!vars
    <3>1. \A u \in Tids : ~Owns(u) \/ handle[u] # r => ThreadSame(u)
      BY <2>1, <2>2, <2>4, ThreadStays DEF MarkedBy
    <3>2. CASE \E u \in Tids : Owns(u) /\ handle[u] = r
      <4>1. PICK u \in Tids : Owns(u) /\ handle[u] = r
        BY <3>2
      <4>2. \A v \in Tids \ {u} : ~Owns(v) \/ handle[v] # r
        BY <4>1 DEF Ownership, RowIsOwned
      <4>3. RestSame
        BY <2>1, <2>4, RestIsSame
      <4>4. Owns(u)' /\ handle'[u] = r /\ threadTable'[r].endStatus = s
        BY <2>1, <2>4, <4>1 DEF Owns, MarkedBy
      <4>5. /\ LifeOf(u) = "monitoring"
            /\ KindOf(u) = IF IsSystem(u) THEN "system" ELSE "monitor"
        BY <4>1, OwnersMonitor
      <4>6. LifeOf(u)' = "monitoring" /\ ReasonOf(u)' = s /\ KindOf(u)' = KindOf(u)
        <5>1. Live(u)' /\ pc'[u] # "none" /\ pc'[u] = pc[u] /\ handle'[u] = handle[u]
          BY <2>1, <4>4 DEF Live, Owns
        <5>2. LifeOf(u)' = "monitoring"
          BY <4>4, <5>1 DEF LifeOf, Owns
        <5>3. ReasonOf(u)' = s
          BY <4>4, <5>1 DEF ReasonOf
        <5>4. KindOf(u)' = KindOf(u)
          BY <5>1 DEF KindOf, Live, IsSystem
        <5> QED
          BY <5>2, <5>3, <5>4
      <4> QED
        BY <1>0, <3>1, <4>2, <4>3, <4>5, <4>6, SeenAsAsk
    <3>3. CASE ~\E u \in Tids : Owns(u) /\ handle[u] = r
      BY <1>0, <2>1, <3>1, <3>3, Unseen
    <3> QED
      BY <3>2, <3>3
  <2> QED
    BY <2>3, <2>4, CommandsMark, CommandsFail
<1> QED
  BY <1>1, <1>2, <1>3

(* What a thread does between its beginning and its end: most steps are not seen,
   and those that are are its loss, its leaving, its record and its end. *)
LEMMA ThreadsSeen ==
  ASSUME TypeOK, Ownership, Ownership', CopyIsRow, NEW t \in Tids,
         status = "up", MonitorNext(t) \/ SystemNext(t)
  PROVE  Abstract!Next \/ UNCHANGED Abstract!vars
<1>0. /\ pc \in [Tids -> Labels] /\ line \in [Tids -> ThreadTableRow]
      /\ handle \in [Tids -> RowIds \cup {NoRow}] /\ handle[t] \in RowIds
      /\ threadTable \in [RowIds -> ThreadTableRow]
      /\ completedList \in Seq(ThreadTableRow)
  BY Ranges DEF TypeOK, MonitorNext, SystemNext, IsMonitor, IsSystem
<1>1. \A u \in Tids \ {t} : ThreadSame(u)
  <2> SUFFICES ASSUME NEW u \in Tids \ {t} PROVE ThreadSame(u)
    OBVIOUS
  <2> QED
    BY OthersStay, ThreadStays
<1>2. Up /\ cmd' = cmd /\ (Closing' <=> Closing) /\ Closing' = Closing
  BY DEF Up, Closing, MonitorNext, MonitorLockRow, MonitorOpen, MonitorProcessGone,
     MonitorPrint, MonitorPrintFails, MonitorContinue, MonitorTerminate,
     MonitorRelease, MonitorWait, MonitorRecord, MonitorPost, SystemNext,
     SystemLockRow, SystemPrint, SystemContinue, SystemTerminate, SystemRelease,
     SystemRecord, SystemPost
<1>3. ASSUME Owns(t), Owns(t)', handle' = handle, completedList' = completedList,
             threadTable' = threadTable
      PROVE  Abstract!Next \/ UNCHANGED Abstract!vars
  <2>1. /\ LifeOf(t) = "monitoring" /\ LifeOf(t)' = "monitoring"
        /\ ReasonOf(t) = threadTable[handle[t]].endStatus
        /\ ReasonOf(t)' = threadTable'[handle'[t]].endStatus
    <3>1. /\ LifeOf(t) = "monitoring"
          /\ ReasonOf(t) = threadTable[handle[t]].endStatus
      BY <1>3, OwnersMonitor
    <3>2. Live(t)' /\ pc'[t] # "none"
      BY <1>3 DEF Live, Owns
    <3>3. LifeOf(t)' = "monitoring"
      BY <1>3, <3>2 DEF LifeOf, Owns
    <3>4. ReasonOf(t)' = threadTable'[handle'[t]].endStatus
      BY <1>3, <3>2 DEF ReasonOf
    <3> QED
      BY <3>1, <3>3, <3>4
  <2>2. KindOf(t)' = KindOf(t)
    <3>1. Live(t) /\ Live(t)' /\ (IsSystem(t)' <=> IsSystem(t))
      BY <1>3 DEF Live, Owns, IsSystem
    <3> QED
      BY <3>1 DEF KindOf
  <2>3. ThreadSame(t)
    BY <1>3, <2>1, <2>2 DEF ThreadSame
  <2> QED
    BY <1>1, <1>2, <1>3, <2>3, Unseen
<1>4. CASE MonitorLockRow(t) \/ MonitorOpen(t) \/ MonitorPrint(t) \/ MonitorWait(t)
           \/ MonitorTerminate(t)
  <2>1. /\ Owns(t) /\ Owns(t)'
        /\ handle' = handle /\ completedList' = completedList
        /\ threadTable' = threadTable
    BY <1>0, <1>4 DEF MonitorLockRow, MonitorOpen, MonitorPrint, MonitorWait,
       MonitorTerminate, CopyRow, Owns, tables, globals
  <2> QED
    BY <1>3, <2>1
<1>5. CASE MonitorContinue(t)
  <2>1. ~stop[t]
    BY <1>5 DEF MonitorContinue, MyRow, Ownership, StopHasReason, Owns
  <2>2. /\ Owns(t) /\ Owns(t)'
        /\ handle' = handle /\ completedList' = completedList
        /\ threadTable' = threadTable
    BY <1>0, <1>5, <2>1 DEF MonitorContinue, Owns, tables, globals
  <2> QED
    BY <1>3, <2>2
<1>6. CASE MonitorPrintFails(t)
  <2>1. /\ Owns(t) /\ Owns(t)'
        /\ handle' = handle /\ completedList' = completedList
        /\ threadTable' = threadTable
    BY <1>6 DEF MonitorPrintFails, Owns, tables, globals, threads
  <2> QED
    BY <1>3, <2>1
<1>7. CASE IsSystem(t) /\ (\/ SystemLockRow(t) \/ SystemPrint(t) \/ SystemContinue(t)
                           \/ SystemTerminate(t))
  <2>1. /\ Owns(t) /\ Owns(t)'
        /\ handle' = handle /\ completedList' = completedList
        /\ threadTable' = threadTable
    BY <1>0, <1>7 DEF SystemLockRow, SystemPrint, SystemContinue, SystemTerminate,
       CopyRow, Owns, tables, globals
  <2> QED
    BY <1>3, <2>1
<1>8. CASE IsMonitor(t) /\ MonitorProcessGone(t)
  <2>1. /\ Owns(t) /\ Owns(t)' /\ handle' = handle /\ completedList' = completedList
        /\ status' = status
        /\ threadTable' = IF threadTable[handle[t]].endStatus = "RUNNING"
                          THEN [threadTable EXCEPT ![handle[t]].endStatus = "EXITED"]
                          ELSE threadTable
    BY <1>0, <1>8 DEF MonitorProcessGone, MyRow, Owns, globals
  <2>2. CASE threadTable[handle[t]].endStatus = "RUNNING"
    <3>1. threadTable'[handle[t]].endStatus = "EXITED"
      BY <1>0, <2>1, <2>2 DEF ThreadTableRow
    <3>2. ~IsSystem(t) /\ ~IsSystem(t)'
      BY <1>8, <2>1 DEF IsMonitor, IsSystem, Rows, SystemRow
    <3>3. LifeOf(t) = "monitoring" /\ KindOf(t) = "monitor" /\ ReasonOf(t) = "RUNNING"
      BY <2>1, <2>2, <3>2, OwnersMonitor
    <3>4. Live(t)' /\ pc'[t] # "none"
      BY <2>1 DEF Live, Owns
    <3>5. LifeOf(t)' = "monitoring"
      BY <2>1, <3>4 DEF LifeOf, Owns
    <3>6. KindOf(t)' = "monitor"
      BY <3>2, <3>4 DEF KindOf
    <3>7. ReasonOf(t)' = "EXITED"
      BY <2>1, <3>1, <3>4 DEF ReasonOf
    <3>8. RestSame
      BY <1>2, <2>1, RestIsSame
    <3> QED
      BY <1>1, <1>2, <3>3, <3>5, <3>6, <3>7, <3>8, SeenAsLoss
  <2>3. CASE threadTable[handle[t]].endStatus # "RUNNING"
    BY <1>3, <2>1, <2>3
  <2> QED
    BY <2>2, <2>3
<1>9. CASE MonitorRelease(t) \/ SystemRelease(t)
  <2>1. /\ pc[t] = "release" /\ pc'[t] = "list" /\ handle' = handle /\ line' = line
        /\ completedList' = completedList /\ status' = status
    BY <1>0, <1>9 DEF MonitorRelease, SystemRelease, globals
  <2>2. /\ line[t].endStatus = threadTable[handle[t]].endStatus
        /\ line[t].endStatus # "RUNNING"
    BY <2>1 DEF CopyIsRow
  <2>3. /\ LifeOf(t) = "monitoring" /\ ReasonOf(t) = line[t].endStatus
    BY <2>1, <2>2, OwnersMonitor DEF Owns
  <2>4. Live(t) /\ Live(t)' /\ ~Owns(t)' /\ (IsSystem(t)' <=> IsSystem(t))
    BY <2>1 DEF Live, Owns, IsSystem
  <2>5. LifeOf(t)' = "leaving"
    BY <2>1 DEF LifeOf, Owns
  <2>6. KindOf(t)' = KindOf(t)
    BY <2>4 DEF KindOf
  <2>7. ReasonOf(t)' = line[t].endStatus
    BY <2>1, <2>4 DEF ReasonOf
  <2>8. RestSame
    BY <1>2, <2>1, RestIsSame
  <2> QED
    BY <1>1, <1>2, <2>2, <2>3, <2>5, <2>6, <2>7, <2>8, SeenAsLeave
<1>10. CASE MonitorRecord(t) \/ SystemRecord(t)
  <2>1. /\ pc[t] = "list" /\ pc'[t] = "post" /\ handle' = handle /\ line' = line
        /\ completedList' = Append(completedList, line[t]) /\ status' = status
    BY <1>0, <1>10 DEF MonitorRecord, SystemRecord, InsertCompleted
  <2>2. line[t].tid = t
    BY <2>1 DEF CopyIsRow
  <2>3. Live(t) /\ Live(t)' /\ ~Owns(t) /\ ~Owns(t)' /\ (IsSystem(t)' <=> IsSystem(t))
    BY <2>1 DEF Live, Owns, IsSystem
  <2>4. LifeOf(t) = "leaving" /\ LifeOf(t)' = "recorded"
    BY <2>1 DEF LifeOf, Owns
  <2>5. KindOf(t)' = KindOf(t)
    BY <2>3 DEF KindOf
  <2>6. ReasonOf(t) = line[t].endStatus /\ ReasonOf(t)' = line[t].endStatus
    BY <2>1, <2>3 DEF ReasonOf
  <2>7. Ends' = Append(Ends, RecordOf(line[t]))
    BY <1>0, <2>1, OneEndMore
  <2>8. RecordOf(line[t]) = [tid |-> t, reason |-> ReasonOf(t)]
    BY <2>2, <2>6 DEF RecordOf
  <2>9. Up' = Up
    BY <2>1 DEF Up
  <2> QED
    BY <1>1, <1>2, <2>4, <2>5, <2>6, <2>7, <2>8, <2>9, SeenAsRecord
<1>11. CASE MonitorPost(t) \/ SystemPost(t)
  <2>1. /\ pc[t] = "post" /\ pc'[t] = "done"
        /\ completedList' = completedList /\ status' = status
    BY <1>0, <1>11 DEF MonitorPost, SystemPost, EndThread
  <2>2. LifeOf(t) = "recorded" /\ LifeOf(t)' = "ended"
    BY <2>1 DEF LifeOf, Owns
  <2>3. ~Live(t)'
    BY <2>1 DEF Live
  <2>4. ~IsSystem(t)' /\ ~Owns(t)'
    BY <2>1, <2>3 DEF Ownership, LiveHaveRows, IsSystem, SystemRow, NoRow, Owns
  <2>5. KindOf(t)' = "none" /\ ReasonOf(t)' = "RUNNING"
    BY <2>3, <2>4 DEF KindOf, ReasonOf
  <2>6. RestSame
    BY <1>2, <2>1, RestIsSame
  <2> QED
    BY <1>1, <1>2, <2>2, <2>5, <2>6, SeenAsEnd
<1> QED
  BY <1>4, <1>5, <1>6, <1>7, <1>8, <1>9, <1>10, <1>11 DEF MonitorNext, SystemNext

(* Webmon and the processes are not seen, but for a failure of webmon. *)
LEMMA OthersUnseen ==
  ASSUME WebmonStep \/ ProcessStep \/ UNCHANGED vars
  PROVE  Abstract!Next \/ UNCHANGED Abstract!vars
<1>1. /\ pc' = pc /\ handle' = handle /\ line' = line /\ threadTable' = threadTable
      /\ completedList' = completedList /\ cmd' = cmd
      /\ status = "up" \/ status' = status
  BY DEF WebmonStep, WebmonNext, WebmonRefresh, WebmonShowRow, WebmonLockList,
     WebmonUnlockList, WebmonShowFiles, ProcessStep, ProcessDies, ProcessReaped,
     vars, tables, threads, globals,
     WebmonRefused
<1>2. \A t \in Tids : ThreadSame(t)
  BY <1>1, ThreadStays
<1>3. Closing' <=> Closing
  BY <1>1 DEF Closing
<1>4. CASE Up
  BY <1>1, <1>2, <1>3, <1>4, Unseen
<1>5. CASE ~Up
  <2>1. Up' = Up
    BY <1>1, <1>5 DEF Up
  <2>2. Lives' = Lives /\ KindsBy' = KindsBy /\ Causes' = Causes
    BY <1>2 DEF ThreadSame, Lives, KindsBy, Causes
  <2>3. Ends' = Ends
    BY <1>1 DEF Ends
  <2> QED
    BY <1>3, <2>1, <2>2, <2>3
       DEF Lives, KindsBy, Causes, Ends, Up, Closing, Abstract!vars
<1> QED
  BY <1>4, <1>5

(* The initial states of Mond are initial states of Monitoring. *)
LEMMA RefinedInit == Init => Abstract!Init
<1> SUFFICES ASSUME Init PROVE Abstract!Init
  OBVIOUS
<1>1. \A t \in Tids : pc[t] = "none" /\ handle[t] = NoRow
  BY DEF Init
<1>2. completedList = <<>> /\ status = "up" /\ cmd.pc = "prompt"
  BY DEF Init, Prompt
<1>3. \A t \in Tids : ~Live(t) /\ ~IsSystem(t) /\ ~Owns(t)
  BY <1>1 DEF Live, IsSystem, Owns, SystemRow, NoRow
<1>4. \A t \in Tids : LifeOf(t) = "unborn"
  BY <1>1 DEF LifeOf, Owns
<1>5. \A t \in Tids : KindOf(t) = "none" /\ ReasonOf(t) = "RUNNING"
  BY <1>3 DEF KindOf, ReasonOf
<1>6. Lives = [t \in Tids |-> "unborn"]
  BY <1>4 DEF Lives
<1>7. KindsBy = [t \in Tids |-> "none"] /\ Causes = [t \in Tids |-> "RUNNING"]
  BY <1>5 DEF KindsBy, Causes
<1>8. Ends = <<>>
  BY <1>2 DEF Ends
<1>9. Up = TRUE /\ Closing = FALSE
  BY <1>2 DEF Up, Closing
<1> QED
  BY <1>6, <1>7, <1>8, <1>9 DEF Lives, KindsBy, Causes, Ends, Up, Closing, Abstract!Init

(* Every step of mond is a step of Monitoring or none. *)
LEMMA RefinedNext ==
  ASSUME TypeOK, Ownership, SlotsAreCounted, ThreadsHaveEnded, CopyIsRow, SlotIsThere',
         StartsRunning, [Next]_vars
  PROVE  Abstract!Next \/ UNCHANGED Abstract!vars
<1>1. CASE UserStep \/ CommandGoesOn
  BY <1>1, CommandsSeen
<1>2. CASE \E t \in Tids : ThreadStep(t)
  <2>1. PICK t \in Tids : status = "up" /\ (MonitorNext(t) \/ SystemNext(t))
    BY <1>2 DEF ThreadStep
  <2>2. Ownership'
    BY OwnershipNext
  <2> QED
    BY <2>1, <2>2, ThreadsSeen
<1>3. CASE WebmonStep \/ ProcessStep \/ UNCHANGED vars
  BY <1>3, OthersUnseen
<1> QED
  BY <1>1, <1>2, <1>3 DEF Next, Ended

(* Mond implements Monitoring as long as every thread starts on a row with no
   reason to end: the table, the locks, the copies, the list, the flag and the
   semaphore are together what Monitoring says of the threads (mond.c:94-357,
   commands.c:55-129, monitorThread.c:84-331, systemThread.c:104-306). *)
THEOREM MondImplementsMonitoring == Spec /\ []StartsRunning => ImplementsMonitoring
<1>1. Init => CopyIsRow
  BY DEF Init, CopyIsRow
<1>2. TypeOK /\ Ownership /\ CopyIsRow /\ [Next]_vars => CopyIsRow'
  BY CopyNext
<1>3. TypeOK /\ Ownership /\ SlotsAreCounted /\ ThreadsHaveEnded /\ CopyIsRow
        /\ SlotIsThere' /\ StartsRunning /\ [Next]_vars
        => [Abstract!Next]_Abstract!vars
  BY RefinedNext
<1> QED
  BY <1>1, <1>2, <1>3, RefinedInit, TypeCorrect, OwnershipCorrect, SlotsAreWellCounted,
     ThreadsStayEnded, SlotIsStillThere, PTL DEF Spec, ImplementsMonitoring, Abstract!Spec

(* Without "kill" and "remove -s" typed, mond implements Monitoring: these two
   mark a row whoever it belongs to by then, and no other command does
   (commands.c:434-474, mond.c:257-267). *)
THEOREM OrdersImplementMonitoring == OrdersOnly => (Spec => ImplementsMonitoring)
<1> SUFFICES ASSUME OrdersOnly PROVE Spec => ImplementsMonitoring
  OBVIOUS
<1>1. Spec => []StartsRunning
  BY NoThreadStartsMarked
<1> QED
  BY <1>1, MondImplementsMonitoring, PTL
-----------------------------------------------------------------------------
(***************************************************************************)
(* The completed list tells of each end once.                              *)
(*                                                                         *)
(* From its copy to its record a thread's line keeps its own id and the    *)
(* reason of its end (CopyIsRow), whatever happens to the row meanwhile,   *)
(* and a thread records in the very step that makes it one of Recorded.    *)
(***************************************************************************)

(* A line that waits to be inserted says why its thread ended; with CopyIsRow
   this makes EndsAreRecordedOnce inductive. *)
RecordInvariant ==
  /\ \A t \in Tids : pc[t] = "list" => line[t].endStatus # "RUNNING"
  /\ EndsAreRecordedOnce

(* A step that leaves the list, the threads that have recorded and the lines to
   be inserted keeps the invariant, whether it begins the teardown or not. *)
LEMMA RecordsStay ==
  ASSUME RecordInvariant, ListCleared => ListCleared',
         Recorded' = Recorded, completedList' = completedList,
         \A t \in Tids : pc'[t] = "list" => line'[t].endStatus # "RUNNING"
  PROVE  RecordInvariant'
BY DEF RecordInvariant, EndsAreRecordedOnce

(* A thread that has not recorded yet appends its line. *)
LEMMA RecordIsAdded ==
  ASSUME completedList \in Seq(ThreadTableRow), line \in [Tids -> ThreadTableRow],
         EndsAreRecordedOnce, ListCleared' <=> ListCleared,
         NEW t \in Tids, t \notin Recorded, Recorded' = Recorded \cup {t},
         line[t].tid = t, line[t].endStatus # "RUNNING",
         completedList' = Append(completedList, line[t])
  PROVE  EndsAreRecordedOnce'
<1> DEFINE n == Len(completedList)
<1>1. /\ n \in Nat /\ DOMAIN completedList = 1..n
      /\ DOMAIN completedList' = 1..(n + 1)
  OBVIOUS
<1>2. \A i \in 1..n : completedList'[i] = completedList[i]
  OBVIOUS
<1>3. completedList'[n + 1] = line[t]
  OBVIOUS
<1>4. \A i \in 1..(n + 1) : i \in 1..n \/ i = n + 1
  BY <1>1
<1>5. n + 1 \in 1..(n + 1) /\ \A i \in 1..n : i \in 1..(n + 1)
  BY <1>1
<1> HIDE DEF n
<1> SUFFICES ASSUME ~ListCleared'
             PROVE  /\ \A i \in 1..(n + 1) :
                         /\ completedList'[i].tid \in Recorded'
                         /\ completedList'[i].endStatus # "RUNNING"
                    /\ \A u \in Recorded' :
                         \E i \in 1..(n + 1) : completedList'[i].tid = u
                    /\ \A i, j \in 1..(n + 1) :
                         completedList'[i].tid = completedList'[j].tid => i = j
  BY <1>1 DEF EndsAreRecordedOnce
<1>6. /\ \A i \in 1..n : /\ completedList[i].tid \in Recorded
                         /\ completedList[i].endStatus # "RUNNING"
      /\ \A u \in Recorded : \E i \in 1..n : completedList[i].tid = u
      /\ \A i, j \in 1..n : completedList[i].tid = completedList[j].tid => i = j
  BY <1>1 DEF EndsAreRecordedOnce
<1>7. \A i \in 1..n : completedList'[i].tid \in Recorded /\ completedList'[i].tid # t
  <2> TAKE i \in 1..n
  <2>1. completedList[i].tid \in Recorded
    BY <1>6
  <2>2. completedList'[i] = completedList[i]
    BY <1>2
  <2> QED
    BY <2>1, <2>2
<1>8. completedList'[n + 1].tid = t
  BY <1>3
<1>9. \A i \in 1..(n + 1) : /\ completedList'[i].tid \in Recorded'
                            /\ completedList'[i].endStatus # "RUNNING"
  BY <1>2, <1>3, <1>4, <1>6, <1>7, <1>8
<1>10. \A u \in Recorded' : \E i \in 1..(n + 1) : completedList'[i].tid = u
  BY <1>2, <1>5, <1>6, <1>8
<1>11. \A i, j \in 1..(n + 1) : completedList'[i].tid = completedList'[j].tid => i = j
  BY <1>2, <1>4, <1>6, <1>7, <1>8
<1> QED
  BY <1>9, <1>10, <1>11

(* The list is cleared in the teardown, where it promises nothing any more. *)
LEMMA ClearingForgets ==
  ASSUME TypeOK, RecordInvariant, ClearList
  PROVE  RecordInvariant'
<1>1. cmd \in CommandLocals /\ cmd' = [cmd EXCEPT !.pc = "destroyList"]
      /\ pc' = pc /\ line' = line
  BY DEF TypeOK, ClearList, Goto, threads
<1>2. ListCleared'
  BY <1>1 DEF ListCleared, CommandLocals
<1> QED
  BY <1>1, <1>2 DEF RecordInvariant, EndsAreRecordedOnce

(* No other step of the command thread touches the list or the threads that
   record: one it creates has everything before it. *)
LEMMA CommandsRecordNothing ==
  ASSUME TypeOK, Ownership, RecordInvariant, UserStep \/ CommandGoesOn
  PROVE  RecordInvariant'
<1>1. CASE ClearList
  BY <1>1, ClearingForgets
<1>2. CASE ~ClearList
  <2>1. completedList' = completedList /\ line' = line
    BY <1>2, CommandsFail, CommandsMark
  <2>2. ListCleared' <=> ListCleared
    BY <1>2, ClosingStays DEF Closing, ListCleared
  <2>3. \A t \in Tids : pc'[t] = pc[t] \/ (pc[t] = "none" /\ pc'[t] = "top")
    <3>1. CASE \E t \in Tids : CreateThread(t)
      BY <3>1 DEF CreateThread, FreeTids, TypeOK
    <3>2. CASE ~\E t \in Tids : CreateThread(t)
      BY <3>2, CommandsAndThreads
    <3> QED
      BY <3>1, <3>2
  <2>4. Recorded' = Recorded
    BY <2>3 DEF Recorded
  <2>5. \A t \in Tids : pc'[t] = "list" => line'[t].endStatus # "RUNNING"
    BY <2>1, <2>3 DEF RecordInvariant
  <2> QED
    BY <2>1, <2>2, <2>4, <2>5, RecordsStay
<1> QED
  BY <1>1, <1>2

(* A thread's step: up to its record it adds nothing, then its line, then
   nothing more. *)
LEMMA ThreadsRecordOnce ==
  ASSUME TypeOK, Ownership, CopyIsRow, RecordInvariant,
         NEW t \in Tids, MonitorNext(t) \/ SystemNext(t)
  PROVE  RecordInvariant'
<1>0. /\ pc \in [Tids -> Labels] /\ line \in [Tids -> ThreadTableRow]
      /\ completedList \in Seq(ThreadTableRow) /\ handle[t] \in RowIds
  BY Ranges DEF TypeOK, MonitorNext, SystemNext, IsMonitor, IsSystem
<1>1. ListCleared' <=> ListCleared
  BY DEF ListCleared, MonitorNext, MonitorLockRow, MonitorOpen, MonitorProcessGone,
     MonitorPrint, MonitorPrintFails, MonitorContinue, MonitorTerminate,
     MonitorRelease, MonitorWait, MonitorRecord, MonitorPost, SystemNext,
     SystemLockRow, SystemPrint, SystemContinue, SystemTerminate, SystemRelease,
     SystemRecord, SystemPost
<1>2. \A u \in Tids \ {t} : pc'[u] = pc[u] /\ line'[u] = line[u]
  BY OthersStay
<1>3. ASSUME completedList' = completedList,
             pc'[t] \in {"post", "done"} <=> pc[t] \in {"post", "done"},
             pc'[t] = "list" => line'[t].endStatus # "RUNNING"
      PROVE  RecordInvariant'
  <2>1. Recorded' = Recorded
    BY <1>2, <1>3 DEF Recorded
  <2>2. \A u \in Tids : pc'[u] = "list" => line'[u].endStatus # "RUNNING"
    BY <1>2, <1>3 DEF RecordInvariant
  <2> QED
    BY <1>1, <1>3, <2>1, <2>2, RecordsStay
<1>4. CASE MonitorRecord(t) \/ SystemRecord(t)
  <2>1. /\ pc[t] = "list" /\ pc'[t] = "post"
        /\ completedList' = Append(completedList, line[t])
    BY <1>0, <1>4 DEF MonitorRecord, SystemRecord, InsertCompleted
  <2>2. line[t].tid = t /\ line[t].endStatus # "RUNNING"
    BY <2>1 DEF CopyIsRow, RecordInvariant
  <2>3. t \notin Recorded /\ Recorded' = Recorded \cup {t}
    BY <1>2, <2>1 DEF Recorded
  <2>4. EndsAreRecordedOnce'
    BY <1>0, <1>1, <2>1, <2>2, <2>3, RecordIsAdded DEF RecordInvariant
  <2>5. \A u \in Tids : pc'[u] = "list" => line'[u].endStatus # "RUNNING"
    BY <1>2, <2>1 DEF RecordInvariant
  <2> QED
    BY <2>4, <2>5 DEF RecordInvariant
<1>5. CASE MonitorRelease(t) \/ SystemRelease(t)
  <2>1. /\ pc[t] = "release" /\ pc'[t] = "list" /\ line' = line
        /\ completedList' = completedList
    BY <1>0, <1>5 DEF MonitorRelease, SystemRelease, globals
  <2>2. line[t].endStatus # "RUNNING"
    BY <2>1 DEF CopyIsRow
  <2> QED
    BY <1>3, <2>1, <2>2
<1>6. CASE MonitorPost(t) \/ SystemPost(t)
  <2>1. pc[t] = "post" /\ pc'[t] = "done" /\ completedList' = completedList
    BY <1>0, <1>6 DEF MonitorPost, SystemPost, EndThread
  <2> QED
    BY <1>3, <2>1
<1>7. CASE MonitorContinue(t)
  <2>1. ~stop[t]
    BY <1>7 DEF MonitorContinue, MyRow, Ownership, StopHasReason, Owns
  <2>2. pc[t] = "check" /\ pc'[t] = "wait" /\ completedList' = completedList
    BY <1>0, <1>7, <2>1 DEF MonitorContinue, globals
  <2> QED
    BY <1>3, <2>2
<1>8. CASE MonitorPrintFails(t)
  <2>1. pc[t] = "print" /\ pc' = pc /\ completedList' = completedList
    BY <1>8 DEF MonitorPrintFails, globals, threads
  <2> QED
    BY <1>3, <2>1
<1>9. CASE \/ MonitorLockRow(t) \/ MonitorOpen(t) \/ MonitorProcessGone(t)
           \/ MonitorPrint(t) \/ MonitorTerminate(t) \/ MonitorWait(t)
           \/ SystemLockRow(t) \/ SystemPrint(t) \/ SystemContinue(t)
           \/ SystemTerminate(t)
  <2>1. /\ completedList' = completedList
        /\ pc[t] \in {"top", "open", "print", "check", "wait"}
        /\ pc'[t] \in {"top", "open", "print", "check", "wait", "release"}
    BY <1>0, <1>9 DEF MonitorLockRow, MonitorOpen, MonitorProcessGone, MonitorPrint,
       MonitorTerminate, MonitorWait, SystemLockRow, SystemPrint, SystemContinue,
       SystemTerminate, globals
  <2> QED
    BY <1>3, <2>1
<1> QED
  BY <1>4, <1>5, <1>6, <1>7, <1>8, <1>9 DEF MonitorNext, SystemNext

(* Every step of mond keeps the records. *)
LEMMA RecordsNext ==
  ASSUME TypeOK, Ownership, CopyIsRow, RecordInvariant, [Next]_vars
  PROVE  RecordInvariant'
<1>1. CASE UserStep \/ CommandGoesOn
  BY <1>1, CommandsRecordNothing
<1>2. CASE \E t \in Tids : ThreadStep(t)
  BY <1>2, ThreadsRecordOnce DEF ThreadStep
<1>3. CASE WebmonStep \/ ProcessStep \/ UNCHANGED vars
  <2>1. UNCHANGED <<pc, line, completedList, cmd>>
    BY <1>3 DEF WebmonStep, WebmonNext, WebmonRefresh, WebmonShowRow, WebmonLockList,
       WebmonUnlockList, WebmonShowFiles, ProcessStep, ProcessDies, ProcessReaped,
       vars, globals, threads,
       WebmonRefused
  <2> QED
    BY <2>1, RecordsStay DEF Recorded, ListCleared, RecordInvariant
<1> QED
  BY <1>1, <1>2, <1>3 DEF Next, Ended

(* Initially nobody has ended and the list is empty. *)
LEMMA RecordsInit == Init => CopyIsRow /\ RecordInvariant
BY DEF Init, CopyIsRow, RecordInvariant, EndsAreRecordedOnce, Recorded

(* Until exit frees the completed list it has one line, with the reason of its
   end, for each thread that has ended, and no other: however many threads end at
   once, and although the row is free for its next thread before the line is
   inserted (monitorThread.c:206-327, systemThread.c:245-303). *)
THEOREM EveryEndIsRecordedOnce == Spec => []EndsAreRecordedOnce
<1>1. TypeOK /\ Ownership /\ CopyIsRow /\ [Next]_vars => CopyIsRow'
  BY CopyNext
<1>2. TypeOK /\ Ownership /\ CopyIsRow /\ RecordInvariant /\ [Next]_vars
        => RecordInvariant'
  BY RecordsNext
<1>3. RecordInvariant => EndsAreRecordedOnce
  BY DEF RecordInvariant
<1> QED
  BY <1>1, <1>2, <1>3, RecordsInit, TypeCorrect, OwnershipCorrect, PTL DEF Spec
=============================================================================
