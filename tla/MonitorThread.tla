---------------------------- MODULE MonitorThread ----------------------------
(***************************************************************************)
(* The body of a monitor thread (monitorThread.c): each round logs its     *)
(* process under the row's mutex and, inside it, the log file's mutex;     *)
(* then the thread checks whether it has to terminate.                     *)
(*                                                                         *)
(* Steps that end in an unlock of everything held, and whose body only     *)
(* touches what the lock protects, are one action.  The row's mutex is     *)
(* visible (rowLock) whenever the thread can block or the process can      *)
(* change while it is held.                                                *)
(***************************************************************************)
EXTENDS MondTables

IsMonitor(t) == handle[t] \in Rows

MyRow(t) == threadTable[handle[t]]

(* Lock the row ("lock outer"); the thread next waits for the file's mutex. *)
MonitorLockRow(t) ==
  /\ pc[t] = "top"
  /\ rowLock[handle[t]] = NoTid
  /\ rowLock' = [rowLock EXCEPT ![handle[t]] = t]
  /\ pc' = [pc EXCEPT ![t] = "open"]
  /\ UNCHANGED <<threadTable, fileTable, fileLock, globals, handle, stop, line,
                 proc, cmd, web, status>>

(* Lock the file ("lock inner") and open the process's files in /proc. *)
MonitorOpen(t) ==
  /\ pc[t] = "open"
  /\ fileLock[MyRow(t).fTable] = NoTid
  /\ InProc(MyRow(t).pid)
  /\ fileLock' = [fileLock EXCEPT ![MyRow(t).fTable] = t]
  /\ stop' = [stop EXCEPT ![t] = FALSE]
  /\ pc' = [pc EXCEPT ![t] = "print"]
  /\ UNCHANGED <<threadTable, rowLock, fileTable, globals, handle, line,
                 proc, cmd, web, status>>

(* Mutations of MonitorProcessGone: a request to stop is overwritten; the death
   of the process goes unnoticed. *)
MonitorProcessGoneAnyStatus(t) ==
  /\ pc[t] = "open"
  /\ fileLock[MyRow(t).fTable] = NoTid
  /\ ~InProc(MyRow(t).pid)
  /\ threadTable' = [threadTable EXCEPT ![handle[t]].endStatus = "EXITED"]
  /\ stop' = [stop EXCEPT ![t] = TRUE]
  /\ rowLock' = [rowLock EXCEPT ![handle[t]] = NoTid]
  /\ pc' = [pc EXCEPT ![t] = "check"]
  /\ UNCHANGED <<fileTable, fileLock, globals, handle, line, proc, cmd, web,
                 status>>

MonitorProcessGoneIgnored(t) ==
  /\ pc[t] = "open"
  /\ fileLock[MyRow(t).fTable] = NoTid
  /\ ~InProc(MyRow(t).pid)
  /\ rowLock' = [rowLock EXCEPT ![handle[t]] = NoTid]
  /\ pc' = [pc EXCEPT ![t] = "check"]
  /\ UNCHANGED <<threadTable, fileTable, fileLock, globals, handle, stop, line,
                 proc, cmd, web, status>>

(* The process is gone: the thread marks its row, unless it has been told to
   stop already, and releases both mutexes. *)
MonitorProcessGone(t) ==
  /\ pc[t] = "open"
  /\ fileLock[MyRow(t).fTable] = NoTid
  /\ ~InProc(MyRow(t).pid)
  /\ threadTable' = IF MyRow(t).endStatus = "RUNNING"
                    THEN [threadTable EXCEPT ![handle[t]].endStatus = "EXITED"]
                    ELSE threadTable
  /\ stop' = [stop EXCEPT ![t] = TRUE]
  /\ rowLock' = [rowLock EXCEPT ![handle[t]] = NoTid]
  /\ pc' = [pc EXCEPT ![t] = "check"]
  /\ UNCHANGED <<fileTable, fileLock, globals, handle, line, proc, cmd, web,
                 status>>

(* Log the process.  If it has been waited for since its files were opened,
   reading them fails with ESRCH: getline reports an error that is not
   end-of-file and queryFileByLoc calls exit(-1). *)
MonitorPrint(t) ==
  /\ pc[t] = "print"
  /\ InProc(MyRow(t).pid)
  /\ fileLock' = [fileLock EXCEPT ![MyRow(t).fTable] = NoTid]
  /\ rowLock' = [rowLock EXCEPT ![handle[t]] = NoTid]
  /\ pc' = [pc EXCEPT ![t] = "check"]
  /\ UNCHANGED <<threadTable, fileTable, globals, handle, stop, line, proc,
                 cmd, web, status>>

MonitorPrintFails(t) ==
  /\ pc[t] = "print"
  /\ ~InProc(MyRow(t).pid)
  /\ status' = "crashed"
  /\ UNCHANGED <<tables, globals, threads, proc, cmd, web>>

(* Mutation of MonitorContinue: only EXITED ends the loop for sure. *)
MonitorContinueWhenTold(t) ==
  /\ pc[t] = "check"
  /\ rowLock[handle[t]] = NoTid
  /\ MyRow(t).endStatus # "EXITED"
  /\ pc' = [pc EXCEPT ![t] = IF stop[t] THEN "list" ELSE "wait"]
  /\ UNCHANGED <<tables, globals, handle, stop, line, proc, cmd, web, status>>

(* The check finds RUNNING: the loop goes on, unless stop is set. *)
MonitorContinue(t) ==
  /\ pc[t] = "check"
  /\ rowLock[handle[t]] = NoTid
  /\ MyRow(t).endStatus = "RUNNING"
  /\ pc' = [pc EXCEPT ![t] = IF stop[t] THEN "list" ELSE "wait"]
  /\ UNCHANGED <<tables, globals, handle, stop, line, proc, cmd, web, status>>

(* The check finds any other status: the row is copied for the list. *)
MonitorTerminate(t) ==
  /\ pc[t] = "check"
  /\ rowLock[handle[t]] = NoTid
  /\ MyRow(t).endStatus # "RUNNING"
  /\ CopyRow(t)
  /\ pc' = [pc EXCEPT ![t] = "release"]
  /\ UNCHANGED <<globals, handle, stop, proc, cmd, web, status>>

(* Mutation of MonitorRelease: the loop goes on after the cleanup. *)
MonitorReleaseGoesOn(t) ==
  /\ pc[t] = "release"
  /\ ReleaseRow(t)
  /\ pc' = [pc EXCEPT ![t] = "wait"]
  /\ UNCHANGED <<globals, handle, stop, line, proc, cmd, web, status>>

(* Leave the log file, free the row and break out of the loop. *)
MonitorRelease(t) ==
  /\ pc[t] = "release"
  /\ ReleaseRow(t)
  /\ stop' = [stop EXCEPT ![t] = TRUE]
  /\ pc' = [pc EXCEPT ![t] = "list"]
  /\ UNCHANGED <<globals, handle, line, proc, cmd, web, status>>

(* Mutation of MonitorWait: children are not waited for. *)
MonitorWaitForNoOne(t) ==
  /\ pc[t] = "wait"
  /\ pc' = [pc EXCEPT ![t] = "top"]
  /\ UNCHANGED <<tables, globals, handle, stop, line, proc, cmd, web, status>>

(* Between two rounds a child that has died is waited for; waitpid of a
   process that is not a child any more ends the program.  Then the thread
   sleeps for what is left of the interval. *)
MonitorWait(t) ==
  /\ pc[t] = "wait"
  /\ LET p == MyRow(t).pid
     IN  IF ~MyRow(t).isChild
         THEN UNCHANGED <<proc, status>>
         ELSE /\ proc' = [proc EXCEPT ![p] = WaitedFor(proc[p])]
              /\ status' = IF proc[p] = "gone" THEN "crashed" ELSE status
  /\ pc' = [pc EXCEPT ![t] = "top"]
  /\ UNCHANGED <<tables, globals, handle, stop, line, cmd, web>>

MonitorRecord(t) ==
  /\ pc[t] = "list"
  /\ InsertCompleted(t)
  /\ pc' = [pc EXCEPT ![t] = "post"]
  /\ UNCHANGED <<tables, availableThreads, systemThreadState, listExists, handle,
                 stop, line, proc, cmd, web, status>>

(* Mutations of MonitorPost: no sem_post, or sem_wait in its place. *)
MonitorPostForgets(t) ==
  /\ pc[t] = "post"
  /\ EndThread(t)
  /\ UNCHANGED <<tables, globals, proc, cmd, web, status>>

MonitorPostWaits(t) ==
  /\ pc[t] = "post"
  /\ availableThreads' = availableThreads - 1
  /\ EndThread(t)
  /\ UNCHANGED <<tables, systemThreadState, completedList, listExists, proc, cmd,
                 web, status>>

(* sem_post, after the row was freed and the record was inserted. *)
MonitorPost(t) ==
  /\ pc[t] = "post"
  /\ availableThreads' = availableThreads + 1
  /\ EndThread(t)
  /\ UNCHANGED <<tables, systemThreadState, completedList, listExists, proc, cmd,
                 web, status>>

MonitorNext(t) ==
  /\ IsMonitor(t)
  /\ \/ MonitorLockRow(t) \/ MonitorOpen(t) \/ MonitorProcessGone(t)
     \/ MonitorPrint(t) \/ MonitorPrintFails(t)
     \/ MonitorContinue(t) \/ MonitorTerminate(t) \/ MonitorRelease(t)
     \/ MonitorWait(t) \/ MonitorRecord(t) \/ MonitorPost(t)
=============================================================================
