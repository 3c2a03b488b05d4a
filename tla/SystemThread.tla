----------------------------- MODULE SystemThread -----------------------------
(***************************************************************************)
(* The body of the system thread (systemThread.c).  It differs from a      *)
(* monitor in what ends it (only STOPPED), in having no process to lose,   *)
(* and in what it tells the command thread at its end: it clears the flag  *)
(* systemThreadState instead of posting a semaphore.                       *)
(***************************************************************************)
EXTENDS MondTables

IsSystem(t) == handle[t] = SystemRow

(* Lock the row ("lock outer"). *)
SystemLockRow(t) ==
  /\ pc[t] = "top"
  /\ rowLock[SystemRow] = NoTid
  /\ rowLock' = [rowLock EXCEPT ![SystemRow] = t]
  /\ pc' = [pc EXCEPT ![t] = "open"]
  /\ UNCHANGED <<threadTable, fileTable, fileLock, globals, handle, stop, line,
                 proc, cmd, web, status>>

(* Lock the file, log the statistics, unlock both. *)
SystemPrint(t) ==
  /\ pc[t] = "open"
  /\ fileLock[threadTable[SystemRow].fTable] = NoTid
  /\ rowLock' = [rowLock EXCEPT ![SystemRow] = NoTid]
  /\ pc' = [pc EXCEPT ![t] = "check"]
  /\ UNCHANGED <<threadTable, fileTable, fileLock, globals, handle, stop, line,
                 proc, cmd, web, status>>

(* Not told to stop: sleep, and start the next round. *)
SystemContinue(t) ==
  /\ pc[t] = "check"
  /\ rowLock[SystemRow] = NoTid
  /\ threadTable[SystemRow].endStatus # "STOPPED"
  /\ pc' = [pc EXCEPT ![t] = "top"]
  /\ UNCHANGED <<tables, globals, handle, stop, line, proc, cmd, web, status>>

SystemTerminate(t) ==
  /\ pc[t] = "check"
  /\ rowLock[SystemRow] = NoTid
  /\ threadTable[SystemRow].endStatus = "STOPPED"
  /\ CopyRow(t)
  /\ pc' = [pc EXCEPT ![t] = "release"]
  /\ UNCHANGED <<globals, handle, stop, proc, cmd, web, status>>

(* Mutation of SystemRelease: the flag is cleared with the row, before the
   record is made. *)
SystemReleaseClearsFlag(t) ==
  /\ pc[t] = "release"
  /\ ReleaseRow(t)
  /\ systemThreadState' = "NOT_RUNNING"
  /\ stop' = [stop EXCEPT ![t] = TRUE]
  /\ pc' = [pc EXCEPT ![t] = "list"]
  /\ UNCHANGED <<availableThreads, completedList, listExists, handle, line, proc,
                 cmd, web, status>>

SystemRelease(t) ==
  /\ pc[t] = "release"
  /\ ReleaseRow(t)
  /\ stop' = [stop EXCEPT ![t] = TRUE]
  /\ pc' = [pc EXCEPT ![t] = "list"]
  /\ UNCHANGED <<globals, handle, line, proc, cmd, web, status>>

SystemRecord(t) ==
  /\ pc[t] = "list"
  /\ InsertCompleted(t)
  /\ pc' = [pc EXCEPT ![t] = "post"]
  /\ UNCHANGED <<tables, availableThreads, systemThreadState, listExists, handle,
                 stop, line, proc, cmd, web, status>>

(* The flag is cleared last, and without a lock. *)
SystemPost(t) ==
  /\ pc[t] = "post"
  /\ systemThreadState' = "NOT_RUNNING"
  /\ EndThread(t)
  /\ UNCHANGED <<tables, availableThreads, completedList, listExists, proc, cmd,
                 web, status>>

SystemNext(t) ==
  /\ IsSystem(t)
  /\ \/ SystemLockRow(t) \/ SystemPrint(t) \/ SystemContinue(t)
     \/ SystemTerminate(t) \/ SystemRelease(t) \/ SystemRecord(t)
     \/ SystemPost(t)
=============================================================================
