---------------------------- MODULE MondRefinement ----------------------------
(***************************************************************************)
(* Mond implements Monitoring.  A thread's reason is in its row while it   *)
(* owns the row, and in its private copy from the cleanup of the row to    *)
(* the record: the mapping follows it from one to the other.               *)
(***************************************************************************)
EXTENDS MondProperties

LifeOf(t) ==
  CASE pc[t] = "none" -> "unborn"
    [] Owns(t)        -> "monitoring"
    [] pc[t] = "list" -> "leaving"
    [] pc[t] = "post" -> "recorded"
    [] pc[t] = "done" -> "ended"

KindOf(t) ==
  CASE ~Live(t)    -> "none"
    [] IsSystem(t) -> "system"
    [] OTHER       -> "monitor"

ReasonOf(t) ==
  CASE ~Live(t) -> "RUNNING"
    [] Owns(t)  -> threadTable[handle[t]].endStatus
    [] OTHER    -> line[t].endStatus

RecordOf(row) == [tid |-> row.tid, reason |-> row.endStatus]

Abstract == INSTANCE Monitoring WITH
  Slots   <- THREAD_TABLE_SIZE,
  life    <- [t \in Tids |-> LifeOf(t)],
  kind    <- [t \in Tids |-> KindOf(t)],
  reason  <- [t \in Tids |-> ReasonOf(t)],
  history <- [i \in 1..Len(completedList) |-> RecordOf(completedList[i])],
  up      <- status = "up",
  closing <- cmd.pc \in {"destroyList", "destroyTables", "return"}

(* Every behaviour of mond is one of Monitoring's: rows, copies, list, flag and
   semaphore together tell each thread's life, and no interleaving starts a
   thread too many, loses its reason or its record, or gives up the history
   under it.  With "kill" or "remove -s" typed it is not so: see the runs
   kill_after_release and remove_idle_system. *)
ImplementsMonitoring == Abstract!Spec

(* With the fairness of the threads, every thread with a reason to end is also
   recorded and ends. *)
ImplementsMonitoringFairly == Abstract!FairSpec
=============================================================================
