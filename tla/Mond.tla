--------------------------------- MODULE Mond ---------------------------------
(***************************************************************************)
(* The whole program: the command thread, the monitor threads, the system  *)
(* thread and webmon over the shared tables, beside the processes they     *)
(* watch.                                                                  *)
(***************************************************************************)
EXTENDS Commands, MonitorThread, SystemThread, WebmonThread

-----------------------------------------------------------------------------
(* The processes: they die, a failed exec ends with status 251, and those   *)
(* that are not mond's children are waited for by whoever started them.     *)
ProcessDies(p) ==
  /\ proc[p] \in {"alive", "execFailed"}
  /\ proc' = [proc EXCEPT ![p] = IF proc[p] = "alive" THEN "zombie" ELSE "zombie251"]
  /\ UNCHANGED <<tables, globals, threads, cmd, web, status>>

ProcessReaped(p) ==
  /\ p \in Externals
  /\ proc[p] = "zombie"
  /\ proc' = [proc EXCEPT ![p] = "gone"]
  /\ UNCHANGED <<tables, globals, threads, cmd, web, status>>

ThreadStep(t) == status = "up" /\ (MonitorNext(t) \/ SystemNext(t))
UserStep      == status = "up" /\ CommandTyped
CommandGoesOn == status = "up" /\ CommandStep
WebmonStep    == status = "up" /\ WebmonNext
ProcessStep   == status = "up" /\ \E p \in Pids : ProcessDies(p) \/ ProcessReaped(p)

(* The process of mond has ended: nothing happens any more. *)
Ended == status # "up" /\ UNCHANGED vars

Next ==
  \/ UserStep
  \/ CommandGoesOn
  \/ \E t \in Tids : ThreadStep(t)
  \/ WebmonStep
  \/ ProcessStep
  \/ Ended

Spec == Init /\ [][Next]_vars

(* The kernel schedules every thread; a thread that waits for a mutex is let
   in eventually, since each holder gives it up before it sleeps.  Nothing is
   assumed of the user or of the processes. *)
Fairness ==
  /\ SF_vars(CommandGoesOn)
  /\ \A t \in Tids : SF_vars(ThreadStep(t))

FairSpec == Spec /\ Fairness
=============================================================================
