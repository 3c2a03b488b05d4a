------------------------------ MODULE Descriptors ------------------------------
(***************************************************************************)
(* The file descriptors of mond: which the threads open, keep in their     *)
(* locals and close.  The kernel gives out the lowest free number, and     *)
(* close(2) takes any number: it frees it, whoever opened it.              *)
(*                                                                         *)
(* The streams that queryFileByLoc puts on a descriptor are never closed;  *)
(* they cost memory and no descriptor.                                     *)
(***************************************************************************)
EXTENDS Integers, FiniteSets

CONSTANTS
  Limits,          \* how many descriptors the kernel may let mond have
  Monitors,        \* the monitor threads, each with a process
  LogFiles,        \* the log files
  LogOf,           \* thread -> its log file
  System, Webmon,  \* the system thread, the webmon thread
  Nobody,          \* the owner of a free descriptor
  SYSTEM_FILES,    \* how many files openSysFiles opens (4)
  STARTS           \* bound: how often a thread is started

Threads == Monitors \cup {System}

ASSUME DescriptorsAssumption ==
  /\ Limits \subseteq Nat /\ STARTS \in Nat /\ SYSTEM_FILES \in Nat \ {0}
  (* The thread table and the file table have a size. *)
  /\ IsFiniteSet(Monitors) /\ IsFiniteSet(LogFiles)
  /\ System # Webmon /\ {System, Webmon} \cap Monitors = {}
  /\ LogFiles \cap (Threads \cup {Webmon}) = {}
  /\ Nobody \notin Threads \cup LogFiles \cup {Webmon}
  /\ LogOf \in [Threads -> LogFiles]

VARIABLES
  limit,    \* how many descriptors there are (RLIMIT_NOFILE)
  openBy,   \* descriptor -> who opened it and has not closed it
  pc,       \* thread -> its position
  fds,      \* thread -> its two descriptor variables (fdStat and fdStatm, or
            \* the page and /proc/loadavg)
  logFd,    \* log file -> the descriptor of filep, or NoFd
  gone,     \* monitor -> whether its process has been waited for
  starts,   \* thread -> how often it has been started
  ended,    \* monitor -> how its last thread ended
  opened,   \* how many of its files the system thread has opened
  wrong,    \* somebody closed a descriptor that was not its own
  up        \* mond has not called exit(-1)

vars == <<limit, openBy, pc, fds, logFd, gone, starts, ended, opened, wrong, up>>

-----------------------------------------------------------------------------
NoFd == -1
Fds  == 0..(limit - 1)
Free == {d \in Fds : openBy[d] = Nobody}

(* What open(2) gives out. *)
Lowest(d) == d \in Free /\ \A e \in Free : d <= e

Variables == {"first", "second"}
Labels    == {"off", "first", "second", "use", "check", "open"}

Init ==
  /\ limit \in Limits
  /\ openBy = [d \in Fds |-> Nobody]
  /\ pc = [t \in Threads \cup {Webmon} |-> "off"]
  /\ fds = [t \in Monitors \cup {Webmon} |-> [v \in Variables |-> NoFd]]
  /\ logFd = [f \in LogFiles |-> NoFd]
  /\ gone = [t \in Monitors |-> FALSE]
  /\ starts = [t \in Threads |-> 0]
  /\ ended = [t \in Monitors |-> "RUNNING"]
  /\ opened = 0
  /\ wrong = FALSE
  /\ up = TRUE

Goto(t, label) == pc' = [pc EXCEPT ![t] = label]

(* perror("open failed"); exit(-1) *)
OpenFails ==
  /\ Free = {}
  /\ up' = FALSE
  /\ UNCHANGED <<openBy, pc, fds, logFd, gone, starts, ended, opened, wrong>>

(* t opens a file and keeps the descriptor in v. *)
OpenIn(t, v) ==
  \E d \in Fds :
    /\ Lowest(d)
    /\ openBy' = [openBy EXCEPT ![d] = t]
    /\ fds' = [fds EXCEPT ![t][v] = d]

(* t closes the descriptors in ds, and they had better be its own. *)
Close(t, ds) ==
  /\ openBy' = [d \in Fds |-> IF d \in ds THEN Nobody ELSE openBy[d]]
  /\ wrong' = (wrong \/ \E d \in ds : d \in Fds /\ openBy[d] # t)

-----------------------------------------------------------------------------
(* add: the log file is opened unless a thread logs to it already. *)
Start(t) ==
  /\ pc[t] = "off"
  /\ starts[t] < STARTS
  /\ starts' = [starts EXCEPT ![t] = @ + 1]
  /\ Goto(t, IF t = System THEN "open" ELSE "first")
  /\ IF logFd[LogOf[t]] # NoFd THEN UNCHANGED <<openBy, logFd>>
     ELSE \E d \in Fds :
            /\ Lowest(d)
            /\ openBy' = [openBy EXCEPT ![d] = LogOf[t]]
            /\ logFd' = [logFd EXCEPT ![LogOf[t]] = d]
  /\ gone' = [m \in Monitors |-> IF m = t THEN FALSE ELSE gone[m]]
  /\ ended' = [m \in Monitors |-> IF m = t THEN "RUNNING" ELSE ended[m]]
  /\ fds' = [m \in DOMAIN fds |-> IF m = t THEN [v \in Variables |-> NoFd] ELSE fds[m]]
  /\ opened' = IF t = System THEN 0 ELSE opened
  /\ UNCHANGED <<wrong, up>>

StartFails(t) ==
  /\ pc[t] = "off"
  /\ starts[t] < STARTS
  /\ logFd[LogOf[t]] = NoFd
  /\ OpenFails

(* The last user of the log file closes it. *)
LeaveLog(t) ==
  LET f == LogOf[t]
  IN  IF \E u \in Threads \ {t} : pc[u] # "off" /\ LogOf[u] = f
      THEN UNCHANGED <<openBy, logFd, wrong>>
      ELSE Close(f, {logFd[f]}) /\ logFd' = [logFd EXCEPT ![f] = NoFd]

(* The cleanup of a monitor. *)
End(t, how) ==
  /\ LeaveLog(t)
  /\ ended' = [ended EXCEPT ![t] = how]
  /\ Goto(t, "off")

-----------------------------------------------------------------------------
(* A monitor's round.                                                       *)

ProcessEnds(t) ==
  /\ pc[t] # "off" /\ ~gone[t]
  /\ gone' = [gone EXCEPT ![t] = TRUE]
  /\ UNCHANGED <<openBy, pc, fds, logFd, starts, ended, opened, wrong, up>>

(* openProcessFiles: the two files in turn. *)
OpenStat(t) ==
  /\ pc[t] = "first" /\ ~gone[t]
  /\ OpenIn(t, "first")
  /\ Goto(t, "second")
  /\ UNCHANGED <<logFd, gone, starts, ended, opened, wrong, up>>

OpenStatm(t) ==
  /\ pc[t] = "second" /\ ~gone[t]
  /\ OpenIn(t, "second")
  /\ Goto(t, "use")
  /\ UNCHANGED <<logFd, gone, starts, ended, opened, wrong, up>>

(* Mutation of OpenProcessFails: the files are closed on this path too. *)
OpenProcessFailsCloses(t) ==
  /\ pc[t] \in {"first", "second"}
  /\ gone[t] \/ Free = {}
  /\ fds' = [fds EXCEPT ![t][pc[t]] = NoFd]
  /\ Close(t, {fds'[t][v] : v \in Variables})
  /\ ended' = [ended EXCEPT ![t] = "EXITED"]
  /\ Goto(t, "off")
  /\ UNCHANGED <<logFd, gone, starts, opened, up>>

(* Either open fails for want of the process or for want of a descriptor, and
   the monitor ends as if its process had.  A first file stays open. *)
OpenProcessFails(t) ==
  /\ pc[t] \in {"first", "second"}
  /\ gone[t] \/ Free = {}
  /\ fds' = [fds EXCEPT ![t][pc[t]] = NoFd]
  /\ End(t, "EXITED")
  /\ UNCHANGED <<gone, starts, opened, up>>

(* Mutation of CloseProcessFiles: it closes one of the two. *)
CloseProcessFilesOne(t) ==
  /\ pc[t] = "use"
  /\ Close(t, {fds[t]["first"]})
  /\ Goto(t, "check")
  /\ UNCHANGED <<fds, logFd, gone, starts, ended, opened, up>>

(* The process is logged, and the two are closed; the variables keep the
   numbers. *)
CloseProcessFiles(t) ==
  /\ pc[t] = "use"
  /\ Close(t, {fds[t][v] : v \in Variables})
  /\ Goto(t, "check")
  /\ UNCHANGED <<fds, logFd, gone, starts, ended, opened, up>>

(* Mutation of Stopped: the reason is taken to be the process's end. *)
StoppedAsExited(t) ==
  /\ pc[t] = "check"
  /\ End(t, "EXITED")
  /\ UNCHANGED <<fds, gone, starts, opened, up>>

(* Told to stop or not. *)
Stopped(t) ==
  /\ pc[t] = "check"
  /\ End(t, "STOPPED")
  /\ UNCHANGED <<fds, gone, starts, opened, up>>

NextRound(t) ==
  /\ pc[t] = "check"
  /\ Goto(t, "first")
  /\ UNCHANGED <<openBy, fds, logFd, gone, starts, ended, opened, wrong, up>>

Monitor(t) ==
  \/ ProcessEnds(t) \/ OpenStat(t) \/ OpenStatm(t) \/ OpenProcessFails(t)
  \/ CloseProcessFiles(t) \/ Stopped(t) \/ NextRound(t)

-----------------------------------------------------------------------------
(* The system thread: openSysFiles at its start; closeSysFiles is never called. *)
OpenSysFile ==
  /\ pc[System] = "open"
  /\ \E d \in Fds : Lowest(d) /\ openBy' = [openBy EXCEPT ![d] = System]
  /\ opened' = opened + 1
  /\ Goto(System, IF opened' = SYSTEM_FILES THEN "check" ELSE "open")
  /\ UNCHANGED <<fds, logFd, gone, starts, ended, wrong, up>>

OpenSysFileFails == pc[System] = "open" /\ OpenFails

SystemStopped ==
  /\ pc[System] = "check"
  /\ LeaveLog(System)
  /\ Goto(System, "off")
  /\ UNCHANGED <<fds, gone, starts, ended, opened, up>>

-----------------------------------------------------------------------------
(* webmon: the page is open while the load is read. *)
StartWebmon ==
  /\ pc[Webmon] = "off"
  /\ Goto(Webmon, "first")
  /\ UNCHANGED <<openBy, fds, logFd, gone, starts, ended, opened, wrong, up>>

OpenPage ==
  /\ pc[Webmon] = "first"
  /\ OpenIn(Webmon, "first")
  /\ Goto(Webmon, "second")
  /\ UNCHANGED <<logFd, gone, starts, ended, opened, wrong, up>>

OpenLoad ==
  /\ pc[Webmon] = "second"
  /\ OpenIn(Webmon, "second")
  /\ Goto(Webmon, "use")
  /\ UNCHANGED <<logFd, gone, starts, ended, opened, wrong, up>>

WebmonOpenFails == pc[Webmon] \in {"first", "second"} /\ OpenFails

CloseLoad ==
  /\ pc[Webmon] = "use"
  /\ Close(Webmon, {fds[Webmon]["second"]})
  /\ Goto(Webmon, "check")
  /\ UNCHANGED <<fds, logFd, gone, starts, ended, opened, up>>

ClosePage ==
  /\ pc[Webmon] = "check"
  /\ Close(Webmon, {fds[Webmon]["first"]})
  /\ Goto(Webmon, "first")
  /\ UNCHANGED <<fds, logFd, gone, starts, ended, opened, up>>

-----------------------------------------------------------------------------
Step ==
  \/ \E t \in Threads : Start(t) \/ StartFails(t)
  \/ \E t \in Monitors : Monitor(t)
  \/ OpenSysFile \/ OpenSysFileFails \/ SystemStopped
  \/ StartWebmon \/ OpenPage \/ OpenLoad \/ WebmonOpenFails \/ CloseLoad \/ ClosePage

Next == (up /\ Step /\ UNCHANGED limit) \/ (~up /\ UNCHANGED vars)

Spec == Init /\ [][Next]_vars

-----------------------------------------------------------------------------
(* How many descriptors t may have open: what it works with, and for each of
   its lives what it may have lost. *)
InUse(t) == CASE pc[t] = "second" -> 1 [] pc[t] = "use" -> 2 [] OTHER -> 0

Lost(t) == IF pc[t] = "off" THEN starts[t] ELSE starts[t] - 1

Has(o) == Cardinality({d \in Fds : openBy[d] = o})

(* A round closes what it opened; a monitor loses a descriptor once in its life
   at most, when its process vanishes between the two opens; the system thread
   loses its files each time; webmon loses none; and a log file has one while it
   is open (monitorThread.c:139-141, 344-355, systemThread.c:34). *)
Accounted ==
  /\ \A t \in Monitors : Has(t) <= InUse(t) + Lost(t)
  /\ starts[System] > 0 => Has(System) = SYSTEM_FILES * (starts[System] - 1) + opened
  /\ Has(Webmon) = IF pc[Webmon] = "check" THEN 1 ELSE InUse(Webmon)
  /\ \A f \in LogFiles : Has(f) = IF logFd[f] = NoFd THEN 0 ELSE 1

(* Nobody closes a descriptor of another: not with a number left in a variable
   by an earlier round, which may be a log file's by now
   (monitorThread.c:139-141). *)
ClosesItsOwn == ~wrong

(* What all of them need together, and lose. *)
Needed ==
  Cardinality(LogFiles) + Cardinality(Monitors) * (2 + STARTS)
    + SYSTEM_FILES * STARTS + 2

(* With as many descriptors, mond does not fail, and a monitor ends as EXITED
   only when its process has (monitorThread.c:117-125). *)
EnoughForAll ==
  limit >= Needed =>
    /\ up
    /\ \A t \in Monitors : ended[t] = "EXITED" => gone[t]
=============================================================================
