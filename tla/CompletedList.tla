----------------------------- MODULE CompletedList -----------------------------
(***************************************************************************)
(* The list of completed monitors, with its nodes: the threads that end    *)
(* insert their line, the command thread and webmon walk the list to show  *)
(* it, all under the list's mutex; exit, which waits for the threads but   *)
(* not for webmon, clears and frees it without.                            *)
(*                                                                         *)
(* Mond keeps the same list as a sequence and each of these functions as   *)
(* one step.                                                               *)
(***************************************************************************)
EXTENDS LinkedList

CONSTANTS
  Threads,   \* the threads that end; each inserts its own line
  Command,   \* the command thread
  Viewers    \* who shows the list: the command thread, and webmon if it runs

ASSUME UsersAssumption ==
  /\ Callers = Threads \cup Viewers /\ Command \in Viewers
  /\ Threads \cap Viewers = {} /\ Null \notin Callers
  /\ Items = Threads

VARIABLES
  mutex,   \* who holds the list's mutex, or Null
  at,      \* user -> where it is in its own code
  shown,   \* viewer -> the lines of the listing it is at
  page     \* viewer -> its last complete listing

vars == <<listVars, mutex, at, shown, page>>

Places == {"out", "in", "call", "done", "clearing", "gone", "kept"}

(* Where exit is once it clears the list: at it, or past DestroyLL, which has
   freed the list too, or kept it since its mutex was taken. *)
Closing == {"clearing", "gone", "kept"}

Open == at[Command] \notin Closing

Init ==
  /\ InitList
  /\ mutex = Null
  /\ at = [c \in Callers |-> "out"]
  /\ shown = [v \in Viewers |-> <<>>]
  /\ page = [v \in Viewers |-> <<>>]

MoveTo(c, place) == at' = [at EXCEPT ![c] = place]

(* Mutation of Lock: it does not wait for the mutex. *)
LockAtOnce(c) ==
  /\ at[c] = "out"
  /\ mutex' = c
  /\ MoveTo(c, "in")
  /\ UNCHANGED <<listVars, shown, page>>

Lock(c) ==
  /\ at[c] = "out"
  /\ at[Command] # "gone"
  /\ mutex = Null
  /\ mutex' = c
  /\ MoveTo(c, "in")
  /\ UNCHANGED <<listVars, shown, page>>

(* webmon looks for the mutex in a list that is no more: completedList is NULL. *)
LockNothing(v) ==
  /\ at[v] = "out"
  /\ at[Command] = "gone"
  /\ fault' = TRUE
  /\ UNCHANGED <<list, heap, call, mutex, at, shown, page>>

(* A thread that ends: insert, unlock. *)
Insert(t) ==
  /\ at[t] = "in"
  /\ InsertTail(t, t)
  /\ MoveTo(t, "call")
  /\ UNCHANGED <<mutex, shown, page>>

Inserted(t) ==
  /\ at[t] = "call" /\ Idle(t)
  /\ mutex' = Null
  /\ MoveTo(t, "done")
  /\ UNCHANGED <<listVars, shown, page>>

(* A listing: LLGet of each index below LLSize, and unlock. *)
GetLine(v) ==
  /\ at[v] = "in"
  /\ Len(shown[v]) < count
  /\ Get(v, Len(shown[v]))
  /\ MoveTo(v, "call")
  /\ UNCHANGED <<mutex, shown, page>>

(* The line is printed; a NULL line is followed. *)
PrintLine(v) ==
  /\ at[v] = "call" /\ Idle(v)
  /\ shown' = [shown EXCEPT ![v] = Append(@, call[v].ret)]
  /\ fault' = (fault \/ call[v].ret = Null)
  /\ MoveTo(v, "in")
  /\ UNCHANGED <<list, heap, call, mutex, page>>

Listed(v) ==
  /\ at[v] = "in"
  /\ Len(shown[v]) >= count
  /\ page' = [page EXCEPT ![v] = shown[v]]
  /\ shown' = [shown EXCEPT ![v] = <<>>]
  /\ mutex' = Null
  /\ MoveTo(v, "out")
  /\ UNCHANGED listVars

(* Mutation of ExitClears: it does not wait for the threads. *)
ExitClearsAtOnce ==
  /\ at[Command] = "out"
  /\ Clear(Command)
  /\ MoveTo(Command, "clearing")
  /\ UNCHANGED <<mutex, shown, page>>

(* exit: once all threads have ended (ExitWaits of MondProperties), LLClear frees
   the nodes, without the mutex. *)
ExitClears ==
  /\ at[Command] = "out"
  /\ \A t \in Threads : at[t] = "done"
  /\ Clear(Command)
  /\ MoveTo(Command, "clearing")
  /\ UNCHANGED <<mutex, shown, page>>

(* DestroyLL, with no node left: the mutex cannot be destroyed while it is taken,
   and the list is kept; otherwise it is freed and completedList NULL. *)
ExitDestroys ==
  /\ at[Command] = "clearing" /\ Idle(Command)
  /\ \/ mutex = Null /\ MoveTo(Command, "gone")
     \/ mutex # Null /\ MoveTo(Command, "kept")
  /\ UNCHANGED <<listVars, mutex, shown, page>>

(* A function of the list goes on. *)
CallStep(c) ==
  /\ InsertStep(c) \/ GetStep(c) \/ ClearStep(c)
  /\ UNCHANGED <<mutex, at, shown, page>>

(* exit has nothing left to do with the list. *)
Gone == at[Command] \in {"gone", "kept"} /\ UNCHANGED vars

Next ==
  \/ \E c \in Callers : Lock(c) \/ CallStep(c)
  \/ \E t \in Threads : Insert(t) \/ Inserted(t)
  \/ \E v \in Viewers : GetLine(v) \/ PrintLine(v) \/ Listed(v) \/ LockNothing(v)
  \/ ExitClears \/ ExitDestroys \/ Gone

Spec == Init /\ [][Next]_vars

-----------------------------------------------------------------------------
(* Until exit begins to clear the list, no thread follows a pointer to a freed node,
   a NULL line or a list that is gone, with any number of threads that insert under
   the listings of the command thread and of webmon (singlyLinkedList.c:84-110,
   commands.c:248, webmon.c:269).  From then on webmon, which exit does not wait
   for, does: so it is not claimed (mond.c:354-355). *)
NoFreedNode == fault => ~Open

(* exit frees every node there was, though webmon may still walk the list, and
   whether or not the list itself is freed (singlyLinkedList.c:30-74). *)
NothingLeaks == at[Command] \in {"gone", "kept"} => allocated = {}

(* The list is the record of the threads that ended: each line enters it once, and
   all stay, in the order of the insertions, until exit clears the list, which it
   does only when every thread has its line there; and a listing that ends before,
   however many LLGet it takes, shows the whole list of one moment
   (monitorThread.c:320, commands.c:247-248, webmon.c:268-269, mond.c:354). *)
History == INSTANCE CompletedRecords WITH records <- Contents, closed <- ~Open

ImplementsRecords == History!Spec
=============================================================================
