------------------------------- MODULE LogQuery -------------------------------
(***************************************************************************)
(* queryFileByLoc (logLibrary.c): a reader asks for one item of a file, by *)
(* row and column, and cuts the row into items with strtok, which keeps    *)
(* its position in a variable of its own, the same for all threads.        *)
(*                                                                         *)
(* A monitor or system thread asks while it holds the mutex of its log     *)
(* file; webmon holds none.  Readers are the threads, LogOf says which     *)
(* mutex each of them holds.  The command thread asks for nothing, but     *)
(* cuts what is typed into words with the same strtok, and holds no mutex  *)
(* either (mond.c:117-339; what becomes of its words is in CommandLine).   *)
(***************************************************************************)
EXTENDS Integers, FiniteSets

CONSTANTS
  Readers,   \* the threads that ask
  LogFiles,  \* the log files, one mutex each
  NoFile,    \* the log file of a thread that holds no mutex when it asks
  LogOf,     \* reader -> its log file
  ROWS,      \* rows of the files they read
  COLUMNS,   \* items in each row
  Locations, \* the (row, column) pairs they ask for
  Command,   \* the command thread
  Nobody,    \* the holder of a free mutex
  Null       \* a NULL pointer

ASSUME ReadersAssumption ==
  /\ Nobody \notin Readers
  /\ Null \notin Readers \cup {Command}
  /\ Command \notin Readers
  /\ LogOf \in [Readers -> LogFiles \cup {NoFile}]
  /\ NoFile \notin LogFiles

ASSUME FilesAssumption ==
  /\ ROWS \in Nat /\ COLUMNS \in Nat \ {0}
  /\ Locations \subseteq Nat \X Nat

VARIABLES
  holder,    \* log file -> the thread that holds its mutex
  pc,        \* reader -> its next step
  asked,     \* reader -> the row and column it asks for
  curCol,    \* reader -> the items it has seen
  position,  \* strtok's hidden variable: the next item of somebody's line
  loaded,    \* reader -> the position it has loaded in a call of strtok
  token,     \* reader -> tokenPtr, the item strtok returned
  result,    \* reader -> what the query returned
  disturbed, \* the readers in whose query, since it began, a thread that holds
             \* another mutex, or none, has called strtok
  command,   \* the next step of the command thread
  held       \* the position it has loaded in a call of strtok

vars == <<holder, pc, asked, curCol, position, loaded, token, result, disturbed,
          command, held>>
prompt == <<command, held>>

-----------------------------------------------------------------------------
Threads == Readers \cup {Command}

(* Pointers into a line: the thread whose line it is, and the item.  A pointer
   into a line that was freed is Wild. *)
ItemAt(t, c) == [of |-> t, item |-> c]
NullPtr == ItemAt(Null, 0)
Wild    == ItemAt(Null, 1)

Pointers == [of : Threads, item : 0..COLUMNS] \cup {NullPtr, Wild}

(* What becomes of a pointer when the line of t is freed. *)
AfterFree(ptr, t) == IF ptr.of = t THEN Wild ELSE ptr

Labels == {"idle", "lock", "getline", "first", "load", "next", "copy", "return",
           "fault"}

Init ==
  /\ holder = [f \in LogFiles |-> Nobody]
  /\ pc = [t \in Readers |-> "idle"]
  /\ asked = [t \in Readers |-> <<0, 0>>]
  /\ curCol = [t \in Readers |-> 0]
  /\ position = NullPtr
  /\ loaded = [t \in Readers |-> NullPtr]
  /\ token = [t \in Readers |-> NullPtr]
  /\ result = [t \in Readers |-> NullPtr]
  /\ disturbed = {}
  /\ command = "prompt"
  /\ held = NullPtr

Goto(t, label) == pc' = [pc EXCEPT ![t] = label]

InQuery(u) == pc[u] \notin {"idle", "lock", "return"}

(* A query of u is in progress, and no mutex keeps it apart from t. *)
Disturbs(t, u) ==
  InQuery(u) /\ u # t /\ (LogOf[u] = NoFile \/ LogOf[u] # LogOf[t])

(* t calls strtok. *)
Strtok(t) == disturbed' = disturbed \cup {u \in Readers : Disturbs(t, u)}

(* free(linePtr), and the query returns r; its own locals are gone.  strtok was left
   at ptr. *)
FreeAndReturn(t, r, ptr) ==
  /\ position' = AfterFree(ptr, t)
  /\ held' = AfterFree(held, t)
  /\ loaded' = [u \in Readers |-> IF u = t THEN NullPtr ELSE AfterFree(loaded[u], t)]
  /\ token' = [u \in Readers |-> IF u = t THEN NullPtr ELSE AfterFree(token[u], t)]
  /\ curCol' = [curCol EXCEPT ![t] = 0]
  /\ result' = [result EXCEPT ![t] = r]
  /\ Goto(t, "return")

-----------------------------------------------------------------------------
(* Mutation of Lock: the file's mutex is not waited for. *)
LockAtOnce(t) ==
  /\ pc[t] = "idle"
  /\ holder' = [f \in LogFiles |-> IF f = LogOf[t] THEN t ELSE holder[f]]
  /\ Goto(t, "lock")
  /\ UNCHANGED <<asked, curCol, position, loaded, token, result, disturbed, prompt>>

(* The thread's round: "lock inner", queries, "unlock inner". *)
Lock(t) ==
  /\ pc[t] = "idle"
  /\ LogOf[t] # NoFile => holder[LogOf[t]] = Nobody
  /\ holder' = [f \in LogFiles |-> IF f = LogOf[t] THEN t ELSE holder[f]]
  /\ Goto(t, "lock")
  /\ UNCHANGED <<asked, curCol, position, loaded, token, result, disturbed, prompt>>

(* printQuery, several times a round. *)
Query(t) ==
  /\ pc[t] \in {"lock", "return"}
  /\ \E at \in Locations : asked' = [asked EXCEPT ![t] = at]
  /\ result' = [result EXCEPT ![t] = NullPtr]
  /\ disturbed' = disturbed \ {t}
  /\ Goto(t, "getline")
  /\ UNCHANGED <<holder, curCol, position, loaded, token, prompt>>

(* After its last query, whose result is written by then. *)
Unlock(t) ==
  /\ pc[t] = "return"
  /\ holder' = [f \in LogFiles |-> IF f = LogOf[t] THEN Nobody ELSE holder[f]]
  /\ asked' = [asked EXCEPT ![t] = <<0, 0>>]
  /\ result' = [result EXCEPT ![t] = NullPtr]
  /\ disturbed' = disturbed \ {t}
  /\ Goto(t, "idle")
  /\ UNCHANGED <<curCol, position, loaded, token, prompt>>

-----------------------------------------------------------------------------
(* The query. *)

(* getline, up to the row asked for; at the end of the file there is none. *)
GetLine(t) ==
  /\ pc[t] = "getline"
  /\ IF asked[t][1] < ROWS
     THEN Goto(t, "first") /\ UNCHANGED <<curCol, position, loaded, token, result, held>>
     ELSE FreeAndReturn(t, NullPtr, position)
  /\ UNCHANGED <<holder, asked, disturbed, command>>

(* Mutations of Seen: one item too many; the item is not counted. *)
SeenOneMore(t, item) ==
  /\ token' = [token EXCEPT ![t] = item]
  /\ curCol' = [curCol EXCEPT ![t] = @ + 1]
  /\ Goto(t, IF curCol[t] <= asked[t][2] THEN "load" ELSE "copy")

SeenUncounted(t, item) ==
  /\ token' = [token EXCEPT ![t] = item]
  /\ UNCHANGED curCol
  /\ Goto(t, IF curCol[t] < asked[t][2] THEN "load" ELSE "copy")

(* Once strtok has returned item: another call, or the copy of the item. *)
Seen(t, item) ==
  /\ token' = [token EXCEPT ![t] = item]
  /\ curCol' = [curCol EXCEPT ![t] = @ + 1]
  /\ Goto(t, IF curCol[t] < asked[t][2] THEN "load" ELSE "copy")

(* strtok(linePtr, " ") starts at the line and leaves the position behind its
   first item. *)
SplitFirst(t) ==
  /\ pc[t] = "first"
  /\ Seen(t, ItemAt(t, 0))
  /\ position' = ItemAt(t, 1)
  /\ Strtok(t)
  /\ UNCHANGED <<holder, asked, loaded, result, prompt>>

(* strtok(NULL, " ") loads the position; *)
LoadPosition(t) ==
  /\ pc[t] = "load"
  /\ loaded' = [loaded EXCEPT ![t] = position]
  /\ Goto(t, "next")
  /\ UNCHANGED <<holder, asked, curCol, position, token, result, disturbed, prompt>>

(* cuts the item off and stores the position behind it.  If another call has
   been made since the load, the item may have been cut off already, and the
   position is then left where the line seems to end; *)
SplitNext(t) ==
  /\ pc[t] = "next"
  /\ loaded[t].of \in Threads /\ loaded[t].item < COLUMNS
  /\ Seen(t, loaded[t])
  /\ \/ position' = ItemAt(loaded[t].of, loaded[t].item + 1)
     \/ position # loaded[t] /\ position' = ItemAt(loaded[t].of, COLUMNS)
  /\ Strtok(t)
  /\ UNCHANGED <<holder, asked, loaded, result, prompt>>

(* and finds none at the end of the line, where it stays and the query ends. *)
SplitEnd(t) ==
  /\ pc[t] = "next"
  /\ loaded[t].of \in Threads /\ loaded[t].item = COLUMNS
  /\ FreeAndReturn(t, NullPtr, loaded[t])
  /\ Strtok(t)
  /\ UNCHANGED <<holder, asked, command>>

(* In a line that was freed it finds bytes that look like an item, or none, or
   it is the end of the program. *)
SplitFreed(t) ==
  /\ pc[t] = "next"
  /\ loaded[t] = Wild
  /\ \/ Seen(t, Wild) /\ position' = Wild /\ UNCHANGED <<loaded, result, held>>
     \/ FreeAndReturn(t, NullPtr, Wild)
     \/ Goto(t, "fault") /\ UNCHANGED <<curCol, position, loaded, token, result, held>>
  /\ Strtok(t)
  /\ UNCHANGED <<holder, asked, command>>

(* The item is copied, and the line freed.  strlen of a freed item may be the
   end of the program. *)
CopyItem(t) ==
  /\ pc[t] = "copy"
  /\ \/ FreeAndReturn(t, token[t], position)
     \/ /\ token[t] = Wild
        /\ Goto(t, "fault")
        /\ UNCHANGED <<curCol, position, loaded, token, result, held>>
  /\ UNCHANGED <<holder, asked, disturbed, command>>

-----------------------------------------------------------------------------
(* The command thread.                                                      *)

(* Its call of strtok. *)
StrtokTyped == disturbed' = disturbed \cup {u \in Readers : InQuery(u)}

(* A line is typed, or the answer to a question; strtok(input, " ") starts at it.
   The line may have fewer words than fit it. *)
TypeLine ==
  /\ command = "prompt"
  /\ command' = "typed"
  /\ \E c \in 1..COLUMNS : position' = ItemAt(Command, c)
  /\ StrtokTyped
  /\ UNCHANGED <<holder, pc, asked, curCol, loaded, token, result, held>>

(* strtok(NULL, " "), as in a query: the word may be anybody's. *)
LoadTyped ==
  /\ command = "typed"
  /\ command' = "next" /\ held' = position
  /\ UNCHANGED <<holder, pc, asked, curCol, position, loaded, token, result, disturbed>>

SplitTyped ==
  /\ command = "next"
  /\ \/ /\ held.of \in Threads /\ held.item < COLUMNS
        /\ \/ position' = ItemAt(held.of, held.item + 1)
           \/ position # held /\ position' = ItemAt(held.of, COLUMNS)
        /\ command' = "typed"
     \/ /\ held.of \in Threads /\ held.item = COLUMNS
        /\ position' = held /\ command' = "typed"
     \/ /\ held = Wild
        /\ position' = Wild /\ command' \in {"typed", "fault"}
  /\ held' = NullPtr
  /\ StrtokTyped
  /\ UNCHANGED <<holder, pc, asked, curCol, loaded, token, result>>

(* The line is done with: free(input). *)
FreeTyped ==
  /\ command = "typed"
  /\ command' = "prompt"
  /\ position' = AfterFree(position, Command)
  /\ loaded' = [t \in Readers |-> AfterFree(loaded[t], Command)]
  /\ token' = [t \in Readers |-> AfterFree(token[t], Command)]
  /\ UNCHANGED <<holder, pc, asked, curCol, result, disturbed, held>>

CommandStep == TypeLine \/ LoadTyped \/ SplitTyped \/ FreeTyped

Step(t) ==
  \/ Lock(t) \/ Query(t) \/ Unlock(t)
  \/ GetLine(t) \/ SplitFirst(t) \/ LoadPosition(t)
  \/ SplitNext(t) \/ SplitEnd(t) \/ SplitFreed(t) \/ CopyItem(t)

Faulted == command = "fault" \/ \E t \in Readers : pc[t] = "fault"

Next ==
  \/ ~Faulted /\ \E t \in Readers : Step(t)
  \/ ~Faulted /\ CommandStep
  \/ Faulted /\ UNCHANGED vars

Spec == Init /\ [][Next]_vars

(* The kernel schedules every thread, and a mutex that is released again and
   again is had in the end.  Nobody needs to type anything. *)
FairSpec == Spec /\ \A t \in Readers : SF_vars(~Faulted /\ Step(t))

-----------------------------------------------------------------------------
(* Every variable keeps its type, and no query looks at more items than the
   column it was asked for (logLibrary.c:55). *)
TypeOK ==
  /\ holder \in [LogFiles -> Readers \cup {Nobody}]
  /\ pc \in [Readers -> Labels]
  /\ asked \in [Readers -> Nat \X Nat]
  /\ curCol \in [Readers -> Nat]
  /\ position \in Pointers
  /\ loaded \in [Readers -> Pointers]
  /\ token \in [Readers -> Pointers]
  /\ result \in [Readers -> Pointers]
  /\ disturbed \subseteq Readers
  /\ command \in {"prompt", "typed", "next", "fault"}
  /\ held \in Pointers
  /\ \A t \in Readers : pc[t] \in {"load", "next"} => curCol[t] <= asked[t][2]

(* What the caller of queryFileByLoc is to get. *)
ItemAsked(t) ==
  IF asked[t][1] < ROWS /\ asked[t][2] < COLUMNS THEN ItemAt(t, asked[t][2])
  ELSE NullPtr

(* A query returns the item of its own file at the row and column asked for,
   counted from 0, or NULL where the file has none (logLibrary.c:17), and runs
   into no freed memory, unless a thread that logs to another file, webmon or the
   command thread (mond.c:117) calls strtok meanwhile.  Threads that log to one
   file never disturb each other: its mutex keeps them apart
   (monitorThread.c:111-131). *)
RightItem ==
  \A t \in Readers \ disturbed :
    /\ pc[t] = "return" => result[t] = ItemAsked(t)
    /\ pc[t] # "fault"

(* The same of every query, whoever else calls strtok (logLibrary.c:17). *)
EachItemIsRight ==
  \A t \in Readers : pc[t] = "return" => result[t] = ItemAsked(t)

(* However the positions of two threads are mixed up, and whatever is typed
   meanwhile, each query ends: an item of another's line counts as one of its own
   (logLibrary.c:55-65). *)
QueryEnds ==
  \A t \in Readers : pc[t] = "getline" ~> (pc[t] = "return" \/ Faulted)
=============================================================================
