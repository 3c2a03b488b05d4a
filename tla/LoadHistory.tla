------------------------------ MODULE LoadHistory ------------------------------
(***************************************************************************)
(* webmon's load averages (updateLoadList, webmonHeader): in each round a  *)
(* sample is appended to a list that only webmon knows, the oldest one is  *)
(* dropped when there are enough, and the list is written to the page.     *)
(***************************************************************************)
EXTENDS LinkedList

CONSTANTS
  Webmon,             \* the webmon thread
  GRAPH_HISTORY_LEN   \* 10 in webmon.c

ASSUME HistoryAssumption ==
  /\ Callers = {Webmon}
  /\ GRAPH_HISTORY_LEN \in Nat \ {0}

VARIABLES
  at,      \* webmon's position in its round
  shown,   \* the samples of the page it writes
  page     \* the samples of the last page

vars == <<listVars, at, shown, page>>

Places == {"update", "removed", "inserting", "header", "get"}

Init ==
  /\ InitList
  /\ at = "update"
  /\ shown = <<>>
  /\ page = <<>>

(* Mutation of Room: the list never has any. *)
RoomNever == count < 0

(* Mutation of Room: one sample more is kept. *)
RoomForMore == count <= GRAPH_HISTORY_LEN + 1

(* updateLoadList: the list has room, *)
Room == count <= GRAPH_HISTORY_LEN

UpdateInsert(d) ==
  /\ at = "update"
  /\ Room
  /\ InsertTail(Webmon, d)
  /\ at' = "inserting"
  /\ UNCHANGED <<shown, page>>

(* or its oldest sample is taken out first.  LLRemoveHead hands over the sample,
   which is dropped without being freed. *)
UpdateRemove ==
  /\ at = "update"
  /\ ~Room
  /\ RemoveHead(Webmon)
  /\ at' = "removed"
  /\ UNCHANGED <<shown, page>>

UpdateReplace(d) ==
  /\ at = "removed"
  /\ InsertTail(Webmon, d)
  /\ at' = "inserting"
  /\ UNCHANGED <<shown, page>>

(* webmonHeader: a row of the graph for each index below LLSize. *)
HeaderStart ==
  /\ at = "inserting" /\ Idle(Webmon)
  /\ at' = "header"
  /\ UNCHANGED <<listVars, shown, page>>

HeaderGet ==
  /\ at = "header"
  /\ Len(shown) < count
  /\ Get(Webmon, Len(shown))
  /\ at' = "get"
  /\ UNCHANGED <<shown, page>>

HeaderRow ==
  /\ at = "get" /\ Idle(Webmon)
  /\ shown' = Append(shown, call[Webmon].ret)
  /\ at' = "header"
  /\ UNCHANGED <<listVars, page>>

HeaderEnd ==
  /\ at = "header"
  /\ Len(shown) >= count
  /\ page' = shown
  /\ shown' = <<>>
  /\ at' = "update"
  /\ UNCHANGED listVars

(* A function of the list goes on. *)
CallStep == (InsertStep(Webmon) \/ GetStep(Webmon)) /\ UNCHANGED <<at, shown, page>>

Next ==
  \/ \E d \in Items : UpdateInsert(d) \/ UpdateReplace(d)
  \/ UpdateRemove \/ HeaderStart \/ HeaderGet \/ HeaderRow \/ HeaderEnd
  \/ CallStep

Spec == Init /\ [][Next]_vars

-----------------------------------------------------------------------------
(* LLRemoveHead leaves tail alone (singlyLinkedList.c:126-133): the list would
   be broken by an insertion after its only node was removed, and webmon never
   removes that one. *)
NeverBroken == WellFormed /\ ~fault

(* The list never holds more than GRAPH_HISTORY_LEN + 1 nodes, and drops a sample
   only when it is that long.  The constant promises a history of one sample less:
   a sample is dropped when the list is longer, which is looked at before the new
   one is inserted (webmon.c:101), so that the graph shows 11 with a length of 10. *)
KeepsTheLast ==
  [][/\ count' <= GRAPH_HISTORY_LEN + 1
     /\ count' < count => count = GRAPH_HISTORY_LEN + 1]_vars

(* The samples are kept in order, only the oldest are dropped, and every page
   shows those kept, all of them, none twice (webmon.c:135-139). *)
Samples == INSTANCE Records WITH
  records <- Contents, page <- [v \in {Webmon} |-> page], Viewers <- {Webmon}

ImplementsRecords == Samples!Spec
=============================================================================
