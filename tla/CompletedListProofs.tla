-------------------------- MODULE CompletedListProofs --------------------------
(***************************************************************************)
(* The list of completed monitors under its mutex: until exit clears it no *)
(* freed node is read, and its nodes are a record of the threads that      *)
(* ended, each once, shown whole, for any number of threads and viewers.   *)
(* Without webmon exit's clean-up frees every node and reads none that is  *)
(* freed.                                                                  *)
(***************************************************************************)
EXTENDS CompletedList, LinkedListProofs

(* webmon, which exit does not wait for, does not run, *)
CommandAlone == Viewers = {Command}

(* or exit has not come to the list. *)
Sheltered == CommandAlone \/ Open

TypeOK ==
  /\ ListTypeOK
  /\ mutex \in Callers \cup {Null}
  /\ shown \in [Viewers -> Seq(Items)]
  /\ page \in [Viewers -> Seq(Items)]

(* Who is where: in the list with the mutex, or in exit's clean-up. *)
PlacesOK ==
  /\ \A t \in Threads : at[t] \in {"out", "in", "call", "done"}
  /\ \A v \in Viewers : at[v] \in {"out", "in", "call"} \/ v = Command
  /\ at[Command] \notin {"done", "kept"}
  /\ at[Command] \in {"clearing", "gone"} => \A t \in Threads : at[t] = "done"
  /\ \A c \in Callers : at[c] \in {"in", "call"} <=> mutex = c

(* Which function of the list each is in. *)
CallsOK ==
  /\ \A c \in Callers : at[c] \notin {"call", "clearing"} => Idle(c)
  /\ \A t \in Threads : call[t].pc \in {"idle", "linkTail", "setHead", "setTail", "count"}
  /\ \A v \in Viewers : at[v] = "call" => call[v].pc \in {"idle", "walk"}
  /\ at[Command] = "clearing" => call[Command].pc \in {"idle", "clear"}

(* The list is in the stage of who is in it, or whole, and empty in the end. *)
ListOK ==
  /\ ~fault
  /\ \A c \in Callers : at[c] \in {"call", "clearing"} => Stage(c, Chain)
  /\ (\A c \in Callers : at[c] \notin {"call", "clearing"}) => Whole(Chain)
  /\ at[Command] = "clearing" /\ Idle(Command) => Chain = <<>>
  /\ at[Command] = "gone" => Chain = <<>>

(* A listing has the first of the lines, and is on its way to the next. *)
ListingOK ==
  \A v \in Viewers :
    /\ Shows(shown[v], Contents)
    /\ at[v] \notin {"in", "call"} => shown[v] = <<>>
    /\ at[v] = "call" =>
         /\ Len(shown[v]) < Len(Contents)
         /\ call[v].pc = "walk" => call[v].idx = Len(shown[v])
         /\ Idle(v) => call[v].ret = Contents[Len(shown[v]) + 1]

(* The threads whose line is in the list. *)
Told == {Contents[k] : k \in 1..Len(Contents)}

(* A thread's line is in the list once the thread's new node joined it, and not
   before. *)
Once(t) ==
  /\ at[t] \in {"out", "in"} => t \notin Told
  /\ at[t] = "call" /\ Joining(t) => t \notin Told /\ node[call[t].cur].data = t
  /\ at[t] = "call" /\ ~Joining(t) => t \in Told
  /\ at[t] = "done" => t \in Told

EachOnce == \A t \in Threads : Once(t)

InvWhenSheltered == TypeOK /\ PlacesOK /\ CallsOK /\ ListOK /\ ListingOK /\ (Open => EachOnce)

Inv ==
  /\ at \in [Callers -> Places]
  /\ Sheltered => InvWhenSheltered

(* What a step does to the lines and the pages before exit. *)
SameRecords == Contents' = Contents /\ page' = page

RecordStep ==
  \/ SameRecords
  \/ \E d \in Items : d \notin Told /\ Contents' = Append(Contents, d) /\ page' = page
  \/ \E v \in Viewers : Contents' = Contents /\ page' = [page EXCEPT ![v] = Contents]

Moves(c, place) ==
  /\ at' \in [Callers -> Places]
  /\ at'[c] = place
  /\ \A d \in Callers \ {c} : at'[d] = at[d]

-----------------------------------------------------------------------------
(* Who there is. *)
LEMMA UsersApart ==
  /\ Command \in Viewers /\ Threads \subseteq Callers /\ Viewers \subseteq Callers
  /\ \A c \in Callers : c \in Threads \/ c \in Viewers
  /\ \A t \in Threads : t \notin Viewers
  /\ Null \notin Callers /\ Items = Threads
BY UsersAssumption

(* One user's place is set. *)
LEMMA PlaceMoved ==
  ASSUME at \in [Callers -> Places], NEW c \in Callers, NEW p \in Places, MoveTo(c, p)
  PROVE  Moves(c, p)
BY DEF MoveTo, Moves

(* One user at a time is in the list. *)
LEMMA OneInTheList ==
  ASSUME Inv, Sheltered,
         NEW c \in Callers, at[c] \in {"in", "call", "clearing"},
         NEW d \in Callers, d # c
  PROVE  at[d] \notin {"in", "call", "clearing"}
<1>1. PlacesOK
  BY DEF Inv, InvWhenSheltered
<1>2. CASE at[c] \in {"in", "call"}
  <2>1. at[d] \notin {"in", "call"}
    BY <1>1, <1>2 DEF PlacesOK
  <2>2. ASSUME at[d] = "clearing" PROVE FALSE
    <3>1. d = Command
      BY <1>1, <2>2, UsersApart DEF PlacesOK
    <3>2. CommandAlone
      BY <2>2, <3>1 DEF Sheltered, Open, Closing
    <3>3. c \in Threads
      BY <3>1, <3>2, UsersApart DEF CommandAlone
    <3> QED
      BY <1>1, <1>2, <2>2, <3>1, <3>3 DEF PlacesOK
  <2> QED
    BY <2>1, <2>2
<1>3. CASE at[c] = "clearing"
  <2>1. c = Command
    BY <1>1, <1>3, UsersApart DEF PlacesOK
  <2>2. CommandAlone
    BY <1>3, <2>1 DEF Sheltered, Open, Closing
  <2>3. d \in Threads
    BY <2>1, <2>2, UsersApart DEF CommandAlone
  <2> QED
    BY <1>1, <1>3, <2>1, <2>3 DEF PlacesOK
<1> QED
  BY <1>2, <1>3

(* Who has the mutex finds the list whole. *)
LEMMA InsideIsWhole ==
  ASSUME Inv, Sheltered, NEW c \in Callers, at[c] = "in"
  PROVE  Whole(Chain) /\ Stage(c, Chain) /\ Idle(c)
<1>1. \A d \in Callers : at[d] \notin {"call", "clearing"}
  BY OneInTheList
<1>2. Whole(Chain)
  BY <1>1 DEF Inv, InvWhenSheltered, ListOK
<1>3. Idle(c)
  BY <1>1 DEF Inv, InvWhenSheltered, CallsOK
<1> QED
  BY <1>2, <1>3 DEF Stage, Idle

(* The list is as long as it counts, and its lines are items. *)
LEMMA WholeLines ==
  ASSUME ListTypeOK, NEW c \in Callers, NEW s, s = Chain, Stage(c, s), Whole(s)
  PROVE  /\ count = Len(Contents) /\ count = Len(s) /\ Contents = Lines(s)
         /\ Contents \in Seq(Items)
BY ChainIsNow DEF Whole

(* There is always a sequence of lines. *)
LEMMA LinesThere ==
  ASSUME Inv, Sheltered
  PROVE  Contents \in Seq(Items)
<1>1. PICK s : s = Chain
  OBVIOUS
<1>2. CASE \E c \in Callers : at[c] \in {"call", "clearing"}
  <2>1. PICK c \in Callers : at[c] \in {"call", "clearing"}
    BY <1>2
  <2>2. Stage(c, s) /\ ListTypeOK
    BY <1>1, <2>1 DEF Inv, InvWhenSheltered, ListOK, TypeOK
  <2> QED
    BY <2>2, ChainIsNow
<1>3. CASE \A c \in Callers : at[c] \notin {"call", "clearing"}
  <2>1. Whole(s) /\ ListTypeOK
    BY <1>1, <1>3 DEF Inv, InvWhenSheltered, ListOK, TypeOK
  <2>2. Command \in Callers
    BY UsersApart
  <2>3. Idle(Command)
    BY <1>3, <2>2 DEF Inv, InvWhenSheltered, CallsOK
  <2>4. Stage(Command, s)
    BY <2>1, <2>3 DEF Stage, Idle
  <2> QED
    BY <2>1, <2>2, <2>4, ChainIsNow
<1> QED
  BY <1>2, <1>3

(* A step outside the list leaves all of it alone. *)
LEMMA ListAlone ==
  ASSUME UNCHANGED <<list, heap, call>>
  PROVE  /\ Chain' = Chain /\ Contents' = Contents
         /\ \A c \in Callers : Stage(c, Chain) => Stage(c, Chain)'
         /\ Whole(Chain) => Whole(Chain)'
         /\ ListTypeOK /\ fault' \in BOOLEAN => ListTypeOK'
         /\ UNCHANGED <<count, call>>
<1>1. UNCHANGED <<head, tail, count, node, allocated, call>>
  BY DEF list, heap
<1>2. Chain' = Chain
  BY <1>1 DEF Chain
<1> HIDE DEF Chain
<1>3. Contents' = Contents
  BY <1>1, <1>2 DEF Contents
<1>4. \A c \in Callers : Stage(c, Chain) => Stage(c, Chain)'
  BY <1>1, <1>2 DEF Stage, Whole, Fresh, Joined, Freeing, Reached, LastOf, NodesOf
<1>5. Whole(Chain) => Whole(Chain)'
  BY <1>1, <1>2 DEF Whole, Reached, LastOf, NodesOf
<1>6. ListTypeOK /\ fault' \in BOOLEAN => ListTypeOK'
  BY <1>1 DEF ListTypeOK
<1> QED
  BY <1>1, <1>2, <1>3, <1>4, <1>5, <1>6

(* The list after a step of c, with nobody else in it. *)
LEMMA ListKept ==
  ASSUME ListTypeOK', NEW c \in Callers, NEW t, Stage(c, t)', ~fault',
         \A d \in Callers \ {c} : at'[d] \notin {"call", "clearing"},
         at'[c] \notin {"call", "clearing"} => call'[c].pc = "idle",
         at'[Command] = "clearing" /\ call'[Command].pc = "idle" => t = <<>>,
         at'[Command] = "gone" => t = <<>>
  PROVE  ListOK'
<1>1. Chain' = t /\ Stage(c, Chain)'
  BY ChainIsNext
<1>2. \A d \in Callers : at'[d] \in {"call", "clearing"} => Stage(d, Chain)'
  BY <1>1
<1>3. call'[c].pc = "idle" => Whole(Chain)'
  BY <1>1 DEF Stage
<1> QED
  BY <1>1, <1>2, <1>3 DEF ListOK, Idle

(* Nobody is in a listing. *)
LEMMA NoListing ==
  ASSUME Contents' \in Seq(Items), UNCHANGED shown, ListingOK,
         \A v \in Viewers : at[v] \notin {"in", "call"} /\ at'[v] \notin {"in", "call"}
  PROVE  ListingOK'
<1>1. \A v \in Viewers : shown'[v] = <<>>
  BY DEF ListingOK
<1>2. Shows(<<>>, Contents')
  BY ShowsNone
<1>3. \A v \in Viewers : Shows(shown'[v], Contents')
  BY <1>1, <1>2
<1>4. \A v \in Viewers : Shows(shown[v], Contents)'
  BY <1>3 DEF Shows
<1> QED
  BY <1>1, <1>4 DEF ListingOK

-----------------------------------------------------------------------------
(* Each line once.                                                          *)

(* A step of a viewer changes no line. *)
LEMMA KeptOnce ==
  ASSUME EachOnce, Contents' = Contents, UNCHANGED <<node, count>>,
         \A t \in Threads : at'[t] = at[t] /\ call'[t] = call[t]
  PROVE  EachOnce'
BY DEF EachOnce, Once, Told, Joining

(* A step of a thread concerns its own line, when nobody else inserts. *)
LEMMA OneMoves ==
  ASSUME EachOnce, NEW u \in Threads, Once(u)',
         Told \subseteq Told', Told' \subseteq Told \cup {u},
         \A t \in Threads \ {u} : at'[t] = at[t] /\ at[t] # "call"
  PROVE  EachOnce'
<1>1. ASSUME NEW t \in Threads \ {u}
      PROVE  Once(t)'
  <2>1. Once(t) /\ at'[t] = at[t] /\ at[t] # "call"
    BY DEF EachOnce
  <2>2. t \in Told' <=> t \in Told
    OBVIOUS
  <2> HIDE DEF Told
  <2> QED
    BY <2>1, <2>2 DEF Once
<1> QED
  BY <1>1 DEF EachOnce

(* One more line is told. *)
LEMMA ToldMore ==
  ASSUME NEW d \in Items, Contents \in Seq(Items), Contents' = Append(Contents, d)
  PROVE  Told' = Told \cup {d}
<1>1. PICK a : a = Contents
  OBVIOUS
<1>2. PICK b : b = Contents'
  OBVIOUS
<1>3. /\ Len(a) \in Nat /\ Len(b) = Len(a) + 1 /\ b[Len(a) + 1] = d
      /\ \A k \in 1..Len(a) : b[k] = a[k]
  BY <1>1, <1>2, AppendProperties, LenProperties
<1>4. 1..(Len(a) + 1) = (1..Len(a)) \cup {Len(a) + 1}
  BY <1>3
<1>5. {b[k] : k \in 1..Len(b)} = {a[k] : k \in 1..Len(a)} \cup {d}
  BY <1>3, <1>4
<1> QED
  BY <1>1, <1>2, <1>5 DEF Told

-----------------------------------------------------------------------------
(* The steps.                                                               *)

(* The mutex is free: nobody is in the list. *)
LEMMA LockStep ==
  ASSUME Inv, Sheltered, NEW c \in Callers, Lock(c)
  PROVE  InvWhenSheltered' /\ RecordStep
<1>1. /\ at[c] = "out" /\ mutex = Null /\ mutex' = c
      /\ UNCHANGED <<listVars, shown, page>>
  BY DEF Lock
<1>2. Moves(c, "in")
  BY PlaceMoved DEF Lock, Inv, Places
<1>3. TypeOK /\ PlacesOK /\ CallsOK /\ ListOK /\ ListingOK
  BY DEF Inv, InvWhenSheltered
<1>4. UNCHANGED <<list, heap, call, fault>>
  BY <1>1 DEF listVars
<1>5. /\ Chain' = Chain /\ Contents' = Contents
      /\ \A d \in Callers : Stage(d, Chain) => Stage(d, Chain)'
      /\ Whole(Chain) => Whole(Chain)'
      /\ ListTypeOK' /\ UNCHANGED <<count, call>>
  BY <1>3, <1>4, ListAlone DEF TypeOK, ListTypeOK
<1>6. \A d \in Callers : at[d] \notin {"in", "call"}
  BY <1>1, <1>3, UsersApart DEF PlacesOK
<1>7. at[Command] \notin {"clearing", "gone"} \/ c \notin Threads \cup {Command}
  BY <1>1, <1>3 DEF PlacesOK
<1>8. at[Command] \notin {"clearing", "gone"}
  BY <1>7, UsersApart DEF Sheltered, CommandAlone, Open, Closing
<1>9. \A d \in Callers : at[d] \notin {"call", "clearing"}
  BY <1>3, <1>6, <1>8, UsersApart DEF PlacesOK
<1>10. \A d \in Callers : at'[d] \notin {"call", "clearing"}
  BY <1>2, <1>9 DEF Moves
<1>11. at'[Command] \notin {"clearing", "gone"}
  BY <1>2, <1>8, UsersApart DEF Moves
<1>12. TypeOK'
  BY <1>1, <1>3, <1>5 DEF TypeOK
<1>13. PlacesOK'
  <2>1. \A d \in Callers : at'[d] \in {"in", "call"} <=> mutex' = d
    BY <1>1, <1>2, <1>6 DEF Moves
  <2>2. \A t \in Threads : at'[t] \in {"out", "in", "call", "done"}
    BY <1>2, <1>3, UsersApart DEF Moves, PlacesOK
  <2>3. \A v \in Viewers : at'[v] \in {"out", "in", "call"} \/ v = Command
    BY <1>2, <1>3, UsersApart DEF Moves, PlacesOK
  <2>4. at'[Command] \notin {"done", "kept"}
    BY <1>2, <1>3, UsersApart DEF Moves, PlacesOK
  <2> QED
    BY <1>11, <2>1, <2>2, <2>3, <2>4 DEF PlacesOK
<1>14. CallsOK'
  BY <1>3, <1>5, <1>9, <1>10, <1>11, UsersApart DEF CallsOK, Idle
<1>15. ListOK'
  BY <1>3, <1>4, <1>5, <1>9, <1>10, <1>11 DEF ListOK
<1>16. ListingOK'
  <2>1. \A v \in Viewers : at'[v] # "call" /\ shown'[v] = shown[v]
    BY <1>1, <1>10, UsersApart
  <2>2. \A v \in Viewers : at'[v] # "in" => at[v] \notin {"in", "call"}
    BY <1>6, UsersApart
  <2> QED
    BY <1>3, <1>5, <2>1, <2>2 DEF ListingOK, Shows
<1>17. EachOnce'
  <2>1. EachOnce
    BY <1>3, <1>8 DEF Inv, InvWhenSheltered, Open, Closing, PlacesOK
  <2>2. UNCHANGED <<node, count>>
    BY <1>4 DEF list, heap
  <2>3. CASE c \in Threads
    <3>1. c \notin Told
      BY <1>1, <2>1, <2>3 DEF EachOnce, Once
    <3>2. Told' = Told
      BY <1>5 DEF Told
    <3>3. Once(c)'
      BY <1>2, <3>1, <3>2 DEF Moves, Once
    <3>4. \A t \in Threads \ {c} : at'[t] = at[t] /\ at[t] # "call"
      BY <1>2, <1>9, UsersApart DEF Moves
    <3> QED
      BY <2>1, <2>3, <3>2, <3>3, <3>4, OneMoves
  <2>4. CASE c \notin Threads
    <3>1. \A t \in Threads : at'[t] = at[t] /\ call'[t] = call[t]
      BY <1>2, <1>4, <2>4, UsersApart DEF Moves
    <3> QED
      BY <1>5, <2>1, <2>2, <3>1, KeptOnce
  <2> QED
    BY <2>3, <2>4
<1> QED
  BY <1>1, <1>5, <1>12, <1>13, <1>14, <1>15, <1>16, <1>17 DEF InvWhenSheltered, RecordStep, SameRecords

(* A thread's own line. *)
LEMMA InsertFirstStep ==
  ASSUME Inv, Sheltered, NEW u \in Threads, Insert(u)
  PROVE  InvWhenSheltered' /\ RecordStep
<1>1. PICK s : s = Chain
  OBVIOUS
<1>2. /\ at[u] = "in" /\ InsertTail(u, u) /\ u \in Callers /\ u \in Items
      /\ UNCHANGED <<mutex, shown, page>>
  BY UsersApart DEF Insert
<1>3. Moves(u, "call")
  BY <1>2, PlaceMoved DEF Insert, Inv, Places
<1>4. TypeOK /\ PlacesOK /\ CallsOK /\ ListOK /\ ListingOK
  BY DEF Inv, InvWhenSheltered
<1>5. Stage(u, s) /\ Idle(u) /\ ListTypeOK
  BY <1>1, <1>2, <1>4, InsideIsWhole DEF TypeOK
<1>6. PICK k \in CallLocals : Becomes(u, k) /\ k.pc = "linkTail" /\ node'[k.cur].data = u
  BY <1>2, <1>5, InsertBegins
<1>7. ListTypeOK' /\ Stage(u, s)' /\ fault' = fault /\ Lines(s)' = Lines(s)
  BY <1>2, <1>5, InsertBegins
<1>8. Contents = Lines(s)
  BY <1>2, <1>5, ChainIsNow
<1>9. Contents' = Lines(s)' /\ Contents' \in Seq(Items)
  BY <1>2, <1>7, ChainIsNext
<1>10. \A d \in Callers \ {u} : at'[d] = at[d] /\ at[d] \notin {"in", "call", "clearing"}
                               /\ call'[d] = call[d]
  BY <1>2, <1>3, <1>6, OneInTheList DEF Moves, Becomes
<1>11. at[Command] \notin {"clearing", "gone"} /\ at'[Command] = at[Command] /\ u # Command
  BY <1>2, <1>4, <1>10, UsersApart DEF PlacesOK
<1>12. TypeOK'
  BY <1>2, <1>4, <1>7 DEF TypeOK
<1>13. PlacesOK'
  <2>1. \A d \in Callers : at'[d] \in {"in", "call"} <=> mutex' = d
    BY <1>2, <1>3, <1>4, <1>10 DEF Moves, PlacesOK
  <2>2. \A t \in Threads : at'[t] \in {"out", "in", "call", "done"}
    BY <1>3, <1>4, UsersApart DEF Moves, PlacesOK
  <2>3. \A v \in Viewers : at'[v] \in {"out", "in", "call"} \/ v = Command
    BY <1>3, <1>4, UsersApart DEF Moves, PlacesOK
  <2> QED
    BY <1>4, <1>11, <2>1, <2>2, <2>3 DEF PlacesOK
<1>14. CallsOK'
  <2>1. \A v \in Viewers : v # u
    BY UsersApart
  <2>2. call'[u].pc = "linkTail" /\ at'[u] = "call"
    BY <1>3, <1>6 DEF Becomes, Moves
  <2> QED
    BY <1>4, <1>10, <1>11, <2>1, <2>2, UsersApart DEF CallsOK, Idle
<1>15. ListOK'
  <2>1. ~fault'
    BY <1>4, <1>7 DEF ListOK
  <2>2. at'[u] = "call"
    BY <1>3 DEF Moves
  <2> QED
    BY <1>2, <1>7, <1>10, <1>11, <2>1, <2>2, ListKept
<1>16. ListingOK'
  <2>1. \A v \in Viewers : at[v] \notin {"in", "call"} /\ at'[v] \notin {"in", "call"}
    BY <1>10, UsersApart
  <2> QED
    BY <1>2, <1>4, <1>9, <2>1, NoListing
<1>17. EachOnce'
  <2>1. EachOnce
    BY <1>4, <1>11 DEF Inv, InvWhenSheltered, Open, Closing, PlacesOK
  <2>2. Told' = Told
    BY <1>7, <1>8, <1>9 DEF Told
  <2>3. u \notin Told
    BY <1>2, <2>1 DEF EachOnce, Once
  <2>4. /\ at'[u] = "call" /\ call'[u].pc = "linkTail"
        /\ node'[call'[u].cur].data = u
    BY <1>3, <1>6 DEF Moves, Becomes
  <2>5. Once(u)'
    BY <2>2, <2>3, <2>4 DEF Once, Joining
  <2>6. \A t \in Threads \ {u} : at'[t] = at[t] /\ at[t] # "call"
    BY <1>10, UsersApart
  <2> QED
    BY <2>1, <2>2, <2>5, <2>6, OneMoves
<1> QED
  BY <1>2, <1>7, <1>8, <1>9, <1>12, <1>13, <1>14, <1>15, <1>16, <1>17 DEF InvWhenSheltered, RecordStep, SameRecords

(* It leaves the list whole. *)
LEMMA InsertedStep ==
  ASSUME Inv, Sheltered, NEW u \in Threads, Inserted(u)
  PROVE  InvWhenSheltered' /\ RecordStep
<1>1. PICK s : s = Chain
  OBVIOUS
<1>2. /\ at[u] = "call" /\ Idle(u) /\ mutex' = Null /\ u \in Callers
      /\ UNCHANGED <<listVars, shown, page>>
  BY UsersApart DEF Inserted
<1>3. Moves(u, "done")
  BY <1>2, PlaceMoved DEF Inserted, Inv, Places
<1>4. TypeOK /\ PlacesOK /\ CallsOK /\ ListOK /\ ListingOK
  BY DEF Inv, InvWhenSheltered
<1>5. UNCHANGED <<list, heap, call, fault>>
  BY <1>2 DEF listVars
<1>6. /\ Chain' = Chain /\ Contents' = Contents
      /\ \A d \in Callers : Stage(d, Chain) => Stage(d, Chain)'
      /\ Whole(Chain) => Whole(Chain)'
      /\ ListTypeOK' /\ UNCHANGED <<count, call>>
  BY <1>4, <1>5, ListAlone DEF TypeOK, ListTypeOK
<1>7. Whole(Chain)
  BY <1>2, <1>4 DEF ListOK, Stage, Idle
<1>8. \A d \in Callers \ {u} : at'[d] = at[d] /\ at[d] \notin {"in", "call", "clearing"}
  BY <1>2, <1>3, OneInTheList DEF Moves
<1>9. at[Command] \notin {"clearing", "gone"} /\ at'[Command] = at[Command] /\ u # Command
  BY <1>2, <1>4, <1>8, UsersApart DEF PlacesOK
<1>10. TypeOK'
  BY <1>2, <1>4, <1>6 DEF TypeOK
<1>11. PlacesOK'
  <2>1. \A d \in Callers : at'[d] \in {"in", "call"} <=> mutex' = d
    BY <1>2, <1>3, <1>8, UsersApart DEF Moves
  <2>2. \A t \in Threads : at'[t] \in {"out", "in", "call", "done"}
    BY <1>3, <1>4, UsersApart DEF Moves, PlacesOK
  <2>3. \A v \in Viewers : at'[v] \in {"out", "in", "call"} \/ v = Command
    BY <1>3, <1>4, UsersApart DEF Moves, PlacesOK
  <2> QED
    BY <1>4, <1>9, <2>1, <2>2, <2>3 DEF PlacesOK
<1>12. CallsOK'
  BY <1>2, <1>4, <1>6, <1>8, <1>9, UsersApart DEF CallsOK, Idle
<1>13. ListOK'
  <2>1. \A d \in Callers : at'[d] \notin {"call", "clearing"}
    BY <1>3, <1>8 DEF Moves
  <2> QED
    BY <1>4, <1>5, <1>6, <1>7, <1>9, <2>1, UsersApart DEF ListOK
<1>14. ListingOK'
  <2>1. \A v \in Viewers : at'[v] = at[v] /\ shown'[v] = shown[v]
    BY <1>2, <1>8, UsersApart
  <2> QED
    BY <1>4, <1>6, <2>1 DEF ListingOK, Shows, Idle
<1>15. EachOnce'
  <2>1. EachOnce
    BY <1>4, <1>9 DEF Inv, InvWhenSheltered, Open, Closing, PlacesOK
  <2>2. Told' = Told
    BY <1>6 DEF Told
  <2>3. ~Joining(u)
    BY <1>2 DEF Joining, Idle
  <2>4. u \in Told
    BY <1>2, <2>1, <2>3 DEF EachOnce, Once
  <2>5. Once(u)'
    BY <1>3, <2>2, <2>4 DEF Once, Moves
  <2>6. \A t \in Threads \ {u} : at'[t] = at[t] /\ at[t] # "call"
    BY <1>8, UsersApart
  <2> QED
    BY <2>1, <2>2, <2>5, <2>6, OneMoves
<1> QED
  BY <1>2, <1>6, <1>10, <1>11, <1>12, <1>13, <1>14, <1>15 DEF InvWhenSheltered, RecordStep, SameRecords

(* A viewer asks for its next line: there is one. *)
LEMMA GetLineStep ==
  ASSUME Inv, Sheltered, NEW u \in Viewers, GetLine(u)
  PROVE  InvWhenSheltered' /\ RecordStep
<1>1. PICK s : s = Chain
  OBVIOUS
<1>2. PICK x : x = Len(shown[u])
  OBVIOUS
<1>3. /\ at[u] = "in" /\ x < count /\ Get(u, x) /\ u \in Callers
      /\ UNCHANGED <<mutex, shown, page>>
  BY <1>2, UsersApart DEF GetLine
<1>4. Moves(u, "call")
  BY <1>3, PlaceMoved DEF GetLine, Inv, Places
<1>5. TypeOK /\ PlacesOK /\ CallsOK /\ ListOK /\ ListingOK
  BY DEF Inv, InvWhenSheltered
<1>6. Stage(u, s) /\ Whole(s) /\ Idle(u) /\ ListTypeOK
  BY <1>1, <1>3, <1>5, InsideIsWhole DEF TypeOK
<1>7. /\ count = Len(Contents) /\ count = Len(s) /\ Contents = Lines(s)
      /\ Contents \in Seq(Items)
  BY <1>1, <1>3, <1>6, WholeLines
<1>8. x \in Nat /\ x < Len(s)
  <2>1. shown[u] \in Seq(Items)
    BY <1>5 DEF TypeOK
  <2>2. Len(shown[u]) \in Nat
    BY <2>1, LenProperties
  <2> QED
    BY <1>2, <1>3, <1>7, <2>2
<1>9. PICK k :
        /\ Stage(u, s)' /\ Becomes(u, k) /\ k.pc = "walk" /\ k.idx = x
        /\ ListTypeOK' /\ fault' = fault
        /\ Lines(s)' = Lines(s)
  BY <1>3, <1>6, <1>8, GetBegins
<1>10. Contents' = Lines(s)'
  BY <1>3, <1>9, ChainIsNext
<1>11. Contents' = Contents
  BY <1>7, <1>9, <1>10
<1>12. \A d \in Callers \ {u} : at'[d] = at[d] /\ at[d] \notin {"in", "call", "clearing"}
                               /\ call'[d] = call[d]
  BY <1>3, <1>4, <1>9, OneInTheList DEF Moves, Becomes
<1>13. at[Command] \notin {"clearing", "gone"}
       /\ at'[Command] \notin {"clearing", "gone", "done", "kept"}
  <2>1. CASE u = Command
    BY <1>3, <1>4, <2>1 DEF Moves
  <2>2. CASE u # Command
    <3>1. at[Command] # "clearing" /\ at'[Command] = at[Command]
      BY <1>12, <2>2, UsersApart
    <3>2. at[Command] # "gone"
      BY <2>2 DEF Sheltered, CommandAlone, Open, Closing
    <3> QED
      BY <1>5, <3>1, <3>2 DEF PlacesOK
  <2> QED
    BY <2>1, <2>2
<1>14. TypeOK'
  BY <1>3, <1>5, <1>9 DEF TypeOK
<1>15. PlacesOK'
  <2>1. \A d \in Callers : at'[d] \in {"in", "call"} <=> mutex' = d
    BY <1>3, <1>4, <1>5, <1>12 DEF Moves, PlacesOK
  <2>2. \A t \in Threads : at'[t] \in {"out", "in", "call", "done"}
    BY <1>4, <1>5, UsersApart DEF Moves, PlacesOK
  <2>3. \A v \in Viewers : at'[v] \in {"out", "in", "call"} \/ v = Command
    BY <1>4, <1>5, UsersApart DEF Moves, PlacesOK
  <2> QED
    BY <1>13, <2>1, <2>2, <2>3 DEF PlacesOK
<1>16. CallsOK'
  <2>1. call'[u].pc = "walk" /\ at'[u] = "call" /\ \A t \in Threads : t # u
    BY <1>4, <1>9, UsersApart DEF Becomes, Moves
  <2> QED
    BY <1>5, <1>12, <1>13, <2>1, UsersApart DEF CallsOK, Idle
<1>17. ListOK'
  <2>1. ~fault'
    BY <1>5, <1>9 DEF ListOK
  <2>2. at'[u] = "call"
    BY <1>4 DEF Moves
  <2> QED
    BY <1>3, <1>9, <1>12, <1>13, <2>1, <2>2, ListKept
<1>18. ListingOK'
  <2>1. call'[u].pc = "walk" /\ call'[u].idx = x
    BY <1>9 DEF Becomes
  <2>2. \A v \in Viewers : shown'[v] = shown[v] /\ Shows(shown'[v], Contents')
    BY <1>3, <1>5, <1>11 DEF ListingOK
  <2>3. \A v \in Viewers \ {u} : at'[v] \notin {"in", "call"} /\ shown'[v] = <<>>
    BY <1>5, <1>12, <2>2, UsersApart DEF ListingOK
  <2>4. at'[u] = "call" /\ Len(shown'[u]) = x /\ x < Len(Contents')
    BY <1>2, <1>3, <1>4, <1>7, <1>11 DEF Moves
  <2> QED
    BY <2>1, <2>2, <2>3, <2>4 DEF ListingOK, Shows, Idle
<1>19. EachOnce'
  <2>1. EachOnce
    BY <1>5, <1>13 DEF Inv, InvWhenSheltered, Open, Closing, PlacesOK
  <2>2. UNCHANGED <<node, count>>
    BY <1>3 DEF Get, list, heap
  <2>3. \A t \in Threads : at'[t] = at[t] /\ call'[t] = call[t]
    BY <1>12, UsersApart
  <2> QED
    BY <1>11, <2>1, <2>2, <2>3, KeptOnce
<1> QED
  BY <1>3, <1>11, <1>14, <1>15, <1>16, <1>17, <1>18, <1>19 DEF InvWhenSheltered, RecordStep, SameRecords

(* It prints the line. *)
LEMMA PrintLineStep ==
  ASSUME Inv, Sheltered, NEW u \in Viewers, PrintLine(u)
  PROVE  InvWhenSheltered' /\ RecordStep
<1>1. PICK s : s = Chain
  OBVIOUS
<1>2. /\ at[u] = "call" /\ Idle(u) /\ u \in Callers
      /\ shown' = [shown EXCEPT ![u] = Append(shown[u], call[u].ret)]
      /\ fault' = (fault \/ call[u].ret = Null)
      /\ UNCHANGED <<list, heap, call, mutex, page>>
  BY UsersApart DEF PrintLine
<1>3. Moves(u, "in")
  BY <1>2, PlaceMoved DEF PrintLine, Inv, Places
<1>4. TypeOK /\ PlacesOK /\ CallsOK /\ ListOK /\ ListingOK
  BY DEF Inv, InvWhenSheltered
<1>5. Contents \in Seq(Items)
  BY LinesThere
<1>6. /\ Shows(shown[u], Contents) /\ Len(shown[u]) < Len(Contents)
      /\ call[u].ret = Contents[Len(shown[u]) + 1]
  BY <1>2, <1>4 DEF ListingOK
<1>7. call[u].ret \in Items
  <2>1. Len(shown[u]) \in Nat /\ Len(Contents) \in Nat
    BY <1>5, <1>6, LenProperties DEF Shows
  <2>2. Len(shown[u]) + 1 \in 1..Len(Contents)
    BY <1>6, <2>1
  <2> QED
    BY <1>5, <1>6, <2>2, ElementOfSeq
<1>8. fault' = fault
  BY <1>2, <1>4, <1>7, NullAssumption DEF TypeOK, ListTypeOK
<1>9. /\ Chain' = Chain /\ Contents' = Contents
      /\ \A d \in Callers : Stage(d, Chain) => Stage(d, Chain)'
      /\ Whole(Chain) => Whole(Chain)'
      /\ ListTypeOK' /\ UNCHANGED <<count, call>>
  BY <1>2, <1>4, <1>8, ListAlone DEF TypeOK, ListTypeOK
<1>10. Whole(Chain)
  BY <1>2, <1>4 DEF ListOK, Stage, Idle
<1>11. \A d \in Callers \ {u} : at'[d] = at[d] /\ at[d] \notin {"in", "call", "clearing"}
  BY <1>2, <1>3, OneInTheList DEF Moves
<1>12. at[Command] \notin {"clearing", "gone"}
       /\ at'[Command] \notin {"clearing", "gone", "done", "kept"}
  <2>1. CASE u = Command
    BY <1>2, <1>3, <2>1 DEF Moves
  <2>2. CASE u # Command
    <3>1. at[Command] # "clearing" /\ at'[Command] = at[Command]
      BY <1>11, <2>2, UsersApart
    <3>2. at[Command] # "gone"
      BY <2>2 DEF Sheltered, CommandAlone, Open, Closing
    <3> QED
      BY <1>4, <3>1, <3>2 DEF PlacesOK
  <2> QED
    BY <2>1, <2>2
<1>13. Shows(shown'[u], Contents)
  <2>1. shown'[u] = Append(shown[u], Contents[Len(shown[u]) + 1])
    BY <1>2, <1>4, <1>6 DEF TypeOK
  <2> QED
    BY <1>5, <1>6, <2>1, ShowsNext
<1>14. TypeOK'
  <2>1. Append(shown[u], call[u].ret) \in Seq(Items)
    BY <1>4, <1>7, AppendProperties DEF TypeOK
  <2>2. shown' \in [Viewers -> Seq(Items)]
    BY <1>2, <1>4, <2>1 DEF TypeOK
  <2> QED
    BY <1>2, <1>4, <1>9, <2>2 DEF TypeOK
<1>15. PlacesOK'
  <2>1. \A d \in Callers : at'[d] \in {"in", "call"} <=> mutex' = d
    BY <1>2, <1>3, <1>4, <1>11 DEF Moves, PlacesOK
  <2>2. \A t \in Threads : at'[t] \in {"out", "in", "call", "done"}
    BY <1>3, <1>4, UsersApart DEF Moves, PlacesOK
  <2>3. \A v \in Viewers : at'[v] \in {"out", "in", "call"} \/ v = Command
    BY <1>3, <1>4, UsersApart DEF Moves, PlacesOK
  <2> QED
    BY <1>12, <2>1, <2>2, <2>3 DEF PlacesOK
<1>16. CallsOK'
  <2>1. \A d \in Callers \ {u} : at'[d] \notin {"call", "clearing"}
    BY <1>11
  <2>2. at'[u] = "in" /\ Idle(u)'
    BY <1>2, <1>3, <1>9 DEF Moves, Idle
  <2> QED
    BY <1>4, <1>9, <1>11, <1>12, <2>1, <2>2, UsersApart DEF CallsOK, Idle
<1>17. ListOK'
  <2>1. \A d \in Callers : at'[d] \notin {"call", "clearing"}
    BY <1>3, <1>11 DEF Moves
  <2> QED
    BY <1>4, <1>8, <1>9, <1>10, <1>12, <2>1, UsersApart DEF ListOK
<1>18. ListingOK'
  <2>1. \A v \in Viewers \ {u} : shown'[v] = shown[v] /\ at'[v] = at[v] /\ at[v] # "call"
    BY <1>2, <1>4, <1>11, UsersApart DEF TypeOK
  <2>2. at'[u] = "in"
    BY <1>3 DEF Moves
  <2> QED
    BY <1>4, <1>9, <1>13, <2>1, <2>2 DEF ListingOK, Shows
<1>19. EachOnce'
  <2>1. EachOnce
    BY <1>4, <1>12 DEF Inv, InvWhenSheltered, Open, Closing, PlacesOK
  <2>2. UNCHANGED <<node, count>>
    BY <1>2 DEF list, heap
  <2>3. \A t \in Threads : at'[t] = at[t] /\ call'[t] = call[t]
    BY <1>2, <1>11, UsersApart
  <2> QED
    BY <1>9, <2>1, <2>2, <2>3, KeptOnce
<1> QED
  BY <1>2, <1>9, <1>14, <1>15, <1>16, <1>17, <1>18, <1>19 DEF InvWhenSheltered, RecordStep, SameRecords

(* A listing is complete when it ends. *)
LEMMA ListedStep ==
  ASSUME Inv, Sheltered, NEW u \in Viewers, Listed(u)
  PROVE  InvWhenSheltered' /\ RecordStep
<1>1. PICK s : s = Chain
  OBVIOUS
<1>2. /\ at[u] = "in" /\ Len(shown[u]) >= count /\ u \in Callers
      /\ page' = [page EXCEPT ![u] = shown[u]]
      /\ shown' = [shown EXCEPT ![u] = <<>>]
      /\ mutex' = Null
      /\ UNCHANGED listVars
  BY UsersApart DEF Listed
<1>3. Moves(u, "out")
  BY <1>2, PlaceMoved DEF Listed, Inv, Places
<1>4. TypeOK /\ PlacesOK /\ CallsOK /\ ListOK /\ ListingOK
  BY DEF Inv, InvWhenSheltered
<1>5. Stage(u, s) /\ Whole(s) /\ Idle(u) /\ ListTypeOK
  BY <1>1, <1>2, <1>4, InsideIsWhole DEF TypeOK
<1>6. count = Len(Contents) /\ Contents \in Seq(Items)
  BY <1>1, <1>2, <1>5, WholeLines
<1>7. UNCHANGED <<list, heap, call, fault>>
  BY <1>2 DEF listVars
<1>8. /\ Chain' = Chain /\ Contents' = Contents
      /\ \A d \in Callers : Stage(d, Chain) => Stage(d, Chain)'
      /\ Whole(Chain) => Whole(Chain)'
      /\ ListTypeOK' /\ UNCHANGED <<count, call>>
  BY <1>5, <1>7, ListAlone DEF ListTypeOK
<1>9. shown[u] = Contents
  BY <1>2, <1>4, <1>6, ShowsAll DEF ListingOK
<1>10. \A d \in Callers \ {u} : at'[d] = at[d] /\ at[d] \notin {"in", "call", "clearing"}
  BY <1>2, <1>3, OneInTheList DEF Moves
<1>11. at[Command] \notin {"clearing", "gone"}
       /\ at'[Command] \notin {"clearing", "gone", "done", "kept"}
  <2>1. CASE u = Command
    BY <1>2, <1>3, <2>1 DEF Moves
  <2>2. CASE u # Command
    <3>1. at[Command] # "clearing" /\ at'[Command] = at[Command]
      BY <1>10, <2>2, UsersApart
    <3>2. at[Command] # "gone"
      BY <2>2 DEF Sheltered, CommandAlone, Open, Closing
    <3> QED
      BY <1>4, <3>1, <3>2 DEF PlacesOK
  <2> QED
    BY <2>1, <2>2
<1>12. TypeOK'
  <2>1. <<>> \in Seq(Items)
    BY EmptySeq
  <2>2. shown' \in [Viewers -> Seq(Items)] /\ page' \in [Viewers -> Seq(Items)]
    BY <1>2, <1>4, <2>1 DEF TypeOK
  <2> QED
    BY <1>2, <1>4, <1>8, <2>2 DEF TypeOK
<1>13. PlacesOK'
  <2>1. \A d \in Callers : at'[d] \in {"in", "call"} <=> mutex' = d
    BY <1>2, <1>3, <1>10, UsersApart DEF Moves
  <2>2. \A t \in Threads : at'[t] \in {"out", "in", "call", "done"}
    BY <1>3, <1>4, UsersApart DEF Moves, PlacesOK
  <2>3. \A v \in Viewers : at'[v] \in {"out", "in", "call"} \/ v = Command
    BY <1>3, <1>4, UsersApart DEF Moves, PlacesOK
  <2> QED
    BY <1>11, <2>1, <2>2, <2>3 DEF PlacesOK
<1>14. \A d \in Callers : at'[d] \notin {"in", "call", "clearing"}
  BY <1>3, <1>10 DEF Moves
<1>15. CallsOK'
  BY <1>4, <1>5, <1>8, <1>10, <1>11, <1>14, UsersApart DEF CallsOK, Idle
<1>16. ListOK'
  BY <1>1, <1>4, <1>5, <1>7, <1>8, <1>11, <1>14, UsersApart DEF ListOK
<1>17. ListingOK'
  <2>1. \A v \in Viewers : shown'[v] = <<>>
    BY <1>2, <1>4, <1>10, UsersApart DEF ListingOK, TypeOK
  <2>2. Shows(<<>>, Contents)
    BY <1>6, ShowsNone
  <2> QED
    BY <1>8, <1>14, <2>1, <2>2, UsersApart DEF ListingOK, Shows
<1>18. Contents' = Contents /\ page' = [page EXCEPT ![u] = Contents]
  BY <1>2, <1>8, <1>9
<1>19. EachOnce'
  <2>1. EachOnce
    BY <1>4, <1>11 DEF Inv, InvWhenSheltered, Open, Closing, PlacesOK
  <2>2. UNCHANGED <<node, count>>
    BY <1>7 DEF list, heap
  <2>3. \A t \in Threads : at'[t] = at[t] /\ call'[t] = call[t]
    BY <1>8, <1>10, UsersApart
  <2> QED
    BY <1>8, <2>1, <2>2, <2>3, KeptOnce
<1> QED
  BY <1>12, <1>13, <1>15, <1>16, <1>17, <1>18, <1>19 DEF InvWhenSheltered, RecordStep, SameRecords

(* exit: nobody is in the list when it is cleared. *)
LEMMA ExitClearsStep ==
  ASSUME Inv, Sheltered, Sheltered', ExitClears
  PROVE  InvWhenSheltered'
<1>1. PICK s : s = Chain
  OBVIOUS
<1>2. /\ at[Command] = "out" /\ Clear(Command) /\ Command \in Callers
      /\ \A t \in Threads : at[t] = "done"
      /\ UNCHANGED <<mutex, shown, page>>
  BY UsersApart DEF ExitClears
<1>3. Moves(Command, "clearing")
  BY <1>2, PlaceMoved DEF ExitClears, Inv, Places
<1>4. TypeOK /\ PlacesOK /\ CallsOK /\ ListOK /\ ListingOK
  BY DEF Inv, InvWhenSheltered
<1>5. CommandAlone
  BY <1>3 DEF Moves, Sheltered, Open, Closing
<1>6. \A d \in Callers : at[d] \in {"out", "done"} /\ (d # Command => d \in Threads)
  BY <1>2, <1>5, UsersApart DEF CommandAlone
<1>7. Stage(Command, s) /\ Whole(s) /\ ListTypeOK
  <2>1. \A d \in Callers : at[d] \notin {"call", "clearing"}
    BY <1>6
  <2>2. Whole(s)
    BY <1>1, <1>4, <2>1 DEF ListOK
  <2>3. Idle(Command)
    BY <1>2, <1>4, <2>1 DEF CallsOK
  <2> QED
    BY <1>4, <2>2, <2>3 DEF Stage, Idle, TypeOK
<1>8. PICK k :
        /\ Stage(Command, s)' /\ Becomes(Command, k) /\ k.pc = "clear"
        /\ ListTypeOK' /\ fault' = fault
        /\ Lines(s)' = Lines(s)
  BY <1>2, <1>7, ClearBegins
<1>9. Contents = Lines(s)
  BY <1>2, <1>7, ChainIsNow
<1>10. Contents' = Lines(s)' /\ Contents' \in Seq(Items)
  BY <1>2, <1>8, ChainIsNext
<1>11. \A d \in Callers \ {Command} : at'[d] = at[d] /\ call'[d] = call[d]
  BY <1>3, <1>8 DEF Moves, Becomes
<1>12. call'[Command].pc = "clear" /\ at'[Command] = "clearing"
  BY <1>3, <1>8 DEF Becomes, Moves
<1>13. TypeOK'
  BY <1>2, <1>4, <1>8 DEF TypeOK
<1>14. PlacesOK'
  <2>1. \A d \in Callers : at'[d] \in {"in", "call"} <=> mutex' = d
    BY <1>2, <1>4, <1>6, <1>11, <1>12 DEF PlacesOK
  <2>2. \A t \in Threads : at'[t] = "done"
    BY <1>2, <1>11, UsersApart
  <2>3. \A v \in Viewers : v = Command
    BY <1>5 DEF CommandAlone
  <2> QED
    BY <1>12, <2>1, <2>2, <2>3 DEF PlacesOK
<1>15. CallsOK'
  BY <1>4, <1>5, <1>6, <1>11, <1>12, UsersApart DEF CallsOK, Idle, CommandAlone
<1>16. ListOK'
  <2>1. ~fault'
    BY <1>4, <1>8 DEF ListOK
  <2>2. \A d \in Callers \ {Command} : at'[d] \notin {"call", "clearing"}
    BY <1>6, <1>11
  <2> QED
    BY <1>2, <1>8, <1>12, <2>1, <2>2, ListKept
<1>17. ListingOK'
  <2>1. \A v \in Viewers : at[v] \notin {"in", "call"} /\ at'[v] \notin {"in", "call"}
    BY <1>5, <1>6, <1>12, UsersApart DEF CommandAlone
  <2> QED
    BY <1>2, <1>4, <1>10, <2>1, NoListing
<1>18. ~Open'
  BY <1>12 DEF Open, Closing
<1> QED
  BY <1>13, <1>14, <1>15, <1>16, <1>17, <1>18 DEF InvWhenSheltered

(* exit ends with an empty list. *)
LEMMA ExitDestroysStep ==
  ASSUME Inv, Sheltered, ExitDestroys
  PROVE  InvWhenSheltered'
<1>1. /\ at[Command] = "clearing" /\ Idle(Command) /\ Command \in Callers
      /\ UNCHANGED <<listVars, mutex, shown, page>>
      /\ mutex # Null \/ MoveTo(Command, "gone")
  BY UsersApart DEF ExitDestroys
<1>2. TypeOK /\ PlacesOK /\ CallsOK /\ ListOK /\ ListingOK
  BY DEF Inv, InvWhenSheltered
<1>3. CommandAlone
  BY <1>1 DEF Sheltered, Open, Closing
<1>4. Moves(Command, "gone")
  <2>1. \A c \in Callers : at[c] \notin {"in", "call"}
    BY <1>1, <1>2, <1>3, UsersApart DEF PlacesOK, CommandAlone
  <2>2. mutex = Null
    BY <1>2, <2>1 DEF PlacesOK, TypeOK
  <2> QED
    BY <1>1, <2>2, PlaceMoved DEF Inv, Places
<1>5. UNCHANGED <<list, heap, call, fault>>
  BY <1>1 DEF listVars
<1>6. /\ Chain' = Chain /\ Contents' = Contents
      /\ Whole(Chain) => Whole(Chain)'
      /\ ListTypeOK' /\ UNCHANGED <<count, call>>
  BY <1>2, <1>5, ListAlone DEF TypeOK, ListTypeOK
<1>7. Whole(Chain) /\ Chain = <<>>
  BY <1>1, <1>2 DEF ListOK, Stage, Idle
<1>8. \A d \in Callers \ {Command} : at'[d] = "done" /\ at[d] = "done" /\ d \in Threads
  BY <1>1, <1>4, <1>2, <1>3, UsersApart DEF Moves, PlacesOK, CommandAlone
<1>9. at'[Command] = "gone"
  BY <1>4 DEF Moves
<1>10. TypeOK'
  BY <1>1, <1>2, <1>6 DEF TypeOK
<1>11. PlacesOK'
  <2>1. \A d \in Callers : at'[d] \in {"in", "call"} <=> mutex' = d
    BY <1>1, <1>2, <1>8, <1>9 DEF PlacesOK
  <2>2. \A t \in Threads : at'[t] = "done"
    BY <1>8, UsersApart
  <2>3. \A v \in Viewers : v = Command
    BY <1>3 DEF CommandAlone
  <2> QED
    BY <1>9, <2>1, <2>2, <2>3 DEF PlacesOK
<1>12. CallsOK'
  BY <1>1, <1>2, <1>3, <1>6, <1>8, <1>9, UsersApart DEF CallsOK, Idle, CommandAlone
<1>13. ListOK'
  BY <1>2, <1>5, <1>6, <1>7, <1>8, <1>9 DEF ListOK
<1>14. ListingOK'
  <2>1. Contents' \in Seq(Items)
    BY <1>6, LinesThere
  <2>2. \A v \in Viewers : at[v] \notin {"in", "call"} /\ at'[v] \notin {"in", "call"}
    BY <1>1, <1>3, <1>9 DEF CommandAlone
  <2> QED
    BY <1>1, <1>2, <2>1, <2>2, NoListing
<1>15. ~Open'
  BY <1>9 DEF Open, Closing
<1> QED
  BY <1>10, <1>11, <1>12, <1>13, <1>14, <1>15 DEF InvWhenSheltered

(* Who is inside a function of the list is in the list. *)
LEMMA InsideCall ==
  ASSUME Inv, Sheltered, NEW c \in Callers, ~Idle(c)
  PROVE  /\ at[c] \in {"call", "clearing"} /\ Stage(c, Chain)
         /\ \A d \in Callers \ {c} : at[d] \notin {"in", "call", "clearing"}
<1>1. at[c] \in {"call", "clearing"}
  BY DEF Inv, InvWhenSheltered, CallsOK
<1>2. Stage(c, Chain)
  BY <1>1 DEF Inv, InvWhenSheltered, ListOK
<1> QED
  BY <1>1, <1>2, OneInTheList

(* Only a thread inserts. *)
LEMMA InsertingStep ==
  ASSUME Inv, Sheltered, NEW u \in Callers, InsertStep(u), UNCHANGED <<mutex, at, shown, page>>
  PROVE  InvWhenSheltered' /\ RecordStep
<1>1. PICK s : s = Chain
  OBVIOUS
<1>2. TypeOK /\ PlacesOK /\ CallsOK /\ ListOK /\ ListingOK
  BY DEF Inv, InvWhenSheltered
<1>3. call[u].pc \in {"linkTail", "setHead", "setTail", "count"}
  BY DEF InsertStep, LinkTail, SetHead, SetTail, CountUp
<1>4. ~Idle(u)
  BY <1>3 DEF Idle
<1>5. at[u] \in {"call", "clearing"} /\ Stage(u, s) /\ ListTypeOK
      /\ \A d \in Callers \ {u} : at[d] \notin {"in", "call", "clearing"}
  BY <1>1, <1>2, <1>4, InsideCall DEF TypeOK
<1>6. u \in Threads /\ u # Command /\ at[u] = "call"
  BY <1>2, <1>3, <1>5, UsersApart DEF PlacesOK, CallsOK
<1>7. at[Command] \notin {"clearing", "gone"}
  BY <1>2, <1>6 DEF PlacesOK
<1>8. PICK t, k :
        /\ Stage(u, t)' /\ ListTypeOK' /\ fault' = fault
        /\ Becomes(u, k)
        /\ \/ k.pc \in {"setHead", "setTail", "count"} /\ count' = count
           \/ k.pc = "idle" /\ call[u].pc = "count" /\ count' = count + 1
        /\ JoinsOnce(u, s, t)
  BY <1>5, InsertSteps
<1>9. Contents = Lines(s)
  BY <1>5, ChainIsNow
<1>10. Contents' = Lines(t)' /\ Contents' \in Seq(Items)
  BY <1>8, ChainIsNext
<1>11. call'[u].pc \in {"idle", "setHead", "setTail", "count"}
       /\ \A d \in Callers \ {u} : call'[d] = call[d]
  BY <1>8 DEF Becomes
<1>12. TypeOK'
  BY <1>2, <1>8 DEF TypeOK
<1>13. PlacesOK'
  BY <1>2 DEF PlacesOK
<1>14. CallsOK'
  BY <1>2, <1>5, <1>6, <1>7, <1>11, UsersApart DEF CallsOK, Idle
<1>15. ListOK'
  <2>1. ~fault'
    BY <1>2, <1>8 DEF ListOK
  <2> QED
    BY <1>5, <1>6, <1>7, <1>8, <2>1, ListKept
<1>16. ListingOK'
  <2>1. \A v \in Viewers : at[v] \notin {"in", "call"} /\ at'[v] \notin {"in", "call"}
    BY <1>5, <1>6, UsersApart
  <2> QED
    BY <1>2, <1>10, <2>1, NoListing
<1>17. EachOnce
  BY <1>2, <1>7 DEF Inv, InvWhenSheltered, Open, Closing, PlacesOK
<1>18. \A v \in Threads \ {u} : at'[v] = at[v] /\ at[v] # "call"
  BY <1>5, UsersApart
<1>19. CASE /\ Contents' = Contents
            /\ Joining(u)' <=> Joining(u)
            /\ Joining(u) => /\ call'[u].cur = call[u].cur
                             /\ node'[call[u].cur].data = node[call[u].cur].data
  <2>1. Told' = Told
    BY <1>19 DEF Told
  <2>2. Once(u)
    BY <1>6, <1>17 DEF EachOnce
  <2>3. Once(u)'
    <3>1. at[u] = "call" /\ at'[u] = "call"
      BY <1>6
    <3>2. CASE Joining(u)
      <4>1. u \notin Told /\ node[call[u].cur].data = u
        BY <2>2, <3>1, <3>2 DEF Once
      <4>2. u \notin Told' /\ node'[call'[u].cur].data = u /\ Joining(u)'
        BY <1>19, <2>1, <3>2, <4>1
      <4> QED
        BY <3>1, <4>2 DEF Once
    <3>3. CASE ~Joining(u)
      <4>1. u \in Told
        BY <2>2, <3>1, <3>3 DEF Once
      <4>2. u \in Told' /\ ~Joining(u)'
        BY <1>19, <2>1, <3>3, <4>1
      <4> QED
        BY <3>1, <4>2 DEF Once
    <3> QED
      BY <3>2, <3>3
  <2>4. EachOnce'
    BY <1>6, <1>17, <1>18, <2>1, <2>3, OneMoves
  <2> QED
    BY <1>12, <1>13, <1>14, <1>15, <1>16, <1>19, <2>4 DEF InvWhenSheltered, RecordStep, SameRecords
<1>20. CASE /\ Joining(u) /\ ~Joining(u)'
            /\ Contents' = Append(Contents, node[call[u].cur].data)
  <2>1. u \notin Told /\ node[call[u].cur].data = u
    BY <1>6, <1>17, <1>20 DEF EachOnce, Once
  <2>2. u \in Items /\ Contents' = Append(Contents, u)
    BY <1>6, <1>20, <2>1, UsersApart
  <2>3. Told' = Told \cup {u}
    BY <2>2, LinesThere, ToldMore
  <2>4. Once(u)'
    BY <1>6, <1>20, <2>3 DEF Once
  <2>5. EachOnce'
    BY <1>6, <1>17, <1>18, <2>3, <2>4, OneMoves
  <2> QED
    BY <1>12, <1>13, <1>14, <1>15, <1>16, <2>1, <2>2, <2>5 DEF InvWhenSheltered, RecordStep
<1>21. JoinsOnce(u, s, t)
  BY <1>8
<1> QED
  BY <1>9, <1>10, <1>19, <1>20, <1>21 DEF JoinsOnce

(* Only a viewer gets a line. *)
LEMMA GettingStep ==
  ASSUME Inv, Sheltered, NEW u \in Callers, GetStep(u), UNCHANGED <<mutex, at, shown, page>>
  PROVE  InvWhenSheltered' /\ RecordStep
<1>1. PICK s : s = Chain
  OBVIOUS
<1>2. TypeOK /\ PlacesOK /\ CallsOK /\ ListOK /\ ListingOK
  BY DEF Inv, InvWhenSheltered
<1>3. call[u].pc = "walk"
  BY DEF GetStep, Walk, WalkEnd
<1>4. ~Idle(u)
  BY <1>3 DEF Idle
<1>5. at[u] \in {"call", "clearing"} /\ Stage(u, s) /\ ListTypeOK
      /\ \A d \in Callers \ {u} : at[d] \notin {"in", "call", "clearing"}
  BY <1>1, <1>2, <1>4, InsideCall DEF TypeOK
<1>6. u \in Viewers /\ at[u] = "call"
  BY <1>2, <1>3, <1>5, UsersApart DEF PlacesOK, CallsOK
<1>7. PICK k :
        /\ Stage(u, s)' /\ ListTypeOK' /\ fault' = fault /\ count' = count
        /\ Becomes(u, k)
        /\ \/ k.pc = "walk" /\ k.idx = call[u].idx
           \/ k.pc = "idle" /\ k.ret = Lines(s)[call[u].idx + 1] /\ k.ret \in Items
        /\ Lines(s)' = Lines(s)
  BY <1>5, GetSteps
<1>8. Contents = Lines(s)
  BY <1>5, ChainIsNow
<1>9. Contents' = Lines(s)'
  BY <1>7, ChainIsNext
<1>10. Contents' = Contents
  BY <1>7, <1>8, <1>9
<1>11. call'[u] = k /\ \A d \in Callers \ {u} : call'[d] = call[d]
  BY <1>7 DEF Becomes
<1>12. at[Command] \notin {"clearing", "gone"}
  <2>1. u # Command => at[Command] # "gone"
    BY <1>6 DEF Sheltered, CommandAlone, Open, Closing
  <2> QED
    BY <1>5, <1>6, <2>1, UsersApart
<1>13. TypeOK'
  BY <1>2, <1>7 DEF TypeOK
<1>14. PlacesOK'
  BY <1>2 DEF PlacesOK
<1>15. CallsOK'
  BY <1>2, <1>5, <1>6, <1>7, <1>11, <1>12, UsersApart DEF CallsOK, Idle
<1>16. ListOK'
  <2>1. ~fault'
    BY <1>2, <1>7 DEF ListOK
  <2> QED
    BY <1>5, <1>6, <1>7, <1>12, <2>1, ListKept
<1>17. ListingOK'
  <2>1. call[u].idx = Len(shown[u])
    BY <1>2, <1>3, <1>6 DEF ListingOK
  <2>2. \A v \in Viewers : Shows(shown'[v], Contents')
    BY <1>2, <1>10 DEF ListingOK
  <2>3. \A v \in Viewers \ {u} : at'[v] \notin {"in", "call"} /\ shown'[v] = <<>>
    BY <1>2, <1>5, UsersApart DEF ListingOK
  <2>4. call'[u].pc = "walk" => call'[u].idx = Len(shown'[u])
    BY <1>7, <1>11, <2>1
  <2>5. Idle(u)' => call'[u].ret = Contents'[Len(shown'[u]) + 1]
    BY <1>7, <1>8, <1>10, <1>11, <2>1 DEF Idle
  <2>6. Len(shown'[u]) < Len(Contents')
    BY <1>2, <1>6, <1>10 DEF ListingOK
  <2> QED
    BY <1>6, <2>2, <2>3, <2>4, <2>5, <2>6 DEF ListingOK, Shows, Idle
<1>18. EachOnce'
  <2>1. EachOnce
    BY <1>2, <1>12 DEF Inv, InvWhenSheltered, Open, Closing, PlacesOK
  <2>2. UNCHANGED <<node, count>>
    BY DEF GetStep, Walk, WalkEnd, list, heap
  <2>3. \A t \in Threads : at'[t] = at[t] /\ call'[t] = call[t]
    BY <1>6, <1>11, UsersApart
  <2> QED
    BY <1>10, <2>1, <2>2, <2>3, KeptOnce
<1> QED
  BY <1>10, <1>13, <1>14, <1>15, <1>16, <1>17, <1>18 DEF InvWhenSheltered, RecordStep, SameRecords

(* Only exit clears. *)
LEMMA ClearingStep ==
  ASSUME Inv, Sheltered, NEW u \in Callers, ClearStep(u), UNCHANGED <<mutex, at, shown, page>>
  PROVE  InvWhenSheltered' /\ ~Open
<1>1. PICK s : s = Chain
  OBVIOUS
<1>2. TypeOK /\ PlacesOK /\ CallsOK /\ ListOK /\ ListingOK
  BY DEF Inv, InvWhenSheltered
<1>3. call[u].pc = "clear"
  BY DEF ClearStep, ClearNode, ClearEnd
<1>4. ~Idle(u)
  BY <1>3 DEF Idle
<1>5. at[u] \in {"call", "clearing"} /\ Stage(u, s) /\ ListTypeOK
      /\ \A d \in Callers \ {u} : at[d] \notin {"in", "call", "clearing"}
  BY <1>1, <1>2, <1>4, InsideCall DEF TypeOK
<1>6. u = Command /\ at[u] = "clearing"
  BY <1>2, <1>3, <1>5, UsersApart DEF PlacesOK, CallsOK
<1>7. CommandAlone
  BY <1>6 DEF Sheltered, Open, Closing
<1>8. Contents = Lines(s)
  BY <1>5, ChainIsNow
<1>9. PICK t :
        /\ Stage(u, t)' /\ ListTypeOK' /\ fault' = fault
        /\ call'[u].pc \in {"clear", "idle"} /\ \A d \in Callers \ {u} : call'[d] = call[d]
        /\ call'[u].pc = "idle" => t = <<>>
        /\ \/ Lines(t)' = Lines(s)
           \/ Lines(s) # <<>> /\ Lines(t)' = Tail(Lines(s))
  <2>1. CASE ClearNode(u)
    <3>1. PICK t :
            /\ Stage(u, t)' /\ UNCHANGED call
            /\ ListTypeOK' /\ fault' = fault
            /\ Lines(s) # <<>> /\ Lines(t)' = Tail(Lines(s))
      BY <1>5, <2>1, ClearNodeStep
    <3>2. call'[u].pc = "clear"
      BY <1>3, <3>1
    <3> QED
      BY <3>1, <3>2
  <2>2. CASE ClearEnd(u)
    <3>1. /\ s = <<>> /\ Stage(u, s)' /\ Becomes(u, NoCall)
          /\ ListTypeOK' /\ fault' = fault
          /\ Lines(s)' = Lines(s)
      BY <1>5, <2>2, ClearEndStep
    <3>2. call'[u].pc = "idle" /\ \A d \in Callers \ {u} : call'[d] = call[d]
      BY <3>1, CallTypes DEF Becomes
    <3> QED
      BY <3>1, <3>2
  <2> QED
    BY <2>1, <2>2 DEF ClearStep
<1>10. Contents' = Lines(t)' /\ Contents' \in Seq(Items)
  BY <1>9, ChainIsNext
<1>11. TypeOK'
  BY <1>2, <1>9 DEF TypeOK
<1>12. PlacesOK'
  BY <1>2 DEF PlacesOK
<1>13. CallsOK'
  <2>1. \A d \in Callers \ {u} : d \in Threads
    BY <1>6, <1>7, UsersApart DEF CommandAlone
  <2>2. u \notin Threads
    BY <1>6, UsersApart
  <2>3. \A v \in Viewers : v = u
    BY <1>6, <1>7 DEF CommandAlone
  <2> QED
    BY <1>2, <1>6, <1>9, <2>1, <2>2, <2>3, UsersApart DEF CallsOK, Idle
<1>14. ListOK'
  <2>1. ~fault'
    BY <1>2, <1>9 DEF ListOK
  <2> QED
    BY <1>5, <1>6, <1>9, <2>1, ListKept
<1>15. ListingOK'
  <2>1. \A v \in Viewers : at[v] \notin {"in", "call"} /\ at'[v] \notin {"in", "call"}
    BY <1>6, <1>7 DEF CommandAlone
  <2> QED
    BY <1>2, <1>10, <2>1, NoListing
<1>16. ~Open /\ ~Open'
  BY <1>6 DEF Open, Closing
<1> QED
  BY <1>11, <1>12, <1>13, <1>14, <1>15, <1>16 DEF InvWhenSheltered

(* A step of nobody. *)
LEMMA StutterStep ==
  ASSUME Inv, Sheltered, UNCHANGED vars
  PROVE  InvWhenSheltered' /\ RecordStep
<1>1. UNCHANGED <<listVars, mutex, at, shown, page>>
  BY DEF vars
<1>2. TypeOK /\ PlacesOK /\ CallsOK /\ ListOK /\ ListingOK
  BY DEF Inv, InvWhenSheltered
<1>3. UNCHANGED <<list, heap, call, fault>>
  BY <1>1 DEF listVars
<1>4. /\ Chain' = Chain /\ Contents' = Contents
      /\ \A d \in Callers : Stage(d, Chain) => Stage(d, Chain)'
      /\ Whole(Chain) => Whole(Chain)'
      /\ ListTypeOK' /\ UNCHANGED <<count, call>>
  BY <1>2, <1>3, ListAlone DEF TypeOK, ListTypeOK
<1>5. TypeOK' /\ PlacesOK' /\ CallsOK'
  BY <1>1, <1>2, <1>4 DEF TypeOK, PlacesOK, CallsOK, Idle
<1>6. ListOK'
  BY <1>1, <1>2, <1>3, <1>4 DEF ListOK, Idle
<1>7. ListingOK'
  BY <1>1, <1>2, <1>4 DEF ListingOK, Shows, Idle
<1>8. Open' => EachOnce'
  <2>1. UNCHANGED <<node, count>>
    BY <1>3 DEF list, heap
  <2>2. Open' => Open
    BY <1>1 DEF Open
  <2>3. Open' => EachOnce
    BY <2>2 DEF Inv, InvWhenSheltered
  <2>4. \A t \in Threads : at'[t] = at[t] /\ call'[t] = call[t]
    BY <1>1, <1>3
  <2> QED
    BY <1>4, <2>1, <2>3, <2>4, KeptOnce
<1> QED
  BY <1>1, <1>4, <1>5, <1>6, <1>7, <1>8 DEF InvWhenSheltered, RecordStep, SameRecords

-----------------------------------------------------------------------------
(* Nobody looks for the list when it is gone. *)
LEMMA NothingLocked ==
  ASSUME Inv, Sheltered, NEW v \in Viewers, LockNothing(v)
  PROVE  FALSE
<1>1. at[v] = "out" /\ at[Command] = "gone"
  BY DEF LockNothing
<1>2. v = Command
  BY <1>1 DEF Sheltered, CommandAlone, Open, Closing
<1> QED
  BY <1>1, <1>2

(* The command thread does not come back from exit, and only exit begins it. *)
LEMMA NoWayBack ==
  ASSUME at \in [Callers -> Places], [Next]_vars
  PROVE  /\ at' \in [Callers -> Places]
         /\ Open' => Open
         /\ Open /\ ~Open' => ExitClears
<1>1. CASE UNCHANGED at
  BY <1>1 DEF Open
<1>2. ASSUME NEW c \in Callers, NEW p \in Places \ Closing, MoveTo(c, p), at[c] \notin Closing
      PROVE  at' \in [Callers -> Places] /\ (Open' <=> Open)
  <2>1. Moves(c, p)
    BY <1>2, PlaceMoved
  <2> QED
    BY <1>2, <2>1, UsersApart DEF Moves, Open
<1>3. {"out", "in", "call", "done"} = Places \ Closing
      /\ {"clearing", "gone", "kept"} = Closing /\ Closing \subseteq Places
  BY DEF Places, Closing
<1>4. CASE \E c \in Callers : Lock(c) \/ CallStep(c)
  <2>1. PICK c \in Callers : Lock(c) \/ CallStep(c)
    BY <1>4
  <2>2. CASE Lock(c)
    BY <1>2, <1>3, <2>2 DEF Lock
  <2>3. CASE CallStep(c)
    BY <1>1, <2>3 DEF CallStep
  <2> QED
    BY <2>1, <2>2, <2>3
<1>5. CASE \E t \in Threads : Insert(t) \/ Inserted(t)
  <2>1. PICK t \in Threads : Insert(t) \/ Inserted(t)
    BY <1>5
  <2>2. t \in Callers
    BY UsersApart
  <2>3. CASE Insert(t)
    BY <1>2, <1>3, <2>2, <2>3 DEF Insert
  <2>4. CASE Inserted(t)
    BY <1>2, <1>3, <2>2, <2>4 DEF Inserted
  <2> QED
    BY <2>1, <2>3, <2>4
<1>6. CASE \E v \in Viewers : GetLine(v) \/ PrintLine(v) \/ Listed(v) \/ LockNothing(v)
  <2>1. PICK v \in Viewers : GetLine(v) \/ PrintLine(v) \/ Listed(v) \/ LockNothing(v)
    BY <1>6
  <2>2. v \in Callers
    BY UsersApart
  <2>3. CASE GetLine(v)
    BY <1>2, <1>3, <2>2, <2>3 DEF GetLine
  <2>4. CASE PrintLine(v)
    BY <1>2, <1>3, <2>2, <2>4 DEF PrintLine
  <2>5. CASE Listed(v)
    BY <1>2, <1>3, <2>2, <2>5 DEF Listed
  <2>6. CASE LockNothing(v)
    BY <1>1, <2>6 DEF LockNothing
  <2> QED
    BY <2>1, <2>3, <2>4, <2>5, <2>6
<1>7. CASE ExitClears
  <2>1. Moves(Command, "clearing") /\ at[Command] = "out"
    BY <1>3, <1>7, PlaceMoved, UsersApart DEF ExitClears
  <2> QED
    BY <1>3, <1>7, <2>1 DEF Moves, Open
<1>8. CASE ExitDestroys
  <2>1. PICK p \in {"gone", "kept"} : Moves(Command, p)
    BY <1>3, <1>8, PlaceMoved, UsersApart DEF ExitDestroys
  <2>2. at[Command] = "clearing"
    BY <1>8 DEF ExitDestroys
  <2> QED
    BY <1>3, <2>1, <2>2 DEF Moves, Open
<1>9. CASE Gone \/ UNCHANGED vars
  BY <1>1, <1>9 DEF Gone, vars
<1> QED
  BY <1>4, <1>5, <1>6, <1>7, <1>8, <1>9 DEF Next

(* Every step keeps the invariant, and before exit the order. *)
LEMMA NextKeeps ==
  ASSUME Inv, [Next]_vars
  PROVE  Inv' /\ (Open' => RecordStep)
<1>1. at' \in [Callers -> Places] /\ (Sheltered' => Sheltered) /\ (Open' => Open /\ Sheltered')
  BY NoWayBack DEF Inv, Sheltered, CommandAlone
<1>2. SUFFICES ASSUME Sheltered'
               PROVE  InvWhenSheltered' /\ (Open' => RecordStep)
  BY <1>1 DEF Inv
<1>3. Sheltered
  BY <1>1, <1>2
<1>4. CASE \E c \in Callers : Lock(c) \/ CallStep(c)
  <2>1. PICK c \in Callers : Lock(c) \/ CallStep(c)
    BY <1>4
  <2>2. CASE Lock(c)
    BY <1>3, <2>2, LockStep
  <2>3. CASE CallStep(c)
    BY <1>1, <1>3, <2>3, InsertingStep, GettingStep, ClearingStep DEF CallStep
  <2> QED
    BY <2>1, <2>2, <2>3
<1>5. CASE \E t \in Threads : Insert(t) \/ Inserted(t)
  BY <1>3, <1>5, InsertFirstStep, InsertedStep
<1>6. CASE \E v \in Viewers : GetLine(v) \/ PrintLine(v) \/ Listed(v) \/ LockNothing(v)
  BY <1>3, <1>6, GetLineStep, PrintLineStep, ListedStep, NothingLocked
<1>7. CASE ExitClears
  <2>1. ~Open'
    BY <1>7, PlaceMoved, UsersApart DEF ExitClears, Inv, Places, Moves, Open, Closing
  <2> QED
    BY <1>2, <1>3, <1>7, <2>1, ExitClearsStep
<1>8. CASE ExitDestroys
  <2>1. ~Open
    BY <1>8 DEF ExitDestroys, Open, Closing
  <2> QED
    BY <1>1, <1>3, <1>8, <2>1, ExitDestroysStep
<1>9. CASE Gone \/ UNCHANGED vars
  BY <1>3, <1>9, StutterStep DEF Gone
<1> QED
  BY <1>4, <1>5, <1>6, <1>7, <1>8, <1>9 DEF Next

(* exit begins to clear when every line is there. *)
LEMMA ExitCloses ==
  ASSUME Inv, Open, ExitClears
  PROVE  Told = Items /\ SameRecords
<1>1. Sheltered
  BY DEF Sheltered
<1>2. EachOnce
  BY <1>1 DEF Inv, InvWhenSheltered
<1>3. \A t \in Threads : at[t] = "done"
  BY DEF ExitClears
<1>4. Threads \subseteq Told
  BY <1>2, <1>3 DEF EachOnce, Once
<1>5. PICK lines \in Seq(Items) : lines = Contents
  BY <1>1, LinesThere
<1>6. {lines[k] : k \in 1..Len(lines)} \subseteq Items
  BY ElementOfSeq, LenProperties
<1>7. Told \subseteq Items
  BY <1>5, <1>6 DEF Told
<1>8. UNCHANGED <<head, node>>
  BY DEF ExitClears, Clear, list, heap
<1>9. Chain' = Chain
  BY <1>8 DEF Chain
<1>10. Contents' = Contents
  <2> HIDE DEF Chain
  <2> QED
    BY <1>8, <1>9 DEF Contents
<1>11. page' = page
  BY DEF ExitClears
<1> QED
  BY <1>4, <1>7, <1>10, <1>11, UsersApart DEF SameRecords

(* The first state. *)
LEMMA InitInv ==
  ASSUME Init
  PROVE  Inv /\ Contents = <<>>
<1>1. ListTypeOK /\ Whole(<<>>) /\ ~fault /\ \A c \in Callers : call[c].pc = "idle"
  BY InitWhole DEF Init
<1>2. PICK s : s = <<>>
  OBVIOUS
<1>3. Chain = s /\ Contents = Lines(s)
  BY <1>1, <1>2, ChainIs DEF Whole
<1>4. Contents = <<>>
  BY <1>2, <1>3 DEF Lines
<1>5. at = [c \in Callers |-> "out"] /\ mutex = Null
      /\ shown = [v \in Viewers |-> <<>>] /\ page = [v \in Viewers |-> <<>>]
  BY DEF Init
<1>6. at \in [Callers -> Places] /\ \A c \in Callers : at[c] = "out"
  BY <1>5 DEF Places
<1>7. TypeOK
  BY <1>1, <1>5, EmptySeq DEF TypeOK
<1>8. PlacesOK
  BY <1>5, <1>6, UsersApart DEF PlacesOK
<1>9. CallsOK
  BY <1>1, <1>6, UsersApart DEF CallsOK, Idle
<1>10. ListOK
  BY <1>1, <1>2, <1>3, <1>6, UsersApart DEF ListOK
<1>11. ListingOK
  <2>1. Shows(<<>>, Contents)
    BY <1>4, EmptySeq, ShowsNone
  <2> QED
    BY <1>5, <1>6, <2>1, UsersApart DEF ListingOK
<1>12. EachOnce
  <2>1. Told = {}
    <3>1. Len(<<>>) = 0
      OBVIOUS
    <3> QED
      BY <1>4, <3>1 DEF Told
  <2> QED
    BY <1>6, <2>1, UsersApart DEF EachOnce, Once
<1> QED
  BY <1>4, <1>6, <1>7, <1>8, <1>9, <1>10, <1>11, <1>12 DEF Inv, InvWhenSheltered

(* The mutex keeps the users of the list apart: whoever is in a function of it
   finds it as a single caller would (monitorThread.c:314-326, commands.c:241-264,
   webmon.c:262-296). *)
THEOREM ListCorrect == Spec => []Inv
<1>1. Init => Inv
  BY InitInv
<1>2. Inv /\ [Next]_vars => Inv'
  BY NextKeeps
<1> QED
  BY <1>1, <1>2, PTL DEF Spec

(* Until exit begins to clear the list, no thread follows a pointer to a freed
   node or a NULL line, however many insert and show it (singlyLinkedList.c:84-110,
   commands.c:248, webmon.c:269). *)
THEOREM NoFreedNodeIsRead == Spec => []NoFreedNode
<1>1. Inv => NoFreedNode
  BY DEF Inv, InvWhenSheltered, ListOK, NoFreedNode, Sheltered
<1> QED
  BY <1>1, ListCorrect, PTL

(* Where webmon does not run exit's clean-up, which takes no mutex, reads no freed
   node, and frees every node there was (mond.c:354-355, singlyLinkedList.c:30-74). *)
THEOREM ExitFreesAll ==
  ASSUME CommandAlone
  PROVE  Spec => [](~fault) /\ []NothingLeaks
<1>1. Inv => ~fault /\ NothingLeaks
  <2> SUFFICES ASSUME Inv
               PROVE  ~fault /\ NothingLeaks
    OBVIOUS
  <2>1. TypeOK /\ PlacesOK /\ CallsOK /\ ListOK
    BY DEF Inv, InvWhenSheltered, Sheltered
  <2>2. ASSUME at[Command] = "gone"
        PROVE  allocated = {}
    <3>1. \A c \in Callers : at[c] \notin {"call", "clearing"}
      BY <2>1, <2>2, UsersApart DEF PlacesOK, CommandAlone
    <3>2. Whole(Chain) /\ Chain = <<>>
      BY <2>1, <2>2, <3>1 DEF ListOK
    <3>3. NodesOf(<<>>) = {}
      BY DEF NodesOf
    <3> QED
      BY <3>2, <3>3 DEF Whole
  <2> QED
    BY <2>1, <2>2 DEF ListOK, PlacesOK, NothingLeaks
<1> QED
  BY <1>1, ListCorrect, PTL

(* The list is the record of the threads that ended, whoever shows it: a line enters
   it that is not there yet, all stay in their order until exit, which finds the
   lines of all threads there, and each listing that ends before is the whole list
   of one moment (monitorThread.c:320, commands.c:247-262, webmon.c:268-293,
   mond.c:354). *)
THEOREM ListImplementsRecords == Spec => ImplementsRecords
<1>1. Init => History!Init
  <2> SUFFICES ASSUME Init
               PROVE  History!Init
    OBVIOUS
  <2>1. Contents = <<>> /\ page = [v \in Viewers |-> <<>>]
    BY InitInv DEF Init
  <2>2. Open
    BY UsersApart DEF Init, Open, Closing
  <2> QED
    BY <2>1, <2>2 DEF History!Init
<1>2. Inv /\ [Next]_vars => [History!Next]_(History!vars)
  <2> SUFFICES ASSUME Inv, [Next]_vars
               PROVE  [History!Next]_(History!vars)
    OBVIOUS
  <2>1. Open' => Open
    BY NoWayBack DEF Inv
  <2>2. CASE Open'
    <3>1. RecordStep /\ Open
      BY <2>1, <2>2, NextKeeps
    <3>2. CASE SameRecords
      BY <2>2, <3>1, <3>2 DEF SameRecords, History!vars
    <3>3. CASE \E d \in Items : d \notin Told /\ Contents' = Append(Contents, d) /\ page' = page
      <4>1. PICK d \in Items : d \notin Told /\ Contents' = Append(Contents, d) /\ page' = page
        BY <3>3
      <4>2. History!Add(d)
        BY <2>2, <3>1, <4>1 DEF History!Add, History!Recorded, Told
      <4> QED
        BY <4>2 DEF History!Next
    <3>4. CASE \E v \in Viewers : Contents' = Contents /\ page' = [page EXCEPT ![v] = Contents]
      <4>1. PICK v \in Viewers : Contents' = Contents /\ page' = [page EXCEPT ![v] = Contents]
        BY <3>4
      <4>2. History!Show(v)
        BY <2>2, <3>1, <4>1 DEF History!Show
      <4> QED
        BY <4>2 DEF History!Next
    <3> QED
      BY <3>1, <3>2, <3>3, <3>4 DEF RecordStep
  <2>3. CASE Open /\ ~Open'
    <3>1. Told = Items /\ SameRecords
      BY <2>3, NoWayBack, ExitCloses DEF Inv
    <3>2. History!Close
      BY <2>3, <3>1 DEF History!Close, History!Recorded, Told, SameRecords
    <3> QED
      BY <3>2 DEF History!Next
  <2>4. CASE ~Open /\ ~Open'
    BY <2>4 DEF History!Next, History!TakeAway
  <2> QED
    BY <2>1, <2>2, <2>3, <2>4
<1> QED
  BY <1>1, <1>2, ListCorrect, PTL DEF Spec, ImplementsRecords, History!Spec
=============================================================================
