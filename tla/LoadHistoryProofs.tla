--------------------------- MODULE LoadHistoryProofs ---------------------------
(***************************************************************************)
(* webmon's load averages are never broken, are kept to the last ones, and *)
(* are shown whole: proved for any length of the history and any samples.  *)
(***************************************************************************)
EXTENDS LoadHistory, LinkedListProofs

TypeOK ==
  /\ ListTypeOK
  /\ at \in Places
  /\ shown \in Seq(Items) /\ page \in Seq(Items)

(* webmon's place in the list's functions, and what the list is then. *)
InTheList ==
  /\ ~fault
  /\ Stage(Webmon, Chain)
  /\ at \in {"update", "removed", "header"} => Idle(Webmon)
  /\ at = "inserting" => call[Webmon].pc \in {"idle", "linkTail", "setHead", "setTail", "count"}
  /\ at = "get" => call[Webmon].pc \in {"idle", "walk"}

(* How long the list is: there is room for the sample that is inserted, *)
Lengths ==
  /\ count <= GRAPH_HISTORY_LEN + 1
  /\ at = "removed" => count <= GRAPH_HISTORY_LEN
  /\ at = "inserting" /\ ~Idle(Webmon) => count <= GRAPH_HISTORY_LEN

(* and what is written of it are its first samples. *)
Listing ==
  /\ Shows(shown, Contents)
  /\ at \notin {"header", "get"} => shown = <<>>
  /\ at = "get" =>
       /\ Len(shown) < Len(Contents)
       /\ call[Webmon].pc = "walk" => call[Webmon].idx = Len(shown)
       /\ Idle(Webmon) => call[Webmon].ret = Contents[Len(shown) + 1]

Inv == TypeOK /\ InTheList /\ Lengths /\ Listing

(* What a step does to the samples and the page. *)
KeepsOrder ==
  \/ Contents' = Contents /\ page' = page
  \/ \E d \in Items : Contents' = Append(Contents, d) /\ page' = page
  \/ Contents # <<>> /\ Contents' = Tail(Contents) /\ page' = page
  \/ Contents' = Contents /\ page' = Contents

(* Samples are dropped from a long list only. *)
DropsLate == count' < count => count = GRAPH_HISTORY_LEN + 1

-----------------------------------------------------------------------------
(* webmon is the only caller. *)
LEMMA OnlyWebmon ==
  /\ Webmon \in Callers /\ \A c \in Callers : c = Webmon
  /\ GRAPH_HISTORY_LEN \in Nat /\ GRAPH_HISTORY_LEN > 0
BY HistoryAssumption

(* Outside the list's functions it has as many samples as it counts. *)
LEMMA CountIsLength ==
  ASSUME Inv, Idle(Webmon) \/ call[Webmon].pc = "walk"
  PROVE  count = Len(Contents) /\ Contents \in Seq(Items) /\ Whole(Chain)
<1>1. PICK s : s = Chain
  OBVIOUS
<1>2. Stage(Webmon, s)
  BY <1>1 DEF Inv, InTheList
<1>3. Whole(s)
  BY <1>2 DEF Stage, Idle
<1>4. Contents \in Seq(Items) /\ Len(Contents) = Len(s)
  BY <1>2, OnlyWebmon, ChainIsNow DEF Inv, TypeOK
<1> QED
  BY <1>1, <1>3, <1>4 DEF Whole

(* The first state. *)
LEMMA InitInv ==
  ASSUME Init
  PROVE  Inv /\ Contents = <<>>
<1>1. ListTypeOK /\ Whole(<<>>) /\ ~fault /\ call[Webmon].pc = "idle"
  BY InitWhole, OnlyWebmon DEF Init
<1>2. PICK s : s = <<>>
  OBVIOUS
<1>3. Chain = s /\ Contents = Lines(s)
  BY <1>1, <1>2, ChainIs DEF Whole
<1>4. Contents = <<>>
  BY <1>2, <1>3 DEF Lines
<1>5. at = "update" /\ shown = <<>> /\ page = <<>> /\ count = 0
  BY DEF Init, InitList
<1>6. TypeOK
  BY <1>1, <1>5, EmptySeq DEF TypeOK, Places
<1>7. InTheList
  BY <1>1, <1>2, <1>3, <1>5 DEF InTheList, Stage, Idle
<1>8. Lengths
  BY <1>5, OnlyWebmon DEF Lengths
<1>9. Shows(shown, Contents)
  BY <1>4, <1>5, EmptySeq, ShowsNone
<1> QED
  BY <1>4, <1>5, <1>6, <1>7, <1>8, <1>9 DEF Inv, Listing

(* updateLoadList, with room and after the oldest sample was removed. *)
LEMMA UpdateStep ==
  ASSUME Inv, NEW d \in Items, UpdateInsert(d) \/ UpdateReplace(d)
  PROVE  Inv' /\ KeepsOrder /\ DropsLate
<1>1. PICK s : s = Chain
  OBVIOUS
<1>2. Stage(Webmon, s) /\ ListTypeOK /\ ~fault
  BY <1>1 DEF Inv, InTheList, TypeOK
<1>3. /\ InsertTail(Webmon, d) /\ at \in {"update", "removed"}
      /\ at' = "inserting" /\ UNCHANGED <<shown, page>>
  BY DEF UpdateInsert, UpdateReplace
<1>4. Idle(Webmon) /\ count' = count
  BY <1>3 DEF InsertTail, list
<1>5. count <= GRAPH_HISTORY_LEN
  BY DEF UpdateInsert, UpdateReplace, Room, Inv, Lengths
<1>6. PICK k \in CallLocals : Becomes(Webmon, k) /\ k.pc = "linkTail"
  BY <1>2, <1>3, <1>4, OnlyWebmon, InsertBegins
<1>7. ListTypeOK' /\ Stage(Webmon, s)' /\ fault' = fault /\ Lines(s)' = Lines(s)
  BY <1>2, <1>3, <1>4, OnlyWebmon, InsertBegins
<1>8. Contents = Lines(s) /\ Contents \in Seq(Items)
  BY <1>2, OnlyWebmon, ChainIsNow
<1>9. Contents' = Lines(s)' /\ Stage(Webmon, Chain)'
  BY <1>7, OnlyWebmon, ChainIsNext
<1>10. Contents' = Contents
  BY <1>7, <1>8, <1>9
<1>11. call'[Webmon].pc = "linkTail"
  BY <1>6 DEF Becomes
<1>12. TypeOK'
  BY <1>3, <1>7 DEF TypeOK, Inv, Places
<1>13. InTheList'
  BY <1>2, <1>3, <1>7, <1>9, <1>11 DEF InTheList
<1>14. Lengths'
  BY <1>3, <1>4, <1>5, <1>2, OnlyWebmon DEF Lengths, ListTypeOK
<1>15. Listing'
  <2>1. shown' = <<>>
    BY <1>3 DEF Inv, Listing
  <2>2. Shows(shown', Contents')
    BY <1>8, <1>10, <2>1, ShowsNone
  <2> QED
    BY <1>3, <2>1, <2>2 DEF Listing, Shows
<1>16. DropsLate
  BY <1>2, <1>4 DEF DropsLate, ListTypeOK
<1> QED
  BY <1>3, <1>10, <1>12, <1>13, <1>14, <1>15, <1>16 DEF Inv, KeepsOrder

(* updateLoadList removes from a list that stays one. *)
LEMMA RemoveStep ==
  ASSUME Inv, UpdateRemove
  PROVE  Inv' /\ KeepsOrder /\ DropsLate
<1>1. PICK s : s = Chain
  OBVIOUS
<1>2. Stage(Webmon, s) /\ ListTypeOK /\ ~fault
  BY <1>1 DEF Inv, InTheList, TypeOK
<1>3. /\ RemoveHead(Webmon) /\ at = "update" /\ at' = "removed"
      /\ UNCHANGED <<shown, page>> /\ ~(count <= GRAPH_HISTORY_LEN)
  BY DEF UpdateRemove, Room
<1>4. count = GRAPH_HISTORY_LEN + 1 /\ count > 1
  BY <1>2, <1>3, OnlyWebmon DEF Inv, Lengths, ListTypeOK
<1>5. PICK t :
        /\ Stage(Webmon, t)' /\ UNCHANGED call /\ count' = count - 1
        /\ ListTypeOK' /\ fault' = fault
        /\ Lines(s) # <<>> /\ Lines(t)' = Tail(Lines(s))
  BY <1>2, <1>3, <1>4, OnlyWebmon, RemoveHeadStep
<1>6. Contents = Lines(s)
  BY <1>2, OnlyWebmon, ChainIsNow
<1>7. Contents' = Lines(t)' /\ Stage(Webmon, Chain)' /\ Contents' \in Seq(Items)
  BY <1>5, OnlyWebmon, ChainIsNext
<1>8. Idle(Webmon)'
  BY <1>3, <1>5 DEF RemoveHead, Idle
<1>9. TypeOK'
  BY <1>3, <1>5 DEF TypeOK, Inv, Places
<1>10. InTheList'
  BY <1>2, <1>3, <1>5, <1>7, <1>8 DEF InTheList
<1>11. Lengths'
  BY <1>3, <1>4, <1>5, OnlyWebmon DEF Lengths
<1>12. Listing'
  <2>1. shown' = <<>>
    BY <1>3 DEF Inv, Listing
  <2>2. Shows(shown', Contents')
    BY <1>7, <2>1, ShowsNone
  <2> QED
    BY <1>3, <2>1, <2>2 DEF Listing, Shows
<1> QED
  BY <1>3, <1>4, <1>5, <1>6, <1>7, <1>9, <1>10, <1>11, <1>12 DEF Inv, KeepsOrder, DropsLate

(* The steps of webmonHeader's own code leave the list alone. *)
LEMMA ListAlone ==
  ASSUME Inv, UNCHANGED listVars
  PROVE  /\ ListTypeOK' /\ ~fault' /\ Stage(Webmon, Chain)' /\ Contents' = Contents
         /\ UNCHANGED <<count, call>>
<1>1. PICK s : s = Chain
  OBVIOUS
<1>2. Stage(Webmon, s) /\ ListTypeOK /\ ~fault
  BY <1>1 DEF Inv, InTheList, TypeOK
<1>3. UNCHANGED <<head, tail, count, node, allocated, call, fault>>
  BY DEF listVars, list, heap
<1>4. ListTypeOK'
  BY <1>2, <1>3 DEF ListTypeOK
<1>5. Stage(Webmon, s)'
  BY <1>2, <1>3 DEF Stage, Whole, Fresh, Joined, Freeing, Reached, LastOf
<1>6. Contents = Lines(s)
  BY <1>2, OnlyWebmon, ChainIsNow
<1>7. Contents' = Lines(s)' /\ Stage(Webmon, Chain)'
  BY <1>4, <1>5, OnlyWebmon, ChainIsNext
<1>8. Lines(s)' = Lines(s)
  BY <1>3 DEF Lines
<1> QED
  BY <1>2, <1>3, <1>4, <1>6, <1>7, <1>8

(* webmon begins to write the header of the page. *)
LEMMA HeaderStartStep ==
  ASSUME Inv, HeaderStart
  PROVE  Inv' /\ KeepsOrder /\ DropsLate
<1>1. /\ at = "inserting" /\ Idle(Webmon) /\ at' = "header"
      /\ UNCHANGED listVars /\ UNCHANGED <<shown, page>>
  BY DEF HeaderStart
<1>2. /\ ListTypeOK' /\ ~fault' /\ Stage(Webmon, Chain)' /\ Contents' = Contents
      /\ UNCHANGED <<count, call>>
  BY <1>1, ListAlone
<1>3. TypeOK'
  BY <1>1, <1>2 DEF TypeOK, Inv, Places
<1>4. InTheList'
  BY <1>1, <1>2 DEF InTheList, Idle
<1>5. Lengths'
  BY <1>1, <1>2 DEF Lengths, Inv
<1>6. Listing'
  BY <1>1, <1>2 DEF Listing, Inv, Shows
<1>7. DropsLate
  BY <1>2 DEF DropsLate, Inv, TypeOK, ListTypeOK
<1> QED
  BY <1>1, <1>2, <1>3, <1>4, <1>5, <1>6, <1>7 DEF Inv, KeepsOrder

(* The next sample is asked for: there is one. *)
LEMMA HeaderGetStep ==
  ASSUME Inv, HeaderGet
  PROVE  Inv' /\ KeepsOrder /\ DropsLate
<1>1. PICK s : s = Chain
  OBVIOUS
<1>2. Stage(Webmon, s) /\ ListTypeOK /\ ~fault
  BY <1>1 DEF Inv, InTheList, TypeOK
<1>3. PICK x : x = Len(shown)
  OBVIOUS
<1>4. /\ at = "header" /\ Get(Webmon, x) /\ at' = "get" /\ x < count
      /\ UNCHANGED <<shown, page>>
  BY <1>3 DEF HeaderGet
<1>5. Idle(Webmon)
  BY <1>4 DEF Inv, InTheList
<1>6. count = Len(Contents) /\ Whole(s)
  BY <1>1, <1>5, CountIsLength
<1>7. x \in Nat /\ x < Len(s)
  BY <1>3, <1>4, <1>6, LenProperties DEF Inv, TypeOK, Whole
<1>8. PICK k :
        /\ Stage(Webmon, s)' /\ Becomes(Webmon, k) /\ k.pc = "walk" /\ k.idx = x
        /\ ListTypeOK' /\ fault' = fault
        /\ Lines(s)' = Lines(s)
  BY <1>2, <1>4, <1>5, <1>7, OnlyWebmon, GetBegins
<1>9. Contents = Lines(s)
  BY <1>2, OnlyWebmon, ChainIsNow
<1>10. Contents' = Lines(s)' /\ Stage(Webmon, Chain)'
  BY <1>8, OnlyWebmon, ChainIsNext
<1>11. Contents' = Contents
  BY <1>8, <1>9, <1>10
<1>12. call'[Webmon].pc = "walk" /\ call'[Webmon].idx = x
  BY <1>8 DEF Becomes
<1>13. count' = count
  BY <1>4 DEF Get, list
<1>14. TypeOK'
  BY <1>4, <1>8 DEF TypeOK, Inv, Places
<1>15. InTheList'
  BY <1>2, <1>4, <1>8, <1>10, <1>12 DEF InTheList
<1>16. Lengths'
  BY <1>4, <1>13 DEF Lengths, Inv
<1>17. Listing'
  BY <1>3, <1>4, <1>6, <1>11, <1>12 DEF Listing, Inv, Shows, Idle
<1>18. DropsLate
  BY <1>2, <1>13 DEF DropsLate, ListTypeOK
<1> QED
  BY <1>4, <1>11, <1>14, <1>15, <1>16, <1>17, <1>18 DEF Inv, KeepsOrder

(* It is written. *)
LEMMA HeaderRowStep ==
  ASSUME Inv, HeaderRow
  PROVE  Inv' /\ KeepsOrder /\ DropsLate
<1>1. /\ at = "get" /\ Idle(Webmon) /\ at' = "header"
      /\ shown' = Append(shown, call[Webmon].ret)
      /\ UNCHANGED listVars /\ UNCHANGED page
  BY DEF HeaderRow
<1>2. /\ ListTypeOK' /\ ~fault' /\ Stage(Webmon, Chain)' /\ Contents' = Contents
      /\ UNCHANGED <<count, call>>
  BY <1>1, ListAlone
<1>3. /\ Shows(shown, Contents) /\ Len(shown) < Len(Contents)
      /\ call[Webmon].ret = Contents[Len(shown) + 1]
  BY <1>1 DEF Inv, Listing
<1>4. Contents \in Seq(Items)
  BY <1>1, CountIsLength
<1>5. Shows(shown', Contents)
  BY <1>1, <1>3, <1>4, ShowsNext
<1>6. Listing'
  BY <1>1, <1>2, <1>5 DEF Listing
<1>7. TypeOK'
  BY <1>1, <1>2, <1>5 DEF TypeOK, Inv, Places, Shows
<1>8. InTheList'
  BY <1>1, <1>2 DEF InTheList, Idle
<1>9. Lengths'
  BY <1>1, <1>2 DEF Lengths, Inv
<1>10. DropsLate
  BY <1>2 DEF DropsLate, Inv, TypeOK, ListTypeOK
<1> QED
  BY <1>1, <1>2, <1>6, <1>7, <1>8, <1>9, <1>10 DEF Inv, KeepsOrder

(* A page is written when all are shown. *)
LEMMA HeaderEndStep ==
  ASSUME Inv, HeaderEnd
  PROVE  Inv' /\ KeepsOrder /\ DropsLate
<1>1. /\ at = "header" /\ Len(shown) >= count /\ at' = "update"
      /\ page' = shown /\ shown' = <<>>
      /\ UNCHANGED listVars
  BY DEF HeaderEnd
<1>2. /\ ListTypeOK' /\ ~fault' /\ Stage(Webmon, Chain)' /\ Contents' = Contents
      /\ UNCHANGED <<count, call>>
  BY <1>1, ListAlone
<1>3. Idle(Webmon) /\ Shows(shown, Contents)
  BY <1>1 DEF Inv, InTheList, Listing
<1>4. count = Len(Contents) /\ Contents \in Seq(Items)
  BY <1>3, CountIsLength
<1>5. shown = Contents
  BY <1>1, <1>3, <1>4, ShowsAll
<1>6. Listing'
  <2>1. Shows(shown', Contents')
    BY <1>1, <1>2, <1>4, ShowsNone
  <2> QED
    BY <1>1, <2>1 DEF Listing
<1>7. TypeOK'
  BY <1>1, <1>2, EmptySeq DEF TypeOK, Inv, Places
<1>8. InTheList'
  BY <1>1, <1>2, <1>3 DEF InTheList, Idle
<1>9. Lengths'
  BY <1>1, <1>2 DEF Lengths, Inv
<1>10. DropsLate
  BY <1>2 DEF DropsLate, Inv, TypeOK, ListTypeOK
<1> QED
  BY <1>1, <1>2, <1>5, <1>6, <1>7, <1>8, <1>9, <1>10 DEF Inv, KeepsOrder

(* A step of LLInsertTail. *)
LEMMA InsertingStep ==
  ASSUME Inv, InsertStep(Webmon), UNCHANGED <<at, shown, page>>
  PROVE  Inv' /\ KeepsOrder /\ DropsLate
<1>1. PICK s : s = Chain
  OBVIOUS
<1>2. Stage(Webmon, s) /\ ListTypeOK /\ ~fault
  BY <1>1 DEF Inv, InTheList, TypeOK
<1>3. call[Webmon].pc \in {"linkTail", "setHead", "setTail", "count"}
  BY DEF InsertStep, LinkTail, SetHead, SetTail, CountUp
<1>4. at = "inserting" /\ at \in Places /\ ~Idle(Webmon)
  BY <1>3 DEF Inv, InTheList, TypeOK, Places, Idle
<1>5. PICK t, k :
        /\ Stage(Webmon, t)' /\ ListTypeOK' /\ fault' = fault
        /\ Becomes(Webmon, k)
        /\ \/ k.pc \in {"setHead", "setTail", "count"} /\ count' = count
           \/ k.pc = "idle" /\ call[Webmon].pc = "count" /\ count' = count + 1
        /\ Lines(t)' = Lines(s) \/ \E d \in Items : Lines(t)' = Append(Lines(s), d)
  BY <1>2, OnlyWebmon, InsertSteps
<1>6. Contents = Lines(s)
  BY <1>2, OnlyWebmon, ChainIsNow
<1>7. Contents' = Lines(t)' /\ Stage(Webmon, Chain)' /\ Contents' \in Seq(Items)
  BY <1>5, OnlyWebmon, ChainIsNext
<1>8. call'[Webmon] = k
  BY <1>5 DEF Becomes
<1>9. TypeOK'
  BY <1>5 DEF TypeOK, Inv
<1>10. InTheList'
  BY <1>2, <1>4, <1>5, <1>7, <1>8 DEF InTheList
<1>11. Lengths'
  <2>1. count <= GRAPH_HISTORY_LEN /\ count \in Nat
    BY <1>2, <1>4 DEF Inv, Lengths, ListTypeOK
  <2> QED
    BY <1>4, <1>5, <1>8, <2>1, OnlyWebmon DEF Lengths, Idle
<1>12. Listing'
  <2>1. shown' = <<>>
    BY <1>4 DEF Inv, Listing
  <2>2. Shows(shown', Contents')
    BY <1>7, <2>1, ShowsNone
  <2> QED
    BY <1>4, <2>1, <2>2 DEF Listing
<1>13. DropsLate
  BY <1>2, <1>5 DEF DropsLate, ListTypeOK
<1> QED
  BY <1>5, <1>6, <1>7, <1>9, <1>10, <1>11, <1>12, <1>13 DEF Inv, KeepsOrder

(* A step of LLGet. *)
LEMMA GettingStep ==
  ASSUME Inv, GetStep(Webmon), UNCHANGED <<at, shown, page>>
  PROVE  Inv' /\ KeepsOrder /\ DropsLate
<1>1. PICK s : s = Chain
  OBVIOUS
<1>2. Stage(Webmon, s) /\ ListTypeOK /\ ~fault
  BY <1>1 DEF Inv, InTheList, TypeOK
<1>3. call[Webmon].pc = "walk"
  BY DEF GetStep, Walk, WalkEnd
<1>4. at = "get" /\ ~Idle(Webmon)
  BY <1>3 DEF Inv, InTheList, TypeOK, Places, Idle
<1>5. PICK k :
        /\ Stage(Webmon, s)' /\ ListTypeOK' /\ fault' = fault /\ count' = count
        /\ Becomes(Webmon, k)
        /\ \/ k.pc = "walk" /\ k.idx = call[Webmon].idx
           \/ k.pc = "idle" /\ k.ret = Lines(s)[call[Webmon].idx + 1] /\ k.ret \in Items
        /\ Lines(s)' = Lines(s)
  BY <1>2, OnlyWebmon, GetSteps
<1>6. Contents = Lines(s)
  BY <1>2, OnlyWebmon, ChainIsNow
<1>7. Contents' = Lines(s)' /\ Stage(Webmon, Chain)'
  BY <1>5, OnlyWebmon, ChainIsNext
<1>8. Contents' = Contents
  BY <1>5, <1>6, <1>7
<1>9. call'[Webmon] = k
  BY <1>5 DEF Becomes
<1>10. call[Webmon].idx = Len(shown)
  BY <1>3, <1>4 DEF Inv, Listing
<1>11. TypeOK'
  BY <1>5 DEF TypeOK, Inv
<1>12. InTheList'
  BY <1>2, <1>4, <1>5, <1>7, <1>9 DEF InTheList
<1>13. Lengths'
  BY <1>4, <1>5 DEF Inv, Lengths
<1>14. Listing'
  BY <1>4, <1>5, <1>6, <1>8, <1>9, <1>10 DEF Inv, Listing, Idle
<1>15. DropsLate
  BY <1>2, <1>5 DEF DropsLate, ListTypeOK
<1> QED
  BY <1>8, <1>11, <1>12, <1>13, <1>14, <1>15 DEF Inv, KeepsOrder

(* Every step keeps the invariant and the order. *)
LEMMA NextKeeps ==
  ASSUME Inv, [Next]_vars
  PROVE  Inv' /\ KeepsOrder /\ DropsLate
<1>1. CASE \E d \in Items : UpdateInsert(d) \/ UpdateReplace(d)
  BY <1>1, UpdateStep
<1>2. CASE UpdateRemove
  BY <1>2, RemoveStep
<1>3. CASE HeaderStart
  BY <1>3, HeaderStartStep
<1>4. CASE HeaderGet
  BY <1>4, HeaderGetStep
<1>5. CASE HeaderRow
  BY <1>5, HeaderRowStep
<1>6. CASE HeaderEnd
  BY <1>6, HeaderEndStep
<1>7. CASE CallStep
  BY <1>7, InsertingStep, GettingStep DEF CallStep
<1>8. CASE UNCHANGED vars
  <2>1. UNCHANGED listVars /\ UNCHANGED <<at, shown, page>>
    BY <1>8 DEF vars
  <2>2. /\ ListTypeOK' /\ ~fault' /\ Stage(Webmon, Chain)' /\ Contents' = Contents
        /\ UNCHANGED <<count, call>>
    BY <2>1, ListAlone
  <2>3. TypeOK'
    BY <2>1, <2>2 DEF TypeOK, Inv
  <2>4. InTheList' /\ Lengths' /\ Listing'
    BY <2>1, <2>2 DEF InTheList, Lengths, Listing, Inv, Idle, Shows
  <2>5. DropsLate
    BY <2>2 DEF DropsLate, Inv, TypeOK, ListTypeOK
  <2> QED
    BY <2>1, <2>2, <2>3, <2>4, <2>5 DEF Inv, KeepsOrder
<1> QED
  BY <1>1, <1>2, <1>3, <1>4, <1>5, <1>6, <1>7, <1>8 DEF Next

(* webmon is where it should be in a list that is one, of at most
   GRAPH_HISTORY_LEN + 1 samples (webmon.c:101-107, singlyLinkedList.c:76-136). *)
THEOREM HistoryCorrect == Spec => []Inv
<1>1. Init => Inv
  BY InitInv
<1>2. Inv /\ [Next]_vars => Inv'
  BY NextKeeps
<1> QED
  BY <1>1, <1>2, PTL DEF Spec

(* Removing the head never breaks the list, although LLRemoveHead leaves tail
   alone, and no freed node is read (singlyLinkedList.c:97-135). *)
THEOREM HistoryIsNeverBroken == Spec => []NeverBroken
<1>1. Inv => NeverBroken
  <2> SUFFICES ASSUME Inv
               PROVE  NeverBroken
    OBVIOUS
  <2>1. ~fault
    BY DEF Inv, InTheList
  <2>2. WellFormed
    <3> SUFFICES ASSUME Quiescent
                 PROVE  WellFormed
      BY DEF WellFormed
    <3>1. Idle(Webmon) \/ call[Webmon].pc = "walk"
      BY OnlyWebmon DEF Quiescent, Idle
    <3>2. PICK s : s = Chain
      OBVIOUS
    <3>3. Whole(s)
      BY <3>1, <3>2, CountIsLength
    <3> QED
      BY <3>3, WholeIsWellFormed
  <2> QED
    BY <2>1, <2>2 DEF NeverBroken
<1> QED
  BY <1>1, HistoryCorrect, PTL

(* The graph has the last samples: none is dropped from a short list, and the
   list does not grow beyond (webmon.c:101). *)
THEOREM TheLastAreKept == Spec => KeepsTheLast
<1>1. Inv /\ Inv' /\ [Next]_vars
        => [/\ count' <= GRAPH_HISTORY_LEN + 1
            /\ count' < count => count = GRAPH_HISTORY_LEN + 1]_vars
  <2> SUFFICES ASSUME Inv, Inv', [Next]_vars
               PROVE  /\ count' <= GRAPH_HISTORY_LEN + 1
                      /\ count' < count => count = GRAPH_HISTORY_LEN + 1
    OBVIOUS
  <2>1. count' <= GRAPH_HISTORY_LEN + 1
    BY DEF Inv, Lengths
  <2>2. DropsLate
    BY NextKeeps
  <2> QED
    BY <2>1, <2>2 DEF DropsLate
<1> QED
  BY <1>1, HistoryCorrect, PTL DEF Spec, KeepsTheLast

(* The list, node by node, is a record of the samples, and every page shows the
   whole of it (webmon.c:99-107,135-139). *)
THEOREM HistoryImplementsRecords == Spec => ImplementsRecords
<1>1. Init => Samples!Init
  <2> SUFFICES ASSUME Init
               PROVE  Samples!Init
    OBVIOUS
  <2>1. Contents = <<>> /\ page = <<>>
    BY InitInv DEF Init
  <2> QED
    BY <2>1 DEF Samples!Init
<1>2. Inv /\ [Next]_vars => [Samples!Next]_(Samples!vars)
  <2> SUFFICES ASSUME Inv, [Next]_vars
               PROVE  [Samples!Next]_(Samples!vars)
    OBVIOUS
  <2>1. KeepsOrder
    BY NextKeeps
  <2>2. CASE Contents' = Contents /\ page' = page
    BY <2>2 DEF Samples!vars
  <2>3. CASE \E d \in Items : Contents' = Append(Contents, d) /\ page' = page
    <3>1. PICK d \in Items : Contents' = Append(Contents, d) /\ page' = page
      BY <2>3
    <3>2. Samples!Add(d)
      BY <3>1 DEF Samples!Add
    <3> QED
      BY <3>2 DEF Samples!Next
  <2>4. CASE Contents # <<>> /\ Contents' = Tail(Contents) /\ page' = page
    <3>1. Samples!Forget
      BY <2>4 DEF Samples!Forget
    <3> QED
      BY <3>1 DEF Samples!Next
  <2>5. CASE Contents' = Contents /\ page' = Contents
    <3>1. Samples!Show(Webmon)
      BY <2>5 DEF Samples!Show
    <3> QED
      BY <3>1 DEF Samples!Next
  <2> QED
    BY <2>1, <2>2, <2>3, <2>4, <2>5 DEF KeepsOrder
<1> QED
  BY <1>1, <1>2, HistoryCorrect, PTL DEF Spec, ImplementsRecords, Samples!Spec
=============================================================================
