---------------------------- MODULE LogQueryProofs ----------------------------
(***************************************************************************)
(* A query returns the item it was asked for unless a thread with another  *)
(* mutex, or with none, calls strtok meanwhile: the mutex of the log file  *)
(* keeps strtok's position among the threads that log to it.               *)
(***************************************************************************)
EXTENDS LogQuery, TLAPS

(* A thread that is not idle holds its file's mutex, if it has one. *)
AskedUnderLock ==
  \A t \in Readers :
    pc[t] # "idle" /\ LogOf[t] # NoFile => holder[LogOf[t]] = t

(* Where a query is in its line: it has seen the items before curCol, and the
   position, or what was loaded of it, is at item curCol of its own line. *)
InItsLine(t) ==
  /\ asked[t][1] < ROWS
  /\ curCol[t] <= asked[t][2] /\ curCol[t] <= COLUMNS
  /\ position = ItemAt(t, curCol[t])

Undisturbed(t) ==
  /\ pc[t] # "fault"
  /\ pc[t] = "first" => asked[t][1] < ROWS
  /\ pc[t] = "load" => InItsLine(t)
  /\ pc[t] = "next" => InItsLine(t) /\ loaded[t] = position
  /\ pc[t] = "copy" =>
       /\ asked[t][1] < ROWS /\ asked[t][2] < COLUMNS
       /\ token[t] = ItemAt(t, asked[t][2])
  /\ pc[t] = "return" => result[t] = ItemAsked(t)

(* A query starts from its first column. *)
Fresh(t) ==
  pc[t] \in {"idle", "lock", "return", "getline", "first"} => curCol[t] = 0

(* A query that was not disturbed is on its way to its item. *)
Progress(t) == t \notin disturbed => Undisturbed(t)

QueryInv ==
  /\ TypeOK /\ AskedUnderLock
  /\ \A t \in Readers : Fresh(t) /\ Progress(t)

-----------------------------------------------------------------------------
(* A pointer is one into a line of a thread, NULL, or wild. *)
LEMMA PointerTypes ==
  /\ \A t \in Threads, i \in 0..COLUMNS : ItemAt(t, i) \in Pointers
  /\ NullPtr \in Pointers /\ Wild \in Pointers
  /\ \A ptr \in Pointers, t \in Threads : AfterFree(ptr, t) \in Pointers
  /\ \A ptr \in Pointers :
       ptr.of \in Threads => ptr = ItemAt(ptr.of, ptr.item) /\ ptr.item \in 0..COLUMNS
  BY ReadersAssumption
     DEF ReadersAssumption, Threads, Pointers, ItemAt, NullPtr, Wild, AfterFree

(* Every variable keeps its type when t returns from a query; *)
LEMMA ReturnTypes ==
  ASSUME TypeOK, NEW t \in Readers, NEW r \in Pointers, NEW ptr \in Pointers,
         FreeAndReturn(t, r, ptr),
         UNCHANGED <<holder, asked, command>>, disturbed' \subseteq Readers
  PROVE  TypeOK'
  BY PointerTypes, FilesAssumption
     DEF FilesAssumption, Threads, TypeOK, FreeAndReturn, Goto, Labels

(* when it has seen an item, wherever the position is left; *)
LEMMA SeenTypes ==
  ASSUME TypeOK, NEW t \in Readers, NEW item \in Pointers, Seen(t, item),
         pc[t] \in {"first", "next"},
         position' \in Pointers, UNCHANGED <<holder, asked, loaded, result, prompt>>,
         disturbed' \subseteq Readers
  PROVE  TypeOK'
  BY DEF TypeOK, Seen, Goto, Labels, prompt

(* The command thread keeps every type; *)
LEMMA CommandTypes ==
  ASSUME TypeOK, CommandStep
  PROVE  TypeOK'
<1>1. Command \in Threads /\ \A c \in 1..COLUMNS : c \in 0..COLUMNS
  BY DEF Threads
<1>2. CASE TypeLine
  <2>1. position' \in Pointers
    BY <1>1, <1>2, PointerTypes DEF TypeLine
  <2> QED
    BY <1>2, <2>1 DEF TypeOK, TypeLine, StrtokTyped
<1>3. CASE LoadTyped
  BY <1>3 DEF TypeOK, LoadTyped
<1>4. CASE SplitTyped
  <2>1. held \in Pointers
    BY DEF TypeOK
  <2>2. held.of \in Threads => held = ItemAt(held.of, held.item) /\ held.item \in 0..COLUMNS
    BY <2>1, PointerTypes
  <2>3. position' \in Pointers
    <3>1. CASE held.of \in Threads /\ held.item < COLUMNS
      <4>1. held.item + 1 \in 0..COLUMNS /\ COLUMNS \in 0..COLUMNS
        BY <2>2, <3>1, FilesAssumption
      <4>2. \/ position' = ItemAt(held.of, held.item + 1)
            \/ position' = ItemAt(held.of, COLUMNS)
            \/ position' = held \/ position' = Wild
        BY <1>4 DEF SplitTyped
      <4> QED
        BY <2>1, <3>1, <4>1, <4>2, PointerTypes
    <3>2. CASE ~(held.of \in Threads /\ held.item < COLUMNS)
      BY <1>4, <2>1, <3>2, PointerTypes DEF SplitTyped
    <3> QED
      BY <3>1, <3>2
  <2>4. command' \in {"prompt", "typed", "next", "fault"} /\ held' \in Pointers
    BY <1>4, PointerTypes DEF SplitTyped
  <2> QED
    BY <1>4, <2>3, <2>4 DEF TypeOK, SplitTyped, StrtokTyped
<1>5. CASE FreeTyped
  BY <1>1, <1>5, PointerTypes DEF TypeOK, FreeTyped
<1> QED
  BY <1>2, <1>3, <1>4, <1>5 DEF CommandStep

(* and in every step. *)
LEMMA TypeStep ==
  ASSUME TypeOK, [Next]_vars
  PROVE  TypeOK'
<1> USE FilesAssumption DEF FilesAssumption
<1>1. CASE UNCHANGED vars
  BY <1>1 DEF TypeOK, vars
<1>3. CASE CommandStep
  BY <1>3, CommandTypes
<1>2. ASSUME NEW t \in Readers, Step(t)
      PROVE  TypeOK'
  <2>0. Strtok(t) => disturbed' \subseteq Readers
    BY DEF TypeOK, Strtok, Disturbs
  <2>1. CASE Lock(t)
    BY <2>1 DEF TypeOK, Lock, Goto, Labels, prompt
  <2>10. CASE LoadPosition(t)
    BY <2>10 DEF TypeOK, LoadPosition, Goto, Labels, prompt
  <2>9. CASE Unlock(t)
    <3>1. <<0, 0>> \in Nat \X Nat /\ NullPtr \in Pointers
      BY PointerTypes
    <3>2. pc[t] = "return" /\ pc' = [pc EXCEPT ![t] = "idle"]
      BY <2>9 DEF Unlock, Goto
    <3> QED
      BY <2>9, <3>1, <3>2 DEF TypeOK, Unlock, Labels, prompt
  <2>2. CASE Query(t)
    BY <2>2, PointerTypes DEF TypeOK, Query, Goto, Labels, prompt
  <2>3. CASE GetLine(t)
    <3>1. CASE asked[t][1] < ROWS
      BY <2>3, <3>1 DEF TypeOK, GetLine, Goto, Labels
    <3>2. CASE ~(asked[t][1] < ROWS)
      BY <2>3, <3>2, PointerTypes, ReturnTypes DEF GetLine, TypeOK
    <3> QED
      BY <3>1, <3>2
  <2>4. CASE SplitFirst(t)
    <3>1. 0 \in 0..COLUMNS /\ 1 \in 0..COLUMNS /\ t \in Threads
      BY DEF Threads
    <3> QED
      BY <2>0, <2>4, <3>1, PointerTypes, SeenTypes DEF SplitFirst
  <2>5. CASE SplitNext(t)
    <3>1. loaded[t] \in Pointers /\ loaded[t].of \in Threads
          /\ loaded[t].item \in 0..COLUMNS /\ loaded[t].item < COLUMNS
      BY <2>5, PointerTypes DEF SplitNext, TypeOK
    <3>2. loaded[t].item + 1 \in 0..COLUMNS /\ COLUMNS \in 0..COLUMNS
      BY <3>1
    <3>3. position' \in Pointers
      BY <2>5, <3>1, <3>2, PointerTypes DEF SplitNext
    <3> QED
      BY <2>0, <2>5, <3>1, <3>3, SeenTypes DEF SplitNext
  <2>6. CASE SplitEnd(t)
    BY <2>0, <2>6, PointerTypes, ReturnTypes DEF SplitEnd, TypeOK
  <2>7. CASE SplitFreed(t)
    <3>1. CASE Seen(t, Wild) /\ position' = Wild /\ UNCHANGED <<loaded, result, held>>
      BY <2>0, <2>7, <3>1, PointerTypes, SeenTypes DEF SplitFreed, prompt
    <3>2. CASE FreeAndReturn(t, NullPtr, Wild)
      BY <2>0, <2>7, <3>2, PointerTypes, ReturnTypes DEF SplitFreed
    <3>3. CASE Goto(t, "fault") /\ UNCHANGED <<curCol, position, loaded, token, result, held>>
      BY <2>0, <2>7, <3>3 DEF SplitFreed, TypeOK, Goto, Labels
    <3> QED
      BY <2>7, <3>1, <3>2, <3>3 DEF SplitFreed
  <2>8. CASE CopyItem(t)
    <3>1. CASE FreeAndReturn(t, token[t], position)
      BY <2>8, <3>1, ReturnTypes DEF CopyItem, TypeOK
    <3>2. CASE Goto(t, "fault") /\ UNCHANGED <<curCol, position, loaded, token, result, held>>
      BY <2>8, <3>2 DEF CopyItem, TypeOK, Goto, Labels
    <3> QED
      BY <2>8, <3>1, <3>2 DEF CopyItem
  <2> QED
    BY <1>2, <2>1, <2>2, <2>3, <2>4, <2>5, <2>6, <2>7, <2>8, <2>9, <2>10 DEF Step
<1> QED
  BY <1>1, <1>2, <1>3 DEF Next

(* The types hold at the start. *)
LEMMA TypeInit == Init => TypeOK
  BY PointerTypes, ReadersAssumption, FilesAssumption
     DEF Init, TypeOK, Labels, FilesAssumption, ReadersAssumption

(* The variables of queryFileByLoc keep their types whoever else runs it, and no
   query looks past the column it was asked for. *)
THEOREM QueryTypeCorrect == Spec => []TypeOK
<1> QED
  BY TypeInit, TypeStep, PTL DEF Spec

-----------------------------------------------------------------------------
(* Two threads in a query at once have no mutex in common. *)
LEMMA QueriesApart ==
  ASSUME TypeOK, AskedUnderLock, NEW t \in Readers, NEW u \in Readers \ {t},
         pc[t] # "idle", pc[u] # "idle"
  PROVE  LogOf[u] = NoFile \/ LogOf[u] # LogOf[t]
  BY DEF AskedUnderLock

(* The steps that are no step of the mutex. *)
LEMMA StepUnderLock ==
  ASSUME TypeOK, NEW t \in Readers, Step(t), ~Lock(t), ~Unlock(t)
  PROVE  /\ holder' = holder /\ pc[t] # "idle"
         /\ \A u \in Readers \ {t} : pc'[u] = pc[u]
  BY DEF Step, Query, GetLine, SplitFirst, LoadPosition, SplitNext, SplitEnd,
         SplitFreed, CopyItem, FreeAndReturn, Seen, Goto, TypeOK

(* The mutex is held from Lock to Unlock. *)
LEMMA LockStep ==
  ASSUME TypeOK, AskedUnderLock, NEW t \in Readers, Step(t)
  PROVE  AskedUnderLock'
<1> USE ReadersAssumption DEF ReadersAssumption
<1>1. CASE Lock(t)
  <2>1. ASSUME NEW u \in Readers \ {t}, pc[u] # "idle", LogOf[u] # NoFile
        PROVE  holder'[LogOf[u]] = u
    <3>1. holder[LogOf[u]] = u /\ LogOf[u] \in LogFiles
      BY <2>1 DEF AskedUnderLock
    <3>2. LogOf[u] # LogOf[t]
      BY <1>1, <2>1, <3>1 DEF Lock
    <3> QED
      BY <1>1, <3>1, <3>2 DEF Lock
  <2>2. LogOf[t] # NoFile => holder'[LogOf[t]] = t
    BY <1>1 DEF Lock
  <2>3. \A u \in Readers \ {t} : pc'[u] = pc[u]
    BY <1>1 DEF Lock, Goto, TypeOK
  <2> QED
    BY <2>1, <2>2, <2>3 DEF AskedUnderLock
<1>2. CASE Unlock(t)
  <2>1. ASSUME NEW u \in Readers \ {t}, pc[u] # "idle", LogOf[u] # NoFile
        PROVE  holder'[LogOf[u]] = u
    <3>1. LogOf[u] # LogOf[t] /\ holder[LogOf[u]] = u /\ LogOf[u] \in LogFiles
      BY <1>2, <2>1, QueriesApart DEF Unlock, AskedUnderLock
    <3> QED
      BY <1>2, <3>1 DEF Unlock
  <2>2. pc'[t] = "idle" /\ \A u \in Readers \ {t} : pc'[u] = pc[u]
    BY <1>2 DEF Unlock, Goto, TypeOK
  <2> QED
    BY <2>1, <2>2 DEF AskedUnderLock
<1>3. CASE ~Lock(t) /\ ~Unlock(t)
  <2>1. holder' = holder /\ pc[t] # "idle" /\ \A u \in Readers \ {t} : pc'[u] = pc[u]
    BY <1>3, StepUnderLock
  <2> QED
    BY <2>1 DEF AskedUnderLock
<1> QED
  BY <1>1, <1>2, <1>3

(* A thread does not disturb its own query, which is new after Query and gone after
   Unlock. *)
LEMMA OwnSteps ==
  ASSUME TypeOK, NEW t \in Readers, Step(t)
  PROVE  t \in disturbed' <=> t \in disturbed /\ ~Query(t) /\ ~Unlock(t)
  BY DEF Step, Lock, Query, Unlock, GetLine, SplitFirst, LoadPosition, SplitNext,
         SplitEnd, SplitFreed, CopyItem, FreeAndReturn, Seen, Goto, Strtok,
         Disturbs, InQuery, TypeOK

(* A step of t is progress of t: *)
LEMMA OwnProgress ==
  ASSUME TypeOK, NEW t \in Readers, Fresh(t), Undisturbed(t), Step(t), ~Query(t)
  PROVE  Undisturbed(t)'
<1> USE FilesAssumption DEF FilesAssumption
<1> DEFINE row == asked[t][1]
           col == asked[t][2]
<1>0. row \in Nat /\ col \in Nat /\ curCol[t] \in Nat
  BY DEF TypeOK
<1>1. CASE Lock(t) \/ Unlock(t)
  BY <1>1 DEF Undisturbed, Lock, Unlock, Goto, TypeOK
<1>2. CASE GetLine(t)
  BY <1>2 DEF Undisturbed, GetLine, FreeAndReturn, Goto, TypeOK, ItemAsked
<1>3. CASE SplitFirst(t)
  <2>1. curCol[t] = 0 /\ row < ROWS
    BY <1>3 DEF SplitFirst, Fresh, Undisturbed
  <2> QED
    BY <1>0, <1>3, <2>1
       DEF SplitFirst, Undisturbed, Seen, Goto, TypeOK, InItsLine, ItemAt
<1>4. CASE LoadPosition(t)
  BY <1>4 DEF Undisturbed, LoadPosition, Goto, TypeOK, InItsLine
<1>5. CASE SplitNext(t)
  <2>1. InItsLine(t) /\ loaded[t] = ItemAt(t, curCol[t]) /\ position = loaded[t]
        /\ curCol[t] < COLUMNS
    BY <1>5 DEF SplitNext, Undisturbed, InItsLine, ItemAt
  <2>2. position' = ItemAt(t, curCol[t] + 1) /\ Seen(t, ItemAt(t, curCol[t]))
    BY <1>5, <2>1 DEF SplitNext, ItemAt
  <2>3. asked' = asked
    BY <1>5 DEF SplitNext
  <2>4. curCol'[t] = curCol[t] + 1 /\ token'[t] = ItemAt(t, curCol[t])
        /\ pc'[t] = IF curCol[t] < col THEN "load" ELSE "copy"
    BY <2>2 DEF Seen, Goto, TypeOK
  <2>5. row < ROWS /\ curCol[t] <= col
    BY <2>1 DEF InItsLine
  <2>6. CASE curCol[t] < col
    BY <1>0, <2>1, <2>2, <2>3, <2>4, <2>5, <2>6 DEF Undisturbed, InItsLine
  <2>7. CASE curCol[t] = col
    BY <1>0, <2>1, <2>3, <2>4, <2>5, <2>7 DEF Undisturbed
  <2> QED
    BY <1>0, <2>5, <2>6, <2>7
<1>6. CASE SplitEnd(t)
  <2>1. col >= COLUMNS
    BY <1>0, <1>6 DEF SplitEnd, Undisturbed, InItsLine, ItemAt
  <2> QED
    BY <1>0, <1>6, <2>1 DEF SplitEnd, Undisturbed, FreeAndReturn, Goto, TypeOK, ItemAsked
<1>7. CASE SplitFreed(t)
  <2>1. loaded[t].of = t /\ loaded[t].of = Null
    BY <1>7 DEF SplitFreed, Undisturbed, InItsLine, ItemAt, Wild
  <2> QED
    BY <2>1, ReadersAssumption DEF ReadersAssumption
<1>8. CASE CopyItem(t)
  <2>1. token[t] = ItemAt(t, col) /\ token[t].of = t /\ row < ROWS /\ col < COLUMNS
    BY <1>8 DEF CopyItem, Undisturbed, ItemAt
  <2>2. token[t] # Wild
    BY <2>1, ReadersAssumption DEF ReadersAssumption, Wild, ItemAt
  <2>3. FreeAndReturn(t, token[t], position) /\ asked' = asked
    BY <1>8, <2>2 DEF CopyItem
  <2> QED
    BY <2>1, <2>3 DEF Undisturbed, FreeAndReturn, Goto, TypeOK, ItemAsked
<1> QED
  BY <1>1, <1>2, <1>3, <1>4, <1>5, <1>6, <1>7, <1>8 DEF Step

(* and Query begins a query that nobody has disturbed, Unlock leaves none. *)
LEMMA QueryBegins ==
  ASSUME TypeOK, NEW t \in Readers, Query(t) \/ Unlock(t)
  PROVE  Undisturbed(t)'
  BY DEF Undisturbed, Query, Unlock, Goto, TypeOK

(* A thread's own step leaves its query at the first column until a column is read. *)
LEMMA FreshStep ==
  ASSUME TypeOK, NEW t \in Readers, Fresh(t), Step(t)
  PROVE  Fresh(t)'
  BY DEF Fresh, Step, Lock, Query, Unlock, GetLine, SplitFirst, LoadPosition,
         SplitNext, SplitEnd, SplitFreed, CopyItem, FreeAndReturn, Seen, Goto,
         TypeOK

(* A thread that keeps its mutex, or calls no strtok, leaves the queries of the
   others alone. *)
LEMMA OthersProgress ==
  ASSUME TypeOK, AskedUnderLock, NEW t \in Readers, Step(t),
         NEW u \in Readers \ {t}, Fresh(u), Progress(u)
  PROVE  Fresh(u)' /\ Progress(u)'
<1>1. pc'[u] = pc[u] /\ curCol'[u] = curCol[u] /\ asked'[u] = asked[u]
      /\ result'[u] = result[u]
  BY DEF Step, Lock, Query, Unlock, GetLine, SplitFirst, LoadPosition, SplitNext,
         SplitEnd, SplitFreed, CopyItem, FreeAndReturn, Seen, Goto, TypeOK
<1>2. u \in disturbed => u \in disturbed'
  BY DEF Step, Lock, Query, Unlock, GetLine, SplitFirst, LoadPosition, SplitNext,
         SplitEnd, SplitFreed, CopyItem, FreeAndReturn, Seen, Goto, Strtok, TypeOK
<1>3. Fresh(u)'
  BY <1>1 DEF Fresh
<1> SUFFICES Progress(u)'
  BY <1>3
<1>4. CASE pc[u] \in {"idle", "lock", "return", "getline", "first"}
  BY <1>1, <1>2, <1>4 DEF Progress, Undisturbed, ItemAsked
<1>5. CASE pc[u] \in {"load", "next", "copy"} /\ u \notin disturbed'
  <2>1. Undisturbed(u) /\ pc[u] # "idle"
    BY <1>2, <1>5 DEF Progress
  <2>2. CASE Lock(t) \/ Query(t) \/ Unlock(t) \/ LoadPosition(t)
    <3>1. position' = position /\ loaded'[u] = loaded[u] /\ token'[u] = token[u]
      BY <2>2 DEF Lock, Query, Unlock, LoadPosition, TypeOK
    <3> QED
      BY <1>1, <1>5, <2>1, <3>1 DEF Progress, Undisturbed, InItsLine, ItemAsked
  <2>3. CASE GetLine(t) \/ CopyItem(t)
    <3>1. \/ position' = position /\ loaded'[u] = loaded[u] /\ token'[u] = token[u]
          \/ /\ position' = AfterFree(position, t)
             /\ loaded'[u] = AfterFree(loaded[u], t)
             /\ token'[u] = AfterFree(token[u], t)
      BY <2>3 DEF GetLine, CopyItem, FreeAndReturn
    <3>2. \A i : AfterFree(ItemAt(u, i), t) = ItemAt(u, i)
      BY DEF AfterFree, ItemAt
    <3> QED
      BY <1>1, <1>5, <2>1, <3>1, <3>2 DEF Progress, Undisturbed, InItsLine, ItemAsked
  <2>4. CASE SplitFirst(t) \/ SplitNext(t) \/ SplitEnd(t) \/ SplitFreed(t)
    <3>1. pc[t] # "idle" /\ (Disturbs(t, u) => u \in disturbed')
      BY <2>4 DEF SplitFirst, SplitNext, SplitEnd, SplitFreed, Strtok
    <3>2. Disturbs(t, u)
      BY <1>5, <2>1, <3>1, QueriesApart DEF Disturbs, InQuery
    <3> QED
      BY <1>5, <3>1, <3>2
  <2> QED
    BY <2>2, <2>3, <2>4 DEF Step
<1>6. CASE pc[u] = "fault"
  BY <1>2, <1>6 DEF Progress, Undisturbed
<1>7. CASE u \in disturbed'
  BY <1>7 DEF Progress
<1>8. pc[u] \in Labels
  BY DEF TypeOK
<1> QED
  BY <1>4, <1>5, <1>6, <1>7, <1>8 DEF Labels

(* Nor does the command thread disturb a query without calling strtok in it. *)
LEMMA CommandProgress ==
  ASSUME TypeOK, CommandStep, NEW u \in Readers, Fresh(u), Progress(u)
  PROVE  Fresh(u)' /\ Progress(u)'
<1>1. pc' = pc /\ curCol' = curCol /\ asked' = asked /\ result' = result
      /\ disturbed \subseteq disturbed'
  BY DEF CommandStep, TypeLine, LoadTyped, SplitTyped, FreeTyped, StrtokTyped
<1>2. Fresh(u)'
  BY <1>1 DEF Fresh
<1>3. CASE TypeLine \/ SplitTyped
  <2>1. InQuery(u) => u \in disturbed'
    BY <1>3 DEF TypeLine, SplitTyped, StrtokTyped
  <2> QED
    BY <1>1, <1>2, <2>1 DEF Progress, Undisturbed, InQuery, ItemAsked
<1>4. CASE LoadTyped
  BY <1>1, <1>2, <1>4 DEF LoadTyped, Progress, Undisturbed, InItsLine, ItemAsked
<1>5. CASE FreeTyped
  <2>1. \A i : AfterFree(ItemAt(u, i), Command) = ItemAt(u, i)
    BY ReadersAssumption DEF AfterFree, ItemAt
  <2>2. /\ position' = AfterFree(position, Command)
        /\ loaded'[u] = AfterFree(loaded[u], Command)
        /\ token'[u] = AfterFree(token[u], Command)
    BY <1>5 DEF FreeTyped
  <2> QED
    BY <1>1, <1>2, <2>1, <2>2 DEF Progress, Undisturbed, InItsLine, ItemAsked
<1> QED
  BY <1>3, <1>4, <1>5 DEF CommandStep

(* Whoever takes a step, the invariant of the queries is kept. *)
LEMMA QueryStep ==
  ASSUME QueryInv, [Next]_vars
  PROVE  QueryInv'
<1>1. CASE UNCHANGED vars
  BY <1>1 DEF QueryInv, TypeOK, AskedUnderLock, Fresh, Progress, Undisturbed,
              InItsLine, ItemAsked, vars
<1>2. ASSUME ~Faulted, NEW t \in Readers, Step(t)
      PROVE  QueryInv'
  <2>1. TypeOK /\ AskedUnderLock /\ Fresh(t) /\ Progress(t)
    BY DEF QueryInv
  <2>2. TypeOK' /\ AskedUnderLock' /\ Fresh(t)'
    BY <1>2, <2>1, LockStep, TypeStep, FreshStep
  <2>3. Progress(t)'
    BY <1>2, <2>1, OwnSteps, OwnProgress, QueryBegins DEF Progress
  <2>4. \A u \in Readers \ {t} : Fresh(u)' /\ Progress(u)'
    BY <1>2, <2>1, OthersProgress DEF QueryInv
  <2> QED
    BY <2>2, <2>3, <2>4 DEF QueryInv
<1>3. CASE CommandStep
  <2>1. TypeOK /\ AskedUnderLock /\ \A u \in Readers : Fresh(u) /\ Progress(u)
    BY DEF QueryInv
  <2>2. pc' = pc /\ holder' = holder
    BY <1>3 DEF CommandStep, TypeLine, LoadTyped, SplitTyped, FreeTyped
  <2>3. TypeOK' /\ AskedUnderLock'
    BY <1>3, <2>1, <2>2, CommandTypes DEF AskedUnderLock
  <2>4. \A u \in Readers : Fresh(u)' /\ Progress(u)'
    BY <1>3, <2>1, CommandProgress
  <2> QED
    BY <2>3, <2>4 DEF QueryInv
<1> QED
  BY <1>1, <1>2, <1>3 DEF Next

(* For all threads and all log files: a query returns the item at the row and
   column it was asked for (logLibrary.c:17), and runs into no freed memory,
   unless a thread that logs to another file, webmon or the command thread calls
   strtok meanwhile. *)
THEOREM QueriedItemIsRight == Spec => []RightItem
<1>1. Init => QueryInv
  BY TypeInit, ReadersAssumption
     DEF Init, QueryInv, AskedUnderLock, Fresh, Progress, Undisturbed,
         ReadersAssumption
<1>2. QueryInv /\ [Next]_vars => QueryInv'
  BY QueryStep
<1>3. QueryInv => RightItem
  BY DEF QueryInv, Progress, Undisturbed, RightItem
<1> QED
  BY <1>1, <1>2, <1>3, PTL DEF Spec

(* Where all threads log to one file, only a line typed at the prompt can take a
   query's place in its line away: no step disturbs a query but one of the command
   thread, whose strtok no mutex keeps apart (mond.c:117-339, logLibrary.c:56). *)
THEOREM OneLogLeavesThePrompt ==
  ASSUME NEW f \in LogFiles, \A t \in Readers : LogOf[t] = f
  PROVE  Spec => [][disturbed' \subseteq disturbed \/ CommandStep]_vars
<1>1. Init => QueryInv
  BY TypeInit, ReadersAssumption
     DEF Init, QueryInv, AskedUnderLock, Fresh, Progress, Undisturbed,
         ReadersAssumption
<1>2. QueryInv /\ [Next]_vars => QueryInv'
  BY QueryStep
<1>3. QueryInv /\ [Next]_vars => [disturbed' \subseteq disturbed \/ CommandStep]_vars
  <2> SUFFICES ASSUME QueryInv, NEW t \in Readers, Step(t)
               PROVE  disturbed' \subseteq disturbed
    BY DEF Next, vars
  <2>1. pc[t] # "idle" => \A u \in Readers : ~Disturbs(t, u)
    BY QueriesApart, ReadersAssumption DEF QueryInv, Disturbs, InQuery, ReadersAssumption
  <2> QED
    BY <2>1 DEF QueryInv, Step, Lock, Query, Unlock, GetLine, SplitFirst,
           LoadPosition, SplitNext, SplitEnd, SplitFreed, CopyItem, Strtok, TypeOK
<1> QED
  BY <1>1, <1>2, <1>3, PTL DEF Spec
=============================================================================
