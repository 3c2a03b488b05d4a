--------------------------- MODULE DescriptorsProofs ---------------------------
(***************************************************************************)
(* Nobody closes the descriptor of another, every descriptor is accounted  *)
(* for, and with as many as all need nothing fails for want of one: proved *)
(* for any number of monitors, log files and starts.                       *)
(***************************************************************************)
EXTENDS Descriptors, FiniteSetTheorems, FunctionTheorems, TLAPS

Owners == Threads \cup {Webmon} \cup LogFiles

Owned(o) == {d \in Fds : openBy[d] = o}

TypeOK ==
  /\ limit \in Nat
  /\ openBy \in [Fds -> Owners \cup {Nobody}]
  /\ pc \in [Threads \cup {Webmon} -> Labels]
  /\ fds \in [Monitors \cup {Webmon} -> [Variables -> Fds \cup {NoFd}]]
  /\ logFd \in [LogFiles -> Fds \cup {NoFd}]
  /\ gone \in [Monitors -> BOOLEAN]
  /\ starts \in [Threads -> 0..STARTS]
  /\ ended \in [Monitors -> {"RUNNING", "EXITED", "STOPPED"}]
  /\ opened \in Nat
  /\ wrong \in BOOLEAN
  /\ up \in BOOLEAN

(* Each kind of thread has labels of its own. *)
LabelsOK ==
  /\ \A t \in Monitors : pc[t] # "open"
  /\ pc[System] \in {"off", "open", "check"}
  /\ pc[Webmon] # "open"

(* A descriptor in use is its user's: the variables are read only while they
   hold what their thread opened, *)
Uses(t) ==
  /\ pc[t] \in {"second", "use"} => fds[t]["first"] \in Owned(t)
  /\ pc[t] = "use" => /\ fds[t]["second"] \in Owned(t)
                      /\ fds[t]["second"] # fds[t]["first"]
  /\ t = Webmon /\ pc[t] = "check" => fds[t]["first"] \in Owned(t)

(* and a log file's descriptor is the file's. *)
UsesItsOwn ==
  /\ \A t \in Monitors \cup {Webmon} : Uses(t)
  /\ \A f \in LogFiles : logFd[f] # NoFd => logFd[f] \in Owned(f)

(* Whoever runs has its log file open. *)
LogIsOpen == \A t \in Threads : pc[t] # "off" => logFd[LogOf[t]] # NoFd

(* How far the system thread is with its files. *)
SystemFiles ==
  /\ pc[System] # "off" => starts[System] > 0
  /\ pc[System] = "open" => opened < SYSTEM_FILES
  /\ pc[System] # "open" /\ starts[System] > 0 => opened = SYSTEM_FILES
  /\ starts[System] = 0 => Has(System) = 0

RunsStarted == \A t \in Monitors : pc[t] # "off" => starts[t] > 0

Places == TypeOK /\ LabelsOK /\ UsesItsOwn /\ LogIsOpen

Counts == SystemFiles /\ RunsStarted /\ Accounted

-----------------------------------------------------------------------------
(* What the assumption says of the owners. *)
LEMMA OwnersApart ==
  /\ System \in Threads /\ Monitors \subseteq Threads
  /\ System \notin Monitors /\ Webmon \notin Threads
  /\ Nobody \notin Owners
  /\ \A t \in Threads : LogOf[t] \in LogFiles
  /\ \A f \in LogFiles : f \notin Threads /\ f # Webmon
BY DescriptorsAssumption DEF Threads, Owners

(* A new descriptor was nobody's. *)
LEMMA LowestIsFree ==
  ASSUME NEW d, Lowest(d)
  PROVE  d \in Fds /\ openBy[d] = Nobody
BY DEF Lowest, Free

-----------------------------------------------------------------------------
(* Types.                                                                   *)

(* Closing leaves the table of the descriptors one. *)
LEMMA CloseType ==
  ASSUME NEW t, NEW ds, limit' = limit, limit \in Nat,
         openBy \in [Fds -> Owners \cup {Nobody}], wrong \in BOOLEAN,
         Close(t, ds)
  PROVE  /\ openBy' \in [Fds' -> (Owners \cup {Nobody})]
         /\ wrong' \in BOOLEAN
BY DEF Close, Fds

(* The last monitor of a log file closes it. *)
LEMMA LeaveLogType ==
  ASSUME TypeOK, NEW t \in Threads, limit' = limit, LeaveLog(t)
  PROVE  /\ openBy' \in [Fds' -> (Owners \cup {Nobody})]
         /\ logFd' \in [LogFiles -> (Fds' \cup {NoFd})]
         /\ wrong' \in BOOLEAN
<1> DEFINE f == LogOf[t]
<1>0. f \in LogFiles /\ Fds' = Fds
  BY OwnersApart DEF Fds
<1>1. CASE \E u \in Threads \ {t} : pc[u] # "off" /\ LogOf[u] = f
  BY <1>0, <1>1 DEF LeaveLog, TypeOK
<1>2. CASE ~\E u \in Threads \ {t} : pc[u] # "off" /\ LogOf[u] = f
  <2>1. Close(f, {logFd[f]}) /\ logFd' = [logFd EXCEPT ![f] = NoFd]
    BY <1>2 DEF LeaveLog
  <2>2. logFd' \in [LogFiles -> (Fds' \cup {NoFd})]
    BY <1>0, <2>1 DEF TypeOK
  <2>3. limit \in Nat /\ openBy \in [Fds -> Owners \cup {Nobody}] /\ wrong \in BOOLEAN
    BY DEF TypeOK
  <2> QED
    BY <2>1, <2>2, <2>3, CloseType
<1> QED
  BY <1>1, <1>2

(* Each step keeps the types. *)
LEMMA StartType ==
  ASSUME TypeOK, limit' = limit, NEW t \in Threads, Start(t)
  PROVE  TypeOK'
<1> USE OwnersApart
<1>0. Fds' = Fds
  BY DEF Fds
<1>1. /\ openBy' \in [Fds -> Owners \cup {Nobody}]
      /\ logFd' \in [LogFiles -> Fds \cup {NoFd}]
  <2>1. CASE logFd[LogOf[t]] # NoFd
    BY <2>1 DEF Start, TypeOK
  <2>2. CASE logFd[LogOf[t]] = NoFd
    <3>1. PICK d \in Fds : /\ openBy' = [openBy EXCEPT ![d] = LogOf[t]]
                           /\ logFd' = [logFd EXCEPT ![LogOf[t]] = d]
      BY <2>2 DEF Start
    <3> QED
      BY <3>1 DEF TypeOK, Owners
  <2> QED
    BY <2>1, <2>2
<1>2. pc' \in [Threads \cup {Webmon} -> Labels]
  BY DEF Start, Goto, TypeOK, Labels
<1>3. fds' \in [Monitors \cup {Webmon} -> [Variables -> Fds \cup {NoFd}]]
  <2>1. fds' = [m \in Monitors \cup {Webmon} |->
                 IF m = t THEN [v \in Variables |-> NoFd] ELSE fds[m]]
    BY DEF Start, TypeOK
  <2> QED
    BY <2>1 DEF TypeOK
<1>4. starts' \in [Threads -> 0..STARTS]
  BY DescriptorsAssumption DEF Start, TypeOK
<1>5. opened' \in Nat
  BY DescriptorsAssumption DEF Start, TypeOK
<1>6. gone' \in [Monitors -> BOOLEAN] /\ ended' \in [Monitors -> {"RUNNING", "EXITED", "STOPPED"}]
  BY DEF Start, TypeOK
<1>7. wrong' \in BOOLEAN /\ up' \in BOOLEAN /\ limit' \in Nat
  BY DEF Start, TypeOK
<1> QED
  BY <1>0, <1>1, <1>2, <1>3, <1>4, <1>5, <1>6, <1>7 DEF TypeOK

(* One more descriptor, kept in a variable of the thread. *)
LEMMA OpenInType ==
  ASSUME TypeOK, limit' = limit, NEW t \in Monitors \cup {Webmon}, NEW v \in Variables,
         OpenIn(t, v)
  PROVE  /\ openBy' \in [Fds' -> (Owners \cup {Nobody})]
         /\ fds' \in [Monitors \cup {Webmon} -> [Variables -> (Fds' \cup {NoFd})]]
<1>0. Fds' = Fds
  BY DEF Fds
<1>1. PICK d \in Fds : /\ openBy' = [openBy EXCEPT ![d] = t]
                       /\ fds' = [fds EXCEPT ![t][v] = d]
  BY DEF OpenIn
<1>2. fds' = [fds EXCEPT ![t] = [fds[t] EXCEPT ![v] = d]]
  BY <1>1 DEF TypeOK
<1>3. [fds[t] EXCEPT ![v] = d] \in [Variables -> Fds \cup {NoFd}]
  BY DEF TypeOK
<1> QED
  BY <1>0, <1>1, <1>2, <1>3, OwnersApart DEF TypeOK, Owners, Threads

(* The steps of a monitor. *)
LEMMA MonitorType ==
  ASSUME TypeOK, limit' = limit, up' = up, NEW t \in Monitors, Monitor(t)
  PROVE  TypeOK'
<1> USE OwnersApart
<1>0. Fds' = Fds /\ "first" \in Variables /\ "second" \in Variables
  BY DEF Fds, Variables
<1>1. CASE ProcessEnds(t)
  BY <1>0, <1>1 DEF ProcessEnds, TypeOK
<1>2. CASE OpenStat(t)
  <2>1. pc' \in [Threads \cup {Webmon} -> Labels]
    BY <1>2 DEF OpenStat, Goto, TypeOK, Labels
  <2> QED
    BY <1>0, <1>2, <2>1, OpenInType DEF OpenStat, TypeOK
<1>3. CASE OpenStatm(t)
  <2>1. pc' \in [Threads \cup {Webmon} -> Labels]
    BY <1>3 DEF OpenStatm, Goto, TypeOK, Labels
  <2> QED
    BY <1>0, <1>3, <2>1, OpenInType DEF OpenStatm, TypeOK
<1>4. CASE OpenProcessFails(t)
  <2>1. pc' \in [Threads \cup {Webmon} -> Labels]
    BY <1>4 DEF OpenProcessFails, End, Goto, TypeOK, Labels
  <2>2. fds' \in [Monitors \cup {Webmon} -> [Variables -> Fds \cup {NoFd}]]
    <3>1. /\ pc[t] \in Variables
          /\ fds' = [fds EXCEPT ![t][pc[t]] = NoFd]
      BY <1>4 DEF OpenProcessFails, Variables
    <3>2. fds' = [fds EXCEPT ![t] = [fds[t] EXCEPT ![pc[t]] = NoFd]]
      BY <3>1 DEF TypeOK
    <3>3. [fds[t] EXCEPT ![pc[t]] = NoFd] \in [Variables -> Fds \cup {NoFd}]
      BY <3>1 DEF TypeOK
    <3> QED
      BY <3>2, <3>3 DEF TypeOK
  <2>3. ended' \in [Monitors -> {"RUNNING", "EXITED", "STOPPED"}]
    BY <1>4 DEF OpenProcessFails, End, TypeOK
  <2>4. LeaveLog(t)
    BY <1>4 DEF OpenProcessFails, End
  <2> QED
    BY <1>0, <1>4, <2>1, <2>2, <2>3, <2>4, LeaveLogType DEF OpenProcessFails, TypeOK
<1>5. CASE CloseProcessFiles(t)
  <2>1. pc' \in [Threads \cup {Webmon} -> Labels]
    BY <1>5 DEF CloseProcessFiles, Goto, TypeOK, Labels
  <2>2. Close(t, {fds[t][v] : v \in Variables})
    BY <1>5 DEF CloseProcessFiles
  <2>3. openBy' \in [Fds' -> (Owners \cup {Nobody})] /\ wrong' \in BOOLEAN
    BY <2>2, CloseType DEF TypeOK
  <2> QED
    BY <1>0, <1>5, <2>1, <2>3 DEF CloseProcessFiles, TypeOK
<1>6. CASE Stopped(t)
  <2>1. pc' \in [Threads \cup {Webmon} -> Labels]
    BY <1>6 DEF Stopped, End, Goto, TypeOK, Labels
  <2>2. ended' \in [Monitors -> {"RUNNING", "EXITED", "STOPPED"}]
    BY <1>6 DEF Stopped, End, TypeOK
  <2>3. LeaveLog(t)
    BY <1>6 DEF Stopped, End
  <2> QED
    BY <1>0, <1>6, <2>1, <2>2, <2>3, LeaveLogType DEF Stopped, TypeOK
<1>7. CASE NextRound(t)
  BY <1>0, <1>7 DEF NextRound, Goto, TypeOK, Labels
<1> QED
  BY <1>1, <1>2, <1>3, <1>4, <1>5, <1>6, <1>7 DEF Monitor

(* The steps of the system thread. *)
LEMMA SystemType ==
  ASSUME TypeOK, limit' = limit, OpenSysFile \/ SystemStopped
  PROVE  TypeOK'
<1> USE OwnersApart
<1>0. Fds' = Fds
  BY DEF Fds
<1>1. CASE OpenSysFile
  <2>1. pc' \in [Threads \cup {Webmon} -> Labels]
    BY <1>1 DEF OpenSysFile, Goto, TypeOK, Labels
  <2>2. openBy' \in [Fds -> Owners \cup {Nobody}]
    BY <1>1 DEF OpenSysFile, TypeOK, Owners
  <2> QED
    BY <1>0, <1>1, <2>1, <2>2 DEF OpenSysFile, TypeOK
<1>2. CASE SystemStopped
  <2>1. pc' \in [Threads \cup {Webmon} -> Labels]
    BY <1>2 DEF SystemStopped, Goto, TypeOK, Labels
  <2>2. LeaveLog(System)
    BY <1>2 DEF SystemStopped
  <2> QED
    BY <1>0, <1>2, <2>1, <2>2, LeaveLogType DEF SystemStopped, TypeOK
<1> QED
  BY <1>1, <1>2

(* The steps of webmon. *)
LEMMA WebmonType ==
  ASSUME TypeOK, limit' = limit,
         StartWebmon \/ OpenPage \/ OpenLoad \/ CloseLoad \/ ClosePage
  PROVE  TypeOK'
<1> USE OwnersApart
<1>0. Fds' = Fds /\ "first" \in Variables /\ "second" \in Variables
  BY DEF Fds, Variables
<1>1. pc' \in [Threads \cup {Webmon} -> Labels]
  BY DEF StartWebmon, OpenPage, OpenLoad, CloseLoad, ClosePage, Goto, TypeOK, Labels
<1>2. CASE StartWebmon
  BY <1>0, <1>1, <1>2 DEF StartWebmon, TypeOK
<1>3. CASE OpenPage \/ OpenLoad
  <2>1. \E v \in Variables : OpenIn(Webmon, v)
    BY <1>0, <1>3 DEF OpenPage, OpenLoad
  <2> QED
    BY <1>0, <1>1, <1>3, <2>1, OpenInType DEF OpenPage, OpenLoad, TypeOK
<1>4. CASE CloseLoad \/ ClosePage
  <2>1. \E v \in Variables : Close(Webmon, {fds[Webmon][v]})
    BY <1>0, <1>4 DEF CloseLoad, ClosePage
  <2>2. openBy' \in [Fds' -> (Owners \cup {Nobody})] /\ wrong' \in BOOLEAN
    BY <2>1, CloseType DEF TypeOK
  <2> QED
    BY <1>0, <1>1, <1>4, <2>2 DEF CloseLoad, ClosePage, TypeOK
<1> QED
  BY <1>2, <1>3, <1>4

(* A failed open ends mond and changes nothing else. *)
LEMMA FailureType ==
  ASSUME TypeOK, limit' = limit, OpenFails
  PROVE  TypeOK'
<1>0. Fds' = Fds
  BY DEF Fds
<1> QED
  BY <1>0 DEF OpenFails, TypeOK

-----------------------------------------------------------------------------
(* What opening and closing do to the count of each owner.                  *)

(* What a thread owns can be counted. *)
LEMMA OwnedIsFinite ==
  ASSUME TypeOK, NEW o
  PROVE  /\ IsFiniteSet(Owned(o))
         /\ Has(o) = Cardinality(Owned(o))
         /\ Has(o) \in Nat
<1>1. IsFiniteSet(Fds)
  BY FS_Interval DEF TypeOK, Fds
<1>2. IsFiniteSet(Owned(o))
  BY <1>1, FS_Subset DEF Owned
<1>3. Has(o) = Cardinality(Owned(o))
  BY DEF Has, Owned
<1> QED
  BY <1>2, <1>3, FS_CardinalityType

(* Who owns what it owned has as many. *)
LEMMA SameOwned ==
  ASSUME NEW o, Owned(o)' = Owned(o)
  PROVE  Has(o)' = Has(o)
BY DEF Has, Owned

(* The lowest free descriptor goes to o: o has one more, the others as many as before. *)
LEMMA Opening ==
  ASSUME TypeOK, limit' = limit, NEW o, o # Nobody, NEW d, Lowest(d),
         openBy' = [openBy EXCEPT ![d] = o]
  PROVE  /\ d \in Owned(o)' /\ d \notin Owned(o)
         /\ \A e \in Owned(o) : e \in Owned(o)'
         /\ Has(o)' = Has(o) + 1
         /\ \A p : p # o /\ p # Nobody => Owned(p)' = Owned(p) /\ Has(p)' = Has(p)
<1>0. Fds' = Fds /\ d \in Fds /\ openBy[d] = Nobody
  BY LowestIsFree DEF Fds
<1>1. Owned(o)' = Owned(o) \cup {d} /\ d \notin Owned(o)
  BY <1>0 DEF Owned, TypeOK
<1>2. Has(o)' = Cardinality(Owned(o)')
  BY DEF Has, Owned
<1>3. Has(o)' = Has(o) + 1
  BY <1>1, <1>2, OwnedIsFinite, FS_AddElement
<1>4. ASSUME NEW p, p # o, p # Nobody
      PROVE  Owned(p)' = Owned(p) /\ Has(p)' = Has(p)
  <2>1. Owned(p)' = Owned(p)
    BY <1>0, <1>4 DEF Owned, TypeOK
  <2> QED
    BY <2>1, SameOwned
<1> QED
  BY <1>1, <1>3, <1>4

(* Closing only what is one's own: as many fewer, and nobody else's is touched. *)
LEMMA Closing ==
  ASSUME TypeOK, limit' = limit, NEW t, t # Nobody, NEW ds, ds \subseteq Owned(t),
         Close(t, ds)
  PROVE  /\ wrong' = wrong
         /\ Owned(t)' = Owned(t) \ ds
         /\ Has(t)' = Has(t) - Cardinality(ds)
         /\ \A p : p # t /\ p # Nobody => Owned(p)' = Owned(p) /\ Has(p)' = Has(p)
<1>0. Fds' = Fds
  BY DEF Fds
<1>1. openBy' = [d \in Fds |-> IF d \in ds THEN Nobody ELSE openBy[d]]
  BY DEF Close
<1>2. wrong' = wrong
  BY DEF Close, Owned, TypeOK
<1>3. Owned(t)' = Owned(t) \ ds
  BY <1>0, <1>1 DEF Owned
<1>4. Has(t)' = Has(t) - Cardinality(ds)
  <2>1. Has(t)' = Cardinality(Owned(t)')
    BY DEF Has, Owned
  <2>2. Owned(t) \cap ds = ds
    OBVIOUS
  <2>3. IsFiniteSet(Owned(t)) /\ Has(t) = Cardinality(Owned(t))
    BY OwnedIsFinite
  <2>4. Cardinality(Owned(t) \ ds) = Cardinality(Owned(t)) - Cardinality(Owned(t) \cap ds)
    BY <2>3, FS_Difference
  <2> QED
    BY <1>3, <2>1, <2>2, <2>3, <2>4
<1>5. ASSUME NEW p, p # t, p # Nobody
      PROVE  Owned(p)' = Owned(p) /\ Has(p)' = Has(p)
  <2>1. Owned(p)' = Owned(p)
    BY <1>0, <1>1, <1>5 DEF Owned
  <2> QED
    BY <2>1, SameOwned
<1> QED
  BY <1>2, <1>3, <1>4, <1>5

(* A log file's descriptor is closed by the last that leaves it, and is its
   own; nobody else notices. *)
LEMMA LeavingLog ==
  ASSUME Places, limit' = limit, NEW t \in Threads, pc[t] # "off", LeaveLog(t),
         \A f \in LogFiles : Has(f) = IF logFd[f] = NoFd THEN 0 ELSE 1
  PROVE  /\ wrong' = wrong
         /\ \A p : p \notin LogFiles /\ p # Nobody => Owned(p)' = Owned(p) /\ Has(p)' = Has(p)
         /\ \A g \in LogFiles : logFd'[g] # NoFd => logFd'[g] \in Owned(g)'
         /\ \A g \in LogFiles : Has(g)' = IF logFd'[g] = NoFd THEN 0 ELSE 1
         /\ \A u \in Threads \ {t} : pc[u] # "off" => logFd'[LogOf[u]] # NoFd
<1> USE OwnersApart
<1> DEFINE f == LogOf[t]
<1>0. /\ TypeOK /\ f \in LogFiles /\ f # Nobody /\ logFd[f] # NoFd /\ logFd[f] \in Owned(f)
      /\ \A g \in LogFiles : logFd[g] # NoFd => logFd[g] \in Owned(g)
      /\ \A u \in Threads : pc[u] # "off" => logFd[LogOf[u]] # NoFd
      /\ \A g \in LogFiles : g # Nobody
  BY DEF Places, LogIsOpen, UsesItsOwn, Owners
<1>1. CASE \E u \in Threads \ {t} : pc[u] # "off" /\ LogOf[u] = f
  <2>1. UNCHANGED <<openBy, logFd, wrong>>
    BY <1>1 DEF LeaveLog
  <2>2. \A p : Owned(p)' = Owned(p) /\ Has(p)' = Has(p)
    BY <2>1 DEF Owned, Has, Fds
  <2> QED
    BY <1>0, <2>1, <2>2
<1>2. CASE ~\E u \in Threads \ {t} : pc[u] # "off" /\ LogOf[u] = f
  <2>1. Close(f, {logFd[f]}) /\ logFd' = [logFd EXCEPT ![f] = NoFd]
    BY <1>2 DEF LeaveLog
  <2>2. /\ wrong' = wrong
        /\ Has(f)' = Has(f) - Cardinality({logFd[f]})
        /\ \A p : p # f /\ p # Nobody => Owned(p)' = Owned(p) /\ Has(p)' = Has(p)
    BY <1>0, <2>1, Closing
  <2>3. Has(f)' = 0
    <3>1. Cardinality({logFd[f]}) = 1
      BY FS_Singleton
    <3>2. Has(f) = 1
      BY <1>0
    <3> QED
      BY <2>2, <3>1, <3>2
  <2>4. logFd'[f] = NoFd /\ \A g \in LogFiles \ {f} : logFd'[g] = logFd[g]
    BY <1>0, <2>1 DEF TypeOK
  <2> QED
    BY <1>0, <1>2, <2>2, <2>3, <2>4
<1> QED
  BY <1>1, <1>2

-----------------------------------------------------------------------------
(* The steps keep the ledger: what is used is owned, what is owned is
   accounted for.                                                           *)

Ledger == Places /\ Counts

(* A thread that stays where it is uses and has lost as much. *)
LEMMA SamePlace ==
  ASSUME NEW t, pc'[t] = pc[t], starts'[t] = starts[t]
  PROVE  InUse(t)' = InUse(t) /\ Lost(t)' = Lost(t)
BY DEF InUse, Lost

(* One more life, as many files more. *)
LEMMA OneLifeMore ==
  ASSUME NEW n \in Nat, NEW s \in Nat
  PROVE  n * (s - 1) + n = n * ((s + 1) - 1)
<1>1. n * (s - 1) = n * s - n
  OBVIOUS
<1>2. n * s \in Int
  OBVIOUS
<1> QED
  BY <1>1, <1>2

(* A monitor begins, and opens its log file if no other has. *)
LEMMA StartKeeps ==
  ASSUME Ledger, limit' = limit, NEW t \in Threads, Start(t)
  PROVE  Ledger' /\ wrong' = wrong
<1> USE OwnersApart
<1>0. /\ TypeOK /\ LabelsOK /\ UsesItsOwn /\ LogIsOpen
      /\ SystemFiles /\ RunsStarted /\ Accounted
  BY DEF Ledger, Places, Counts
<1>1. TypeOK'
  BY <1>0, StartType
<1>2. /\ pc[t] = "off" /\ wrong' = wrong
      /\ pc' = [pc EXCEPT ![t] = IF t = System THEN "open" ELSE "first"]
      /\ starts' = [starts EXCEPT ![t] = @ + 1]
      /\ opened' = IF t = System THEN 0 ELSE opened
      /\ \A m \in Monitors \cup {Webmon} : m # t => fds'[m] = fds[m]
  BY <1>0 DEF Start, Goto, TypeOK
<1>3. /\ \A u \in Threads \cup {Webmon} : u # t => pc'[u] = pc[u]
      /\ \A u \in Threads : u # t => starts'[u] = starts[u]
      /\ pc'[t] = (IF t = System THEN "open" ELSE "first")
      /\ starts'[t] = starts[t] + 1
      /\ \A u \in Threads : starts[u] \in Nat /\ starts'[u] \in Nat
  BY <1>0, <1>2 DEF TypeOK
<1>4. /\ \A p : p \notin LogFiles /\ p # Nobody => Owned(p)' = Owned(p) /\ Has(p)' = Has(p)
      /\ \A g \in LogFiles : logFd[g] # NoFd => logFd'[g] # NoFd
      /\ \A g \in LogFiles : logFd'[g] # NoFd => logFd'[g] \in Owned(g)'
      /\ \A g \in LogFiles : Has(g)' = IF logFd'[g] = NoFd THEN 0 ELSE 1
      /\ logFd'[LogOf[t]] # NoFd
  <2> DEFINE f == LogOf[t]
  <2>0. f \in LogFiles /\ \A g \in LogFiles : g # Nobody
    BY DEF Owners
  <2>1. /\ \A g \in LogFiles : logFd[g] # NoFd => logFd[g] \in Owned(g)
        /\ \A g \in LogFiles : Has(g) = IF logFd[g] = NoFd THEN 0 ELSE 1
    BY <1>0 DEF UsesItsOwn, Accounted
  <2>2. CASE logFd[f] # NoFd
    <3>1. UNCHANGED <<openBy, logFd>>
      BY <2>2 DEF Start
    <3>2. \A p : Owned(p)' = Owned(p) /\ Has(p)' = Has(p)
      BY <3>1 DEF Owned, Has, Fds
    <3> QED
      BY <2>1, <2>2, <3>1, <3>2
  <2>3. CASE logFd[f] = NoFd
    <3>1. PICK d \in Fds : /\ Lowest(d)
                           /\ openBy' = [openBy EXCEPT ![d] = f]
                           /\ logFd' = [logFd EXCEPT ![f] = d]
      BY <2>3 DEF Start
    <3>2. /\ d \in Owned(f)'
          /\ Has(f)' = Has(f) + 1
          /\ \A p : p # f /\ p # Nobody => Owned(p)' = Owned(p) /\ Has(p)' = Has(p)
      BY <1>0, <2>0, <3>1, Opening
    <3>3. logFd'[f] = d /\ \A g \in LogFiles \ {f} : logFd'[g] = logFd[g]
      BY <1>0, <2>0, <3>1 DEF TypeOK
    <3>4. d # NoFd
      BY <1>0, <3>1 DEF TypeOK, Fds, NoFd
    <3>5. Has(f)' = 1
      BY <2>0, <2>1, <2>3, <3>2
    <3> QED
      BY <2>0, <2>1, <3>2, <3>3, <3>4, <3>5
  <2> QED
    BY <2>2, <2>3
<1>5. LabelsOK'
  BY <1>0, <1>3 DEF LabelsOK
<1>6. UsesItsOwn'
  <2>1. ASSUME NEW u \in Monitors \cup {Webmon}
        PROVE  Uses(u)'
    <3>1. CASE u = t
      BY <1>3, <3>1 DEF Uses
    <3>2. CASE u # t
      <4>1. Owned(u)' = Owned(u)
        BY <1>4 DEF Owners, Threads
      <4> QED
        BY <1>0, <1>2, <1>3, <3>2, <4>1 DEF UsesItsOwn, Uses, Threads
    <3> QED
      BY <3>1, <3>2
  <2> QED
    BY <1>4, <2>1 DEF UsesItsOwn
<1>7. LogIsOpen'
  BY <1>0, <1>3, <1>4 DEF LogIsOpen
<1>8. /\ Has(System)' = Has(System) /\ Has(Webmon)' = Has(Webmon)
      /\ \A m \in Monitors : Has(m)' = Has(m)
  BY <1>4 DEF Owners
<1>9. SystemFiles'
  BY <1>0, <1>2, <1>3, <1>8, DescriptorsAssumption DEF SystemFiles
<1>10. RunsStarted'
  BY <1>0, <1>3 DEF RunsStarted
<1>11. Accounted'
  <2>1. ASSUME NEW m \in Monitors
        PROVE  Has(m)' <= InUse(m)' + Lost(m)'
    <3>1. CASE m = t
      BY <1>0, <1>2, <1>3, <1>8, <3>1 DEF Accounted, InUse, Lost
    <3>2. CASE m # t
      <4>1. pc'[m] = pc[m] /\ starts'[m] = starts[m]
        BY <1>3, <3>2
      <4> QED
        BY <1>0, <1>8, <4>1, SamePlace DEF Accounted
    <3> QED
      BY <3>1, <3>2
  <2>2. starts'[System] > 0 => Has(System)' = SYSTEM_FILES * (starts'[System] - 1) + opened'
    <3>1. CASE t = System
      <4>1. opened' = 0 /\ starts'[System] - 1 = starts[System] /\ SYSTEM_FILES \in Nat
        BY <1>2, <1>3, <3>1, DescriptorsAssumption
      <4>2. CASE starts[System] = 0
        <5>1. Has(System)' = 0
          BY <1>0, <1>8, <4>2 DEF SystemFiles
        <5> QED
          BY <4>1, <4>2, <5>1
      <4>3. CASE starts[System] > 0
        <5>1. Has(System)' = SYSTEM_FILES * (starts[System] - 1) + SYSTEM_FILES
          BY <1>0, <1>2, <1>8, <3>1, <4>3 DEF SystemFiles, Accounted
        <5>2. SYSTEM_FILES * (starts[System] - 1) + SYSTEM_FILES
                = SYSTEM_FILES * ((starts[System] + 1) - 1)
          BY <1>3, <4>1, OneLifeMore
        <5>3. starts'[System] = starts[System] + 1
          BY <1>3, <3>1
        <5> QED
          BY <1>3, <4>1, <5>1, <5>2, <5>3
      <4> QED
        BY <1>3, <4>2, <4>3
    <3>2. CASE t # System
      BY <1>0, <1>2, <1>3, <1>8, <3>2 DEF Accounted
    <3> QED
      BY <3>1, <3>2
  <2>3. Has(Webmon)' = IF pc'[Webmon] = "check" THEN 1 ELSE InUse(Webmon)'
    BY <1>0, <1>3, <1>8 DEF Accounted, InUse
  <2> QED
    BY <1>4, <2>1, <2>2, <2>3 DEF Accounted
<1> QED
  BY <1>1, <1>2, <1>5, <1>6, <1>7, <1>9, <1>10, <1>11 DEF Ledger, Places, Counts

(* A step of one thread, once it is started: what the others use and own is as
   before, the log files are looked after, and the thread's own books balance. *)
LEMMA OneThreadMoves ==
  ASSUME Ledger, TypeOK', LabelsOK', LogIsOpen', starts' = starts,
         NEW t \in Threads \cup {Webmon},
         \A u \in Threads \cup {Webmon} : u # t => pc'[u] = pc[u],
         \A u \in Monitors \cup {Webmon} : u # t => fds'[u] = fds[u],
         \A p : p # t /\ p # Nobody /\ p \notin LogFiles => Owned(p)' = Owned(p),
         \A g \in LogFiles : logFd'[g] # NoFd => logFd'[g] \in Owned(g)',
         \A g \in LogFiles : Has(g)' = IF logFd'[g] = NoFd THEN 0 ELSE 1,
         t # System => opened' = opened /\ Uses(t)',
         t \in Monitors => pc[t] # "off" /\ Has(t)' <= InUse(t)' + Lost(t)',
         t = System => SystemFiles' /\ pc[System] # "off"
                         /\ Has(System)' = SYSTEM_FILES * (starts[System] - 1) + opened',
         t = Webmon => Has(Webmon)' = IF pc'[Webmon] = "check" THEN 1 ELSE InUse(Webmon)'
  PROVE  Ledger'
<1> USE OwnersApart
<1>0. /\ TypeOK /\ LabelsOK /\ UsesItsOwn /\ LogIsOpen
      /\ SystemFiles /\ RunsStarted /\ Accounted
  BY DEF Ledger, Places, Counts
<1>1. \A p : p # t /\ p # Nobody /\ p \notin LogFiles => Owned(p)' = Owned(p) /\ Has(p)' = Has(p)
  BY SameOwned
<1>2. \A u \in Threads \cup {Webmon} : u # Nobody /\ u \notin LogFiles
  BY DEF Owners
<1>3. UsesItsOwn'
  <2>1. ASSUME NEW u \in Monitors \cup {Webmon}
        PROVE  Uses(u)'
    <3>1. CASE u = t
      BY <3>1
    <3>2. CASE u # t
      <4>1. Owned(u)' = Owned(u)
        BY <1>1, <1>2, <3>2
      <4> QED
        BY <1>0, <3>2, <4>1 DEF UsesItsOwn, Uses
    <3> QED
      BY <3>1, <3>2
  <2> QED
    BY <2>1 DEF UsesItsOwn
<1>4. SystemFiles'
  <2>1. CASE t # System
    BY <1>0, <1>1, <1>2, <2>1 DEF SystemFiles
  <2> QED
    BY <2>1
<1>5. RunsStarted'
  BY <1>0 DEF RunsStarted
<1>6. Accounted'
  <2>1. ASSUME NEW m \in Monitors
        PROVE  Has(m)' <= InUse(m)' + Lost(m)'
    <3>1. CASE m # t
      <4>1. pc'[m] = pc[m] /\ starts'[m] = starts[m] /\ Has(m)' = Has(m)
        BY <1>1, <1>2, <3>1
      <4> QED
        BY <1>0, <4>1, SamePlace DEF Accounted
    <3> QED
      BY <3>1
  <2>2. starts'[System] > 0 => Has(System)' = SYSTEM_FILES * (starts'[System] - 1) + opened'
    <3>1. CASE t # System
      BY <1>0, <1>1, <1>2, <3>1 DEF Accounted
    <3> QED
      BY <3>1
  <2>3. Has(Webmon)' = IF pc'[Webmon] = "check" THEN 1 ELSE InUse(Webmon)'
    <3>1. CASE t # Webmon
      <4>1. pc'[Webmon] = pc[Webmon] /\ Has(Webmon)' = Has(Webmon)
        BY <1>1, <1>2, <3>1
      <4> QED
        BY <1>0, <4>1 DEF Accounted, InUse
    <3> QED
      BY <3>1
  <2> QED
    BY <2>1, <2>2, <2>3 DEF Accounted
<1> QED
  BY <1>3, <1>4, <1>5, <1>6 DEF Ledger, Places, Counts

(* A log file nobody touches. *)
LEMMA LogsStay ==
  ASSUME Ledger, UNCHANGED logFd, \A g \in LogFiles : Owned(g)' = Owned(g)
  PROVE  /\ \A g \in LogFiles : logFd'[g] # NoFd => logFd'[g] \in Owned(g)'
         /\ \A g \in LogFiles : Has(g)' = IF logFd'[g] = NoFd THEN 0 ELSE 1
<1>1. \A g \in LogFiles : Has(g)' = Has(g)
  BY SameOwned
<1> QED
  BY <1>1 DEF Ledger, Places, Counts, UsesItsOwn, Accounted

(* t opens a file for itself. *)
LEMMA OpenInKeeps ==
  ASSUME Ledger, TypeOK', limit' = limit, NEW t \in Monitors \cup {Webmon}, NEW v \in Variables,
         OpenIn(t, v)
  PROVE  /\ fds'[t][v] \in Owned(t)' /\ fds'[t][v] \notin Owned(t)
         /\ \A w \in Variables : w # v => fds'[t][w] = fds[t][w]
         /\ \A e \in Owned(t) : e \in Owned(t)'
         /\ Has(t)' = Has(t) + 1
         /\ \A u \in Monitors \cup {Webmon} : u # t => fds'[u] = fds[u]
         /\ \A p : p # t /\ p # Nobody => Owned(p)' = Owned(p)
<1> USE OwnersApart
<1>1. PICK d \in Fds : /\ Lowest(d)
                       /\ openBy' = [openBy EXCEPT ![d] = t]
                       /\ fds' = [fds EXCEPT ![t][v] = d]
  BY DEF OpenIn
<1>2. TypeOK /\ t # Nobody
  BY DEF Ledger, Places, Owners, Threads
<1>3. /\ fds'[t][v] = d
      /\ \A w \in Variables : w # v => fds'[t][w] = fds[t][w]
      /\ \A u \in Monitors \cup {Webmon} : u # t => fds'[u] = fds[u]
  BY <1>1, <1>2 DEF TypeOK
<1> QED
  BY <1>1, <1>2, <1>3, Opening

(* A monitor opens the files of its process. *)
LEMMA OpenProcessKeeps ==
  ASSUME Ledger, TypeOK', limit' = limit, NEW t \in Monitors, OpenStat(t) \/ OpenStatm(t)
  PROVE  Ledger' /\ wrong' = wrong
<1> USE OwnersApart
<1>0. /\ TypeOK /\ LabelsOK /\ UsesItsOwn /\ LogIsOpen
      /\ SystemFiles /\ RunsStarted /\ Accounted
      /\ "first" \in Variables /\ "second" \in Variables
  BY DEF Ledger, Places, Counts, Variables
<1>1. t # Webmon /\ t # System /\ \A g \in LogFiles : g # t /\ g # Nobody
  BY DEF Owners
<1>2. /\ UNCHANGED <<logFd, starts, opened, wrong>>
      /\ pc[t] # "off" /\ pc'[t] \in {"second", "use"}
      /\ \A u \in Threads \cup {Webmon} : u # t => pc'[u] = pc[u]
  BY <1>0 DEF OpenStat, OpenStatm, Goto, TypeOK
<1>3. /\ Has(t)' = Has(t) + 1
      /\ \A u \in Monitors \cup {Webmon} : u # t => fds'[u] = fds[u]
      /\ \A p : p # t /\ p # Nobody => Owned(p)' = Owned(p)
  BY <1>0, OpenInKeeps DEF OpenStat, OpenStatm
<1>4. Uses(t)'
  <2>1. CASE OpenStat(t)
    <3>1. pc'[t] = "second" /\ OpenIn(t, "first")
      BY <1>0, <2>1 DEF OpenStat, Goto, TypeOK
    <3> QED
      BY <1>0, <1>1, <3>1, OpenInKeeps DEF Uses
  <2>2. CASE OpenStatm(t)
    <3>1. pc[t] = "second" /\ OpenIn(t, "second")
      BY <2>2 DEF OpenStatm
    <3>2. fds[t]["first"] \in Owned(t)
      BY <1>0, <3>1 DEF UsesItsOwn, Uses
    <3>3. fds'[t]["first"] = fds[t]["first"]
      BY <1>0, <3>1, OpenInKeeps
    <3> QED
      BY <1>0, <1>1, <3>1, <3>2, <3>3, OpenInKeeps DEF Uses
  <2> QED
    BY <2>1, <2>2
<1>5. Has(t)' <= InUse(t)' + Lost(t)'
  <2>1. InUse(t)' = InUse(t) + 1 /\ Lost(t)' = Lost(t)
    BY <1>0, <1>2 DEF OpenStat, OpenStatm, Goto, TypeOK, InUse, Lost
  <2>2. Has(t) <= InUse(t) + Lost(t) /\ Has(t) \in Nat
    BY <1>0, OwnedIsFinite DEF Accounted
  <2>3. InUse(t) \in Nat /\ Lost(t) \in Int
    BY <1>0 DEF InUse, Lost, TypeOK
  <2> QED
    BY <1>3, <2>1, <2>2, <2>3
<1>6. LabelsOK' /\ LogIsOpen'
  BY <1>0, <1>1, <1>2 DEF LabelsOK, LogIsOpen
<1>7. /\ \A g \in LogFiles : logFd'[g] # NoFd => logFd'[g] \in Owned(g)'
      /\ \A g \in LogFiles : Has(g)' = IF logFd'[g] = NoFd THEN 0 ELSE 1
  BY <1>1, <1>2, <1>3, LogsStay
<1>8. Ledger'
  BY <1>1, <1>2, <1>3, <1>4, <1>5, <1>6, <1>7, OneThreadMoves
<1> QED
  BY <1>2, <1>8

(* A monitor ends: its log file is left, a first file may be lost. *)
LEMMA MonitorEndKeeps ==
  ASSUME Ledger, TypeOK', limit' = limit, NEW t \in Monitors, OpenProcessFails(t) \/ Stopped(t)
  PROVE  Ledger' /\ wrong' = wrong
<1> USE OwnersApart
<1>0. /\ TypeOK /\ LabelsOK /\ UsesItsOwn /\ LogIsOpen
      /\ SystemFiles /\ RunsStarted /\ Accounted /\ Places
  BY DEF Ledger, Places, Counts
<1>1. t # Webmon /\ t # System /\ t # Nobody /\ t \notin LogFiles
  BY DEF Owners
<1>2. /\ UNCHANGED <<starts, opened>> /\ LeaveLog(t)
      /\ pc[t] \in {"first", "second", "check"} /\ pc'[t] = "off"
      /\ \A u \in Threads \cup {Webmon} : u # t => pc'[u] = pc[u]
  BY <1>0 DEF OpenProcessFails, Stopped, End, Goto, TypeOK
<1>3. \A u \in Monitors \cup {Webmon} : u # t => fds'[u] = fds[u]
  BY <1>0 DEF OpenProcessFails, Stopped, TypeOK
<1>4. /\ wrong' = wrong
      /\ \A p : p \notin LogFiles /\ p # Nobody => Owned(p)' = Owned(p) /\ Has(p)' = Has(p)
      /\ \A g \in LogFiles : logFd'[g] # NoFd => logFd'[g] \in Owned(g)'
      /\ \A g \in LogFiles : Has(g)' = IF logFd'[g] = NoFd THEN 0 ELSE 1
      /\ \A u \in Threads \ {t} : pc[u] # "off" => logFd'[LogOf[u]] # NoFd
  <2>1. \A f \in LogFiles : Has(f) = IF logFd[f] = NoFd THEN 0 ELSE 1
    BY <1>0 DEF Accounted
  <2>2. pc[t] # "off"
    BY <1>2
  <2> QED
    BY <1>0, <1>2, <2>1, <2>2, LeavingLog
<1>5. LabelsOK' /\ LogIsOpen' /\ Uses(t)'
  BY <1>0, <1>1, <1>2, <1>4 DEF LabelsOK, LogIsOpen, Uses
<1>6. Has(t)' <= InUse(t)' + Lost(t)'
  <2>1. InUse(t) \in 0..1 /\ Lost(t) = starts[t] - 1 /\ InUse(t)' = 0 /\ Lost(t)' = starts[t]
    BY <1>2 DEF InUse, Lost
  <2>2. Has(t) <= InUse(t) + Lost(t) /\ Has(t) \in Nat /\ starts[t] \in Nat /\ Has(t)' = Has(t)
    BY <1>0, <1>1, <1>4, OwnedIsFinite DEF Accounted, TypeOK
  <2> QED
    BY <2>1, <2>2
<1>7. Ledger'
  BY <1>1, <1>2, <1>3, <1>4, <1>5, <1>6, OneThreadMoves
<1> QED
  BY <1>4, <1>7

(* A round closes the two files it opened. *)
LEMMA CloseProcessKeeps ==
  ASSUME Ledger, TypeOK', limit' = limit, NEW t \in Monitors, CloseProcessFiles(t)
  PROVE  Ledger' /\ wrong' = wrong
<1> USE OwnersApart
<1>0. /\ TypeOK /\ LabelsOK /\ UsesItsOwn /\ LogIsOpen
      /\ SystemFiles /\ RunsStarted /\ Accounted
  BY DEF Ledger, Places, Counts
<1>1. t # Webmon /\ t # System /\ t # Nobody /\ \A g \in LogFiles : g # t /\ g # Nobody
  BY DEF Owners
<1>2. /\ UNCHANGED <<fds, logFd, starts, opened>>
      /\ pc[t] = "use" /\ pc'[t] = "check"
      /\ \A u \in Threads \cup {Webmon} : u # t => pc'[u] = pc[u]
  BY <1>0 DEF CloseProcessFiles, Goto, TypeOK
<1> DEFINE a == fds[t]["first"]
           b == fds[t]["second"]
<1>3. a \in Owned(t) /\ b \in Owned(t) /\ a # b
  BY <1>0, <1>2 DEF UsesItsOwn, Uses
<1>4. Close(t, {a, b})
  <2>1. {fds[t][v] : v \in Variables} = {a, b}
    BY DEF Variables
  <2> QED
    BY <2>1 DEF CloseProcessFiles
<1> HIDE DEF a, b
<1>5. Cardinality({a, b}) = 2
  <2>1. IsFiniteSet({a}) /\ Cardinality({a}) = 1
    BY FS_Singleton
  <2>2. Cardinality({a} \cup {b}) = Cardinality({a}) + 1
    BY <1>3, <2>1, FS_AddElement
  <2>3. {a, b} = {a} \cup {b}
    OBVIOUS
  <2> QED
    BY <2>1, <2>2, <2>3
<1>6. /\ wrong' = wrong
      /\ Has(t)' = Has(t) - 2
      /\ \A p : p # t /\ p # Nobody => Owned(p)' = Owned(p)
  <2>1. {a, b} \subseteq Owned(t)
    BY <1>3
  <2> QED
    BY <1>0, <1>1, <1>4, <1>5, <2>1, Closing
<1>7. LabelsOK' /\ LogIsOpen' /\ Uses(t)'
  BY <1>0, <1>1, <1>2 DEF LabelsOK, LogIsOpen, Uses
<1>8. Has(t)' <= InUse(t)' + Lost(t)'
  <2>1. InUse(t) = 2 /\ InUse(t)' = 0 /\ Lost(t)' = Lost(t) /\ Lost(t) = starts[t] - 1
    BY <1>2 DEF InUse, Lost
  <2>2. Has(t) <= InUse(t) + Lost(t) /\ Has(t) \in Nat /\ starts[t] \in Nat
    BY <1>0, <1>1, OwnedIsFinite DEF Accounted, TypeOK
  <2> QED
    BY <1>6, <2>1, <2>2
<1>9. /\ \A g \in LogFiles : logFd'[g] # NoFd => logFd'[g] \in Owned(g)'
      /\ \A g \in LogFiles : Has(g)' = IF logFd'[g] = NoFd THEN 0 ELSE 1
  BY <1>1, <1>2, <1>6, LogsStay
<1>10. Ledger'
  BY <1>1, <1>2, <1>6, <1>7, <1>8, <1>9, OneThreadMoves
<1> QED
  BY <1>6, <1>10

(* A monitor whose process ends, or that goes on, changes no descriptor. *)
LEMMA MonitorWaitKeeps ==
  ASSUME Ledger, TypeOK', limit' = limit, NEW t \in Monitors, ProcessEnds(t) \/ NextRound(t)
  PROVE  Ledger' /\ wrong' = wrong
<1> USE OwnersApart
<1>0. /\ TypeOK /\ LabelsOK /\ UsesItsOwn /\ LogIsOpen
      /\ SystemFiles /\ RunsStarted /\ Accounted
  BY DEF Ledger, Places, Counts
<1>1. t # Webmon /\ t # System
  OBVIOUS
<1>2. /\ UNCHANGED <<openBy, fds, logFd, starts, opened, wrong>>
      /\ pc[t] # "off" /\ pc'[t] # "off"
      /\ pc'[t] = pc[t] \/ (pc[t] = "check" /\ pc'[t] = "first")
      /\ \A u \in Threads \cup {Webmon} : u # t => pc'[u] = pc[u]
  BY <1>0 DEF ProcessEnds, NextRound, Goto, TypeOK
<1>3. \A p : Owned(p)' = Owned(p) /\ Has(p)' = Has(p)
  BY <1>2 DEF Owned, Has, Fds
<1>4. LabelsOK' /\ LogIsOpen' /\ Uses(t)'
  BY <1>0, <1>1, <1>2, <1>3 DEF LabelsOK, LogIsOpen, UsesItsOwn, Uses
<1>5. InUse(t)' = InUse(t) /\ Lost(t)' = Lost(t)
  BY <1>2 DEF InUse, Lost
<1>6. Has(t)' <= InUse(t)' + Lost(t)'
  BY <1>0, <1>3, <1>5 DEF Accounted
<1>7. /\ \A g \in LogFiles : logFd'[g] # NoFd => logFd'[g] \in Owned(g)'
      /\ \A g \in LogFiles : Has(g)' = IF logFd'[g] = NoFd THEN 0 ELSE 1
  BY <1>2, <1>3, LogsStay
<1>8. Ledger'
  BY <1>1, <1>2, <1>3, <1>4, <1>6, <1>7, OneThreadMoves
<1> QED
  BY <1>2, <1>8

(* The system thread. *)
LEMMA SystemKeeps ==
  ASSUME Ledger, TypeOK', limit' = limit, OpenSysFile \/ SystemStopped
  PROVE  Ledger' /\ wrong' = wrong
<1> USE OwnersApart
<1>0. /\ TypeOK /\ LabelsOK /\ UsesItsOwn /\ LogIsOpen
      /\ SystemFiles /\ RunsStarted /\ Accounted /\ Places
  BY DEF Ledger, Places, Counts
<1>1. /\ System # Webmon /\ System # Nobody /\ System \notin LogFiles
      /\ \A g \in LogFiles : g # System /\ g # Nobody
      /\ SYSTEM_FILES \in Nat \ {0}
  BY DescriptorsAssumption DEF Owners
<1>2. starts[System] \in Nat /\ starts[System] > 0 /\ pc[System] # "off" /\ opened \in Nat
      /\ Has(System) \in Nat
  BY <1>0, OwnedIsFinite DEF SystemFiles, OpenSysFile, SystemStopped, TypeOK
<1>3. SYSTEM_FILES * (starts[System] - 1) \in Int
  BY <1>1, <1>2
<1>4. Has(System) = SYSTEM_FILES * (starts[System] - 1) + opened
  BY <1>0, <1>2 DEF Accounted
<1>5. CASE OpenSysFile
  <2>1. /\ UNCHANGED <<fds, logFd, starts, wrong>>
        /\ pc[System] = "open" /\ opened' = opened + 1
        /\ pc'[System] = (IF opened' = SYSTEM_FILES THEN "check" ELSE "open")
        /\ \A u \in Threads \cup {Webmon} : u # System => pc'[u] = pc[u]
    BY <1>0, <1>5 DEF OpenSysFile, Goto, TypeOK
  <2>2. /\ Has(System)' = Has(System) + 1
        /\ \A p : p # System /\ p # Nobody => Owned(p)' = Owned(p)
    BY <1>0, <1>1, <1>5, Opening DEF OpenSysFile
  <2>3. SystemFiles'
    BY <1>0, <1>1, <1>2, <2>1 DEF SystemFiles
  <2>4. Has(System)' = SYSTEM_FILES * (starts[System] - 1) + opened'
    BY <1>2, <1>3, <1>4, <2>1, <2>2
  <2>5. LabelsOK' /\ LogIsOpen'
    BY <1>0, <1>1, <2>1 DEF LabelsOK, LogIsOpen
  <2>6. /\ \A g \in LogFiles : logFd'[g] # NoFd => logFd'[g] \in Owned(g)'
        /\ \A g \in LogFiles : Has(g)' = IF logFd'[g] = NoFd THEN 0 ELSE 1
    BY <1>1, <2>1, <2>2, LogsStay
  <2>7. Ledger'
    BY <1>1, <1>2, <2>1, <2>2, <2>3, <2>4, <2>5, <2>6, OneThreadMoves
  <2> QED
    BY <2>1, <2>7
<1>6. CASE SystemStopped
  <2>1. /\ UNCHANGED <<fds, starts, opened>> /\ LeaveLog(System)
        /\ pc[System] = "check" /\ pc'[System] = "off"
        /\ \A u \in Threads \cup {Webmon} : u # System => pc'[u] = pc[u]
    BY <1>0, <1>6 DEF SystemStopped, Goto, TypeOK
  <2>2. /\ wrong' = wrong
        /\ \A p : p \notin LogFiles /\ p # Nobody => Owned(p)' = Owned(p) /\ Has(p)' = Has(p)
        /\ \A g \in LogFiles : logFd'[g] # NoFd => logFd'[g] \in Owned(g)'
        /\ \A g \in LogFiles : Has(g)' = IF logFd'[g] = NoFd THEN 0 ELSE 1
        /\ \A u \in Threads \ {System} : pc[u] # "off" => logFd'[LogOf[u]] # NoFd
    <3>1. \A f \in LogFiles : Has(f) = IF logFd[f] = NoFd THEN 0 ELSE 1
      BY <1>0 DEF Accounted
    <3> QED
      BY <1>0, <1>2, <2>1, <3>1, LeavingLog
  <2>3. SystemFiles'
    BY <1>0, <1>1, <1>2, <2>1, <2>2 DEF SystemFiles
  <2>4. Has(System)' = SYSTEM_FILES * (starts[System] - 1) + opened'
    BY <1>1, <1>4, <2>1, <2>2
  <2>5. LabelsOK' /\ LogIsOpen'
    BY <1>0, <1>1, <2>1, <2>2 DEF LabelsOK, LogIsOpen
  <2>6. Ledger'
    BY <1>1, <1>2, <2>1, <2>2, <2>3, <2>4, <2>5, OneThreadMoves
  <2> QED
    BY <2>2, <2>6
<1> QED
  BY <1>5, <1>6

(* webmon. *)
LEMMA WebmonKeeps ==
  ASSUME Ledger, TypeOK', limit' = limit,
         StartWebmon \/ OpenPage \/ OpenLoad \/ CloseLoad \/ ClosePage
  PROVE  Ledger' /\ wrong' = wrong
<1> USE OwnersApart
<1>0. /\ TypeOK /\ LabelsOK /\ UsesItsOwn /\ LogIsOpen
      /\ SystemFiles /\ RunsStarted /\ Accounted
      /\ "first" \in Variables /\ "second" \in Variables
  BY DEF Ledger, Places, Counts, Variables
<1>1. /\ Webmon # System /\ Webmon # Nobody /\ Webmon \notin Monitors
      /\ \A g \in LogFiles : g # Webmon /\ g # Nobody
  BY DEF Owners
<1>2. /\ UNCHANGED <<logFd, starts, opened>>
      /\ \A u \in Threads \cup {Webmon} : u # Webmon => pc'[u] = pc[u]
      /\ pc'[Webmon] # "open"
  BY <1>0 DEF StartWebmon, OpenPage, OpenLoad, CloseLoad, ClosePage, Goto, TypeOK
<1>3. Has(Webmon) = (IF pc[Webmon] = "check" THEN 1 ELSE InUse(Webmon)) /\ Has(Webmon) \in Nat
  BY <1>0, OwnedIsFinite DEF Accounted
<1>4. /\ \A u \in Monitors \cup {Webmon} : u # Webmon => fds'[u] = fds[u]
      /\ \A p : p # Webmon /\ p # Nobody => Owned(p)' = Owned(p)
      /\ Uses(Webmon)'
      /\ Has(Webmon)' = IF pc'[Webmon] = "check" THEN 1 ELSE InUse(Webmon)'
      /\ wrong' = wrong
  <2>1. CASE StartWebmon
    <3>1. UNCHANGED <<openBy, fds, wrong>> /\ pc[Webmon] = "off" /\ pc'[Webmon] = "first"
      BY <1>0, <2>1 DEF StartWebmon, Goto, TypeOK
    <3>2. \A p : Owned(p)' = Owned(p) /\ Has(p)' = Has(p)
      BY <3>1 DEF Owned, Has, Fds
    <3> QED
      BY <1>3, <3>1, <3>2 DEF Uses, InUse
  <2>2. CASE OpenPage
    <3>1. /\ OpenIn(Webmon, "first") /\ UNCHANGED wrong
          /\ pc[Webmon] = "first" /\ pc'[Webmon] = "second"
      BY <1>0, <2>2 DEF OpenPage, Goto, TypeOK
    <3>2. /\ fds'[Webmon]["first"] \in Owned(Webmon)'
          /\ Has(Webmon)' = Has(Webmon) + 1
          /\ \A u \in Monitors \cup {Webmon} : u # Webmon => fds'[u] = fds[u]
          /\ \A p : p # Webmon /\ p # Nobody => Owned(p)' = Owned(p)
      BY <1>0, <3>1, OpenInKeeps
    <3> QED
      BY <1>3, <3>1, <3>2 DEF Uses, InUse
  <2>3. CASE OpenLoad
    <3>1. /\ OpenIn(Webmon, "second") /\ UNCHANGED wrong
          /\ pc[Webmon] = "second" /\ pc'[Webmon] = "use"
      BY <1>0, <2>3 DEF OpenLoad, Goto, TypeOK
    <3>2. fds[Webmon]["first"] \in Owned(Webmon)
      BY <1>0, <3>1 DEF UsesItsOwn, Uses
    <3>3. /\ fds'[Webmon]["second"] \in Owned(Webmon)' /\ fds'[Webmon]["second"] \notin Owned(Webmon)
          /\ fds'[Webmon]["first"] = fds[Webmon]["first"]
          /\ \A e \in Owned(Webmon) : e \in Owned(Webmon)'
          /\ Has(Webmon)' = Has(Webmon) + 1
          /\ \A u \in Monitors \cup {Webmon} : u # Webmon => fds'[u] = fds[u]
          /\ \A p : p # Webmon /\ p # Nobody => Owned(p)' = Owned(p)
      BY <1>0, <3>1, OpenInKeeps
    <3> QED
      BY <1>3, <3>1, <3>2, <3>3 DEF Uses, InUse
  <2>4. CASE CloseLoad
    <3>1. /\ Close(Webmon, {fds[Webmon]["second"]}) /\ UNCHANGED fds
          /\ pc[Webmon] = "use" /\ pc'[Webmon] = "check"
      BY <1>0, <2>4 DEF CloseLoad, Goto, TypeOK
    <3>2. /\ fds[Webmon]["first"] \in Owned(Webmon) /\ {fds[Webmon]["second"]} \subseteq Owned(Webmon)
          /\ fds[Webmon]["second"] # fds[Webmon]["first"]
      BY <1>0, <3>1 DEF UsesItsOwn, Uses
    <3>3. /\ wrong' = wrong
          /\ Owned(Webmon)' = Owned(Webmon) \ {fds[Webmon]["second"]}
          /\ Has(Webmon)' = Has(Webmon) - Cardinality({fds[Webmon]["second"]})
          /\ \A p : p # Webmon /\ p # Nobody => Owned(p)' = Owned(p)
      BY <1>0, <1>1, <3>1, <3>2, Closing
    <3>4. Cardinality({fds[Webmon]["second"]}) = 1
      BY FS_Singleton
    <3> QED
      BY <1>3, <3>1, <3>2, <3>3, <3>4 DEF Uses, InUse
  <2>5. CASE ClosePage
    <3>1. /\ Close(Webmon, {fds[Webmon]["first"]}) /\ UNCHANGED fds
          /\ pc[Webmon] = "check" /\ pc'[Webmon] = "first"
      BY <1>0, <2>5 DEF ClosePage, Goto, TypeOK
    <3>2. {fds[Webmon]["first"]} \subseteq Owned(Webmon)
      BY <1>0, <3>1 DEF UsesItsOwn, Uses
    <3>3. /\ wrong' = wrong
          /\ Has(Webmon)' = Has(Webmon) - Cardinality({fds[Webmon]["first"]})
          /\ \A p : p # Webmon /\ p # Nobody => Owned(p)' = Owned(p)
      BY <1>0, <1>1, <3>1, <3>2, Closing
    <3>4. Cardinality({fds[Webmon]["first"]}) = 1
      BY FS_Singleton
    <3> QED
      BY <1>3, <3>1, <3>3, <3>4 DEF Uses, InUse
  <2> QED
    BY <2>1, <2>2, <2>3, <2>4, <2>5
<1>5. LabelsOK' /\ LogIsOpen'
  BY <1>0, <1>1, <1>2 DEF LabelsOK, LogIsOpen
<1>6. /\ \A g \in LogFiles : logFd'[g] # NoFd => logFd'[g] \in Owned(g)'
      /\ \A g \in LogFiles : Has(g)' = IF logFd'[g] = NoFd THEN 0 ELSE 1
  BY <1>1, <1>2, <1>4, LogsStay
<1>7. Ledger'
  BY <1>1, <1>2, <1>4, <1>5, <1>6, OneThreadMoves
<1> QED
  BY <1>4, <1>7

-----------------------------------------------------------------------------
(* The ledger holds at the start and is kept by every step.                 *)

(* At the start nobody has a descriptor. *)
LEMMA InitLedger ==
  ASSUME Init
  PROVE  Ledger /\ ClosesItsOwn
<1> USE OwnersApart
<1>1. TypeOK
  <2>1. limit \in Nat
    BY DescriptorsAssumption DEF Init
  <2>2. openBy \in [Fds -> Owners \cup {Nobody}]
    BY DEF Init
  <2>3. pc \in [Threads \cup {Webmon} -> Labels]
    BY DEF Init, Labels
  <2>4. /\ fds \in [Monitors \cup {Webmon} -> [Variables -> Fds \cup {NoFd}]]
        /\ logFd \in [LogFiles -> Fds \cup {NoFd}]
    BY DEF Init
  <2>5. starts \in [Threads -> 0..STARTS]
    BY DescriptorsAssumption DEF Init
  <2>6. /\ gone \in [Monitors -> BOOLEAN]
        /\ ended \in [Monitors -> {"RUNNING", "EXITED", "STOPPED"}]
        /\ opened \in Nat /\ wrong \in BOOLEAN /\ up \in BOOLEAN
    BY DEF Init
  <2> QED
    BY <2>1, <2>2, <2>3, <2>4, <2>5, <2>6 DEF TypeOK
<1>2. \A o : o # Nobody => Owned(o) = {} /\ Has(o) = 0
  <2>1. \A o : o # Nobody => Owned(o) = {}
    BY DEF Init, Owned
  <2> QED
    BY <1>1, <2>1, OwnedIsFinite, FS_EmptySet
<1>3. Places
  BY <1>1 DEF Init, Places, LabelsOK, UsesItsOwn, Uses, LogIsOpen
<1>4. System # Nobody /\ Webmon # Nobody /\ \A o \in Monitors \cup LogFiles : o # Nobody
  BY DEF Owners
<1>5. Counts
  <2>1. SystemFiles /\ RunsStarted
    BY <1>2, <1>4 DEF Init, SystemFiles, RunsStarted
  <2>2. \A t \in Monitors \cup {Webmon} : InUse(t) = 0
    BY DEF Init, InUse
  <2>3. \A t \in Monitors : Lost(t) = 0
    BY DEF Init, Lost
  <2>4. Accounted
    BY <1>2, <1>4, <2>2, <2>3 DEF Init, Accounted
  <2> QED
    BY <2>1, <2>4 DEF Counts
<1> QED
  BY <1>3, <1>5 DEF Ledger, ClosesItsOwn, Init

(* The ledger and wrong depend on nothing but these. *)
LEMMA SameLedger ==
  ASSUME Ledger, TypeOK', UNCHANGED <<limit, openBy, pc, fds, logFd, starts, opened>>
  PROVE  Ledger'
<1>1. \A p : Owned(p)' = Owned(p) /\ Has(p)' = Has(p)
  BY DEF Owned, Has, Fds
<1>2. (LabelsOK /\ UsesItsOwn /\ LogIsOpen)'
  BY <1>1 DEF Ledger, Places, LabelsOK, UsesItsOwn, Uses, LogIsOpen
<1>3. (SystemFiles /\ RunsStarted)'
  BY <1>1 DEF Ledger, Counts, SystemFiles, RunsStarted
<1>4. \A t : InUse(t)' = InUse(t) /\ Lost(t)' = Lost(t)
  BY DEF InUse, Lost
<1>5. Accounted'
  BY <1>1, <1>4 DEF Ledger, Counts, Accounted
<1> QED
  BY <1>2, <1>3, <1>5 DEF Ledger, Places, Counts

(* No step of any thread makes the ledger wrong or closes another's descriptor. *)
LEMMA StepKeepsLedger ==
  ASSUME Ledger, [Next]_vars
  PROVE  Ledger' /\ wrong' = wrong
<1>0. TypeOK
  BY DEF Ledger, Places
<1>1. CASE UNCHANGED vars
  <2>1. TypeOK'
    BY <1>0, <1>1 DEF TypeOK, vars, Fds
  <2> QED
    BY <1>1, <2>1, SameLedger DEF vars
<1>2. CASE Step /\ UNCHANGED limit
  <2>1. CASE \E t \in Threads : Start(t)
    BY <1>2, <2>1, StartKeeps
  <2>2. CASE OpenFails
    <3>1. TypeOK'
      BY <1>0, <1>2, <2>2, FailureType
    <3> QED
      BY <1>2, <2>2, <3>1, SameLedger DEF OpenFails
  <2>3. CASE (\E t \in Threads : StartFails(t)) \/ OpenSysFileFails \/ WebmonOpenFails
    BY <2>2, <2>3 DEF StartFails, OpenSysFileFails, WebmonOpenFails
  <2>4. CASE \E t \in Monitors : Monitor(t)
    <3>1. PICK t \in Monitors : Monitor(t)
      BY <2>4
    <3>2. up' = up
      BY <3>1 DEF Monitor, ProcessEnds, OpenStat, OpenStatm, OpenProcessFails,
                  CloseProcessFiles, Stopped, NextRound
    <3>3. TypeOK'
      BY <1>0, <1>2, <3>1, <3>2, MonitorType
    <3> QED
      BY <1>2, <3>1, <3>3, OpenProcessKeeps, MonitorEndKeeps, CloseProcessKeeps,
             MonitorWaitKeeps
         DEF Monitor
  <2>5. CASE OpenSysFile \/ SystemStopped
    <3>1. TypeOK'
      BY <1>0, <1>2, <2>5, SystemType
    <3> QED
      BY <1>2, <2>5, <3>1, SystemKeeps
  <2>6. CASE StartWebmon \/ OpenPage \/ OpenLoad \/ CloseLoad \/ ClosePage
    <3>1. TypeOK'
      BY <1>0, <1>2, <2>6, WebmonType
    <3> QED
      BY <1>2, <2>6, <3>1, WebmonKeeps
  <2> QED
    BY <1>2, <2>1, <2>3, <2>4, <2>5, <2>6 DEF Step
<1> QED
  BY <1>1, <1>2 DEF Next

(* The inductive invariant: what is used is its user's, and every descriptor is
   on the account of the one that opened it. *)
THEOREM LedgerCorrect == Spec => []Ledger
<1>1. Init => Ledger
  BY InitLedger
<1>2. Ledger /\ [Next]_vars => Ledger'
  BY StepKeepsLedger
<1> QED
  BY <1>1, <1>2, PTL DEF Spec

(* A round closes what it opened; a monitor loses one descriptor in a life at
   most, the system thread all its files each time, webmon none, and a log file
   has one while it is open, for any number of threads and lives
   (monitorThread.c:139-141, 344-355, systemThread.c:34). *)
THEOREM DescriptorsAreAccounted == Spec => []Accounted
<1>1. Ledger => Accounted
  BY DEF Ledger, Counts
<1> QED
  BY <1>1, LedgerCorrect, PTL

(* Nobody closes the descriptor of another, although the variables keep the
   numbers of earlier rounds (monitorThread.c:139-141). *)
THEOREM NobodyClosesAnothers == Spec => []ClosesItsOwn
<1>1. Init => ClosesItsOwn
  BY InitLedger
<1>2. Ledger /\ ClosesItsOwn /\ [Next]_vars => ClosesItsOwn'
  BY StepKeepsLedger DEF ClosesItsOwn
<1> QED
  BY <1>1, <1>2, LedgerCorrect, PTL DEF Spec

-----------------------------------------------------------------------------
(* Enough for all.                                                          *)

(* A set whose elements fall into the classes of T, K at most into each, has at
   most K elements for each class. *)
LEMMA Classes ==
  ASSUME NEW S, IsFiniteSet(S), NEW T, IsFiniteSet(T), NEW K \in Nat, NEW f \in [S -> T],
         \A t \in T : Cardinality({s \in S : f[s] = t}) <= K
  PROVE  Cardinality(S) <= Cardinality(T) * K
<1> DEFINE Class(t) == {s \in S : f[s] = t}
<1>1. ASSUME NEW t \in T
      PROVE  \E g \in [Class(t) -> 1..K] : \A a, b \in Class(t) : g[a] = g[b] => a = b
  <2> DEFINE C == Class(t)
  <2>1. IsFiniteSet(C) /\ Cardinality(C) <= K
    BY FS_Subset
  <2> HIDE DEF C
  <2>2. Cardinality(C) \in Nat /\ ExistsBijection(1..Cardinality(C), C)
    BY <2>1, FS_CardinalityType
  <2>3. ExistsBijection(C, 1..Cardinality(C))
    BY <2>2, Fun_ExistsBijSymmetric
  <2>4. PICK g : g \in Bijection(C, 1..Cardinality(C))
    BY <2>3 DEF ExistsBijection
  <2>5. g \in [C -> 1..Cardinality(C)] /\ \A a, b \in C : g[a] = g[b] => a = b
    BY <2>4 DEF Bijection, Injection, IsInjective
  <2>6. g \in [C -> 1..K]
    BY <2>1, <2>2, <2>5
  <2> QED
    BY <2>5, <2>6 DEF C
<1> DEFINE num == [t \in T |-> CHOOSE g \in [Class(t) -> 1..K] :
                                 \A a, b \in Class(t) : g[a] = g[b] => a = b]
           h   == [s \in S |-> <<f[s], num[f[s]][s]>>]
<1>2. ASSUME NEW t \in T
      PROVE  num[t] \in [Class(t) -> 1..K] /\ \A a, b \in Class(t) : num[t][a] = num[t][b] => a = b
  BY <1>1
<1>3. \A s \in S : f[s] \in T /\ s \in Class(f[s])
  OBVIOUS
<1> HIDE DEF num
<1>4. h \in [S -> T \X (1..K)]
  <2>1. ASSUME NEW s \in S
        PROVE  num[f[s]][s] \in 1..K
    <3>1. f[s] \in T /\ s \in Class(f[s])
      BY <1>3
    <3>2. num[f[s]] \in [Class(f[s]) -> 1..K]
      BY <1>2, <3>1
    <3> HIDE DEF Class
    <3> QED
      BY <3>1, <3>2
  <2> QED
    BY <1>3, <2>1
<1>5. ASSUME NEW a \in S, NEW b \in S, h[a] = h[b]
      PROVE  a = b
  <2>1. f[a] = f[b] /\ num[f[a]][a] = num[f[b]][b]
    BY <1>5
  <2>2. a \in Class(f[a]) /\ b \in Class(f[a]) /\ f[a] \in T
    BY <1>3, <2>1
  <2> HIDE DEF Class
  <2> QED
    BY <1>2, <2>1, <2>2
<1> HIDE DEF h
<1>6. h \in Injection(S, T \X (1..K))
  BY <1>4, <1>5, Fun_IsInj
<1>7. IsFiniteSet(1..K) /\ Cardinality(1..K) = K
  BY FS_Interval
<1>8. IsFiniteSet(T \X (1..K)) /\ Cardinality(T \X (1..K)) = Cardinality(T) * K
  BY <1>7, FS_Product
<1>9. Cardinality(S) <= Cardinality(T \X (1..K))
  BY <1>6, <1>8, FS_Injection
<1> QED
  BY <1>8, <1>9

(* The descriptors owned by one of os. *)
OwnedBy(os) == {d \in Fds : openBy[d] \in os}

(* Owners with at most K descriptors each have at most K times as many together. *)
LEMMA OwnedByIsBounded ==
  ASSUME TypeOK, NEW os, IsFiniteSet(os), NEW K \in Nat, \A o \in os : Has(o) <= K
  PROVE  IsFiniteSet(OwnedBy(os)) /\ Cardinality(OwnedBy(os)) <= Cardinality(os) * K
<1> DEFINE S == OwnedBy(os)
           owner == [d \in S |-> openBy[d]]
<1>1. IsFiniteSet(S)
  <2>1. IsFiniteSet(Fds)
    BY FS_Interval DEF TypeOK, Fds
  <2> QED
    BY <2>1, FS_Subset DEF OwnedBy
<1>2. owner \in [S -> os]
  BY DEF OwnedBy
<1>3. ASSUME NEW o \in os
      PROVE  Cardinality({d \in S : owner[d] = o}) <= K
  <2>1. {d \in S : owner[d] = o} = Owned(o)
    BY DEF OwnedBy, Owned
  <2>2. Has(o) <= K /\ Has(o) = Cardinality(Owned(o))
    BY OwnedIsFinite
  <2> HIDE DEF owner
  <2> QED
    BY <2>1, <2>2
<1> HIDE DEF S, owner
<1>4. Cardinality(S) <= Cardinality(os) * K
  BY <1>1, <1>2, <1>3, Classes
<1> QED
  BY <1>1, <1>4 DEF S

(* Files of at most STARTS lives. *)
LEMMA FilesOfLives ==
  ASSUME NEW n \in Nat, NEW s \in Nat, NEW S \in Nat, s > 0, s <= S, NEW k \in 0..n
  PROVE  n * (s - 1) + k <= n * S /\ (k < n => n * (s - 1) + k < n * S)
<1>1. n * (s - 1) = n * s - n
  OBVIOUS
<1>2. n * s \in Int /\ n * S \in Int /\ n * (S - s) \in Int
  OBVIOUS
<1>3. n * S = n * s + n * (S - s)
  OBVIOUS
<1>4. n * (S - s) >= 0
  OBVIOUS
<1> QED
  BY <1>1, <1>2, <1>3, <1>4

(* With as many descriptors as Needed, whoever opens one finds one free. *)
LEMMA RoomForAll ==
  ASSUME Ledger, limit >= Needed,
         \/ Monitors # {}
         \/ \E f \in LogFiles : logFd[f] = NoFd
         \/ pc[System] = "open"
         \/ pc[Webmon] \in {"first", "second"}
  PROVE  Free # {}
<1> USE OwnersApart
<1>0. TypeOK /\ LabelsOK /\ SystemFiles /\ RunsStarted /\ Accounted
  BY DEF Ledger, Places, Counts
<1>1. STARTS \in Nat /\ SYSTEM_FILES \in Nat \ {0} /\ IsFiniteSet(Monitors) /\ IsFiniteSet(LogFiles)
  BY DescriptorsAssumption
<1> DEFINE l == Cardinality(LogFiles)
           m == Cardinality(Monitors)
           L == OwnedBy(LogFiles)
           M == OwnedBy(Monitors)
           S == Owned(System)
           W == Owned(Webmon)
<1>2. l \in Nat /\ m \in Nat
  BY <1>1, FS_CardinalityType
<1>3. /\ IsFiniteSet(L) /\ Cardinality(L) \in Nat /\ Cardinality(L) <= l
      /\ (\E f \in LogFiles : logFd[f] = NoFd) => Cardinality(L) < l
  <2>1. \A f \in LogFiles : Has(f) <= 1
    BY <1>0 DEF Accounted
  <2>2. IsFiniteSet(L) /\ Cardinality(L) <= l * 1
    BY <1>0, <1>1, <2>1, OwnedByIsBounded
  <2>3. Cardinality(L) \in Nat
    BY <2>2, FS_CardinalityType
  <2>4. ASSUME NEW f \in LogFiles, logFd[f] = NoFd
        PROVE  Cardinality(L) < l
    <3> DEFINE rest == LogFiles \ {f}
    <3>1. IsFiniteSet(rest) /\ Cardinality(rest) = l - 1
      BY <1>1, FS_RemoveElement
    <3>2. \A g \in rest : Has(g) <= 1
      BY <2>1
    <3> HIDE DEF rest
    <3>3. Cardinality(OwnedBy(rest)) <= (l - 1) * 1
      BY <1>0, <3>1, <3>2, OwnedByIsBounded
    <3>4. Owned(f) = {}
      <4>1. Has(f) = 0
        BY <1>0, <2>4 DEF Accounted
      <4> QED
        BY <1>0, <4>1, OwnedIsFinite, FS_EmptySet
    <3>5. L = OwnedBy(rest)
      BY <3>4 DEF OwnedBy, Owned, rest
    <3> QED
      BY <1>2, <2>3, <3>3, <3>5
  <2> HIDE DEF L, l
  <2> QED
    BY <1>2, <2>2, <2>3, <2>4
<1>4. IsFiniteSet(M) /\ Cardinality(M) \in Nat /\ Cardinality(M) <= m * (1 + STARTS)
  <2>1. ASSUME NEW t \in Monitors
        PROVE  Has(t) <= 1 + STARTS
    <3>1. starts[t] \in 0..STARTS /\ Has(t) \in Nat
      BY <1>0, OwnedIsFinite DEF TypeOK
    <3>2. Has(t) <= InUse(t) + Lost(t)
      BY <1>0 DEF Accounted
    <3> QED
      BY <1>1, <3>1, <3>2 DEF InUse, Lost
  <2>2. 1 + STARTS \in Nat
    BY <1>1
  <2>3. IsFiniteSet(M) /\ Cardinality(M) <= m * (1 + STARTS)
    BY <1>0, <1>1, <2>1, <2>2, OwnedByIsBounded
  <2> QED
    BY <2>3, FS_CardinalityType
<1>5. /\ IsFiniteSet(S) /\ Cardinality(S) \in Nat /\ Cardinality(S) <= SYSTEM_FILES * STARTS
      /\ pc[System] = "open" => Cardinality(S) < SYSTEM_FILES * STARTS
  <2>1. IsFiniteSet(S) /\ Cardinality(S) = Has(System) /\ Has(System) \in Nat
    BY <1>0, OwnedIsFinite
  <2>2. starts[System] \in Nat /\ starts[System] <= STARTS /\ opened \in Nat
    BY <1>0 DEF TypeOK
  <2>3. CASE starts[System] = 0
    <3>1. Has(System) = 0 /\ pc[System] # "open"
      BY <1>0, <2>3 DEF SystemFiles
    <3>2. SYSTEM_FILES * STARTS >= 0
      BY <1>1
    <3> QED
      BY <2>1, <3>1, <3>2
  <2>4. CASE starts[System] > 0
    <3>1. Has(System) = SYSTEM_FILES * (starts[System] - 1) + opened
      BY <1>0, <2>4 DEF Accounted
    <3>2. opened <= SYSTEM_FILES /\ (pc[System] = "open" => opened < SYSTEM_FILES)
      BY <1>0, <1>1, <2>2, <2>4 DEF SystemFiles
    <3>3. opened \in 0..SYSTEM_FILES
      BY <1>1, <2>2, <3>2
    <3> QED
      BY SMTT(20), <1>1, <2>1, <2>2, <2>4, <3>1, <3>2, <3>3, FilesOfLives
  <2> QED
    BY <2>2, <2>3, <2>4
<1>6. /\ IsFiniteSet(W) /\ Cardinality(W) \in Nat /\ Cardinality(W) <= 2
      /\ pc[Webmon] \in {"first", "second"} => Cardinality(W) < 2
  BY <1>0, OwnedIsFinite DEF Accounted, InUse
<1>7. /\ Needed \in Int
      /\ Needed = l + (m * (1 + STARTS) + m) + SYSTEM_FILES * STARTS + 2
  <2>1. m * (2 + STARTS) = m * (1 + STARTS) + m
    BY <1>1, <1>2
  <2> QED
    BY <1>1, <1>2, <2>1 DEF Needed
<1>8. Monitors # {} => m > 0
  BY <1>1, <1>2, FS_EmptySet
<1>9. SUFFICES ASSUME Free = {}
               PROVE  FALSE
  OBVIOUS
<1>10. Fds = (L \cup M) \cup (S \cup W)
  BY <1>0, <1>9 DEF Free, OwnedBy, Owned, TypeOK, Owners, Threads
<1>11. limit = Cardinality(Fds) /\ limit \in Nat
  BY <1>0, FS_Interval DEF TypeOK, Fds
<1> HIDE DEF l, m, L, M, S, W
<1>12. /\ IsFiniteSet(L \cup M) /\ Cardinality(L \cup M) \in Nat
       /\ Cardinality(L \cup M) <= Cardinality(L) + Cardinality(M)
  <2>1. IsFiniteSet(L \cap M) /\ IsFiniteSet(L \cup M)
    BY <1>3, <1>4, FS_Intersection, FS_Union
  <2>2. Cardinality(L \cap M) \in Nat /\ Cardinality(L \cup M) \in Nat
    BY <2>1, FS_CardinalityType
  <2>3. Cardinality(L \cup M) = Cardinality(L) + Cardinality(M) - Cardinality(L \cap M)
    BY <1>3, <1>4, FS_Union
  <2> QED
    BY <1>3, <1>4, <2>1, <2>2, <2>3
<1>13. /\ IsFiniteSet(S \cup W) /\ Cardinality(S \cup W) \in Nat
       /\ Cardinality(S \cup W) <= Cardinality(S) + Cardinality(W)
  <2>1. IsFiniteSet(S \cap W) /\ IsFiniteSet(S \cup W)
    BY <1>5, <1>6, FS_Intersection, FS_Union
  <2>2. Cardinality(S \cap W) \in Nat /\ Cardinality(S \cup W) \in Nat
    BY <2>1, FS_CardinalityType
  <2>3. Cardinality(S \cup W) = Cardinality(S) + Cardinality(W) - Cardinality(S \cap W)
    BY <1>5, <1>6, FS_Union
  <2> QED
    BY <1>5, <1>6, <2>1, <2>2, <2>3
<1>14. limit <= Cardinality(L) + Cardinality(M) + Cardinality(S) + Cardinality(W)
  <2>1. IsFiniteSet((L \cup M) \cap (S \cup W))
    BY <1>12, FS_Intersection
  <2>2. Cardinality((L \cup M) \cap (S \cup W)) \in Nat
    BY <2>1, FS_CardinalityType
  <2>3. limit = Cardinality(L \cup M) + Cardinality(S \cup W)
                  - Cardinality((L \cup M) \cap (S \cup W))
    BY <1>10, <1>11, <1>12, <1>13, FS_Union
  <2> QED
    BY <1>3, <1>4, <1>5, <1>6, <1>11, <1>12, <1>13, <2>2, <2>3
<1> DEFINE a == m * (1 + STARTS)
           b == SYSTEM_FILES * STARTS
<1>15. a \in Int /\ b \in Int
  BY <1>1, <1>2
<1>16. /\ Needed = l + (a + m) + b + 2
       /\ Cardinality(M) <= a /\ Cardinality(S) <= b
       /\ pc[System] = "open" => Cardinality(S) < b
  BY <1>4, <1>5, <1>7
<1> HIDE DEF a, b
<1> QED
  BY <1>2, <1>3, <1>4, <1>5, <1>6, <1>7, <1>8, <1>11, <1>14, <1>15, <1>16

(* With as many descriptors as all need and lose together, mond does not fail,
   and a monitor ends as EXITED only when its process has
   (monitorThread.c:117-125). *)
THEOREM EnoughIsEnough == Spec => []EnoughForAll
<1> USE OwnersApart
<1>1. Init => EnoughForAll
  BY DEF Init, EnoughForAll
<1>2. Ledger /\ EnoughForAll /\ [Next]_vars => EnoughForAll'
  <2> SUFFICES ASSUME Ledger, EnoughForAll, [Next]_vars, limit' >= Needed
               PROVE  up' /\ \A t \in Monitors : ended'[t] = "EXITED" => gone'[t]
    BY DEF EnoughForAll, Needed
  <2>0. /\ TypeOK /\ limit' = limit /\ limit >= Needed
        /\ up /\ \A t \in Monitors : ended[t] = "EXITED" => gone[t]
    BY DEF Ledger, Places, Next, vars, EnoughForAll
  <2>1. CASE UNCHANGED vars
    BY <2>0, <2>1 DEF vars
  <2>2. CASE Step
    <3>1. CASE \E t \in Threads : Start(t)
      BY <2>0, <3>1 DEF Start, TypeOK
    <3>2. ~((\E t \in Threads : StartFails(t)) \/ OpenSysFileFails \/ WebmonOpenFails)
      <4>1. ASSUME NEW t \in Threads, StartFails(t)
            PROVE  FALSE
        <5>1. LogOf[t] \in LogFiles /\ logFd[LogOf[t]] = NoFd /\ Free = {}
          BY <4>1 DEF StartFails, OpenFails
        <5> QED
          BY <2>0, <5>1, RoomForAll
      <4>2. ASSUME OpenSysFileFails
            PROVE  FALSE
        BY <2>0, <4>2, RoomForAll DEF OpenSysFileFails, OpenFails
      <4>3. ASSUME WebmonOpenFails
            PROVE  FALSE
        BY <2>0, <4>3, RoomForAll DEF WebmonOpenFails, OpenFails
      <4> QED
        BY <4>1, <4>2, <4>3
    <3>3. ASSUME NEW t \in Monitors, Monitor(t)
          PROVE  up' /\ \A u \in Monitors : ended'[u] = "EXITED" => gone'[u]
      <4>1. CASE OpenProcessFails(t)
        <5>1. Free # {}
          BY <2>0, RoomForAll
        <5>2. gone[t] /\ UNCHANGED <<gone, up>> /\ ended' = [ended EXCEPT ![t] = "EXITED"]
          BY <4>1, <5>1 DEF OpenProcessFails, End
        <5> QED
          BY <2>0, <5>2 DEF TypeOK
      <4>2. CASE Stopped(t)
        BY <2>0, <4>2 DEF Stopped, End, TypeOK
      <4>3. CASE ProcessEnds(t)
        BY <2>0, <4>3 DEF ProcessEnds, TypeOK
      <4>4. CASE OpenStat(t) \/ OpenStatm(t) \/ CloseProcessFiles(t) \/ NextRound(t)
        BY <2>0, <4>4 DEF OpenStat, OpenStatm, CloseProcessFiles, NextRound
      <4> QED
        BY <3>3, <4>1, <4>2, <4>3, <4>4 DEF Monitor
    <3>4. CASE \/ OpenSysFile \/ SystemStopped
               \/ StartWebmon \/ OpenPage \/ OpenLoad \/ CloseLoad \/ ClosePage
      BY <2>0, <3>4 DEF OpenSysFile, SystemStopped, StartWebmon, OpenPage, OpenLoad,
                       CloseLoad, ClosePage
    <3> QED
      BY <2>2, <3>1, <3>2, <3>3, <3>4 DEF Step
  <2> QED
    BY <2>0, <2>1, <2>2 DEF Next
<1> QED
  BY <1>1, <1>2, LedgerCorrect, PTL DEF Spec
=============================================================================
