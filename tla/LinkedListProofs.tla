--------------------------- MODULE LinkedListProofs ---------------------------
(***************************************************************************)
(* What the functions of the list do to the sequence of its nodes, and     *)
(* that none of them reads a freed node when one caller at a time uses     *)
(* the list: lemmas for the proofs about its users.                        *)
(***************************************************************************)
EXTENDS LinkedList, FiniteSetTheorems, FunctionTheorems, SequenceTheorems, TLAPS

NodesOf(s) == {s[k] : k \in 1..Len(s)}

LastOf(s) == IF s = <<>> THEN Null ELSE s[Len(s)]

(* The data of the nodes of s. *)
Lines(s) == [k \in 1..Len(s) |-> node[s[k]].data]

(* s is the sequence of the nodes that are reached from first. *)
IsPath(s, first, entry) ==
  /\ s \in Seq(Nodes)
  /\ \A i, j \in 1..Len(s) : s[i] = s[j] => i = j
  /\ first = IF s = <<>> THEN Null ELSE s[1]
  /\ \A i \in 1..Len(s) : entry[s[i]].next = IF i = Len(s) THEN Null ELSE s[i + 1]

ListTypeOK ==
  /\ head \in Pointer /\ tail \in Pointer /\ count \in Nat
  /\ node \in [Nodes -> NodeEntry]
  /\ allocated \in SUBSET Nodes
  /\ call \in [Callers -> CallLocals]
  /\ fault \in BOOLEAN

-----------------------------------------------------------------------------
(* The states of a list that one caller uses; s is the list's nodes.       *)

Reached(s) ==
  /\ IsPath(s, head, node)
  /\ \A k \in 1..Len(s) : node[s[k]].data \in Items

(* No function is under way. *)
Whole(s) ==
  /\ Reached(s)
  /\ allocated = NodesOf(s)
  /\ count = Len(s) /\ tail = LastOf(s)

(* LLInsertTail has its node n, which is not linked, *)
Fresh(s, n) ==
  /\ Reached(s)
  /\ n \in Nodes /\ n \notin NodesOf(s)
  /\ node[n].next = Null /\ node[n].data \in Items
  /\ allocated = NodesOf(s) \cup {n}
  /\ count = Len(s) /\ tail = LastOf(s)

(* or is linked. *)
Joined(s, n) ==
  /\ Reached(s)
  /\ s # <<>> /\ n = s[Len(s)]
  /\ allocated = NodesOf(s)
  /\ count + 1 = Len(s)

(* The nodes are freed from the head on. *)
Freeing(s) ==
  /\ Reached(s)
  /\ allocated = NodesOf(s)

(* The list while c is in one of its functions, or between two. *)
Stage(c, s) ==
  /\ call[c].pc = "idle" => Whole(s)
  /\ call[c].pc = "linkTail" => Fresh(s, call[c].cur)
  /\ call[c].pc = "setHead" => \/ count = 0 /\ Fresh(s, call[c].cur)
                               \/ count # 0 /\ Joined(s, call[c].cur)
  /\ call[c].pc = "setTail" => Joined(s, call[c].cur)
  /\ call[c].pc = "count" => Joined(s, call[c].cur) /\ tail = call[c].cur
  /\ call[c].pc = "walk" => /\ Whole(s)
                            /\ call[c].i <= call[c].idx /\ call[c].idx < Len(s)
                            /\ call[c].cur = s[call[c].i + 1]
  /\ call[c].pc = "clear" => Freeing(s)

-----------------------------------------------------------------------------
(* Sequences of nodes.                                                      *)

(* A set of naturals has a least element. *)
LEMMA LeastNat == ASSUME NEW T \in SUBSET Nat, T # {} PROVE \E n \in T : \A m \in T : n <= m
<1> DEFINE R == {ss \in Nat \X Nat : ss[1] < ss[2]}
<1>0. IsWellFoundedOn(R, Nat)
  BY NatLessThanWellFounded DEF OpToRel
<1>1. \E n \in T : \A m \in T : ~(<<m, n>> \in R)
  <2> HIDE DEF R
  <2> QED BY <1>0, WFMin
<1>2. PICK n \in T : \A m \in T : ~(<<m, n>> \in R)
  BY <1>1
<1>3. \A m \in T : ~ (m < n)
  BY <1>2
<1> QED BY <1>3

(* The size of an initial segment. *)
LEMMA UpTo ==
  ASSUME NEW n \in Nat
  PROVE  Cardinality(1..n) = n /\ Cardinality(0..(n - 1)) = n
<1>1. Cardinality(1..n) = IF 1 > n THEN 0 ELSE n - 1 + 1
  BY FS_Interval
<1>2. Cardinality(0..(n - 1)) = IF 0 > n - 1 THEN 0 ELSE (n - 1) - 0 + 1
  <2> DEFINE b == n - 1
  <2>1. b \in Int
    OBVIOUS
  <2> HIDE DEF b
  <2> QED
    BY <2>1, FS_Interval DEF b
<1> QED
  BY <1>1, <1>2

(* A path has at most as many nodes as there are addresses. *)
LEMMA PathFits ==
  ASSUME NEW first, NEW entry, NEW s, IsPath(s, first, entry)
  PROVE  Len(s) \in 0..Cardinality(Nodes) /\ Cardinality(Nodes) \in Nat
<1>1. Cardinality(Nodes) \in Nat
  BY NodesAssumption, FS_CardinalityType
<1>2. s \in [1..Len(s) -> Nodes] /\ Len(s) \in Nat
  BY LenProperties DEF IsPath
<1>3. s \in Injection(1..Len(s), Nodes)
  BY <1>2, Fun_IsInj DEF IsPath
<1>4. Cardinality(1..Len(s)) <= Cardinality(Nodes)
  BY <1>3, NodesAssumption, NullAssumption, FS_Injection
<1>5. Cardinality(1..Len(s)) = Len(s)
  BY <1>2, UpTo
<1> QED BY <1>1, <1>2, <1>4, <1>5

(* The recursion of NodesFrom has one solution: the path, and Null beyond it. *)
LEMMA NodesFromPath ==
  ASSUME NEW first, NEW entry, NEW s, IsPath(s, first, entry)
  PROVE  \A k \in 0..Cardinality(Nodes) :
           NodesFrom(first, entry)[k] = IF k < Len(s) THEN s[k + 1] ELSE Null
<1> DEFINE N == Cardinality(Nodes)
           Step(g) == [k \in 0..N |-> IF k = 0 THEN first
                                   ELSE IF g[k - 1] = Null THEN Null ELSE entry[g[k - 1]].next]
           w == [k \in 0..N |-> IF k < Len(s) THEN s[k + 1] ELSE Null]
           n == NodesFrom(first, entry)
<1>0. Len(s) \in 0..N /\ N \in Nat /\ \A i \in 1..Len(s) : s[i] \in Nodes /\ s[i] # Null
  BY PathFits, NodesAssumption, NullAssumption, ElementOfSeq DEF IsPath
<1>1. w = Step(w)
  <2>1. ASSUME NEW k \in 0..N
        PROVE  w[k] = IF k = 0 THEN first ELSE IF w[k - 1] = Null THEN Null ELSE entry[w[k - 1]].next
    BY <1>0 DEF IsPath
  <2> QED
    BY <2>1
<1>2. n = CHOOSE g : g = Step(g)
  BY DEF NodesFrom
<1>3. n = Step(n)
  <2> HIDE DEF Step, w, n
  <2> QED BY <1>1, <1>2
<1> HIDE DEF n
<1>4. ASSUME NEW k \in 0..N
      PROVE  n[k] = IF k = 0 THEN first ELSE IF n[k - 1] = Null THEN Null ELSE entry[n[k - 1]].next
  BY <1>3
<1> DEFINE T == {k \in 0..N : n[k] # w[k]}
<1>5. T = {}
  <2> SUFFICES ASSUME T # {} PROVE FALSE
    OBVIOUS
  <2>1. PICK k \in T : \A m \in T : k <= m
    <3>1. T \in SUBSET Nat
      BY <1>0
    <3> HIDE DEF T
    <3> QED
      BY <3>1, LeastNat
  <2>2. k \in 0..N /\ n[k] # w[k]
    BY <2>1
  <2>3. CASE k = 0
    BY <1>0, <1>4, <2>2, <2>3 DEF IsPath
  <2>4. CASE k # 0
    <3>1. k - 1 \in 0..N /\ k - 1 \notin T
      BY <1>0, <2>1, <2>2, <2>4
    <3>2. n[k - 1] = w[k - 1]
      BY <3>1
    <3> QED
      BY <1>0, <1>4, <2>2, <2>4, <3>1, <3>2 DEF IsPath
  <2> QED
    BY <2>3, <2>4
<1> QED
  BY <1>5 DEF n

(* What Chain computes is the path. *)
LEMMA ChainFromPath ==
  ASSUME NEW first, NEW entry, NEW s, IsPath(s, first, entry)
  PROVE  ChainFrom(first, entry) = s
<1> DEFINE N == Cardinality(Nodes)
           n == NodesFrom(first, entry)
<1>0. Len(s) \in 0..N /\ N \in Nat /\ \A i \in 1..Len(s) : s[i] \in Nodes /\ s[i] # Null
  BY PathFits, NodesAssumption, NullAssumption, ElementOfSeq DEF IsPath
<1>1. \A k \in 0..N : n[k] = IF k < Len(s) THEN s[k + 1] ELSE Null
  BY NodesFromPath
<1> HIDE DEF n
<1>2. {k \in 0..N : n[k] # Null} = 0..(Len(s) - 1)
  BY <1>0, <1>1
<1>3. Cardinality(0..(Len(s) - 1)) = Len(s)
  BY <1>0, UpTo
<1>4. ChainFrom(first, entry) = [k \in 1..Len(s) |-> n[k - 1]]
  BY <1>2, <1>3 DEF ChainFrom, n
<1>5. \A k \in 1..Len(s) : n[k - 1] = s[k]
  BY <1>0, <1>1
<1>6. s = [k \in 1..Len(s) |-> s[k]]
  BY LenProperties DEF IsPath
<1> QED
  BY <1>4, <1>5, <1>6

(* The nodes of a path are addresses, and none of them is Null. *)
LEMMA PathNodes ==
  ASSUME NEW s \in Seq(Nodes)
  PROVE  /\ Len(s) \in Nat
         /\ \A k \in 1..Len(s) : s[k] \in Nodes /\ s[k] # Null /\ s[k] \in NodesOf(s)
         /\ s = <<>> <=> Len(s) = 0
         /\ NodesOf(s) \in SUBSET Nodes
<1>1. Len(s) \in Nat /\ DOMAIN s = 1..Len(s)
  BY LenProperties
<1>2. \A k \in 1..Len(s) : s[k] \in Nodes
  BY ElementOfSeq
<1>3. s = <<>> <=> Len(s) = 0
  BY EmptySeq
<1> QED
  BY <1>1, <1>2, <1>3, NullAssumption DEF NodesOf

(* A sequence of different nodes has as many nodes as it is long. *)
LEMMA AsManyNodes ==
  ASSUME NEW s \in Seq(Nodes), \A i, j \in 1..Len(s) : s[i] = s[j] => i = j
  PROVE  Cardinality(NodesOf(s)) = Len(s)
<1>1. s \in [1..Len(s) -> Nodes] /\ Len(s) \in Nat
  BY LenProperties
<1>2. s \in [1..Len(s) -> NodesOf(s)]
  BY <1>1 DEF NodesOf
<1>3. s \in Bijection(1..Len(s), NodesOf(s))
  BY <1>2 DEF Bijection, Injection, Surjection, IsInjective, NodesOf
<1>4. IsFiniteSet(1..Len(s)) /\ Cardinality(1..Len(s)) = Len(s)
  BY <1>1, FS_Interval, UpTo
<1>5. Cardinality(NodesOf(s)) = Cardinality(1..Len(s))
  BY <1>3, <1>4, FS_Bijection DEF ExistsBijection
<1> QED
  BY <1>4, <1>5

(* A path from Null is empty. *)
LEMMA NullPath ==
  ASSUME NEW s, NEW first, NEW entry, IsPath(s, first, entry)
  PROVE  first = Null <=> s = <<>>
<1>1. s # <<>> => s[1] # Null
  BY PathNodes DEF IsPath
<1> QED
  BY <1>1 DEF IsPath

(* The nodes outside it do not matter to a path. *)
LEMMA PathSame ==
  ASSUME NEW s, NEW first, NEW entry, NEW other, IsPath(s, first, entry),
         \A n \in NodesOf(s) : other[n] = entry[n]
  PROVE  IsPath(s, first, other)
<1>1. \A k \in 1..Len(s) : s[k] \in NodesOf(s)
  BY DEF NodesOf
<1> QED
  BY <1>1 DEF IsPath

(* One node is a path. *)
LEMMA PathOfOne ==
  ASSUME NEW n \in Nodes, NEW entry, entry[n].next = Null
  PROVE  IsPath(<<n>>, n, entry)
<1>1. <<n>> \in Seq(Nodes) /\ Len(<<n>>) = 1 /\ <<n>>[1] = n /\ <<n>> # <<>>
  OBVIOUS
<1>2. \A i \in 1..1 : i = 1
  OBVIOUS
<1> QED
  BY <1>1, <1>2 DEF IsPath

(* A node is linked to the last one. *)
LEMMA PathLonger ==
  ASSUME NEW s, NEW first, NEW entry, NEW other, NEW n \in Nodes \ NodesOf(s),
         IsPath(s, first, entry), s # <<>>,
         \A m \in NodesOf(s) \ {s[Len(s)]} : other[m].next = entry[m].next,
         other[s[Len(s)]].next = n, other[n].next = Null
  PROVE  IsPath(Append(s, n), first, other)
<1> DEFINE t == Append(s, n)
           z == Len(s)
<1>1. z \in Nat /\ z # 0 /\ \A k \in 1..z : s[k] \in Nodes /\ s[k] \in NodesOf(s)
  BY PathNodes DEF IsPath
<1>2. t \in Seq(Nodes) /\ t # <<>> /\ Len(t) = z + 1 /\ (\A i \in 1..z : t[i] = s[i]) /\ t[z + 1] = n
  BY AppendProperties DEF IsPath
<1>3. ASSUME NEW i \in 1..(z + 1), NEW j \in 1..(z + 1), t[i] = t[j]
      PROVE  i = j
  <2>1. CASE i = z + 1 /\ j = z + 1
    BY <2>1
  <2>2. CASE i = z + 1 /\ j # z + 1
    <3>1. j \in 1..z
      BY <1>1, <2>2
    <3> QED
      BY <1>1, <1>2, <1>3, <2>2, <3>1
  <2>3. CASE i # z + 1 /\ j = z + 1
    <3>1. i \in 1..z
      BY <1>1, <2>3
    <3> QED
      BY <1>1, <1>2, <1>3, <2>3, <3>1
  <2>4. CASE i # z + 1 /\ j # z + 1
    <3>1. i \in 1..z /\ j \in 1..z
      BY <1>1, <2>4
    <3> QED
      BY <1>2, <1>3, <3>1 DEF IsPath
  <2> QED
    BY <2>1, <2>2, <2>3, <2>4
<1>4. first = t[1]
  BY <1>1, <1>2 DEF IsPath
<1>5. ASSUME NEW i \in 1..(z + 1)
      PROVE  other[t[i]].next = IF i = z + 1 THEN Null ELSE t[i + 1]
  <2>1. CASE i = z + 1
    BY <1>1, <1>2, <2>1
  <2>2. CASE i = z
    BY <1>1, <1>2, <2>2
  <2>3. CASE i < z
    <3>1. i \in 1..z /\ z \in 1..z /\ i + 1 \in 1..z /\ i # z /\ i # z + 1
      BY <1>1, <2>3
    <3>2. s[i] # s[z]
      BY <3>1 DEF IsPath
    <3>3. other[s[i]].next = entry[s[i]].next
      BY <1>1, <3>1, <3>2
    <3>4. entry[s[i]].next = s[i + 1]
      BY <3>1 DEF IsPath
    <3> QED
      BY <1>2, <3>1, <3>3, <3>4
  <2> QED
    BY <1>1, <2>1, <2>2, <2>3
<1> HIDE DEF t
<1> QED
  <2>1. Len(t) = z + 1
    BY <1>2
  <2> HIDE DEF z
  <2>2. IsPath(t, first, other)
    BY <1>2, <1>3, <1>4, <1>5, <2>1 DEF IsPath
  <2> QED
    BY <2>2 DEF t

(* The first node is taken off. *)
LEMMA PathShorter ==
  ASSUME NEW s, NEW first, NEW entry, IsPath(s, first, entry), s # <<>>
  PROVE  /\ IsPath(Tail(s), entry[first].next, entry)
         /\ NodesOf(Tail(s)) = NodesOf(s) \ {first}
         /\ first \in NodesOf(s)
         /\ Len(Tail(s)) = Len(s) - 1
         /\ \A k \in 1..Len(Tail(s)) : Tail(s)[k] = s[k + 1]
<1> DEFINE t == Tail(s)
           z == Len(s)
<1>1. z \in Nat /\ z # 0 /\ \A k \in 1..z : s[k] \in Nodes /\ s[k] \in NodesOf(s)
  BY PathNodes DEF IsPath
<1>2. t \in Seq(Nodes) /\ Len(t) = z - 1 /\ \A k \in 1..Len(t) : t[k] = s[k + 1]
  BY HeadTailProperties DEF IsPath
<1>3. t = <<>> <=> z = 1
  BY <1>1, <1>2, EmptySeq
<1> HIDE DEF t
<1>4. ASSUME NEW i \in 1..(z - 1), NEW j \in 1..(z - 1), t[i] = t[j]
      PROVE  i = j
  <2>1. i + 1 \in 1..z /\ j + 1 \in 1..z /\ s[i + 1] = s[j + 1]
    BY <1>1, <1>2, <1>4
  <2>2. i + 1 = j + 1
    BY <2>1 DEF IsPath
  <2> QED
    BY <2>2
<1>5. first = s[1] /\ 1 \in 1..z
  BY <1>1 DEF IsPath
<1>6. entry[first].next = IF t = <<>> THEN Null ELSE t[1]
  BY <1>1, <1>2, <1>3, <1>5 DEF IsPath
<1>7. ASSUME NEW i \in 1..(z - 1)
      PROVE  entry[t[i]].next = IF i = z - 1 THEN Null ELSE t[i + 1]
  <2>1. i + 1 \in 1..z /\ t[i] = s[i + 1]
    BY <1>1, <1>2
  <2>2. entry[s[i + 1]].next = IF i + 1 = z THEN Null ELSE s[i + 1 + 1]
    BY <2>1 DEF IsPath
  <2>3. i # z - 1 => i + 1 \in 1..(z - 1)
    BY <1>1
  <2> QED
    BY <1>1, <1>2, <2>1, <2>2, <2>3
<1>8. IsPath(t, entry[first].next, entry)
  BY <1>2, <1>4, <1>6, <1>7 DEF IsPath
<1>9. NodesOf(t) = NodesOf(s) \ {first}
  <2>1. ASSUME NEW n \in NodesOf(t)
        PROVE  n \in NodesOf(s) \ {first}
    <3>1. PICK k \in 1..(z - 1) : n = t[k]
      BY <1>2 DEF NodesOf
    <3>2. k + 1 \in 1..z /\ n = s[k + 1] /\ k + 1 # 1
      BY <1>1, <1>2, <3>1
    <3>3. s[k + 1] # s[1]
      BY <1>5, <3>2 DEF IsPath
    <3> QED
      BY <1>1, <1>5, <3>2, <3>3
  <2>2. ASSUME NEW n \in NodesOf(s) \ {first}
        PROVE  n \in NodesOf(t)
    <3>1. PICK k \in 1..z : n = s[k]
      BY DEF NodesOf
    <3>2. k - 1 \in 1..(z - 1) /\ (k - 1) + 1 = k
      BY <1>1, <1>5, <3>1
    <3>3. t[k - 1] = n
      BY <1>2, <3>1, <3>2
    <3> QED
      BY <1>2, <3>2, <3>3 DEF NodesOf
  <2> QED
    BY <2>1, <2>2
<1> QED
  BY <1>1, <1>2, <1>5, <1>8, <1>9 DEF t

-----------------------------------------------------------------------------
(* Types.                                                                   *)

(* The fields of a caller's locals. *)
LEMMA LocalsTypes ==
  ASSUME NEW k \in CallLocals
  PROVE  /\ k.pc \in ListLabels /\ k.cur \in Pointer
         /\ k.i \in Nat /\ k.idx \in Nat /\ k.ret \in Items \cup {Null}
BY DEF CallLocals

(* What the functions assign to a caller's locals. *)
LEMMA CallTypes ==
  /\ NoCall \in CallLocals /\ NoCall.pc = "idle"
  /\ \A n \in Pointer :
       LET k == [NoCall EXCEPT !.pc = "linkTail", !.cur = n]
       IN  k \in CallLocals /\ k.pc = "linkTail" /\ k.cur = n
  /\ \A d \in Items \cup {Null} :
       \E k \in CallLocals :
         k = [NoCall EXCEPT !.ret = d] /\ k.pc = "idle" /\ k.ret = d
<1>1. Null \in Pointer
  BY DEF Pointer
<1>2. NoCall = [pc |-> "idle", cur |-> Null, i |-> 0, idx |-> 0, ret |-> Null]
  BY DEF NoCall
<1>3. NoCall \in CallLocals /\ NoCall.pc = "idle"
  BY <1>1, <1>2 DEF CallLocals, ListLabels
<1> HIDE DEF NoCall
<1>4. ASSUME NEW n \in Pointer
      PROVE  LET k == [NoCall EXCEPT !.pc = "linkTail", !.cur = n]
             IN  k \in CallLocals /\ k.pc = "linkTail" /\ k.cur = n
  BY <1>3 DEF CallLocals, ListLabels
<1>5. ASSUME NEW d \in Items \cup {Null}
      PROVE  \E k \in CallLocals :
               k = [NoCall EXCEPT !.ret = d] /\ k.pc = "idle" /\ k.ret = d
  <2>1. LET k == [NoCall EXCEPT !.ret = d]
        IN  k \in CallLocals /\ k.pc = "idle" /\ k.ret = d
    BY <1>3 DEF CallLocals, ListLabels
  <2> QED
    BY <2>1, Zenon
<1> QED
  BY <1>3, <1>4, <1>5

(* The locals of a call that has just begun to walk. *)
LEMMA WalkLocals ==
  ASSUME NEW n \in Pointer, NEW x \in Nat
  PROVE  \E k \in CallLocals :
           /\ k = [NoCall EXCEPT !.pc = "walk", !.cur = n, !.idx = x]
           /\ k.pc = "walk" /\ k.cur = n /\ k.idx = x /\ k.i = 0
<1> DEFINE k == [NoCall EXCEPT !.pc = "walk", !.cur = n, !.idx = x]
<1>1. NoCall \in CallLocals
  BY CallTypes
<1>2. NoCall.i = 0
  BY DEF NoCall
<1>3. k \in CallLocals /\ k.pc = "walk" /\ k.cur = n /\ k.idx = x /\ k.i = 0
  BY <1>1, <1>2 DEF CallLocals, ListLabels
<1>4. k = [NoCall EXCEPT !.pc = "walk", !.cur = n, !.idx = x]
  OBVIOUS
<1> HIDE DEF k
<1> QED
  BY <1>3, <1>4

(* One caller's label, or its place in its walk, is set. *)
LEMMA LabelSet ==
  ASSUME NEW k \in CallLocals, NEW l \in ListLabels
  PROVE  /\ [k EXCEPT !.pc = l] \in CallLocals
         /\ [k EXCEPT !.pc = l].pc = l
         /\ [k EXCEPT !.pc = l].cur = k.cur
BY DEF CallLocals

(* The locals of a call one node further on. *)
LEMMA PlaceSet ==
  ASSUME NEW k \in CallLocals, NEW n \in Pointer
  PROVE  \E m \in CallLocals :
           /\ m = [k EXCEPT !.cur = n, !.i = @ + 1]
           /\ m.pc = k.pc /\ m.cur = n /\ m.i = k.i + 1 /\ m.idx = k.idx
<1> DEFINE j == [k EXCEPT !.cur = n]
           m == [j EXCEPT !.i = j.i + 1]
<1>1. j \in CallLocals /\ j.pc = k.pc /\ j.cur = n /\ j.i = k.i /\ j.idx = k.idx
  BY DEF CallLocals
<1>2. k.i \in Nat
  BY DEF CallLocals
<1>3. [k EXCEPT !.cur = n, !.i = @ + 1] = [j EXCEPT !.i = j.i + 1]
  BY <1>1 DEF CallLocals
<1> HIDE DEF j
<1>4. j.i + 1 \in Nat
  BY <1>1, <1>2
<1>5. m \in CallLocals /\ m.pc = j.pc /\ m.cur = j.cur /\ m.i = j.i + 1 /\ m.idx = j.idx
  <2> DEFINE x == j.i + 1
  <2>1. x \in Nat
    BY <1>4
  <2> HIDE DEF x
  <2> QED
    BY <1>1, <2>1 DEF CallLocals, x
<1>6. m = [k EXCEPT !.cur = n, !.i = @ + 1]
  BY <1>3 DEF j
<1> HIDE DEF m
<1> QED
  BY <1>1, <1>5, <1>6

(* c's locals become k, and nobody else's. *)
Becomes(c, k) ==
  /\ call' \in [Callers -> CallLocals]
  /\ call'[c] = k
  /\ \A b \in Callers \ {c} : call'[b] = call[b]

(* The new node of LLInsertTail is not reached from the head yet. *)
Joining(c) == call[c].pc = "linkTail" \/ (call[c].pc = "setHead" /\ count = 0)

(* From the nodes s to the nodes t: the list stays as it is, and so does who is
   joining, or the new node of c joins it. *)
JoinsOnce(c, s, t) ==
  \/ /\ Lines(t)' = Lines(s)
     /\ Joining(c)' <=> Joining(c)
     /\ Joining(c) => /\ call'[c].cur = call[c].cur
                      /\ node'[call[c].cur].data = node[call[c].cur].data
  \/ /\ Joining(c) /\ ~Joining(c)'
     /\ Lines(t)' = Append(Lines(s), node[call[c].cur].data)

(* Writing one caller's locals leaves the others' alone. *)
LEMMA LocalsSet ==
  ASSUME ListTypeOK, NEW c \in Callers, NEW k \in CallLocals,
         call' = [call EXCEPT ![c] = k]
  PROVE  Becomes(c, k)
BY DEF ListTypeOK, Becomes

(* The fields of a node. *)
LEMMA NodeTypes ==
  ASSUME ListTypeOK, NEW n \in Nodes
  PROVE  node[n].next \in Pointer /\ node[n].data \in Items \cup {Null}
BY DEF ListTypeOK, NodeEntry

-----------------------------------------------------------------------------
(* What each function does, while its caller is the only one.               *)

(* LLInsertTail takes a node. *)
LEMMA InsertBegins ==
  ASSUME ListTypeOK, NEW c \in Callers, NEW s, Idle(c), Stage(c, s),
         NEW d \in Items, InsertTail(c, d)
  PROVE  /\ ListTypeOK' /\ Stage(c, s)' /\ fault' = fault
         /\ \E k \in CallLocals : /\ Becomes(c, k) /\ k.pc = "linkTail"
                               /\ node'[k.cur].data = d
         /\ Lines(s)' = Lines(s)
<1>1. Whole(s)
  BY DEF Stage, Idle
<1>2. PICK n \in Nodes \ allocated :
        /\ allocated' = allocated \cup {n}
        /\ node' = [node EXCEPT ![n] = [data |-> d, next |-> Null]]
        /\ call' = [call EXCEPT ![c] = [NoCall EXCEPT !.pc = "linkTail", !.cur = n]]
  BY DEF InsertTail
<1>3. UNCHANGED <<head, tail, count, fault>>
  BY DEF InsertTail, list
<1> DEFINE k == [NoCall EXCEPT !.pc = "linkTail", !.cur = n]
<1>4. k \in CallLocals /\ k.pc = "linkTail" /\ k.cur = n
  BY <1>2, CallTypes DEF Pointer
<1>5. Becomes(c, k)
  BY <1>2, <1>4, LocalsSet
<1> HIDE DEF k
<1>6. node' \in [Nodes -> NodeEntry] /\ node'[n] = [data |-> d, next |-> Null]
      /\ \A m \in Nodes \ {n} : node'[m] = node[m]
  BY <1>2 DEF ListTypeOK, NodeEntry, Pointer
<1>7. s \in Seq(Nodes) /\ n \notin NodesOf(s)
  BY <1>1, <1>2 DEF Whole, Reached, IsPath
<1>8. \A j \in 1..Len(s) : s[j] \in Nodes /\ s[j] \in NodesOf(s)
  BY <1>7, PathNodes
<1>9. \A m \in NodesOf(s) : node'[m] = node[m]
  BY <1>6, <1>7, PathNodes
<1>10. IsPath(s, head, node')
  BY <1>1, <1>9, PathSame DEF Whole, Reached
<1>11. Fresh(s, n)'
  BY <1>1, <1>2, <1>3, <1>6, <1>7, <1>8, <1>9, <1>10 DEF Fresh, Whole, Reached
<1>12. Stage(c, s)'
  BY <1>4, <1>5, <1>11 DEF Stage, Becomes
<1>13. ListTypeOK'
  BY <1>2, <1>3, <1>5, <1>6 DEF ListTypeOK, Becomes
<1>14. Lines(s)' = Lines(s)
  BY <1>8, <1>9 DEF Lines
<1>15. node'[k.cur].data = d
  BY <1>4, <1>6
<1> QED
  BY <1>3, <1>4, <1>5, <1>12, <1>13, <1>14, <1>15

(* The data of the nodes, with one more. *)
LEMMA LinesLonger ==
  ASSUME NEW s \in Seq(Nodes), NEW n \in Nodes, NEW entry,
         \A k \in 1..Len(s) : node[s[k]].data \in Items,
         \A m \in Nodes : entry[m].data = node[m].data
  PROVE  [k \in 1..Len(Append(s, n)) |-> entry[Append(s, n)[k]].data]
           = Append(Lines(s), node[n].data)
<1> DEFINE t == Append(s, n)
           z == Len(s)
<1>1. z \in Nat /\ \A k \in 1..z : s[k] \in Nodes
  BY PathNodes
<1>2. Len(t) = z + 1 /\ (\A i \in 1..z : t[i] = s[i]) /\ t[z + 1] = n
  BY AppendProperties
<1>3. Lines(s) \in Seq(Items) /\ Len(Lines(s)) = z /\ \A k \in 1..z : Lines(s)[k] = node[s[k]].data
  BY <1>1 DEF Lines
<1>4. Append(Lines(s), node[n].data)
        = [k \in 1..(z + 1) |-> IF k = z + 1 THEN node[n].data ELSE Lines(s)[k]]
  BY <1>1, <1>3
<1> HIDE DEF t
<1>5. ASSUME NEW k \in 1..(z + 1)
      PROVE  entry[t[k]].data = IF k = z + 1 THEN node[n].data ELSE Lines(s)[k]
  <2>1. CASE k = z + 1
    BY <1>2, <2>1
  <2>2. CASE k # z + 1
    <3>1. k \in 1..z
      BY <1>1, <2>2
    <3> QED
      BY <1>1, <1>2, <1>3, <2>2, <3>1
  <2> QED
    BY <2>1, <2>2
<1>6. [k \in 1..Len(t) |-> entry[t[k]].data]
        = [k \in 1..(z + 1) |-> IF k = z + 1 THEN node[n].data ELSE Lines(s)[k]]
  BY <1>2, <1>5
<1> QED
  BY <1>4, <1>6 DEF t

(* The data of the nodes, without the first. *)
LEMMA LinesShorter ==
  ASSUME NEW s, NEW first, NEW entry, IsPath(s, first, entry), s # <<>>,
         \A k \in 1..Len(s) : node[s[k]].data \in Items
  PROVE  Lines(Tail(s)) = Tail(Lines(s)) /\ Lines(s) # <<>>
<1> DEFINE z == Len(s)
<1>1. z \in Nat /\ z # 0
  BY PathNodes DEF IsPath
<1>2. Len(Tail(s)) = z - 1 /\ \A k \in 1..(z - 1) : Tail(s)[k] = s[k + 1]
  BY PathShorter
<1>3. Lines(s) \in Seq(Items) /\ Len(Lines(s)) = z /\ \A k \in 1..z : Lines(s)[k] = node[s[k]].data
  BY <1>1 DEF Lines
<1>4. Lines(s) # <<>>
  BY <1>1, <1>3
<1>5. /\ Tail(Lines(s)) \in Seq(Items) /\ Len(Tail(Lines(s))) = z - 1
      /\ \A k \in 1..(z - 1) : Tail(Lines(s))[k] = Lines(s)[k + 1]
  BY <1>3, <1>4, HeadTailProperties
<1>6. ASSUME NEW k \in 1..(z - 1)
      PROVE  Lines(s)[k + 1] = node[Tail(s)[k]].data
  BY <1>1, <1>2, <1>3
<1>7. Lines(Tail(s)) = [k \in 1..(z - 1) |-> node[Tail(s)[k]].data]
  BY <1>2 DEF Lines
<1>8. Lines(Tail(s)) \in Seq(Items) /\ Len(Lines(Tail(s))) = z - 1
  <2>1. \A k \in 1..(z - 1) : node[Tail(s)[k]].data \in Items
    BY <1>1, <1>2
  <2> QED
    BY <1>1, <1>7, <2>1
<1>9. \A k \in 1..(z - 1) : Lines(Tail(s))[k] = Tail(Lines(s))[k]
  BY <1>5, <1>6, <1>7
<1>10. Lines(Tail(s)) = Tail(Lines(s))
  <2> DEFINE a == Lines(Tail(s))
             b == Tail(Lines(s))
  <2> HIDE DEF a, b
  <2>1. a \in Seq(Items) /\ b \in Seq(Items) /\ Len(a) = Len(b)
        /\ \A k \in 1..Len(a) : a[k] = b[k]
    BY <1>5, <1>8, <1>9 DEF a, b
  <2>2. a = b
    BY <2>1, SeqEqual
  <2> QED
    BY <2>2 DEF a, b
<1> QED
  BY <1>4, <1>10

(* A step of LLInsertTail: sooner or later one of them adds the line. *)
LEMMA LinkTailStep ==
  ASSUME ListTypeOK, NEW c \in Callers, NEW s, Stage(c, s), LinkTail(c)
  PROVE  \E t, k :
           /\ Stage(c, t)' /\ Becomes(c, k) /\ k.pc = "setHead" /\ k \in CallLocals
           /\ ListTypeOK' /\ fault' = fault
           /\ JoinsOnce(c, s, t)
           /\ \/ t = s /\ Lines(t)' = Lines(s)
              \/ \E d \in Items : Lines(t)' = Append(Lines(s), d)
<1>0. PICK n : n = call[c].cur
  OBVIOUS
<1> DEFINE k == [call[c] EXCEPT !.pc = "setHead"]
<1>1. call[c] \in CallLocals /\ call[c].pc = "linkTail"
  BY DEF LinkTail, ListTypeOK
<1>2. Fresh(s, n)
  BY <1>0, <1>1 DEF Stage
<1>3. k \in CallLocals /\ k.pc = "setHead" /\ k.cur = n
  BY <1>0, <1>1, LabelSet DEF ListLabels
<1>4. Becomes(c, k)
  BY <1>3, LocalsSet DEF LinkTail
<1> HIDE DEF k
<1>5. s \in Seq(Nodes) /\ n \in Nodes /\ n \notin NodesOf(s)
  BY <1>2 DEF Fresh, Reached, IsPath
<1>6. UNCHANGED <<head, tail, count, allocated>>
  BY DEF LinkTail, list
<1>7. CASE s = <<>>
  <2>1. tail = Null /\ count = 0
    BY <1>2, <1>7 DEF Fresh, LastOf
  <2>2. UNCHANGED <<node, fault>>
    BY <2>1 DEF LinkTail
  <2>3. Fresh(s, n)' /\ count' = 0
    BY <1>2, <1>6, <2>1, <2>2 DEF Fresh, Reached
  <2>4. Stage(c, s)'
    BY <1>3, <1>4, <2>3 DEF Stage, Becomes
  <2>5. ListTypeOK'
    BY <1>4, <1>6, <2>2 DEF ListTypeOK, Becomes
  <2>6. Lines(s)' = Lines(s)
    BY <2>2 DEF Lines
  <2>7. Joining(c) /\ Joining(c)' /\ call'[c].cur = call[c].cur
    BY <1>0, <1>1, <1>3, <1>4, <1>6, <2>1 DEF Joining, Becomes
  <2>8. JoinsOnce(c, s, s)
    BY <2>2, <2>6, <2>7 DEF JoinsOnce
  <2> QED
    BY <1>3, <1>4, <2>2, <2>4, <2>5, <2>6, <2>8
<1>8. CASE s # <<>>
  <2> DEFINE z == Len(s)
  <2>0. PICK t : t = Append(s, n)
    OBVIOUS
  <2>1. z \in Nat /\ z # 0 /\ \A j \in 1..z : s[j] \in Nodes /\ s[j] # Null /\ s[j] \in NodesOf(s)
    BY <1>5, <1>8, PathNodes
  <2>2. tail = s[z] /\ tail # Null /\ tail \in NodesOf(s) /\ tail \in Nodes /\ count = z
    BY <1>2, <1>8, <2>1 DEF Fresh, LastOf
  <2>3. node' = [node EXCEPT ![tail].next = n] /\ fault' = (fault \/ tail \notin allocated)
    BY <1>0, <2>2 DEF LinkTail, Used
  <2>4. node[tail] \in NodeEntry /\ n \in Pointer
    BY <1>5, <2>2 DEF ListTypeOK, Pointer
  <2>5. [node[tail] EXCEPT !.next = n] \in NodeEntry
        /\ [node[tail] EXCEPT !.next = n].next = n
        /\ [node[tail] EXCEPT !.next = n].data = node[tail].data
    BY <2>4 DEF NodeEntry
  <2>6. node' = [node EXCEPT ![tail] = [node[tail] EXCEPT !.next = n]]
    BY <2>3
  <2>7. node' \in [Nodes -> NodeEntry] /\ node'[tail].next = n /\ node'[tail].data = node[tail].data
        /\ \A m \in Nodes \ {tail} : node'[m] = node[m]
    BY <2>2, <2>5, <2>6 DEF ListTypeOK
  <2>8. fault' = fault
    BY <1>2, <2>2, <2>3 DEF Fresh, ListTypeOK
  <2>9. n # tail
    BY <1>5, <2>2
  <2>10. IsPath(t, head, node')
    <3>1. node'[n].next = Null
      BY <1>2, <1>5, <2>7, <2>9 DEF Fresh
    <3>2. \A m \in NodesOf(s) \ {s[z]} : node'[m].next = node[m].next
      BY <1>5, <2>2, <2>7, PathNodes
    <3>3. node'[s[z]].next = n
      BY <2>2, <2>7
    <3>4. IsPath(s, head, node)
      BY <1>2 DEF Fresh, Reached
    <3> QED
      BY <1>5, <1>8, <2>0, <3>1, <3>2, <3>3, <3>4, PathLonger
  <2>11. t \in Seq(Nodes) /\ t # <<>> /\ Len(t) = z + 1 /\ t[z + 1] = n
         /\ \A i \in 1..z : t[i] = s[i]
    BY <1>5, <2>0, AppendProperties
  <2>12. \A m \in Nodes : node'[m].data = node[m].data
    BY <2>7
  <2>13. \A i \in 1..(z + 1) : node'[t[i]].data \in Items
    <3>1. ASSUME NEW i \in 1..z
          PROVE  node'[t[i]].data \in Items
      <4>1. node[s[i]].data \in Items
        BY <1>2 DEF Fresh, Reached
      <4> QED
        BY <2>1, <2>11, <2>12, <4>1
    <3>2. node'[t[z + 1]].data \in Items
      BY <1>2, <1>5, <2>11, <2>12 DEF Fresh
    <3> QED
      BY <2>1, <3>1, <3>2
  <2>14. NodesOf(t) = NodesOf(s) \cup {n}
    <3>1. NodesOf(t) = {t[i] : i \in 1..(z + 1)}
      BY <2>11 DEF NodesOf
    <3>2. 1..(z + 1) = (1..z) \cup {z + 1}
      BY <2>1
    <3> QED
      BY <2>11, <3>1, <3>2 DEF NodesOf
  <2>15. Joined(t, n)'
    BY <1>2, <1>6, <2>1, <2>2, <2>10, <2>11, <2>13, <2>14 DEF Joined, Reached, Fresh
  <2>16. Stage(c, t)'
    BY <1>3, <1>4, <1>6, <2>1, <2>2, <2>15 DEF Stage, Becomes
  <2>17. ListTypeOK'
    BY <1>4, <1>6, <2>7, <2>8 DEF ListTypeOK, Becomes
  <2>18. Lines(t)' = Append(Lines(s), node[n].data)
    <3>1. Lines(t)' = [i \in 1..Len(t) |-> node'[t[i]].data]
      BY DEF Lines
    <3>2. \A i \in 1..Len(s) : node[s[i]].data \in Items
      BY <1>2 DEF Fresh, Reached
    <3> DEFINE entry == node'
    <3>3. \A m \in Nodes : entry[m].data = node[m].data
      BY <2>12
    <3> HIDE DEF entry
    <3>4. [i \in 1..Len(Append(s, n)) |-> entry[Append(s, n)[i]].data]
            = Append(Lines(s), node[n].data)
      BY <1>5, <3>2, <3>3, LinesLonger
    <3> QED
      BY <2>0, <3>1, <3>4 DEF entry
  <2>19. node[n].data \in Items
    BY <1>2 DEF Fresh
  <2>20. Joining(c) /\ ~Joining(c)'
    BY <1>1, <1>3, <1>4, <1>6, <2>1, <2>2 DEF Joining, Becomes
  <2>21. JoinsOnce(c, s, t)
    BY <1>0, <2>18, <2>20 DEF JoinsOnce
  <2> QED
    BY <1>3, <1>4, <2>8, <2>16, <2>17, <2>18, <2>19, <2>21
<1> QED
  BY <1>7, <1>8

(* insertNode makes its node the head of an empty list: from here on the list has
   the new line. *)
LEMMA SetHeadStep ==
  ASSUME ListTypeOK, NEW c \in Callers, NEW s, Stage(c, s), SetHead(c)
  PROVE  \E t, k :
           /\ Stage(c, t)' /\ Becomes(c, k) /\ k.pc = "setTail" /\ k \in CallLocals
           /\ ListTypeOK' /\ fault' = fault
           /\ JoinsOnce(c, s, t)
           /\ \/ t = s /\ Lines(t)' = Lines(s)
              \/ \E d \in Items : Lines(t)' = Append(Lines(s), d)
<1>0. PICK n : n = call[c].cur
  OBVIOUS
<1> DEFINE k == [call[c] EXCEPT !.pc = "setTail"]
<1>1. call[c] \in CallLocals /\ call[c].pc = "setHead" /\ n \in Pointer
  BY <1>0, LocalsTypes DEF SetHead, ListTypeOK
<1>2. k \in CallLocals /\ k.pc = "setTail" /\ k.cur = n
  BY <1>0, <1>1, LabelSet DEF ListLabels
<1>3. Becomes(c, k)
  BY <1>2, LocalsSet DEF SetHead
<1> HIDE DEF k
<1>4. UNCHANGED <<tail, count, node, allocated, fault>>
  BY DEF SetHead, heap
<1>5. head' = IF count = 0 THEN n ELSE head
  BY <1>0 DEF SetHead
<1>6. ListTypeOK'
  BY <1>1, <1>3, <1>4, <1>5 DEF ListTypeOK, Becomes
<1>7. CASE count = 0
  <2>0. PICK t : t = <<n>>
    OBVIOUS
  <2>1. Fresh(s, n)
    BY <1>0, <1>1, <1>7 DEF Stage
  <2>2. s = <<>>
    BY <1>7, <2>1, PathNodes DEF Fresh, Reached, IsPath
  <2>3. n \in Nodes /\ node[n].next = Null /\ node[n].data \in Items
    BY <2>1 DEF Fresh
  <2>4. IsPath(t, head', node')
    BY <1>4, <1>5, <1>7, <2>0, <2>3, PathOfOne
  <2>5. t # <<>> /\ Len(t) = 1 /\ t[1] = n /\ \A i \in 1..1 : i = 1
    BY <2>0
  <2>6. NodesOf(t) = {n}
    BY <2>5 DEF NodesOf
  <2>7. NodesOf(s) = {}
    BY <2>2 DEF NodesOf
  <2>8. \A i \in 1..Len(t) : node'[t[i]].data \in Items
    BY <1>4, <2>3, <2>5
  <2>9. Joined(t, n)'
    BY <1>4, <1>7, <2>1, <2>4, <2>5, <2>6, <2>7, <2>8 DEF Joined, Reached, Fresh
  <2>10. Stage(c, t)'
    BY <1>2, <1>3, <2>9 DEF Stage, Becomes
  <2>11. Lines(t)' = Append(Lines(s), node[n].data)
    <3>1. Lines(s) = <<>>
      BY <2>2 DEF Lines
    <3>2. Lines(t)' = <<node[n].data>>
      <4>1. Lines(t)' = [i \in 1..1 |-> node[n].data]
        BY <1>4, <2>5 DEF Lines
      <4> QED
        BY <4>1
    <3> QED
      BY <3>1, <3>2
  <2>12. Joining(c) /\ ~Joining(c)'
    BY <1>1, <1>2, <1>3, <1>7 DEF Joining, Becomes
  <2>13. JoinsOnce(c, s, t)
    BY <1>0, <2>11, <2>12 DEF JoinsOnce
  <2> QED
    BY <1>2, <1>3, <1>4, <1>6, <2>3, <2>10, <2>11, <2>13
<1>8. CASE count # 0
  <2>1. Joined(s, n)
    BY <1>0, <1>1, <1>8 DEF Stage
  <2>2. Joined(s, n)'
    BY <1>4, <1>5, <1>8, <2>1 DEF Joined, Reached
  <2>3. Stage(c, s)'
    BY <1>2, <1>3, <2>2 DEF Stage, Becomes
  <2>4. Lines(s)' = Lines(s)
    BY <1>4 DEF Lines
  <2>5. ~Joining(c) /\ ~Joining(c)'
    BY <1>1, <1>2, <1>3, <1>8 DEF Joining, Becomes
  <2>6. JoinsOnce(c, s, s)
    BY <2>4, <2>5 DEF JoinsOnce
  <2> QED
    BY <1>2, <1>3, <1>4, <1>6, <2>3, <2>4, <2>6
<1> QED
  BY <1>7, <1>8

(* insertNode makes its node the tail. *)
LEMMA SetTailStep ==
  ASSUME ListTypeOK, NEW c \in Callers, NEW s, Stage(c, s), SetTail(c)
  PROVE  \E k :
           /\ Stage(c, s)' /\ Becomes(c, k) /\ k.pc = "count" /\ k \in CallLocals
           /\ ListTypeOK' /\ fault' = fault
           /\ Lines(s)' = Lines(s)
<1>0. PICK n : n = call[c].cur
  OBVIOUS
<1> DEFINE k == [call[c] EXCEPT !.pc = "count"]
<1>1. call[c] \in CallLocals /\ call[c].pc = "setTail" /\ n \in Pointer
  BY <1>0, LocalsTypes DEF SetTail, ListTypeOK
<1>2. k \in CallLocals /\ k.pc = "count" /\ k.cur = n
  BY <1>0, <1>1, LabelSet DEF ListLabels
<1>3. Becomes(c, k)
  BY <1>2, LocalsSet DEF SetTail
<1> HIDE DEF k
<1>4. UNCHANGED <<head, count, node, allocated, fault>> /\ tail' = n
  BY <1>0 DEF SetTail, heap
<1>5. ListTypeOK'
  BY <1>1, <1>3, <1>4 DEF ListTypeOK, Becomes
<1>6. Joined(s, n)
  BY <1>0, <1>1 DEF Stage
<1>7. Joined(s, n)'
  BY <1>4, <1>6 DEF Joined, Reached
<1>8. Stage(c, s)'
  BY <1>2, <1>3, <1>4, <1>7 DEF Stage, Becomes
<1>9. Lines(s)' = Lines(s)
  BY <1>4 DEF Lines
<1> QED
  BY <1>2, <1>3, <1>4, <1>5, <1>8, <1>9

(* insertNode counts its node and returns. *)
LEMMA CountUpStep ==
  ASSUME ListTypeOK, NEW c \in Callers, NEW s, Stage(c, s), CountUp(c)
  PROVE  /\ Stage(c, s)' /\ Becomes(c, NoCall)
         /\ ListTypeOK' /\ fault' = fault /\ count' = count + 1
         /\ Lines(s)' = Lines(s)
<1>0. PICK n : n = call[c].cur
  OBVIOUS
<1>1. call[c].pc = "count"
  BY DEF CountUp
<1>2. NoCall \in CallLocals /\ NoCall.pc = "idle"
  BY CallTypes
<1>3. Becomes(c, NoCall)
  BY <1>2, LocalsSet DEF CountUp
<1>4. UNCHANGED <<head, tail, node, allocated, fault>> /\ count' = count + 1
  BY DEF CountUp, heap
<1>5. ListTypeOK'
  BY <1>3, <1>4 DEF ListTypeOK, Becomes
<1>6. Joined(s, n) /\ tail = n
  BY <1>0, <1>1 DEF Stage
<1>7. Whole(s)'
  BY <1>4, <1>6 DEF Joined, Whole, Reached, LastOf
<1>8. Stage(c, s)'
  BY <1>2, <1>3, <1>7 DEF Stage, Becomes
<1>9. Lines(s)' = Lines(s)
  BY <1>4 DEF Lines
<1> QED
  BY <1>3, <1>4, <1>5, <1>8, <1>9

(* LLGet sets out for a line there is. *)
LEMMA GetBegins ==
  ASSUME ListTypeOK, NEW c \in Callers, NEW s, Stage(c, s), Idle(c),
         NEW x \in Nat, x < Len(s), Get(c, x)
  PROVE  \E k :
           /\ Stage(c, s)' /\ Becomes(c, k) /\ k.pc = "walk" /\ k.idx = x
           /\ ListTypeOK' /\ fault' = fault
           /\ Lines(s)' = Lines(s)
<1>1. PICK k \in CallLocals :
        /\ k = [NoCall EXCEPT !.pc = "walk", !.cur = head, !.idx = x]
        /\ k.pc = "walk" /\ k.cur = head /\ k.idx = x /\ k.i = 0
  <2>1. head \in Pointer
    BY DEF ListTypeOK
  <2> QED
    BY ZenonT(40), <2>1, WalkLocals
<1>2. Becomes(c, k)
  BY <1>1, LocalsSet DEF Get
<1>3. UNCHANGED <<head, tail, count, node, allocated, fault>>
  BY DEF Get, list, heap
<1>4. Whole(s)
  BY DEF Stage, Idle
<1>5. s # <<>> /\ head = s[1]
  <2>1. Len(s) \in Nat /\ Len(s) # 0
    BY <1>4, PathNodes DEF Whole, Reached, IsPath
  <2>2. s # <<>>
    BY <1>4, <2>1, PathNodes DEF Whole, Reached, IsPath
  <2> QED
    BY <1>4, <2>2 DEF Whole, Reached, IsPath
<1>6. Whole(s)'
  BY <1>3, <1>4 DEF Whole, Reached, LastOf
<1>7. Stage(c, s)'
  <2>1. 0 <= x /\ s[0 + 1] = head
    BY <1>5
  <2>2. call'[c].i <= call'[c].idx /\ call'[c].idx < Len(s) /\ call'[c].cur = s[call'[c].i + 1]
    BY <1>1, <1>2, <2>1 DEF Becomes
  <2> QED
    BY <1>1, <1>2, <1>6, <2>2 DEF Stage, Becomes
<1>8. ListTypeOK'
  BY <1>2, <1>3 DEF ListTypeOK, Becomes
<1>9. Lines(s)' = Lines(s)
  BY <1>3 DEF Lines
<1> QED
  BY <1>1, <1>2, <1>3, <1>7, <1>8, <1>9

(* On the way it follows only nodes of the list, *)
LEMMA WalkStep ==
  ASSUME ListTypeOK, NEW c \in Callers, NEW s, Stage(c, s), Walk(c)
  PROVE  \E k :
           /\ Stage(c, s)' /\ Becomes(c, k) /\ k.pc = "walk" /\ k.idx = call[c].idx
           /\ ListTypeOK' /\ fault' = fault
           /\ Lines(s)' = Lines(s)
<1>1. call[c] \in CallLocals /\ call[c].pc = "walk"
  BY DEF Walk, ListTypeOK
<1>2. /\ Whole(s) /\ call[c].i < call[c].idx /\ call[c].idx < Len(s)
      /\ call[c].cur = s[call[c].i + 1]
  BY <1>1 DEF Stage, Walk
<1>3. call[c].i \in Nat /\ call[c].idx \in Nat
  BY <1>1, LocalsTypes
<1>4. s \in Seq(Nodes) /\ Len(s) \in Nat /\ \A j \in 1..Len(s) : s[j] \in Nodes /\ s[j] \in NodesOf(s)
  BY <1>2, PathNodes DEF Whole, Reached, IsPath
<1>5. PICK i : i = call[c].i
  OBVIOUS
<1>6. PICK x : x = call[c].idx
  OBVIOUS
<1>7. i \in Nat /\ x \in Nat /\ i < x /\ x < Len(s) /\ i + 1 \in 1..Len(s) /\ i + 1 # Len(s)
  BY <1>2, <1>3, <1>4, <1>5, <1>6
<1>8. node[s[i + 1]].next = s[i + 1 + 1]
  BY <1>2, <1>7 DEF Whole, Reached, IsPath
<1>9. s[i + 1] \in Nodes /\ s[i + 1] \in allocated
  BY <1>2, <1>4, <1>7 DEF Whole
<1>10. call[c].cur = s[i + 1]
  BY <1>2, <1>5
<1> DEFINE n == node[s[i + 1]].next
<1>11. n \in Pointer
  BY <1>9, NodeTypes
<1>12. call' = [call EXCEPT ![c] = [call[c] EXCEPT !.cur = n, !.i = @ + 1]]
  BY <1>10 DEF Walk
<1> HIDE DEF n
<1>13. PICK k \in CallLocals :
         /\ k = [call[c] EXCEPT !.cur = n, !.i = @ + 1]
         /\ k.pc = "walk" /\ k.cur = n /\ k.i = i + 1 /\ k.idx = x
  <2> DEFINE j == call[c]
  <2>1. j \in CallLocals /\ j.pc = "walk" /\ j.i = i /\ j.idx = x
    BY <1>1, <1>5, <1>6
  <2> HIDE DEF j
  <2>2. \E k \in CallLocals :
          /\ k = [j EXCEPT !.cur = n, !.i = @ + 1]
          /\ k.pc = j.pc /\ k.cur = n /\ k.i = j.i + 1 /\ k.idx = j.idx
    BY <1>11, <2>1, PlaceSet
  <2>3. \E k \in CallLocals :
          /\ k = [j EXCEPT !.cur = n, !.i = @ + 1]
          /\ k.pc = "walk" /\ k.cur = n /\ k.i = i + 1 /\ k.idx = x
    BY <2>1, <2>2, Zenon
  <2> QED
    BY <2>3 DEF j
<1>14. Becomes(c, k)
  BY <1>12, <1>13, LocalsSet
<1>15. UNCHANGED <<head, tail, count, node, allocated>>
  BY DEF Walk, list, heap
<1>16. fault' = fault
  BY <1>9, <1>10 DEF Walk, Used, ListTypeOK
<1>17. Whole(s)'
  BY <1>2, <1>15 DEF Whole, Reached, LastOf
<1>18. Stage(c, s)'
  <2>1. call'[c].i <= call'[c].idx /\ call'[c].idx < Len(s) /\ call'[c].cur = s[call'[c].i + 1]
    BY <1>7, <1>8, <1>13, <1>14 DEF Becomes, n
  <2> QED
    BY <1>13, <1>14, <1>17, <2>1 DEF Stage, Becomes
<1>19. ListTypeOK'
  BY <1>14, <1>15, <1>16 DEF ListTypeOK, Becomes
<1>20. Lines(s)' = Lines(s)
  BY <1>15 DEF Lines
<1> QED
  BY <1>6, <1>13, <1>14, <1>16, <1>18, <1>19, <1>20

(* and it returns the line asked for. *)
LEMMA WalkEndStep ==
  ASSUME ListTypeOK, NEW c \in Callers, NEW s, Stage(c, s), WalkEnd(c)
  PROVE  \E k :
           /\ Stage(c, s)' /\ Becomes(c, k) /\ k.pc = "idle"
           /\ k.ret = Lines(s)[call[c].idx + 1] /\ k.ret \in Items
           /\ ListTypeOK' /\ fault' = fault
           /\ Lines(s)' = Lines(s)
<1>1. call[c] \in CallLocals /\ call[c].pc = "walk"
  BY DEF WalkEnd, ListTypeOK
<1>2. /\ Whole(s) /\ call[c].i <= call[c].idx /\ call[c].idx < Len(s)
      /\ call[c].cur = s[call[c].i + 1]
  BY <1>1 DEF Stage
<1>3. call[c].i \in Nat /\ call[c].idx \in Nat
  BY <1>1, LocalsTypes
<1>4. Len(s) \in Nat
      /\ \A j \in 1..Len(s) : s[j] \in Nodes /\ s[j] # Null /\ s[j] \in NodesOf(s)
  BY <1>2, PathNodes DEF Whole, Reached, IsPath
<1>5. PICK x : x = call[c].idx
  OBVIOUS
<1>6. call[c].i + 1 \in 1..Len(s) /\ x \in Nat /\ x + 1 \in 1..Len(s)
  BY <1>2, <1>3, <1>4, <1>5
<1>7. call[c].cur # Null
  BY <1>2, <1>4, <1>6
<1>8. call[c].i = x
  BY <1>2, <1>3, <1>5, <1>7 DEF WalkEnd
<1>9. call[c].cur = s[x + 1] /\ s[x + 1] \in Nodes /\ s[x + 1] \in allocated
  BY <1>2, <1>4, <1>6, <1>8 DEF Whole
<1> DEFINE d == node[s[x + 1]].data
<1>10. call' = [call EXCEPT ![c] = [NoCall EXCEPT !.ret = d]] /\ fault' = (fault \/ s[x + 1] \notin allocated)
  BY <1>7, <1>9 DEF WalkEnd, Used
<1>11. d \in Items /\ d = Lines(s)[x + 1]
  BY <1>2, <1>6 DEF Whole, Reached, Lines
<1> HIDE DEF d
<1>12. PICK k \in CallLocals : k = [NoCall EXCEPT !.ret = d] /\ k.pc = "idle" /\ k.ret = d
  BY <1>11, CallTypes
<1>13. Becomes(c, k)
  BY <1>10, <1>12, LocalsSet
<1>14. UNCHANGED <<head, tail, count, node, allocated>>
  BY DEF WalkEnd, list, heap
<1>15. fault' = fault
  BY <1>9, <1>10 DEF ListTypeOK
<1>16. Whole(s)'
  BY <1>2, <1>14 DEF Whole, Reached, LastOf
<1>17. Stage(c, s)'
  BY <1>12, <1>13, <1>16 DEF Stage, Becomes
<1>18. ListTypeOK'
  BY <1>13, <1>14, <1>15 DEF ListTypeOK, Becomes
<1>19. Lines(s)' = Lines(s)
  BY <1>14 DEF Lines
<1> QED
  BY <1>5, <1>11, <1>12, <1>13, <1>15, <1>17, <1>18, <1>19

(* LLClear begins, *)
LEMMA ClearBegins ==
  ASSUME ListTypeOK, NEW c \in Callers, NEW s, Stage(c, s), Clear(c)
  PROVE  \E k :
           /\ Stage(c, s)' /\ Becomes(c, k) /\ k.pc = "clear"
           /\ ListTypeOK' /\ fault' = fault
           /\ Lines(s)' = Lines(s)
<1> DEFINE k == [call[c] EXCEPT !.pc = "clear"]
<1>1. call[c] \in CallLocals /\ call[c].pc = "idle"
  BY DEF Clear, Idle, ListTypeOK
<1>2. k \in CallLocals /\ k.pc = "clear"
  BY <1>1, LabelSet DEF ListLabels
<1>3. Becomes(c, k)
  BY <1>2, LocalsSet DEF Clear
<1> HIDE DEF k
<1>4. UNCHANGED <<head, tail, count, node, allocated, fault>>
  BY DEF Clear, list, heap
<1>5. Freeing(s)
  BY <1>1 DEF Stage, Whole, Freeing
<1>6. Freeing(s)'
  BY <1>4, <1>5 DEF Freeing, Reached
<1>7. Stage(c, s)'
  BY <1>2, <1>3, <1>6 DEF Stage, Becomes
<1>8. ListTypeOK'
  BY <1>3, <1>4 DEF ListTypeOK, Becomes
<1>9. Lines(s)' = Lines(s)
  BY <1>4 DEF Lines
<1> QED
  BY <1>2, <1>3, <1>4, <1>7, <1>8, <1>9

(* The first node of a list is its own, and what is left without it. *)
LEMMA FirstFreed ==
  ASSUME ListTypeOK, NEW s, Reached(s), allocated = NodesOf(s), head # Null
  PROVE  /\ s # <<>> /\ head \in allocated /\ head \in Nodes /\ head = s[1]
         /\ IsPath(Tail(s), node[head].next, node)
         /\ \A k \in 1..Len(Tail(s)) : node[Tail(s)[k]].data \in Items
         /\ NodesOf(Tail(s)) = NodesOf(s) \ {head}
         /\ Len(Tail(s)) = Len(s) - 1 /\ Len(s) \in Nat
         /\ Lines(Tail(s)) = Tail(Lines(s)) /\ Lines(s) # <<>>
<1>1. IsPath(s, head, node) /\ \A k \in 1..Len(s) : node[s[k]].data \in Items
  BY DEF Reached
<1>2. s # <<>>
  BY <1>1, NullPath
<1>3. /\ IsPath(Tail(s), node[head].next, node)
      /\ NodesOf(Tail(s)) = NodesOf(s) \ {head}
      /\ head \in NodesOf(s)
      /\ Len(Tail(s)) = Len(s) - 1
      /\ \A k \in 1..Len(Tail(s)) : Tail(s)[k] = s[k + 1]
  BY <1>1, <1>2, PathShorter
<1>4. Lines(Tail(s)) = Tail(Lines(s)) /\ Lines(s) # <<>>
  BY <1>1, <1>2, LinesShorter
<1>5. Len(s) \in Nat
  BY <1>1, PathNodes DEF IsPath
<1>6. ASSUME NEW k \in 1..Len(Tail(s))
      PROVE  node[Tail(s)[k]].data \in Items
  <2>1. k + 1 \in 1..Len(s)
    BY <1>3, <1>5
  <2> QED
    BY <1>1, <1>3, <2>1
<1>7. head \in Nodes
  BY <1>3, <1>1, PathNodes DEF IsPath
<1>8. head = s[1]
  BY <1>1, <1>2 DEF IsPath
<1> QED
  BY <1>2, <1>3, <1>4, <1>5, <1>6, <1>7, <1>8

(* frees the first node while there is one, *)
LEMMA ClearNodeStep ==
  ASSUME ListTypeOK, NEW c \in Callers, NEW s, Stage(c, s), ClearNode(c)
  PROVE  \E t :
           /\ Stage(c, t)' /\ UNCHANGED call
           /\ ListTypeOK' /\ fault' = fault
           /\ Lines(s) # <<>> /\ Lines(t)' = Tail(Lines(s))
<1>1. call[c].pc = "clear" /\ head # Null
  BY DEF ClearNode
<1>2. Reached(s) /\ allocated = NodesOf(s)
  BY <1>1 DEF Stage, Freeing
<1>3. PICK t : t = Tail(s)
  OBVIOUS
<1>4. /\ head \in allocated /\ head \in Nodes
      /\ IsPath(t, node[head].next, node)
      /\ \A k \in 1..Len(t) : node[t[k]].data \in Items
      /\ NodesOf(t) = NodesOf(s) \ {head}
      /\ Lines(t) = Tail(Lines(s)) /\ Lines(s) # <<>>
  BY <1>1, <1>2, <1>3, FirstFreed
<1>5. /\ head' = node[head].next /\ allocated' = allocated \ {head}
      /\ UNCHANGED <<tail, count, node, call>>
  BY DEF ClearNode
<1>6. fault' = fault
  BY <1>4 DEF ClearNode, Used, ListTypeOK
<1>7. Freeing(t)'
  BY <1>2, <1>4, <1>5 DEF Freeing, Reached
<1>8. Stage(c, t)'
  BY <1>1, <1>5, <1>7 DEF Stage
<1>9. ListTypeOK'
  <2>1. node[head].next \in Pointer
    BY <1>4, NodeTypes
  <2> QED
    BY <1>5, <1>6, <2>1 DEF ListTypeOK
<1>10. Lines(t)' = Lines(t)
  BY <1>5 DEF Lines
<1> QED
  BY <1>4, <1>5, <1>6, <1>8, <1>9, <1>10

(* and leaves an empty list. *)
LEMMA ClearEndStep ==
  ASSUME ListTypeOK, NEW c \in Callers, NEW s, Stage(c, s), ClearEnd(c)
  PROVE  /\ s = <<>> /\ Stage(c, s)' /\ Becomes(c, NoCall)
         /\ ListTypeOK' /\ fault' = fault
         /\ Lines(s)' = Lines(s)
<1>1. call[c].pc = "clear" /\ head = Null
  BY DEF ClearEnd
<1>2. Freeing(s)
  BY <1>1 DEF Stage
<1>3. s = <<>>
  BY <1>1, <1>2, NullPath DEF Freeing, Reached
<1>4. NoCall \in CallLocals /\ NoCall.pc = "idle"
  BY CallTypes
<1>5. Becomes(c, NoCall)
  BY <1>4, LocalsSet DEF ClearEnd
<1>6. UNCHANGED <<head, node, allocated, fault>> /\ tail' = Null /\ count' = 0
  BY DEF ClearEnd, heap
<1>7. Len(s) = 0
  BY <1>3
<1>8. Whole(s)'
  BY <1>2, <1>3, <1>6, <1>7 DEF Freeing, Whole, Reached, LastOf
<1>9. Stage(c, s)'
  BY <1>4, <1>5, <1>8 DEF Stage, Becomes
<1>10. ListTypeOK'
  BY <1>5, <1>6 DEF ListTypeOK, Becomes, Pointer
<1>11. Lines(s)' = Lines(s)
  BY <1>6 DEF Lines
<1> QED
  BY <1>3, <1>5, <1>6, <1>9, <1>10, <1>11

(* LLRemoveHead leaves a list of two or more one: its tail stays. *)
LEMMA RemoveHeadStep ==
  ASSUME ListTypeOK, NEW c \in Callers, NEW s, Stage(c, s), RemoveHead(c), count > 1
  PROVE  \E t :
           /\ Stage(c, t)' /\ UNCHANGED call /\ count' = count - 1
           /\ ListTypeOK' /\ fault' = fault
           /\ Lines(s) # <<>> /\ Lines(t)' = Tail(Lines(s))
<1>1. call[c].pc = "idle"
  BY DEF RemoveHead, Idle
<1>2. Whole(s)
  BY <1>1 DEF Stage
<1>3. Len(s) \in Nat /\ (s = <<>> <=> Len(s) = 0) /\ count = Len(s)
  BY <1>2, PathNodes DEF Whole, Reached, IsPath
<1>4. s # <<>> /\ head # Null
  BY <1>2, <1>3, NullPath DEF Whole, Reached
<1>5. PICK t : t = Tail(s)
  OBVIOUS
<1>6. /\ head \in allocated /\ head \in Nodes /\ Reached(s) /\ allocated = NodesOf(s)
      /\ IsPath(t, node[head].next, node)
      /\ \A k \in 1..Len(t) : node[t[k]].data \in Items
      /\ NodesOf(t) = NodesOf(s) \ {head} /\ Len(t) = Len(s) - 1
      /\ Lines(t) = Tail(Lines(s)) /\ Lines(s) # <<>>
  BY <1>2, <1>4, <1>5, FirstFreed DEF Whole
<1>7. /\ head' = node[head].next /\ allocated' = allocated \ {head} /\ count' = count - 1
      /\ UNCHANGED <<tail, node, call>>
  BY <1>4 DEF RemoveHead
<1>8. fault' = fault
  BY <1>4, <1>6 DEF RemoveHead, Used, ListTypeOK
<1>9. tail = LastOf(t) /\ count' = Len(t)
  <2>1. \A k \in 1..Len(t) : t[k] = s[k + 1]
    BY <1>4, <1>5, <1>6, PathShorter DEF Reached
  <2>2. Len(t) \in 1..Len(t) /\ Len(t) + 1 = Len(s) /\ t # <<>>
    BY <1>3, <1>6
  <2>3. t[Len(t)] = s[Len(s)]
    BY <2>1, <2>2
  <2> QED
    BY <1>2, <1>3, <1>4, <1>6, <1>7, <2>2, <2>3 DEF Whole, LastOf
<1>10. Whole(t)'
  BY <1>6, <1>7, <1>9 DEF Whole, Reached, LastOf
<1>11. Stage(c, t)'
  BY <1>1, <1>7, <1>10 DEF Stage
<1>12. ListTypeOK'
  <2>1. node[head].next \in Pointer
    BY <1>6, NodeTypes
  <2>2. count - 1 \in Nat
    BY <1>3
  <2> QED
    BY <1>7, <1>8, <2>1, <2>2 DEF ListTypeOK
<1>13. Lines(t)' = Lines(t)
  BY <1>7 DEF Lines
<1> QED
  BY <1>6, <1>7, <1>8, <1>11, <1>12, <1>13

-----------------------------------------------------------------------------
(* What the invariants of the users say of the list.                        *)

(* The list of these nodes is what Chain and Contents compute. *)
LEMMA ChainIs ==
  ASSUME NEW s, Reached(s)
  PROVE  Chain = s /\ Contents = Lines(s)
<1>1. Chain = s
  BY ChainFromPath DEF Reached, Chain
<1> QED
  BY <1>1 DEF Contents, Lines

(* At every stage the list has a path. *)
LEMMA StageReached ==
  ASSUME ListTypeOK, NEW c \in Callers, NEW s, Stage(c, s)
  PROVE  Reached(s)
<1>1. call[c].pc \in ListLabels
  BY LocalsTypes DEF ListTypeOK
<1> QED
  BY <1>1 DEF Stage, ListLabels, Whole, Fresh, Joined, Freeing

(* A whole list is well formed. *)
LEMMA WholeIsWellFormed ==
  ASSUME NEW s, Whole(s)
  PROVE  WellFormed
<1>1. Chain = s
  BY ChainIs DEF Whole
<1>2. s \in Seq(Nodes) /\ \A i, j \in 1..Len(s) : s[i] = s[j] => i = j
  BY DEF Whole, Reached, IsPath
<1>3. Cardinality(NodesOf(s)) = Len(s)
  BY <1>2, AsManyNodes
<1>4. Len(s) \in Nat /\ (s = <<>> <=> Len(s) = 0)
  BY <1>2, PathNodes
<1>5. count > 0 => tail = s[count]
  BY <1>4 DEF Whole, LastOf
<1> QED
  BY <1>1, <1>3, <1>5 DEF Whole, WellFormed, NodesOf

(* The empty list of the start. *)
LEMMA InitWhole ==
  ASSUME InitList
  PROVE  /\ ListTypeOK /\ Whole(<<>>) /\ ~fault
         /\ \A c \in Callers : call[c].pc = "idle"
<1>1. <<>> \in Seq(Nodes) /\ Len(<<>>) = 0 /\ NodesOf(<<>>) = {} /\ LastOf(<<>>) = Null
  BY EmptySeq DEF NodesOf, LastOf
<1>2. IsPath(<<>>, head, node)
  BY <1>1 DEF InitList, IsPath
<1>3. Whole(<<>>)
  BY <1>1, <1>2 DEF Whole, Reached, InitList
<1>4. NoCall \in CallLocals /\ NoCall.pc = "idle"
  BY CallTypes
<1>5. ListTypeOK
  BY <1>4 DEF InitList, ListTypeOK, Pointer, NodeEntry
<1> QED
  BY <1>3, <1>4, <1>5 DEF InitList

(* The same of the next state; and its lines are items. *)
LEMMA ChainIsNext ==
  ASSUME ListTypeOK', NEW c \in Callers, NEW t, Stage(c, t)'
  PROVE  /\ Chain' = t /\ Contents' = Lines(t)' /\ Stage(c, Chain)'
         /\ Contents' \in Seq(Items) /\ Len(Contents') = Len(t)
<1>1. call'[c].pc \in ListLabels
  BY LocalsTypes DEF ListTypeOK
<1>2. Reached(t)'
  BY <1>1 DEF Stage, ListLabels, Whole, Fresh, Joined, Freeing
<1>3. IsPath(t, head', node') /\ \A k \in 1..Len(t) : node'[t[k]].data \in Items
  BY <1>2 DEF Reached
<1>4. ChainFrom(head', node') = t
  BY <1>3, ChainFromPath
<1>5. Chain' = t
  BY <1>4 DEF Chain
<1>6. Contents' = Lines(t)'
  BY <1>5 DEF Contents, Lines
<1>7. Stage(c, Chain)'
  <2> HIDE DEF Chain
  <2> QED
    BY <1>5 DEF Stage, Whole, Fresh, Joined, Freeing, Reached, LastOf, NodesOf
<1>8. Len(t) \in Nat
  BY <1>3, PathNodes DEF IsPath
<1>9. Lines(t)' \in Seq(Items) /\ Len(Lines(t)') = Len(t)
  <2>1. Lines(t)' = [k \in 1..Len(t) |-> node'[t[k]].data]
    BY DEF Lines
  <2> QED
    BY <1>3, <1>8, <2>1
<1> QED
  BY <1>5, <1>6, <1>7, <1>9

(* and of this state. *)
LEMMA ChainIsNow ==
  ASSUME ListTypeOK, NEW c \in Callers, NEW s, Stage(c, s)
  PROVE  /\ Chain = s /\ Contents = Lines(s)
         /\ Contents \in Seq(Items) /\ Len(Contents) = Len(s)
<1>1. Reached(s)
  BY StageReached
<1>2. Len(s) \in Nat
  BY <1>1, PathNodes DEF Reached, IsPath
<1>3. Lines(s) \in Seq(Items) /\ Len(Lines(s)) = Len(s)
  BY <1>1, <1>2 DEF Reached, Lines
<1> QED
  BY <1>1, <1>3, ChainIs

-----------------------------------------------------------------------------
(* The functions of more than one step.                                     *)

(* LLInsertTail adds a line once, and counts once. *)
LEMMA InsertSteps ==
  ASSUME ListTypeOK, NEW c \in Callers, NEW s, Stage(c, s), InsertStep(c)
  PROVE  \E t, k :
           /\ Stage(c, t)' /\ ListTypeOK' /\ fault' = fault
           /\ Becomes(c, k)
           /\ \/ k.pc \in {"setHead", "setTail", "count"} /\ count' = count
              \/ k.pc = "idle" /\ call[c].pc = "count" /\ count' = count + 1
           /\ Lines(t)' = Lines(s) \/ \E d \in Items : Lines(t)' = Append(Lines(s), d)
           /\ JoinsOnce(c, s, t)
<1>1. CASE LinkTail(c)
  <2>1. count' = count
    BY <1>1 DEF LinkTail, list
  <2> QED
    BY <1>1, <2>1, LinkTailStep
<1>2. CASE SetHead(c)
  <2>1. count' = count
    BY <1>2 DEF SetHead
  <2> QED
    BY <1>2, <2>1, SetHeadStep
<1>3. CASE SetTail(c)
  <2>1. count' = count /\ call[c].pc = "setTail"
    BY <1>3 DEF SetTail
  <2>2. PICK k :
          /\ Stage(c, s)' /\ Becomes(c, k) /\ k.pc = "count" /\ k \in CallLocals
          /\ ListTypeOK' /\ fault' = fault
          /\ Lines(s)' = Lines(s)
    BY <1>3, SetTailStep
  <2>3. ~Joining(c) /\ ~Joining(c)'
    BY <2>1, <2>2 DEF Joining, Becomes
  <2>4. JoinsOnce(c, s, s)
    BY <2>2, <2>3 DEF JoinsOnce
  <2> QED
    BY <2>1, <2>2, <2>4
<1>4. CASE CountUp(c)
  <2>1. call[c].pc = "count"
    BY <1>4 DEF CountUp
  <2>2. NoCall.pc = "idle"
    BY CallTypes
  <2>3. /\ Stage(c, s)' /\ Becomes(c, NoCall)
        /\ ListTypeOK' /\ fault' = fault /\ count' = count + 1
        /\ Lines(s)' = Lines(s)
    BY <1>4, CountUpStep
  <2>4. ~Joining(c) /\ ~Joining(c)'
    BY <2>1, <2>2, <2>3 DEF Joining, Becomes
  <2>5. JoinsOnce(c, s, s)
    BY <2>3, <2>4 DEF JoinsOnce
  <2> QED
    BY <2>1, <2>2, <2>3, <2>5
<1> QED
  BY <1>1, <1>2, <1>3, <1>4 DEF InsertStep

(* LLGet returns the line asked for. *)
LEMMA GetSteps ==
  ASSUME ListTypeOK, NEW c \in Callers, NEW s, Stage(c, s), GetStep(c)
  PROVE  \E k :
           /\ Stage(c, s)' /\ ListTypeOK' /\ fault' = fault /\ count' = count
           /\ Becomes(c, k)
           /\ \/ k.pc = "walk" /\ k.idx = call[c].idx
              \/ k.pc = "idle" /\ k.ret = Lines(s)[call[c].idx + 1] /\ k.ret \in Items
           /\ Lines(s)' = Lines(s)
<1>1. count' = count
  BY DEF GetStep, Walk, WalkEnd, list
<1>2. CASE Walk(c)
  BY <1>1, <1>2, WalkStep
<1>3. CASE WalkEnd(c)
  BY <1>1, <1>3, WalkEndStep
<1> QED
  BY <1>2, <1>3 DEF GetStep

-----------------------------------------------------------------------------
(* A listing so far: the first of the lines.                                *)

Shows(lines, all) ==
  /\ lines \in Seq(Items) /\ Len(lines) <= Len(all)
  /\ \A k \in 1..Len(lines) : lines[k] = all[k]

(* It starts with none, *)
LEMMA ShowsNone ==
  ASSUME NEW all \in Seq(Items)
  PROVE  Shows(<<>>, all)
BY EmptySeq, LenProperties DEF Shows

(* goes on by the next one, *)
LEMMA ShowsNext ==
  ASSUME NEW all \in Seq(Items), NEW lines, Shows(lines, all), Len(lines) < Len(all)
  PROVE  Shows(Append(lines, all[Len(lines) + 1]), all)
<1> DEFINE z == Len(lines)
<1>1. lines \in Seq(Items) /\ z \in Nat /\ Len(all) \in Nat
  BY LenProperties DEF Shows
<1>2. z + 1 \in 1..Len(all) /\ all[z + 1] \in Items
  BY <1>1, ElementOfSeq
<1> DEFINE more == Append(lines, all[z + 1])
<1>3. more \in Seq(Items) /\ Len(more) = z + 1 /\ more[z + 1] = all[z + 1]
      /\ \A k \in 1..z : more[k] = lines[k]
  BY <1>1, <1>2, AppendProperties
<1> HIDE DEF more
<1>4. ASSUME NEW k \in 1..(z + 1)
      PROVE  more[k] = all[k]
  <2>1. CASE k = z + 1
    BY <1>3, <2>1
  <2>2. CASE k # z + 1
    <3>1. k \in 1..z
      BY <1>1, <2>2
    <3> QED
      BY <1>3, <3>1 DEF Shows
  <2> QED
    BY <2>1, <2>2
<1>5. Shows(more, all)
  BY <1>1, <1>3, <1>4 DEF Shows
<1> QED
  BY <1>5 DEF more

(* and ends with all. *)
LEMMA ShowsAll ==
  ASSUME NEW all \in Seq(Items), NEW lines, Shows(lines, all), Len(lines) >= Len(all)
  PROVE  lines = all
<1>1. lines \in Seq(Items) /\ Len(lines) = Len(all)
  BY LenProperties DEF Shows
<1> QED
  BY <1>1, SeqEqual DEF Shows
=============================================================================
