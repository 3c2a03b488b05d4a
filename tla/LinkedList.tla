------------------------------ MODULE LinkedList ------------------------------
(***************************************************************************)
(* singlyLinkedList.c: a list with head, tail and count over nodes of the  *)
(* heap.  Each function is a sequence of steps of its caller, one per      *)
(* access to what callers share, so that the functions of two callers      *)
(* interleave unless the callers keep them apart; the list does not use    *)
(* its own mutex.                                                          *)
(*                                                                         *)
(* CompletedList and LoadHistory are its two users.                        *)
(***************************************************************************)
EXTENDS Integers, Sequences, FiniteSets

CONSTANTS
  Callers,   \* the threads that use the list
  Nodes,     \* bound: addresses of nodes
  Items,     \* what is kept in the list
  Null       \* a NULL pointer

ASSUME NullAssumption == Null \notin Nodes /\ Null \notin Items

ASSUME NodesAssumption == IsFiniteSet(Nodes)

VARIABLES
  head, tail, count,
  node,        \* address -> NodeEntry
  allocated,   \* the addresses calloc has given out and free not taken back
  call,        \* caller -> its step in a function of the list, and its locals
  fault        \* a freed node, or NULL, was read or written

list == <<head, tail, count>>
heap == <<node, allocated>>
listVars == <<list, heap, call, fault>>

-----------------------------------------------------------------------------
Pointer   == Nodes \cup {Null}
NodeEntry == [data : Items \cup {Null}, next : Pointer]

ListLabels == {"idle", "linkTail", "setHead", "setTail", "count", "walk", "clear"}

(* cur and i are the locals of LLGet, cur the new node of LLInsertTail, ret
   what LLGet returned. *)
CallLocals ==
  [pc : ListLabels, cur : Pointer, i : Nat, idx : Nat, ret : Items \cup {Null}]

NoCall == [pc |-> "idle", cur |-> Null, i |-> 0, idx |-> 0, ret |-> Null]

InitList ==
  /\ head = Null /\ tail = Null /\ count = 0
  /\ node = [n \in Nodes |-> [data |-> Null, next |-> Null]]
  /\ allocated = {}
  /\ call = [c \in Callers |-> NoCall]
  /\ fault = FALSE

Idle(c) == call[c].pc = "idle"

(* n is used: it ought to be allocated. *)
Used(n) == fault' = (fault \/ n \notin allocated)

-----------------------------------------------------------------------------
(* LLInsertTail: a new node, reached from the old tail, from head if the list
   is empty, and from tail. *)
InsertTail(c, d) ==
  /\ Idle(c)
  /\ \E n \in Nodes \ allocated :
       /\ allocated' = allocated \cup {n}
       /\ node' = [node EXCEPT ![n] = [data |-> d, next |-> Null]]
       /\ call' = [call EXCEPT ![c] = [NoCall EXCEPT !.pc = "linkTail", !.cur = n]]
  /\ UNCHANGED <<list, fault>>

LinkTail(c) ==
  /\ call[c].pc = "linkTail"
  /\ IF tail = Null THEN UNCHANGED <<node, fault>>
     ELSE /\ Used(tail)
          /\ node' = [node EXCEPT ![tail].next = call[c].cur]
  /\ call' = [call EXCEPT ![c].pc = "setHead"]
  /\ UNCHANGED <<list, allocated>>

(* Mutation of SetHead: head is not set. *)
SetHeadNever(c) ==
  /\ call[c].pc = "setHead"
  /\ call' = [call EXCEPT ![c].pc = "setTail"]
  /\ UNCHANGED <<list, heap, fault>>

SetHead(c) ==
  /\ call[c].pc = "setHead"
  /\ head' = IF count = 0 THEN call[c].cur ELSE head
  /\ call' = [call EXCEPT ![c].pc = "setTail"]
  /\ UNCHANGED <<tail, count, heap, fault>>

SetTail(c) ==
  /\ call[c].pc = "setTail"
  /\ tail' = call[c].cur
  /\ call' = [call EXCEPT ![c].pc = "count"]
  /\ UNCHANGED <<head, count, heap, fault>>

CountUp(c) ==
  /\ call[c].pc = "count"
  /\ count' = count + 1
  /\ call' = [call EXCEPT ![c] = NoCall]
  /\ UNCHANGED <<head, tail, heap, fault>>

InsertStep(c) == LinkTail(c) \/ SetHead(c) \/ SetTail(c) \/ CountUp(c)

(* LLGet: idx steps from the head, or fewer at the end of the list. *)
Get(c, idx) ==
  /\ Idle(c)
  /\ call' = [call EXCEPT ![c] = [NoCall EXCEPT !.pc = "walk", !.cur = head, !.idx = idx]]
  /\ UNCHANGED <<list, heap, fault>>

Walk(c) ==
  /\ call[c].pc = "walk"
  /\ call[c].cur # Null /\ call[c].i < call[c].idx
  /\ Used(call[c].cur)
  /\ call' = [call EXCEPT ![c].cur = node[call[c].cur].next, ![c].i = @ + 1]
  /\ UNCHANGED <<list, heap>>

WalkEnd(c) ==
  /\ call[c].pc = "walk"
  /\ call[c].cur = Null \/ call[c].i >= call[c].idx
  /\ IF call[c].cur = Null
     THEN call' = [call EXCEPT ![c] = NoCall] /\ UNCHANGED fault
     ELSE /\ Used(call[c].cur)
          /\ call' = [call EXCEPT ![c] = [NoCall EXCEPT !.ret = node[call[c].cur].data]]
  /\ UNCHANGED <<list, heap>>

GetStep(c) == Walk(c) \/ WalkEnd(c)

(* Mutation of RemoveHead: the node is not counted out. *)
RemoveHeadUncounted(c) ==
  /\ Idle(c)
  /\ IF head = Null THEN UNCHANGED <<head, allocated, fault>>
     ELSE /\ Used(head)
          /\ head' = node[head].next
          /\ allocated' = allocated \ {head}
  /\ UNCHANGED <<tail, count, node, call>>

(* LLRemoveHead: the first node is freed; tail stays as it is. *)
RemoveHead(c) ==
  /\ Idle(c)
  /\ IF head = Null THEN UNCHANGED <<list, allocated, fault>>
     ELSE /\ Used(head)
          /\ head' = node[head].next
          /\ count' = count - 1
          /\ allocated' = allocated \ {head}
          /\ UNCHANGED tail
  /\ UNCHANGED <<node, call>>

(* LLClear, and the loop of DestroyLL: the nodes are freed from the head on,
   then LLClear resets the list. *)
Clear(c) ==
  /\ Idle(c)
  /\ call' = [call EXCEPT ![c].pc = "clear"]
  /\ UNCHANGED <<list, heap, fault>>

(* Mutation of ClearNode: the node is not freed. *)
ClearNodeLeaks(c) ==
  /\ call[c].pc = "clear"
  /\ head # Null
  /\ Used(head)
  /\ head' = node[head].next
  /\ UNCHANGED <<tail, count, heap, call>>

ClearNode(c) ==
  /\ call[c].pc = "clear"
  /\ head # Null
  /\ Used(head)
  /\ head' = node[head].next
  /\ allocated' = allocated \ {head}
  /\ UNCHANGED <<tail, count, node, call>>

ClearEnd(c) ==
  /\ call[c].pc = "clear"
  /\ head = Null
  /\ tail' = Null /\ count' = 0
  /\ call' = [call EXCEPT ![c] = NoCall]
  /\ UNCHANGED <<head, heap, fault>>

ClearStep(c) == ClearNode(c) \/ ClearEnd(c)

-----------------------------------------------------------------------------
(* The node that many steps after first, Null beyond the last: at most one more
   step than there are addresses. *)
NodesFrom(first, entry) ==
  LET at[k \in 0..Cardinality(Nodes)] ==
        IF k = 0 THEN first ELSE IF at[k - 1] = Null THEN Null ELSE entry[at[k - 1]].next
  IN  at

ChainFrom(first, entry) ==
  LET at   == NodesFrom(first, entry)
      long == Cardinality({k \in 0..Cardinality(Nodes) : at[k] # Null})
  IN  [k \in 1..long |-> at[k - 1]]

(* What the list holds: the nodes from the head on. *)
Chain == ChainFrom(head, node)

Contents == [k \in 1..Len(Chain) |-> node[Chain[k]].data]

(* No caller is in a function that changes the list. *)
Quiescent == \A c \in Callers : call[c].pc \in {"idle", "walk"}

(* Between its functions the list is one: the chain from head is allocated, has
   count nodes, each once, and ends at tail (singlyLinkedList.c:97-135). *)
WellFormed ==
  Quiescent =>
    LET nodes == {Chain[k] : k \in 1..Len(Chain)}
    IN  /\ count = Len(Chain) /\ count = Cardinality(nodes)
        /\ nodes \subseteq allocated
        /\ count > 0 => tail = Chain[count]
=============================================================================
