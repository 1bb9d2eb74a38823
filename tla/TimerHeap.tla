------------------------------ MODULE TimerHeap ------------------------------
(***************************************************************************)
(* The indexed binary min-heap of kcpmux_timer.c, at the granularity of    *)
(* one iteration of the sift loops, with the parts of kcpmux_engine.c that *)
(* call it: registering and unregistering nodes, and the due list that     *)
(* kcpmux_engine_update collects and dispatches.                           *)
(*                                                                         *)
(* While a sift runs, the slot `at' holds a stale copy: the node being     *)
(* moved is `cur', as the local variable `node' of the two sift functions. *)
(* The program is single-threaded, so no other operation starts before the *)
(* sift is done (Ready).                                                   *)
(***************************************************************************)
EXTENDS Integers, Sequences, FiniteSets

CONSTANTS
  Nodes,            \* the timer nodes, one inside each connection and stream
  Times,            \* the deadlines a node may be given
  InitialCapacity,  \* first allocation of the heap array (8 in the code)
  MaxSequence,      \* bound on next_sequence
  Ops,              \* which of "cancel", "unregister", "collect" are exercised
  NoNode, NoIndex, OutOfMemory

VARIABLES
  heap,             \* the used part of manager->heap, indexed from 0
  size, capacity, next_sequence,
  index,            \* node->heap_index
  deadline,         \* node->deadline_ms
  order,            \* node->insertion_sequence
  state,            \* node->state
  registered,       \* the nodes with an owner
  timer_node_count, \* the engine's count of them
  sift,             \* the loop that runs: "none", "up" or "down"
  at, cur,          \* its index and its node
  sink,             \* whether a sift_down follows the sift_up
  due,              \* the due list of the running engine update
  collecting, now,  \* kcpmux_timer_collect_due in progress, and its now_ms
  running           \* the node whose callback runs

heapvars == <<heap, size, index>>
siftvars == <<sift, at, cur, sink>>
nodevars == <<deadline, order, state>>
ownvars  == <<registered, timer_node_count, capacity>>
duevars  == <<due, collecting, now, running>>
vars == <<heapvars, siftvars, nodevars, ownvars, duevars, next_sequence>>

ASSUME ConstantsAssumption ==
  /\ Times \subseteq Int /\ 0 \in Times
  /\ InitialCapacity \in Nat \ {0}
  /\ MaxSequence \in Nat
  /\ NoNode \notin Nodes
  /\ NoIndex \notin Nat
  /\ OutOfMemory \notin Nat
  /\ IsFiniteSet(Nodes)

Parent(i) == (i - 1) \div 2

\* Mutant: no tie-break on the insertion sequence.
LessDeadlineOnly(m, n) == deadline[m] < deadline[n]

\* kcpmux_timer_less.
Less(m, n) ==
  \/ deadline[m] < deadline[n]
  \/ deadline[m] = deadline[n] /\ order[m] < order[n]

Ready == sift = "none" /\ ~ collecting
-----------------------------------------------------------------------------
Init ==
  /\ heap = [j \in 0 .. -1 |-> NoNode] /\ size = 0 /\ capacity = 0 /\ next_sequence = 0
  /\ index = [n \in Nodes |-> NoIndex]
  /\ deadline = [n \in Nodes |-> 0]
  /\ order = [n \in Nodes |-> 0]
  /\ state = [n \in Nodes |-> "IDLE"]
  /\ registered = {} /\ timer_node_count = 0
  /\ sift = "none" /\ at = 0 /\ cur = NoNode /\ sink = FALSE
  /\ due = << >> /\ collecting = FALSE /\ now = 0 /\ running = NoNode

\* A sift_up starts at slot i, followed by a sift_down or not.
Swim(n, i, thenSink) == sift' = "up" /\ at' = i /\ cur' = n /\ sink' = thenSink

SiftDone == sift' = "none" /\ at' = 0 /\ cur' = NoNode /\ sink' = FALSE

\* One iteration of kcpmux_timer_sift_up, or its end.
SiftUp ==
  /\ sift = "up"
  /\ LET parent == Parent(at) IN
     \/ /\ at > 0 /\ Less(cur, heap[parent])
        /\ heap' = [heap EXCEPT ![at] = heap[parent]]
        /\ index' = [index EXCEPT ![heap[parent]] = at]
        /\ at' = parent
        /\ UNCHANGED <<sift, cur, sink>>
     \/ /\ ~ (at > 0 /\ Less(cur, heap[parent]))
        /\ heap' = [heap EXCEPT ![at] = cur]
        /\ index' = [index EXCEPT ![cur] = at]
        /\ IF sink THEN sift' = "down" /\ UNCHANGED <<at, cur, sink>> ELSE SiftDone
  /\ UNCHANGED <<size, nodevars, ownvars, duevars, next_sequence>>

\* The child that kcpmux_timer_sift_down compares with.
Child ==
  LET left == 2 * at + 1 IN
  IF left + 1 < size /\ Less(heap[left + 1], heap[left]) THEN left + 1 ELSE left

\* One iteration of kcpmux_timer_sift_down, or its end.
SiftDown ==
  /\ sift = "down"
  /\ \/ /\ 2 * at + 1 < size /\ Less(heap[Child], cur)
        /\ heap' = [heap EXCEPT ![at] = heap[Child]]
        /\ index' = [index EXCEPT ![heap[Child]] = at]
        /\ at' = Child
        /\ UNCHANGED <<sift, cur, sink>>
     \/ /\ ~ (2 * at + 1 < size /\ Less(heap[Child], cur))
        /\ heap' = [heap EXCEPT ![at] = cur]
        /\ index' = [index EXCEPT ![cur] = at]
        /\ SiftDone
  /\ UNCHANGED <<size, nodevars, ownvars, duevars, next_sequence>>

\* kcpmux_timer_remove_at up to its sift: the last node takes the free slot.
RemoveAt(i) ==
  LET last == heap[size - 1] IN
  /\ size' = size - 1
  /\ heap' = [j \in 0 .. size - 2 |-> IF j = i THEN last ELSE heap[j]]
  /\ IF i < size - 1
     THEN /\ index' = [index EXCEPT ![heap[i]] = NoIndex, ![last] = i]
          /\ Swim(last, i, TRUE)
     ELSE /\ index' = [index EXCEPT ![heap[i]] = NoIndex]
          /\ UNCHANGED siftvars

\* The capacities kcpmux_timer_manager_reserve may leave: the first doubling
\* that suffices, or a failed realloc.
Reserve(c) ==
  LET start == IF capacity = 0 THEN InitialCapacity ELSE capacity IN
  IF c <= capacity
  THEN {capacity}
  ELSE {OutOfMemory} \union
       {k \in c .. 2 * c + start :
          \E e \in 0 .. c : k = start * 2 ^ e /\ (e > 0 => start * 2 ^ (e - 1) < c)}
-----------------------------------------------------------------------------
\* Mutant: reserves one slot too few.
RegisterShort(n) ==
  /\ Ready
  /\ n \notin registered /\ n # running
  /\ \E r \in Reserve(timer_node_count) \ {OutOfMemory} :
       /\ capacity' = r
       /\ registered' = registered \union {n}
       /\ timer_node_count' = timer_node_count + 1
       /\ UNCHANGED <<heapvars, siftvars, nodevars, duevars, next_sequence>>

\* kcpmux_engine_register_timer_node: the heap is grown here, so that a later
\* schedule need not.  The storage of a running node is not free yet.
Register(n) ==
  /\ Ready
  /\ n \notin registered /\ n # running
  /\ \E r \in Reserve(timer_node_count + 1) :
       IF r = OutOfMemory
       THEN UNCHANGED vars
       ELSE /\ capacity' = r
            /\ registered' = registered \union {n}
            /\ timer_node_count' = timer_node_count + 1
            /\ index' = [index EXCEPT ![n] = NoIndex]
            /\ deadline' = [deadline EXCEPT ![n] = 0]
            /\ order' = [order EXCEPT ![n] = 0]
            /\ state' = [state EXCEPT ![n] = "IDLE"]
            /\ UNCHANGED <<heap, size, siftvars, duevars, next_sequence>>

\* list_del_init on a due list, in which a node occurs at most once.
Without(s, n) ==
  LET i == CHOOSE k \in DOMAIN s : s[k] = n
  IN  IF \E k \in DOMAIN s : s[k] = n
      THEN [k \in 1 .. Len(s) - 1 |-> IF k < i THEN s[k] ELSE s[k + 1]]
      ELSE s

\* kcpmux_timer_schedule for a registered node.
Schedule(n, d) ==
  /\ Ready /\ n \in registered
  /\ \/ /\ state[n] = "HEAP"
        /\ deadline' = [deadline EXCEPT ![n] = d]
        /\ Swim(n, index[n], TRUE)
        /\ UNCHANGED <<heapvars, order, state, ownvars, duevars, next_sequence>>
     \/ /\ state[n] # "HEAP"
        /\ next_sequence < MaxSequence
        /\ \E r \in Reserve(size + 1) :
             IF r = OutOfMemory
             THEN UNCHANGED vars
             ELSE /\ capacity' = r
                  /\ due' = IF state[n] = "DUE" THEN Without(due, n) ELSE due
                  /\ deadline' = [deadline EXCEPT ![n] = d]
                  /\ order' = [order EXCEPT ![n] = next_sequence]
                  /\ next_sequence' = next_sequence + 1
                  /\ state' = [state EXCEPT ![n] = "HEAP"]
                  /\ size' = size + 1
                  /\ heap' = [j \in 0 .. size |-> IF j = size THEN n ELSE heap[j]]
                  /\ index' = [index EXCEPT ![n] = size]
                  /\ Swim(n, size, FALSE)
                  /\ UNCHANGED <<registered, timer_node_count, collecting, now, running>>

\* kcpmux_timer_cancel.
Unlink(n) ==
  /\ IF state[n] = "HEAP" THEN RemoveAt(index[n]) ELSE UNCHANGED <<heapvars, siftvars>>
  /\ due' = IF state[n] = "DUE" THEN Without(due, n) ELSE due
  /\ state' = [state EXCEPT ![n] = "IDLE"]
  /\ UNCHANGED <<deadline, order, capacity, collecting, now, running, next_sequence>>

\* kcpmux_engine_cancel_timer_node.
Cancel(n) ==
  /\ "cancel" \in Ops
  /\ Ready /\ n \in registered
  /\ Unlink(n)
  /\ UNCHANGED <<registered, timer_node_count>>

\* kcpmux_engine_unregister_timer_node.
Unregister(n) ==
  /\ "unregister" \in Ops
  /\ Ready /\ n \in registered
  /\ Unlink(n)
  /\ registered' = registered \ {n}
  /\ timer_node_count' = IF timer_node_count > 0 THEN timer_node_count - 1
                                                 ELSE timer_node_count
-----------------------------------------------------------------------------
\* kcpmux_engine_update starts to collect: its due list is local and empty.
CollectDue(t) ==
  /\ "collect" \in Ops
  /\ Ready /\ due = << >> /\ running = NoNode
  /\ collecting' = TRUE /\ now' = t
  /\ UNCHANGED <<heapvars, siftvars, nodevars, ownvars, due, running, next_sequence>>

\* Mutant: leaves a node whose deadline is now.
CollectOneStrict ==
  /\ sift = "none" /\ collecting
  /\ IF size > 0 /\ deadline[heap[0]] < now
     THEN /\ RemoveAt(0)
          /\ state' = [state EXCEPT ![heap[0]] = "DUE"]
          /\ due' = Append(due, heap[0])
          /\ UNCHANGED <<collecting, now>>
     ELSE /\ collecting' = FALSE /\ now' = 0
          /\ UNCHANGED <<heapvars, siftvars, state, due>>
  /\ UNCHANGED <<deadline, order, ownvars, running, next_sequence>>

\* One iteration of kcpmux_timer_collect_due, or its end.
CollectOne ==
  /\ sift = "none" /\ collecting
  /\ \/ /\ size > 0 /\ deadline[heap[0]] <= now
        /\ RemoveAt(0)
        /\ state' = [state EXCEPT ![heap[0]] = "DUE"]
        /\ due' = Append(due, heap[0])
        /\ UNCHANGED <<collecting, now>>
     \/ /\ ~ (size > 0 /\ deadline[heap[0]] <= now)
        /\ collecting' = FALSE /\ now' = 0
        /\ UNCHANGED <<heapvars, siftvars, state, due>>
  /\ UNCHANGED <<deadline, order, ownvars, running, next_sequence>>

\* kcpmux_engine_update takes the head of the due list and calls its owner.
Dispatch ==
  /\ Ready /\ due # << >> /\ running = NoNode
  /\ running' = Head(due)
  /\ due' = Tail(due)
  /\ state' = [state EXCEPT ![Head(due)] = "RUNNING"]
  /\ UNCHANGED <<heapvars, siftvars, deadline, order, ownvars, collecting, now, next_sequence>>

\* The callback returns; what it did to timers are the actions above.
Return ==
  /\ Ready /\ running # NoNode
  /\ running' = NoNode
  /\ state' = IF state[running] = "RUNNING" THEN [state EXCEPT ![running] = "IDLE"] ELSE state
  /\ UNCHANGED <<heapvars, siftvars, deadline, order, ownvars, due, collecting, now, next_sequence>>

Next ==
  \/ SiftUp \/ SiftDown \/ CollectOne \/ Dispatch \/ Return
  \/ \E n \in Nodes : Register(n) \/ Cancel(n) \/ Unregister(n)
  \/ \E n \in Nodes, d \in Times : Schedule(n, d)
  \/ \E t \in Times : CollectDue(t)

Spec == Init /\ [][Next]_vars
-----------------------------------------------------------------------------
Moving == sift # "none"

Settled(i) == i \in 0 .. size - 1 /\ ~ (Moving /\ i = at)

TypeOK ==
  /\ size \in Nat /\ capacity \in Nat /\ next_sequence \in Nat
  /\ heap \in [0 .. size - 1 -> Nodes]
  /\ index \in [Nodes -> Nat \union {NoIndex}]
  /\ deadline \in [Nodes -> Int]
  /\ order \in [Nodes -> Nat]
  /\ state \in [Nodes -> {"IDLE", "HEAP", "DUE", "RUNNING"}]
  /\ registered \subseteq Nodes
  /\ timer_node_count \in Nat
  /\ sift \in {"none", "up", "down"}
  /\ at \in Nat /\ cur \in Nodes \union {NoNode} /\ sink \in BOOLEAN
  /\ due \in Seq(Nodes)
  /\ collecting \in BOOLEAN /\ now \in Times
  /\ running \in Nodes \union {NoNode}

\* Between operations the array is a binary min-heap under (deadline_ms,
\* insertion_sequence): what kcpmux_timer_peek relies on when it returns
\* heap[0].
HeapOrdered ==
  ~ Moving => \A i \in 1 .. size - 1 : ~ Less(heap[i], heap[Parent(i)])

\* Between operations heap_index is the inverse of the array: a node in state
\* HEAP is found where its index says, so that cancel and reschedule move the
\* right node, and no slot holds a node that was cancelled or released.
IndexAgrees ==
  ~ Moving =>
    /\ \A i \in 0 .. size - 1 : state[heap[i]] = "HEAP" /\ index[heap[i]] = i
    /\ \A n \in Nodes : state[n] = "HEAP" =>
         n \in registered /\ index[n] \in 0 .. size - 1 /\ heap[index[n]] = n

\* "Scheduling a successfully registered owner must not be the first operation
\* that needs to grow the heap" (kcpmux_engine.c:410): a registered node that is
\* not in the heap always finds room, so kcpmux_timer_schedule cannot fail and
\* the callers that ignore its result are right to.
RoomToSchedule ==
  ~ Moving => \A n \in registered : state[n] # "HEAP" => size < capacity

\* When kcpmux_timer_collect_due returns, no node that was due at its now_ms
\* is left behind in the heap.
CollectsAll ==
  [][collecting /\ ~ collecting' =>
       \A n \in Nodes : state[n] = "HEAP" => deadline[n] > now]_vars

\* The heap implements the timer queue: only the first node expires, in order
\* of (deadline, insertion), whatever schedules and cancels came before.
Queue == INSTANCE TimerQueue WITH
  armed <- {n \in Nodes : state[n] = "HEAP"}

ImplementsQueue == Queue!QSpec
-----------------------------------------------------------------------------
(* The inductive invariant behind the properties above. *)

\* The node a slot stands for: the one being moved, in the slot it has reached.
Val(i) == IF Moving /\ i = at THEN cur ELSE heap[i]

EdgeOK(i) == ~ Less(Val(i), Val(Parent(i)))

\* Which edges are in order while a sift is under way, and that skipping the
\* moved node leaves its children in order with its parent.
SiftOrdered ==
  /\ sift = "none" => \A i \in 1 .. size - 1 : EdgeOK(i)
  /\ sift = "up" =>
       /\ \A i \in 1 .. size - 1 : i # at /\ Parent(i) # at => EdgeOK(i)
       /\ ~ sink => \A i \in 1 .. size - 1 : Parent(i) = at => EdgeOK(i)
  /\ sift = "down" => \A i \in 1 .. size - 1 : Parent(i) # at => EdgeOK(i)
  /\ Moving => \A i \in 1 .. size - 1 :
       Parent(i) = at /\ at > 0 => ~ Less(heap[i], heap[Parent(at)])

SlotsAgree ==
  /\ Moving => cur \in Nodes /\ state[cur] = "HEAP" /\ at \in 0 .. size - 1
  /\ ~ Moving => cur = NoNode
  /\ \A i \in 0 .. size - 1 : Settled(i) =>
       heap[i] # cur /\ state[heap[i]] = "HEAP" /\ index[heap[i]] = i
  /\ \A n \in Nodes : state[n] = "HEAP" =>
       /\ n \in registered
       /\ order[n] < next_sequence
       /\ n # cur => Settled(index[n]) /\ heap[index[n]] = n
  /\ \A n \in Nodes \ registered : state[n] = "IDLE"

DueAgrees ==
  /\ \A k \in 1 .. Len(due) : state[due[k]] = "DUE"
  /\ \A n \in Nodes : state[n] = "DUE" => \E k \in 1 .. Len(due) : due[k] = n
  /\ \A j, k \in 1 .. Len(due) : due[j] = due[k] => j = k

CountsAgree ==
  /\ timer_node_count = Cardinality(registered)
  /\ timer_node_count <= capacity

\* At every iteration of kcpmux_timer_sift_up/down, not only between operations:
\* the slots other than the moving node's agree with heap_index and the node
\* states, only the edges at the moving node may be out of order, the due list
\* holds each DUE node once, and the reservations cover the registered nodes.
IndInv == TypeOK /\ SlotsAgree /\ SiftOrdered /\ DueAgrees /\ CountsAgree
=============================================================================
