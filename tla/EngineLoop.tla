------------------------------ MODULE EngineLoop ------------------------------
(* The engine around its connections and streams: the event loop of              *)
(* kcpmux_engine.c.  It collects and dispatches due timers, closes connections   *)
(* with all their streams, defers the freeing of what was closed to the end of   *)
(* the outermost operation, and keeps the host's replaceable one-shot timer      *)
(* armed.  The timer heap is a set here (TimerHeap implements it); nothing below *)
(* depends on the order in which nodes become due.                               *)
(*                                                                               *)
(* An operation runs in steps: its body, then one step per released object, then *)
(* the re-arming of the external timer; operations do not overlap.               *)
EXTENDS Integers, Sequences, FiniteSets

CONSTANTS Conns, Streams,  \* objects; each lives at most once
          Owner,           \* Owner[s]: the connection of stream s
          MaxTime          \* bound of the times; the clock stops one short of it

Nodes == Conns \cup Streams
None == -1
Times == 0..MaxTime

ASSUME LoopAssumption ==
  /\ IsFiniteSet(Nodes) /\ Conns \cap Streams = {}
  /\ Owner \in [Streams -> Conns] /\ MaxTime \in Nat

VARIABLES now,        \* monotonic_time_ms
          life,       \* life[n]: "unborn", "live", "closed" or "freed"
          heap,       \* the nodes in the timer heap
          deadline,   \* their deadline_ms
          due,        \* due_list of the running kcpmux_engine_update
          ran,        \* history: the nodes this update has dispatched
          seenAt,     \* the now the running update read once
          mode,       \* "idle", "update" or "leaving" the outermost operation
          queue,      \* pending_release_list
          armed,      \* external_timer_armed
          armedFor,   \* external_timer_deadline_ms
          shot,       \* when the host's one-shot timer fires, None if it is not set
          gone        \* the engine was destroyed

timerVars == <<heap, deadline, due>>
hostVars == <<armed, armedFor, shot>>
vars == <<now, life, timerVars, ran, seenAt, mode, queue, hostVars, gone>>

Live == {n \in Nodes : life[n] = "live"}
StreamsOf(c) == {s \in Streams : Owner[s] = c /\ life[s] = "live"}

Init ==
  /\ now = 0 /\ life = [n \in Nodes |-> "unborn"]
  /\ heap = {} /\ deadline = [n \in Nodes |-> 0] /\ due = {} /\ ran = {}
  /\ seenAt = 0 /\ mode = "idle" /\ queue = << >>
  /\ armed = FALSE /\ armedFor = 0 /\ shot = None /\ gone = FALSE

Larger(a, b) == IF a < b THEN b ELSE a

(* Mutant: a due node scheduled again stays on the list.                          *)
PutKeepsDue(n, d, at) ==
  /\ heap' = heap \cup {n}
  /\ deadline' = [deadline EXCEPT ![n] = Larger(d, at)]
  /\ due' = due
(* kcpmux_engine_schedule_timer_node up to the re-arming: a deadline in the past  *)
(* becomes the caller's now.                                                     *)
Put(n, d, at) ==
  /\ heap' = heap \cup {n}
  /\ deadline' = [deadline EXCEPT ![n] = Larger(d, at)]
  /\ due' = due \ {n}

(* Mutant: a connection closes without its streams.                               *)
ClosingAlone(n) == {n}
(* What a call closes: kcpmux_stream_close_internal closes one stream,            *)
(* kcpmux_conn_close_internal its streams first.                                  *)
Closing(n) == {n} \cup (IF n \in Conns THEN StreamsOf(n) ELSE {})

(* Mutant: the connection queues itself before its streams do.                    *)
QueuedConnFirst(n, q) == q[1] = n
(* kcpmux_engine_queue_release: streams queue themselves during the cascade, in    *)
(* the order of the hash table, the connection after them.                         *)
Queued(n, q) == q[Len(q)] = n

(* The orders in which the objects of S, n among them, can join the list.          *)
Orders(S, n) ==
  {q \in [1..Cardinality(S) -> S] :
     /\ Queued(n, q)
     /\ \A m \in S : \E i \in DOMAIN q : q[i] = m
     /\ \A i, j \in DOMAIN q : q[i] = q[j] => i = j}

(* Mutant: a node already on the due list is not taken off it.                      *)
UnregisterFromHeap(S) == heap' = heap \ S /\ UNCHANGED <<deadline, due>>
(* kcpmux_engine_unregister_timer_node, for every closed object.                    *)
Unregister(S) == heap' = heap \ S /\ due' = due \ S /\ UNCHANGED deadline

Close(n) ==
  /\ life' = [m \in Nodes |-> IF m \in Closing(n) THEN "closed" ELSE life[m]]
  /\ \E q \in Orders(Closing(n), n) : queue' = queue \o q
  /\ Unregister(Closing(n))

-----------------------------------------------------------------------------
(* Operations of the host: API calls and kcpmux_engine_input.  A call reads the   *)
(* clock once and then creates, schedules, cancels and closes any objects; which  *)
(* ones, and when, is the subject of Connection and Stream.                       *)

(* kcpmux_engine_operation_enter at depth 0.  kcpmux forbids calls on a destroyed  *)
(* engine and calls from callbacks.                                                *)
Enter == mode = "idle" /\ ~gone

CallBegin ==
  /\ Enter
  /\ mode' = "call" /\ seenAt' = now
  /\ UNCHANGED <<now, life, timerVars, ran, queue, hostVars, gone>>

Keep == UNCHANGED <<now, ran, seenAt, mode, hostVars, gone>>

(* kcpmux_conn_new or kcpmux_stream_new registers the node and its caller schedules *)
(* it.                                                                              *)
Create(n, d) ==
  /\ mode = "call" /\ life[n] = "unborn" /\ (n \in Streams => life[Owner[n]] = "live")
  /\ life' = [life EXCEPT ![n] = "live"]
  /\ Put(n, d, seenAt)
  /\ UNCHANGED queue /\ Keep

Schedule(n, d) ==
  /\ mode = "call" /\ n \in Live
  /\ Put(n, d, seenAt)
  /\ UNCHANGED <<life, queue>> /\ Keep

(* kcpmux_engine_cancel_timer_node, as a refresh in an inert state does.          *)
Cancel(n) ==
  /\ mode = "call" /\ n \in heap
  /\ heap' = heap \ {n}
  /\ UNCHANGED <<life, deadline, due, queue>> /\ Keep

(* A close that ends an object at once, through its close_internal.               *)
CloseCall(n) == mode = "call" /\ n \in Live /\ Close(n) /\ Keep

CallEnd ==
  /\ mode = "call"
  /\ mode' = "leaving"
  /\ UNCHANGED <<now, life, timerVars, ran, seenAt, queue, hostVars, gone>>

(* kcpmux_engine_destroy closes the connections one after the other.  The host     *)
(* has removed its timer and calls nothing any more.                               *)
DestroyBegin ==
  /\ Enter
  /\ gone' = TRUE /\ mode' = "destroy" /\ shot' = None
  /\ UNCHANGED <<now, life, timerVars, ran, seenAt, queue, armed, armedFor>>

DestroyNext(c) == mode = "destroy" /\ c \in Conns \cap Live /\ Close(c) /\ Keep

DestroyEnd ==
  /\ mode = "destroy" /\ Conns \cap Live = {}
  /\ mode' = "leaving"
  /\ UNCHANGED <<now, life, timerVars, ran, seenAt, queue, hostVars, gone>>

-----------------------------------------------------------------------------
(* kcpmux_engine_update                                                        *)

(* Mutant: the update forgets that it consumed the one-shot.                      *)
UpdateKeepsArmed ==
  /\ Enter
  /\ seenAt' = now /\ ran' = {}
  /\ due' = {n \in heap : deadline[n] <= now}
  /\ heap' = heap \ due'
  /\ mode' = "update"
  /\ UNCHANGED <<now, life, deadline, queue, armed, armedFor, gone>>
(* It reads the clock once and moves every node due by then out of the heap.      *)
UpdateBegin ==
  /\ Enter
  /\ armed' = FALSE /\ seenAt' = now /\ ran' = {}
  /\ due' = {n \in heap : deadline[n] <= now}
  /\ heap' = heap \ due'
  /\ mode' = "update"
  /\ UNCHANGED <<now, life, deadline, queue, armedFor, gone>>

(* The host's timer fires.                                                        *)
TimerFires == shot # None /\ shot <= now /\ UpdateBegin /\ shot' = None

(* The host calls kcpmux_engine_update without being asked.                       *)
ExtraUpdate == UpdateBegin /\ UNCHANGED shot

(* A timeout callback leaves its node idle, schedules it again, or closes its      *)
(* object.                                                                        *)
Dispatch(n) ==
  /\ mode = "update" /\ n \in due
  /\ ran' = ran \cup {n}
  /\ \/ due' = due \ {n} /\ UNCHANGED <<life, heap, deadline, queue>>
     \/ (\E d \in Times : Put(n, d, seenAt)) /\ UNCHANGED <<life, queue>>
     \/ Close(n)
  /\ UNCHANGED <<now, seenAt, mode, hostVars, gone>>

UpdateEnd ==
  /\ mode = "update" /\ due = {}
  /\ mode' = "leaving" /\ ran' = {}
  /\ UNCHANGED <<now, life, timerVars, seenAt, queue, hostVars, gone>>

-----------------------------------------------------------------------------
(* kcpmux_engine_operation_leave                                               *)

(* kcpmux_engine_drain_pending_release, one object.                               *)
Release ==
  /\ mode = "leaving" /\ queue # << >>
  /\ life' = [life EXCEPT ![Head(queue)] = "freed"]
  /\ queue' = Tail(queue)
  /\ UNCHANGED <<now, timerVars, ran, seenAt, mode, hostVars, gone>>

SetTimer(d) == armed' = TRUE /\ armedFor' = d /\ shot' = Larger(d, now)

IsRoot(n) == n \in heap /\ \A m \in heap : deadline[n] <= deadline[m]

(* Mutant: a timer that is set is left alone.                                      *)
RearmOnce ==
  \/ heap = {} /\ UNCHANGED hostVars
  \/ \E n \in heap : IsRoot(n) /\ IF armed THEN UNCHANGED hostVars ELSE SetTimer(deadline[n])
(* kcpmux_engine_rearm_timer: nothing to do when the heap is empty or the timer    *)
(* is set for the first deadline already.                                          *)
Rearm ==
  \/ heap = {} /\ UNCHANGED hostVars
  \/ \E n \in heap :
        /\ IsRoot(n)
        /\ IF armed /\ armedFor = deadline[n] THEN UNCHANGED hostVars
           ELSE SetTimer(deadline[n])

Left ==
  /\ mode = "leaving" /\ queue = << >>
  /\ Rearm
  /\ mode' = "idle"
  /\ UNCHANGED <<now, life, timerVars, ran, seenAt, queue, gone>>

Tick ==
  /\ now + 1 < MaxTime /\ ~gone
  /\ now' = now + 1
  /\ UNCHANGED <<life, timerVars, ran, seenAt, mode, queue, hostVars, gone>>

Next ==
  \/ \E n \in Nodes, d \in Times : Create(n, d) \/ Schedule(n, d)
  \/ \E n \in Nodes : Cancel(n) \/ CloseCall(n) \/ Dispatch(n)
  \/ \E c \in Conns : DestroyNext(c)
  \/ CallBegin \/ CallEnd \/ DestroyBegin \/ DestroyEnd
  \/ TimerFires \/ ExtraUpdate \/ UpdateEnd \/ Release \/ Left \/ Tick

Spec == Init /\ [][Next]_vars

(* The clock runs, the host serves its timer though other calls compete with it,   *)
(* and what the engine started it finishes.                                        *)
FairSpec ==
  /\ Spec
  /\ WF_vars(Tick) /\ SF_vars(TimerFires)
  /\ WF_vars(CallEnd \/ UpdateEnd \/ DestroyEnd \/ Release \/ Left)
  /\ WF_vars(\E n \in Nodes : Dispatch(n)) /\ WF_vars(\E c \in Conns : DestroyNext(c))

-----------------------------------------------------------------------------
TypeOK ==
  /\ now \in Times /\ life \in [Nodes -> {"unborn", "live", "closed", "freed"}]
  /\ heap \subseteq Nodes /\ deadline \in [Nodes -> Times] /\ due \subseteq Nodes
  /\ ran \subseteq Nodes /\ seenAt \in Times
  /\ mode \in {"idle", "call", "update", "destroy", "leaving"}
  /\ queue \in Seq(Nodes)
  /\ armed \in BOOLEAN /\ armedFor \in Times /\ shot \in Times \cup {None}
  /\ gone \in BOOLEAN

(* Whenever the engine is left, the host's one-shot is set and fires no later than *)
(* the first deadline in the heap, or at once if that has passed: comparing        *)
(* external_timer_deadline_ms with the root never suppresses a set_timer the host   *)
(* still needs, although the one-shot is consumed by updates, outlives the node it  *)
(* was set for, and is never cancelled (kcpmux_engine_rearm_timer).                 *)
NoLostWakeup ==
  mode = "idle" /\ ~gone =>
     \A n \in heap : shot # None /\ shot <= Larger(deadline[n], now)

(* What kcpmux may still run or follow exists: a node in the heap or on the due      *)
(* list belongs to an open object, also when an earlier callback of the same update *)
(* closed it together with its connection; and an open stream's connection is open.  *)
NothingStale ==
  /\ heap \cup due \subseteq Live /\ heap \cap due = {}
  /\ \A s \in Streams \cap Live : Owner[s] \in Live

(* Every object closed and not yet freed waits in pending_release_list exactly once, *)
(* a connection behind all its streams, so a stream's conn pointer is good as long    *)
(* as the stream is; and outside operations the list is empty.                        *)
ReleaseOrder ==
  /\ \A n \in Nodes : life[n] = "closed" <=> \E i \in DOMAIN queue : queue[i] = n
  /\ \A i, j \in DOMAIN queue : queue[i] = queue[j] => i = j
  /\ \A s \in Streams : life[s] \in {"live", "closed"} => life[Owner[s]] # "freed"
  /\ mode = "idle" => queue = << >>

(* An update runs each node at most once, even if its callback schedules it for the   *)
(* very time the update works with: the loop of kcpmux_engine_update ends.            *)
OncePerUpdate == due \cap ran = {}

(* kcpmux_engine_destroy leaves no object and no timer behind.                        *)
DestroyComplete ==
  gone /\ mode = "idle" =>
     heap = {} /\ \A n \in Nodes : life[n] \in {"unborn", "freed"}

(* The invariant behind the ones above.  A connection waits behind its streams; the   *)
(* engine's idea of the external timer is the host's (an armed timer is one the host   *)
(* still holds); outside operations it is set for the first deadline or an earlier     *)
(* one; a due list exists in an update only; a destroyed engine has no connections.    *)
IndInv ==
  /\ TypeOK /\ NothingStale /\ ReleaseOrder /\ OncePerUpdate
  /\ \A i, j \in DOMAIN queue :
        queue[i] \in Streams /\ queue[j] = Owner[queue[i]] => i < j
  /\ armed /\ ~gone => shot # None /\ shot <= Larger(armedFor, now)
  /\ mode = "idle" /\ ~gone => \A n \in heap : armed /\ armedFor <= deadline[n]
  /\ mode # "update" => due = {}
  /\ mode = "destroy" => gone
  /\ gone => mode \in {"destroy", "leaving", "idle"}
  /\ gone /\ mode # "destroy" => Conns \cap Live = {}

(* A deadline that has come is served: its node is dispatched, cancelled or closed, or  *)
(* a call of the host puts it off to a later time, as a flush does with the update of    *)
(* its stream.  No combination of calls and extra updates leaves a node in the heap with  *)
(* its deadline passed for ever.                                                         *)
DueServed ==
  \A n \in Nodes :
    (n \in heap /\ deadline[n] <= now) ~> (n \notin heap \/ deadline[n] > now)
=============================================================================
