----------------------------- MODULE TimerQueue -----------------------------
(***************************************************************************)
(* What the timer manager of kcpmux_timer.c promises its users: a set of   *)
(* armed nodes, each with a deadline and an arrival number.  Only the      *)
(* first armed node may become due, nodes become due one behind the other, *)
(* and rescheduling an armed node keeps its arrival number.  How the first *)
(* node is found is the business of TimerHeap, which implements this       *)
(* module.                                                                 *)
(***************************************************************************)
EXTENDS Integers, Sequences

CONSTANTS
  Nodes,     \* the timer nodes, one inside each connection and each stream
  Times      \* the deadlines a node may be given

VARIABLES
  armed,     \* the nodes that wait for their deadline
  deadline,  \* deadline_ms of each node
  order,     \* insertion_sequence of each node
  due        \* the nodes collected for dispatch, in the order of collection

qvars == <<armed, deadline, order, due>>

\* m goes before n: an earlier deadline, or the same and inserted earlier.
Before(m, n) ==
  \/ deadline[m] < deadline[n]
  \/ deadline[m] = deadline[n] /\ order[m] < order[n]

IsFirst(n) == n \in armed /\ \A m \in armed : ~ Before(m, n)

\* s without n, which it holds at most once.
Without(s, n) ==
  LET i == CHOOSE k \in DOMAIN s : s[k] = n
  IN  IF \E k \in DOMAIN s : s[k] = n
      THEN [k \in 1 .. Len(s) - 1 |-> IF k < i THEN s[k] ELSE s[k + 1]]
      ELSE s

QInit ==
  /\ armed = {}
  /\ deadline = [n \in Nodes |-> 0]
  /\ order = [n \in Nodes |-> 0]
  /\ due = << >>

\* A node's storage is initialised for a new owner.
Reset(n) ==
  /\ n \notin armed
  /\ deadline' = [deadline EXCEPT ![n] = 0]
  /\ order' = [order EXCEPT ![n] = 0]
  /\ UNCHANGED <<armed, due>>

\* A node that is armed already only moves; any other arrives last.
Schedule(n, d) ==
  /\ deadline' = [deadline EXCEPT ![n] = d]
  /\ \/ n \in armed /\ UNCHANGED <<armed, order, due>>
     \/ /\ n \notin armed
        /\ armed' = armed \union {n}
        /\ order' = [order EXCEPT ![n] = order'[n]]
        /\ order'[n] \in Nat /\ \A m \in armed : order[m] < order'[n]
        /\ due' = Without(due, n)

Cancel(n) ==
  /\ armed' = armed \ {n}
  /\ due' = Without(due, n)
  /\ UNCHANGED <<deadline, order>>

Expire(n, t) ==
  /\ IsFirst(n)
  /\ deadline[n] <= t
  /\ armed' = armed \ {n}
  /\ due' = Append(due, n)
  /\ UNCHANGED <<deadline, order>>

Dispatch ==
  /\ due # << >>
  /\ due' = Tail(due)
  /\ UNCHANGED <<armed, deadline, order>>

QNext ==
  \/ \E n \in Nodes : Reset(n) \/ Cancel(n)
  \/ \E n \in Nodes, d \in Times : Schedule(n, d)
  \/ \E n \in Nodes, t \in Times : Expire(n, t)
  \/ Dispatch

QSpec == QInit /\ [][QNext]_qvars
=============================================================================
