----------------------------- MODULE KcpContract -----------------------------
(***************************************************************************)
(* What a stream relies on when it uses KCP.  For the messages of each end:  *)
(* how many send has accepted (they are numbered from 0), which of           *)
(* them have reached the peer's KCP, how many waitsnd still counts, and what *)
(* the peer's application has read.  Segments, windows, acknowledgements and *)
(* timers are not visible at this level.                                     *)
(***************************************************************************)
EXTENDS Integers, Sequences, FiniteSets

CONSTANT End

VARIABLE chan    \* [End -> [accepted, arrived, waiting, read]]

Init == chan = [p \in End |-> [accepted |-> 0, arrived |-> {}, waiting |-> 0, read |-> << >>]]

Send(c, d) ==
  d = [accepted |-> c.accepted + 1, arrived |-> c.arrived, waiting |-> c.waiting + 1,
       read |-> c.read]

\* Messages reach the peer in any order; none gets lost once it is there.
Arrive(c, d) ==
  /\ d = [c EXCEPT !.arrived = d.arrived]
  /\ c.arrived \subseteq d.arrived /\ d.arrived \subseteq 0..(c.accepted - 1)

\* waitsnd goes down, but never below the number of messages that have not
\* arrived: when it is 0, all of them have.
Acknowledge(c, d) ==
  /\ d = [c EXCEPT !.waiting = d.waiting]
  /\ d.waiting <= c.waiting
  /\ Cardinality(0..(c.accepted - 1) \ c.arrived) <= d.waiting

\* The next message in the order of sending, once it has arrived.
Read(c, d) ==
  /\ Len(c.read) \in c.arrived
  /\ d = [c EXCEPT !.read = Append(@, Len(@))]

\* Something may happen in both directions at once: a segment carries data one way
\* and acknowledgements the other way.
Next ==
  \A p \in End :
    \/ chan'[p] = chan[p]
    \/ Send(chan[p], chan'[p]) \/ Arrive(chan[p], chan'[p])
    \/ Acknowledge(chan[p], chan'[p]) \/ Read(chan[p], chan'[p])

Spec == Init /\ [][Next]_chan
=============================================================================
