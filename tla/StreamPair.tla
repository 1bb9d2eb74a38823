------------------------------ MODULE StreamPair ------------------------------
(* Both ends of one stream and the messages between them: what the close       *)
(* protocol of kcpmux_stream.c and the STREAM_* handlers of kcpmux_protocol.c  *)
(* promise to two applications about the data they exchanged.                  *)
(*                                                                              *)
(* End "A" creates the stream (kcpmux_stream_create), end "B" gets it with the  *)
(* first payload of an unknown id.  KCP is external: its contract is that a     *)
(* chunk is acknowledged only after the peer KCP stored it.  Chunks are         *)
(* numbered per direction in the order the application handed them over.        *)
(* The network is a set that only grows: a packet that is never received is     *)
(* lost, one received twice is duplicated, and any order is possible.  There    *)
(* is no clock here: a timeout may strike at any moment (module Stream has the  *)
(* timers), so every promise below holds whatever the timing.                   *)
EXTENDS Integers, Sequences, FiniteSets

CONSTANTS Limit,        \* Limit[e]: most chunks the application at e sends
          Retries       \* values close_retries may have; set_config may change
                        \* it at any time, so every use picks one

Ends == {"A", "B"}
Other(e) == IF e = "A" THEN "B" ELSE "A"
Reasons == {"NORMAL", "REJECTED", "TIMEOUT", "ERROR"}

ASSUME ConstantsAssumption ==
  /\ Limit \in [Ends -> Nat]
  /\ Retries \subseteq Nat /\ IsFiniteSet(Retries) /\ Retries # {}

VARIABLES conn,       \* conn[e]: state of e's connection, as far as streams see it
          state,      \* stream state; "ABSENT" before the stream exists at e
          phase,      \* close_phase; "NONE" while not closing
          reason,     \* close_reason
          retry,      \* retry_count
          mute,       \* stream_create_notify refused: the callbacks were cleared
          seen,       \* the peer's id is no longer new: latest_peer_stream_id
          sent,       \* chunks accepted by kcpmux_stream_send
          ackd,       \* chunks of e that e's KCP knows to have arrived
          rcv,        \* chunks stored by e's KCP
          taken,      \* chunks read out of e's KCP instance
          log,        \* what the application at e read, over the stream's life
          told,       \* reason given to stream_close_notify, "none" before
          appClosed,  \* the application at e called kcpmux_stream_close
          cascaded,   \* e's stream was closed by its connection
          net         \* every packet sent so far

endVars == <<conn, state, phase, reason, retry, mute, seen, told, appClosed, cascaded>>
dataVars == <<sent, ackd, rcv, taken, log>>
vars == <<endVars, dataVars, net>>

States == {"ABSENT", "OPEN", "CLOSING", "CLOSED"}
Phases == {"NONE", "LOCAL_DRAIN", "WAIT_ACK", "REMOTE_DRAIN", "FINALIZE"}

Payload(e, n, acks) ==
  [type |-> "PAYLOAD", from |-> e, data |-> n, acks |-> acks, reason |-> "NORMAL"]
Control(t, e, r) ==
  [type |-> t, from |-> e, data |-> 0, acks |-> {}, reason |-> r]
Packets == [type : {"PAYLOAD", "CLOSE", "CLOSE_ACK"}, from : Ends, data : Nat,
            acks : SUBSET Nat, reason : Reasons]

(* kcpmux_stream_kcp_active: KCP takes input and produces output.              *)
KcpActive(e) == state[e] = "OPEN" \/ (state[e] = "CLOSING" /\ phase[e] = "LOCAL_DRAIN")

(* ops->waitsnd = 0: every chunk handed over is acknowledged.                  *)
NothingToSend(e) == 1..sent[e] \subseteq ackd[e]

(* ops->peeksize > 0: the next chunk in order has arrived.                     *)
Readable(e) == taken[e] + 1 \in rcv[e]

(* What ops->update makes __kcp_output send: chunks not acknowledged yet, and   *)
(* acknowledgements (una and acklist) of what was stored.  All of them are put  *)
(* into the network; those KCP holds back are simply received late or never.    *)
Output(e, s) ==
  {Payload(e, n, rcv[e]) : n \in (1..s) \ ackd[e]}
    \cup (IF rcv[e] = {} THEN {} ELSE {Payload(e, 0, rcv[e])})

Init ==
  /\ conn = [e \in Ends |-> "CONNECTED"]
  /\ state = [e \in Ends |-> "ABSENT"]
  /\ phase = [e \in Ends |-> "NONE"]
  /\ reason = [e \in Ends |-> "NORMAL"]
  /\ retry = [e \in Ends |-> 0]
  /\ mute = [e \in Ends |-> FALSE]
  /\ seen = [e \in Ends |-> FALSE]
  /\ sent = [e \in Ends |-> 0]
  /\ ackd = [e \in Ends |-> {}]
  /\ rcv = [e \in Ends |-> {}]
  /\ taken = [e \in Ends |-> 0]
  /\ log = [e \in Ends |-> <<>>]
  /\ told = [e \in Ends |-> "none"]
  /\ appClosed = [e \in Ends |-> FALSE]
  /\ cascaded = [e \in Ends |-> FALSE]
  /\ net = {}

-----------------------------------------------------------------------------
(* Steps shared by the operations                                             *)

(* kcpmux_stream_close_internal: final state and the close notification.       *)
CloseInternal(e, r) ==
  /\ state' = [state EXCEPT ![e] = "CLOSED"]
  /\ told' = IF mute[e] THEN told ELSE [told EXCEPT ![e] = r]

(* Entering a closing phase.                                                   *)
EnterPhase(e, p, r) ==
  /\ state' = [state EXCEPT ![e] = "CLOSING"]
  /\ phase' = [phase EXCEPT ![e] = p]
  /\ reason' = [reason EXCEPT ![e] = r]

(* The tail of kcpmux_stream_advance_local_close, after the waitsnd check:      *)
(* STREAM_CLOSE(NORMAL) goes out; without retries nobody waits for the ACK.     *)
AdvanceLocalClose(e, max) ==
  /\ phase' = [phase EXCEPT ![e] = "WAIT_ACK"]
  /\ reason' = [reason EXCEPT ![e] = "NORMAL"]
  /\ retry' = [retry EXCEPT ![e] = 0]
  /\ IF max = 0
     THEN CloseInternal(e, "NORMAL")
     ELSE state' = [state EXCEPT ![e] = "CLOSING"] /\ UNCHANGED told

-----------------------------------------------------------------------------
(* Application calls                                                          *)

(* kcpmux_stream_create.                                                       *)
Create(e) ==
  /\ e = "A" /\ state[e] = "ABSENT" /\ conn[e] = "CONNECTED"
  /\ state' = [state EXCEPT ![e] = "OPEN"]
  /\ UNCHANGED <<conn, phase, reason, retry, mute, seen, told, appClosed, cascaded, dataVars, net>>

(* kcpmux_stream_send of one chunk, with or without flush.                     *)
Send(e) ==
  /\ state[e] = "OPEN" /\ conn[e] = "CONNECTED"
  /\ sent[e] < Limit[e]
  /\ sent' = [sent EXCEPT ![e] = sent[e] + 1]
  /\ \/ UNCHANGED net
     \/ net' = net \cup Output(e, sent[e] + 1)
  /\ UNCHANGED <<endVars, ackd, rcv, taken, log>>

(* kcpmux_stream_recv of the next chunk; emptying KCP in REMOTE_DRAIN is what   *)
(* lets the close proceed.                                                      *)
Recv(e) ==
  /\ state[e] = "OPEN" \/ (state[e] = "CLOSING" /\ phase[e] = "REMOTE_DRAIN")
  /\ Readable(e)
  /\ taken' = [taken EXCEPT ![e] = taken[e] + 1]
  /\ log' = [log EXCEPT ![e] = Append(log[e], taken[e] + 1)]
  /\ phase' = IF state[e] = "CLOSING" /\ taken[e] + 2 \notin rcv[e]
              THEN [phase EXCEPT ![e] = "FINALIZE"] ELSE phase
  /\ UNCHANGED <<conn, state, reason, retry, mute, seen, told, appClosed, cascaded,
                 sent, ackd, rcv, net>>

(* kcpmux_stream_close of a stream the peer cannot know: closed on the spot.    *)
CloseUnused(e) ==
  /\ state[e] = "OPEN" /\ e = "A" /\ sent[e] = 0
  /\ appClosed' = [appClosed EXCEPT ![e] = TRUE]
  /\ retry' = [retry EXCEPT ![e] = 0]
  /\ phase' = [phase EXCEPT ![e] = "LOCAL_DRAIN"]
  /\ reason' = [reason EXCEPT ![e] = "NORMAL"]
  /\ CloseInternal(e, "NORMAL")
  /\ UNCHANGED <<conn, mute, seen, cascaded, dataVars, net>>

(* Mutant: the check that nothing waits for an acknowledgement is missing, the  *)
(* close is sent at once.                                                       *)
CloseDrainedUnchecked(e) ==
  /\ state[e] = "OPEN" /\ ~(e = "A" /\ sent[e] = 0)
  /\ appClosed' = [appClosed EXCEPT ![e] = TRUE]
  /\ \E max \in Retries : AdvanceLocalClose(e, max)
  /\ net' = net \cup {Control("CLOSE", e, "NORMAL")}
  /\ UNCHANGED <<conn, mute, seen, cascaded, dataVars>>

(* kcpmux_stream_close with nothing left to send: STREAM_CLOSE at once.          *)
CloseDrained(e) ==
  /\ state[e] = "OPEN" /\ ~(e = "A" /\ sent[e] = 0)
  /\ NothingToSend(e)
  /\ appClosed' = [appClosed EXCEPT ![e] = TRUE]
  /\ \E max \in Retries : AdvanceLocalClose(e, max)
  /\ net' = net \cup {Control("CLOSE", e, "NORMAL")}
  /\ UNCHANGED <<conn, mute, seen, cascaded, dataVars>>

(* kcpmux_stream_close with chunks on their way: LOCAL_DRAIN.                   *)
CloseDraining(e) ==
  /\ state[e] = "OPEN" /\ ~(e = "A" /\ sent[e] = 0)
  /\ ~NothingToSend(e)
  /\ appClosed' = [appClosed EXCEPT ![e] = TRUE]
  /\ retry' = [retry EXCEPT ![e] = 0]
  /\ EnterPhase(e, "LOCAL_DRAIN", "NORMAL")
  /\ UNCHANGED <<conn, mute, seen, told, cascaded, dataVars, net>>

(* kcpmux_stream_close while the peer's close is being drained: the             *)
(* application gives up the unread tail.                                         *)
CloseGiveUp(e) ==
  /\ state[e] = "CLOSING" /\ phase[e] = "REMOTE_DRAIN"
  /\ appClosed' = [appClosed EXCEPT ![e] = TRUE]
  /\ EnterPhase(e, "FINALIZE", "NORMAL")
  /\ UNCHANGED <<conn, retry, mute, seen, told, cascaded, dataVars, net>>

-----------------------------------------------------------------------------
(* kcpmux_stream_update, from the stream's timer; only in a CONNECTED connection *)

UpdateOpen(e) ==
  /\ conn[e] = "CONNECTED" /\ state[e] = "OPEN"
  /\ net' = net \cup Output(e, sent[e])
  /\ UNCHANGED <<endVars, dataVars>>

(* LOCAL_DRAIN with everything acknowledged.                                   *)
UpdateDrained(e) ==
  /\ conn[e] = "CONNECTED" /\ state[e] = "CLOSING" /\ phase[e] = "LOCAL_DRAIN"
  /\ NothingToSend(e)
  /\ \E max \in Retries : AdvanceLocalClose(e, max)
  /\ net' = net \cup Output(e, sent[e]) \cup {Control("CLOSE", e, "NORMAL")}
  /\ UNCHANGED <<conn, mute, seen, appClosed, cascaded, dataVars>>

(* Mutant: the expired drain is reported as a normal close.                    *)
UpdateDrainingSilent(e) ==
  /\ conn[e] = "CONNECTED" /\ state[e] = "CLOSING" /\ phase[e] = "LOCAL_DRAIN"
  /\ ~NothingToSend(e)
  /\ \/ /\ net' = net \cup Output(e, sent[e])
        /\ UNCHANGED <<state, reason, told>>
     \/ /\ net' = net \cup Output(e, sent[e]) \cup {Control("CLOSE", e, "TIMEOUT")}
        /\ CloseInternal(e, "NORMAL")
        /\ UNCHANGED reason
  /\ UNCHANGED <<conn, phase, retry, mute, seen, appClosed, cascaded, dataVars>>

(* LOCAL_DRAIN with chunks missing: another flush, and when drain_timeout_ms     *)
(* is over the stream is given up, which the peer is told.                       *)
UpdateDraining(e) ==
  /\ conn[e] = "CONNECTED" /\ state[e] = "CLOSING" /\ phase[e] = "LOCAL_DRAIN"
  /\ ~NothingToSend(e)
  /\ \/ /\ net' = net \cup Output(e, sent[e])
        /\ UNCHANGED <<state, reason, told>>
     \/ /\ net' = net \cup Output(e, sent[e]) \cup {Control("CLOSE", e, "TIMEOUT")}
        /\ reason' = [reason EXCEPT ![e] = "TIMEOUT"]
        /\ CloseInternal(e, "TIMEOUT")
  /\ UNCHANGED <<conn, phase, retry, mute, seen, appClosed, cascaded, dataVars>>

(* WAIT_ACK when ctrl_timeout_ms is over: STREAM_CLOSE again, and the last        *)
(* repetition is not waited for.                                                *)
UpdateWaitAck(e) ==
  /\ conn[e] = "CONNECTED" /\ state[e] = "CLOSING" /\ phase[e] = "WAIT_ACK"
  /\ \E max \in Retries :
       IF retry[e] < max
       THEN /\ retry' = [retry EXCEPT ![e] = retry[e] + 1]
            /\ net' = net \cup {Control("CLOSE", e, reason[e])}
            /\ IF retry[e] + 1 = max THEN CloseInternal(e, reason[e])
                                     ELSE UNCHANGED <<state, told>>
       ELSE CloseInternal(e, reason[e]) /\ UNCHANGED <<retry, net>>
  /\ UNCHANGED <<conn, phase, reason, mute, seen, appClosed, cascaded, dataVars>>

(* REMOTE_DRAIN when drain_timeout_ms is over: the tail was not read.            *)
UpdateRemoteDrain(e) ==
  /\ conn[e] = "CONNECTED" /\ state[e] = "CLOSING" /\ phase[e] = "REMOTE_DRAIN"
  /\ CloseInternal(e, "TIMEOUT")
  /\ UNCHANGED <<conn, phase, reason, retry, mute, seen, appClosed, cascaded, dataVars, net>>

UpdateFinalize(e) ==
  /\ conn[e] = "CONNECTED" /\ state[e] = "CLOSING" /\ phase[e] = "FINALIZE"
  /\ CloseInternal(e, reason[e])
  /\ UNCHANGED <<conn, phase, reason, retry, mute, seen, appClosed, cascaded, dataVars, net>>

-----------------------------------------------------------------------------
(* Packets from the other end (kcpmux_protocol_input)                          *)

Arriving(e, t) == {p \in net : p.type = t /\ p.from = Other(e)}
Stored(p) == {p.data} \ {0}

(* Payload of a stream that exists: input into KCP while KCP is in use.         *)
ReceivePayload(e, p) ==
  /\ conn[e] = "CONNECTED" /\ KcpActive(e)
  /\ rcv' = [rcv EXCEPT ![e] = rcv[e] \cup Stored(p)]
  /\ ackd' = [ackd EXCEPT ![e] = ackd[e] \cup p.acks]
  /\ UNCHANGED <<endVars, sent, taken, log, net>>

(* Payload of an unknown id: only an id above the high-water mark makes a        *)
(* stream, and the mark moves before stream_create_notify is asked.              *)
Accept(e, p) ==
  /\ conn[e] = "CONNECTED" /\ e = "B" /\ state[e] \in {"ABSENT", "CLOSED"}
  /\ ~seen[e]
  /\ seen' = [seen EXCEPT ![e] = TRUE]
  /\ state' = [state EXCEPT ![e] = "OPEN"]
  /\ rcv' = [rcv EXCEPT ![e] = Stored(p)]
  /\ ackd' = [ackd EXCEPT ![e] = p.acks]
  /\ taken' = [taken EXCEPT ![e] = 0]
  /\ UNCHANGED <<conn, phase, reason, retry, mute, told, appClosed, cascaded, sent, log, net>>

(* stream_create_notify refuses: no callbacks any more, STREAM_CLOSE(REJECTED)   *)
(* and, with retries, waiting for its ACK.                                       *)
Reject(e, p) ==
  /\ conn[e] = "CONNECTED" /\ e = "B" /\ state[e] \in {"ABSENT", "CLOSED"}
  /\ ~seen[e]
  /\ seen' = [seen EXCEPT ![e] = TRUE]
  /\ mute' = [mute EXCEPT ![e] = TRUE]
  /\ retry' = [retry EXCEPT ![e] = 0]
  /\ phase' = [phase EXCEPT ![e] = "WAIT_ACK"]
  /\ reason' = [reason EXCEPT ![e] = "REJECTED"]
  /\ \E max \in Retries :
       state' = [state EXCEPT ![e] = IF max = 0 THEN "CLOSED" ELSE "CLOSING"]
  /\ net' = net \cup {Control("CLOSE", e, "REJECTED")}
  /\ UNCHANGED <<conn, told, appClosed, cascaded, dataVars>>

(* The new stream's KCP cannot use the payload: closed with ERROR, and the peer   *)
(* is not told.                                                                   *)
AcceptFails(e, p) ==
  /\ conn[e] = "CONNECTED" /\ e = "B" /\ state[e] \in {"ABSENT", "CLOSED"}
  /\ ~seen[e]
  /\ seen' = [seen EXCEPT ![e] = TRUE]
  /\ CloseInternal(e, "ERROR")
  /\ UNCHANGED <<conn, phase, reason, retry, mute, appClosed, cascaded, dataVars, net>>

Known(e) == conn[e] # "CLOSED" /\ state[e] \in {"OPEN", "CLOSING"}

(* STREAM_CLOSE with a reason other than NORMAL: acknowledged, closed at once.     *)
ReceiveAbort(e, p) ==
  /\ Known(e) /\ p.reason # "NORMAL"
  /\ net' = net \cup {Control("CLOSE_ACK", e, p.reason)}
  /\ CloseInternal(e, p.reason)
  /\ UNCHANGED <<conn, phase, reason, retry, mute, seen, appClosed, cascaded, dataVars>>

(* Mutant: the receive drain is skipped.                                         *)
ReceiveCloseNoDrain(e, p) ==
  /\ Known(e) /\ p.reason = "NORMAL" /\ state[e] = "OPEN"
  /\ net' = net \cup {Control("CLOSE_ACK", e, "NORMAL")}
  /\ EnterPhase(e, "FINALIZE", "NORMAL")
  /\ UNCHANGED <<conn, retry, mute, seen, told, appClosed, cascaded, dataVars>>

(* STREAM_CLOSE(NORMAL) of an open stream: acknowledged, and what KCP holds is     *)
(* left to the application first.                                                 *)
ReceiveClose(e, p) ==
  /\ Known(e) /\ p.reason = "NORMAL" /\ state[e] = "OPEN"
  /\ net' = net \cup {Control("CLOSE_ACK", e, "NORMAL")}
  /\ EnterPhase(e, IF Readable(e) THEN "REMOTE_DRAIN" ELSE "FINALIZE", "NORMAL")
  /\ UNCHANGED <<conn, retry, mute, seen, told, appClosed, cascaded, dataVars>>

(* STREAM_CLOSE(NORMAL) of a closing stream: acknowledged again; a peer close        *)
(* wins over a local one.                                                          *)
ReceiveCloseAgain(e, p) ==
  /\ Known(e) /\ p.reason = "NORMAL" /\ state[e] = "CLOSING"
  /\ net' = net \cup {Control("CLOSE_ACK", e, "NORMAL")}
  /\ IF phase[e] \in {"LOCAL_DRAIN", "WAIT_ACK"}
     THEN EnterPhase(e, "FINALIZE", "NORMAL")
     ELSE UNCHANGED <<state, phase, reason>>
  /\ UNCHANGED <<conn, retry, mute, seen, told, appClosed, cascaded, dataVars>>

(* STREAM_CLOSE_ACK: only WAIT_ACK listens.                                       *)
ReceiveCloseAck(e, p) ==
  /\ Known(e) /\ state[e] = "CLOSING" /\ phase[e] = "WAIT_ACK"
  /\ CloseInternal(e, reason[e])
  /\ UNCHANGED <<conn, phase, reason, retry, mute, seen, appClosed, cascaded, dataVars, net>>

-----------------------------------------------------------------------------
(* The connection underneath (module Connection has its own protocol): it may      *)
(* start closing, and it may end at any moment, taking its stream along.           *)
ConnCloseStart(e) ==
  /\ conn[e] = "CONNECTED"
  /\ conn' = [conn EXCEPT ![e] = "CLOSING"]
  /\ UNCHANGED <<state, phase, reason, retry, mute, seen, told, appClosed, cascaded, dataVars, net>>

ConnEnds(e) ==
  /\ conn[e] # "CLOSED"
  /\ conn' = [conn EXCEPT ![e] = "CLOSED"]
  /\ IF state[e] \in {"OPEN", "CLOSING"}
     THEN /\ cascaded' = [cascaded EXCEPT ![e] = TRUE]
          /\ \E r \in Reasons : CloseInternal(e, r)
     ELSE UNCHANGED <<state, told, cascaded>>
  /\ UNCHANGED <<phase, reason, retry, mute, seen, appClosed, dataVars, net>>

Next ==
  \E e \in Ends :
    \/ Create(e) \/ Send(e) \/ Recv(e)
    \/ CloseUnused(e) \/ CloseDrained(e) \/ CloseDraining(e) \/ CloseGiveUp(e)
    \/ UpdateOpen(e) \/ UpdateDrained(e) \/ UpdateDraining(e) \/ UpdateWaitAck(e)
    \/ UpdateRemoteDrain(e) \/ UpdateFinalize(e)
    \/ \E p \in Arriving(e, "PAYLOAD") :
         ReceivePayload(e, p) \/ Accept(e, p) \/ Reject(e, p) \/ AcceptFails(e, p)
    \/ \E p \in Arriving(e, "CLOSE") :
         ReceiveAbort(e, p) \/ ReceiveClose(e, p) \/ ReceiveCloseAgain(e, p)
    \/ \E p \in Arriving(e, "CLOSE_ACK") : ReceiveCloseAck(e, p)
    \/ ConnCloseStart(e) \/ ConnEnds(e)

Spec == Init /\ [][Next]_vars

-----------------------------------------------------------------------------
(* Properties                                                                   *)

(* Every variable has its type; in particular retry_count never passes the        *)
(* largest close_retries in use.                                                  *)
TypeOK ==
  /\ conn \in [Ends -> {"CONNECTED", "CLOSING", "CLOSED"}]
  /\ state \in [Ends -> States]
  /\ phase \in [Ends -> Phases]
  /\ reason \in [Ends -> Reasons]
  /\ retry \in [Ends -> Nat] /\ \A e \in Ends : \E max \in Retries : retry[e] <= max
  /\ mute \in [Ends -> BOOLEAN]
  /\ seen \in [Ends -> BOOLEAN]
  /\ sent \in [Ends -> Nat]
  /\ ackd \in [Ends -> SUBSET Nat]
  /\ rcv \in [Ends -> SUBSET Nat]
  /\ taken \in [Ends -> Nat]
  /\ log \in [Ends -> Seq(Nat)]
  /\ told \in [Ends -> Reasons \cup {"none"}]
  /\ appClosed \in [Ends -> BOOLEAN]
  /\ cascaded \in [Ends -> BOOLEAN]
  /\ net \subseteq Packets

(* A STREAM_CLOSE(NORMAL) exists only when every chunk its sender ever accepted      *)
(* is already in the peer's KCP (the waitsnd check of                                *)
(* kcpmux_stream_advance_local_close), so that the peer may stop listening.          *)
CloseAfterData ==
  \A p \in net : p.type = "CLOSE" /\ p.reason = "NORMAL"
                   => 1..sent[p.from] \subseteq rcv[Other(p.from)]

(* An application that did not close and is told NORMAL by the stream itself has     *)
(* read everything its peer sent (REMOTE_DRAIN of kcpmux_stream_handle_close).       *)
NormalMeansRead ==
  \A e \in Ends : told[e] = "NORMAL" /\ ~appClosed[e] /\ ~cascaded[e]
                    => Len(log[e]) = sent[Other(e)]

(* An application that closed alone and is told NORMAL knows its data arrived: a     *)
(* drain that timed out, a refusal and an abort are reported as such                 *)
(* (kcpmux_stream_update, kcpmux_stream_handle_close).                               *)
NormalMeansArrived ==
  \A e \in Ends : told[e] = "NORMAL" /\ ~cascaded[e] /\ ~appClosed[Other(e)]
                    => 1..sent[e] \subseteq rcv[Other(e)]

(* Chunks are read in order and at most once, also when old payload packets arrive   *)
(* after the stream is gone: they must not make it again (the high-water mark of     *)
(* kcpmux_conn_is_new_peer_stream_id).                                               *)
ReadInOrderOnce ==
  \A e \in Ends : /\ \A i \in 1..Len(log[e]) : log[e][i] = i
                  /\ Len(log[e]) <= sent[Other(e)]

(* The facts the properties rest on, inductive together with TypeOK: what a      *)
(* packet says stays true; KCP acknowledges only what arrived; an end that says    *)
(* NORMAL has drained, and one that finalizes has read everything, unless its      *)
(* application closed too.                                                         *)
PacketTrue(p) ==
  /\ p.type = "PAYLOAD" => p.acks \subseteq rcv[p.from] /\ p.data <= sent[p.from]
  /\ p.type = "CLOSE" => /\ p = Control("CLOSE", p.from, p.reason)
                         /\ state[p.from] \in {"CLOSING", "CLOSED"}
  /\ p.type = "CLOSE" /\ p.reason = "NORMAL"
       => appClosed[p.from] /\ 1..sent[p.from] \subseteq ackd[p.from]

KcpHonest(e) ==
  /\ ackd[e] \subseteq rcv[Other(e)]
  /\ rcv[e] \subseteq 1..sent[Other(e)]
  /\ Len(log[e]) = taken[e]
  /\ 1..taken[e] \subseteq rcv[e]
  /\ \A i \in 1..Len(log[e]) : log[e][i] = i

PeerSaidNormal(e) == Control("CLOSE", Other(e), "NORMAL") \in net

PhaseTrue(e) ==
  /\ state[e] = "ABSENT" => sent[e] = 0 /\ rcv[e] = {} /\ log[e] = <<>> /\ ackd[e] = {}
  /\ e = "B" /\ ~seen[e] => state[e] = "ABSENT"
  /\ state[e] \in {"ABSENT", "OPEN"} => ~appClosed[e]
  /\ state[e] # "CLOSED" \/ mute[e] => told[e] = "none"
  /\ state[e] = "CLOSING" => phase[e] # "NONE"
  /\ state[e] = "CLOSING" /\ phase[e] = "LOCAL_DRAIN" => appClosed[e] /\ ~mute[e]
  /\ state[e] = "CLOSING" /\ phase[e] = "WAIT_ACK"
       => IF mute[e] THEN reason[e] = "REJECTED"
          ELSE reason[e] = "NORMAL" /\ appClosed[e] /\ 1..sent[e] \subseteq ackd[e]
  /\ state[e] = "CLOSING" /\ phase[e] \in {"REMOTE_DRAIN", "FINALIZE"}
       => PeerSaidNormal(e) /\ reason[e] = "NORMAL"
  /\ state[e] = "CLOSING" /\ phase[e] = "FINALIZE"
       => appClosed[e] \/ mute[e] \/ Len(log[e]) = sent[Other(e)]
  /\ mute[e] => state[e] \in {"CLOSING", "CLOSED"}
  /\ told[e] = "NORMAL" /\ ~appClosed[e] /\ ~cascaded[e]
       => PeerSaidNormal(e) /\ Len(log[e]) = sent[Other(e)]
  /\ told[e] = "NORMAL" /\ ~cascaded[e] /\ ~appClosed[Other(e)]
       => 1..sent[e] \subseteq rcv[Other(e)]

(* What kcpmux_stream.c relies on in every phase: what a packet in flight says    *)
(* stays true, KCP acknowledges only what the peer stored, retry_count stays       *)
(* within close_retries, and each close phase says what has been sent and read.    *)
IndInv ==
  /\ TypeOK
  /\ \A p \in net : PacketTrue(p)
  /\ \A e \in Ends : KcpHonest(e) /\ PhaseTrue(e)
=============================================================================
