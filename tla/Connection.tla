------------------------------ MODULE Connection ------------------------------
(***************************************************************************)
(* Connections between kcp-mux engines: handshake, keepalive, idle and      *)
(* close, over a datagram network that loses, delays and reorders packets   *)
(* (and duplicates them when MayDuplicate).                                  *)
(*                                                                          *)
(* An engine is named by its address.  conn[e][i] is the kcpmux_conn_t that  *)
(* engine e created with local_connection_id i.  Every API call, timer       *)
(* callback and kcpmux_engine_input call runs to completion before the next  *)
(* one (the library is confined to one thread and callbacks do not           *)
(* re-enter), so each is one action.  A closed connection is freed by the    *)
(* code; its record stays here as history and is never read by an action.    *)
(*                                                                          *)
(* Time: the code compares now with anchor + timeout.  The model keeps the   *)
(* age now - anchor of every anchor, saturated at MaxAge (no timeout is      *)
(* larger, so saturation is not observable), and the time left until the     *)
(* deadline stored in the connection's timer node.  Engines have clocks of   *)
(* their own.                                                                *)
(***************************************************************************)
EXTENDS Integers

CONSTANTS
  Engine,             \* engines, named by their UDP address
  Connectors,         \* the engines whose host calls kcpmux_conn_connect
  HostOps,            \* the other host operations an instance exercises
  Answers,            \* what conn_connect_notify may return
  MaxId,              \* largest connection id, UINT64_MAX in the code
  FirstIds,           \* random starting points of next_connection_id
  Configs,            \* connection configurations the host may pass
  EngineConfig,       \* default_conn_config of the engines, already prepared
  DefaultKeepaliveTimeout,   \* KCPMUX_DEFAULT_KEEPALIVE_TIMEOUT_MS
  MaxAge,             \* ages saturate here
  Version,            \* Version[e] is KCPMUX_VERSION in the build engine e runs
  MayDuplicate        \* may the network deliver a packet more than once?

Id == 1..MaxId
Id0 == 0..MaxId       \* 0 is "no id", and the exhausted next_connection_id

Reason == {"NORMAL", "VERSION", "REJECTED", "IDLE", "TIMEOUT"}
AckResult == {"OK", "ERROR", "VERSION", "CUSTOM"}

\* conn_connect_notify returns an int: "WIDE" is a nonzero multiple of 256.  The
\* result goes out as a uint8_t.
Answer == AckResult \cup {"WIDE"}
AsByte(result) == IF result = "WIDE" THEN "OK" ELSE result

Config == [ctrl_timeout_ms: Nat, connect_retries: Nat, close_retries: Nat,
           keepalive_interval_ms: Nat, keepalive_timeout_ms: Nat,
           idle_timeout_ms: Nat]

\* kcpmux_conn_config_prepare: which configurations it takes, what it stores.
Valid(c) == c.ctrl_timeout_ms # 0
Prepare(c) ==
  [c EXCEPT !.keepalive_timeout_ms =
     IF @ = 0 THEN DefaultKeepaliveTimeout ELSE @]

ASSUME ConstantsOK ==
  /\ MaxId \in Nat \ {0}
  /\ FirstIds \subseteq Id
  /\ MaxAge \in Nat
  /\ DefaultKeepaliveTimeout \in Nat \ {0}
  /\ Connectors \subseteq Engine
  /\ HostOps \subseteq {"close", "set_config", "payload", "stream_ctrl", "destroy", "fail"}
  /\ Answers \subseteq Answer
  /\ Configs \subseteq Config
  /\ EngineConfig \in Config
  /\ Version \in [Engine -> Nat]
  /\ MayDuplicate \in BOOLEAN

\* No timeout in use is longer than the age at which the model stops counting.
ASSUME AgesSuffice ==
  \A c \in {Prepare(d) : d \in {d \in Configs : Valid(d)}} \cup {EngineConfig} :
    /\ c.ctrl_timeout_ms \in 1..MaxAge
    /\ c.keepalive_timeout_ms \in 1..MaxAge
    /\ c.keepalive_interval_ms <= MaxAge
    /\ c.idle_timeout_ms <= MaxAge

State == {"FREE", "CONNECTING", "CONNECTED", "CLOSING", "CLOSED", "ERROR"}

\* kcpmux_conn_t.  "FREE" is an id not handed out yet.  ctrl, recv, keepalive
\* and payload are the ages of last_ctrl_ts, last_recv_ts, last_keepalive_ts
\* and last_payload_ts; timer is what is left until timer_node.deadline_ms.
\* notified is the reason the connection ended with.
Conn == [state: State, is_initiator: BOOLEAN, peer_addr: Engine,
         peer_connection_id: Id0, config: Config, retry_count: Nat,
         close_reason: Reason, notified: Reason \cup {"NONE"},
         ctrl: Nat, recv: Nat, keepalive: Nat, payload: Nat, timer: Nat]

\* A datagram.  from is its source address, dest the destination id of the
\* common header.  sender is on the wire in CONNECT and CONNECT_ACK only (as
\* source_id); in the others it is history that no receiver reads.  arg is the
\* result of an ACK or the reason of a CLOSE.
Packet == [type: {"CONNECT", "CONNECT_ACK", "KEEPALIVE", "CLOSE", "CLOSE_ACK",
                  "PAYLOAD", "STREAM_CTRL"},
           from: Engine, to: Engine, dest: Id0, sender: Id, version: Nat,
           arg: AckResult \cup Reason \cup {"NONE"}]

VARIABLES
  up,                  \* up[e]: the engine exists
  next_connection_id,  \* [Engine -> Id0]
  conn,                \* [Engine -> [Id -> Conn]]
  net                  \* the packets in flight

vars == <<up, next_connection_id, conn, net>>

TypeOK ==
  /\ up \in [Engine -> BOOLEAN]
  /\ next_connection_id \in [Engine -> Id0]
  /\ conn \in [Engine -> [Id -> Conn]]
  /\ net \subseteq Packet

-----------------------------------------------------------------------------
(* Deadlines *)

\* A live connection is in engine->conn_map, and in handshake_map when passive.
Live(x) == x.state \in {"CONNECTING", "CONNECTED", "CLOSING"}

Left(age, timeout) == IF age >= timeout THEN 0 ELSE timeout - age
Earlier(a, b) == IF b < a THEN b ELSE a

\* kcpmux_conn_calculate_deadline of a live connection, relative to now and
\* clamped at now as kcpmux_engine_schedule_timer_node does.
Remaining(x) ==
  LET c == x.config
      silence == Left(x.recv, c.keepalive_timeout_ms)
      probe == IF c.keepalive_interval_ms > 0
               THEN Earlier(silence, Left(x.keepalive, c.keepalive_interval_ms))
               ELSE silence
  IN  IF x.state # "CONNECTED" THEN Left(x.ctrl, c.ctrl_timeout_ms)
      ELSE IF c.idle_timeout_ms > 0
           THEN Earlier(probe, Left(x.payload, c.idle_timeout_ms))
           ELSE probe

\* kcpmux_conn_refresh_timer
Refresh(x) == [x EXCEPT !.timer = IF Live(x) THEN Remaining(x) ELSE 0]

\* kcpmux_conn_set_state
SetState(x, s) == Refresh([x EXCEPT !.state = s])

\* kcpmux_conn_note_receive, recv_time_ms being now
NoteReceive(x, is_payload) ==
  Refresh([x EXCEPT !.recv = 0, !.payload = IF is_payload THEN 0 ELSE @])

\* What kcpmux_conn_send_connect/_close and _send_keepalive do to the sender.
StampCtrl(x) == Refresh([x EXCEPT !.ctrl = 0])
\* Mutant: a keepalive that was sent counts as one received.
StampKeepaliveAsReceived(x) == Refresh([x EXCEPT !.keepalive = 0, !.recv = 0])
StampKeepalive(x) == Refresh([x EXCEPT !.keepalive = 0])

\* kcpmux_conn_close_internal: out of the maps, timer unregistered, final
\* state, notification.  Ages and counters of a dead connection are dropped.
CloseInternal(x, reason) ==
  [x EXCEPT !.state = IF @ = "ERROR" THEN @ ELSE "CLOSED", !.notified = reason,
            !.retry_count = 0, !.close_reason = "NORMAL",
            !.ctrl = 0, !.recv = 0, !.keepalive = 0, !.payload = 0, !.timer = 0]

-----------------------------------------------------------------------------
(* Packets *)

Pkt(type, e, i, version, arg) ==
  LET x == conn[e][i]
  IN  [type |-> type, from |-> e, to |-> x.peer_addr, sender |-> i,
       dest |-> IF type = "CONNECT" THEN 0 ELSE x.peer_connection_id,
       version |-> version, arg |-> arg]

Bare(type, e, i, arg) == Pkt(type, e, i, 0, arg)

\* kcpmux_protocol_send_conn_close sends nothing before the peer's id is known.
ClosePackets(e, i, reason) ==
  IF conn[e][i].peer_connection_id = 0 THEN {}
  ELSE {Bare("CLOSE", e, i, reason)}

\* A packet handed to kcpmux_engine_input.  It leaves the network unless the
\* network may deliver it again; a packet that is never received is lost.
Arrives(e, m, type) == up[e] /\ m \in net /\ m.to = e /\ m.type = type
Rest(m) == IF MayDuplicate THEN net ELSE net \ {m}

\* kcpmux_engine_get_conn_by_id(engine, source address, destination id)
Routed(e, m) ==
  m.dest \in Id /\ Live(conn[e][m.dest]) /\ conn[e][m.dest].peer_addr = m.from

\* kcpmux_engine_get_passive_conn: the live passive connections of a source id.
Passive(e, addr, id) ==
  {i \in Id : /\ Live(conn[e][i]) /\ ~conn[e][i].is_initiator
              /\ conn[e][i].peer_addr = addr
              /\ conn[e][i].peer_connection_id = id}

-----------------------------------------------------------------------------
(* Creation *)

\* An id that was never handed out.
NoConn(e) ==
  [state |-> "FREE", is_initiator |-> FALSE, peer_addr |-> e,
   peer_connection_id |-> 0, config |-> EngineConfig, retry_count |-> 0,
   close_reason |-> "NORMAL", notified |-> "NONE",
   ctrl |-> 0, recv |-> 0, keepalive |-> 0, payload |-> 0, timer |-> 0]

\* kcpmux_engine_create: the first id is random, never 0.
Init ==
  /\ up = [e \in Engine |-> TRUE]
  /\ next_connection_id \in [Engine -> FirstIds]
  /\ conn = [e \in Engine |-> [i \in Id |-> NoConn(e)]]
  /\ net = {}

\* kcpmux_conn_new takes the next id.  After UINT64_MAX the counter wraps to 0,
\* and from then on no connection is created.
TakeId(e) ==
  /\ up[e] /\ next_connection_id[e] # 0
  /\ next_connection_id' = [next_connection_id EXCEPT ![e] = IF @ = MaxId THEN 0 ELSE @ + 1]

NewConn(e, peer, peer_id, c, is_initiator) ==
  [NoConn(e) EXCEPT !.is_initiator = is_initiator, !.peer_addr = peer,
                    !.peer_connection_id = peer_id, !.config = c]

\* kcpmux_conn_connect
ConnConnect(e, peer, c) ==
  LET i == next_connection_id[e]
      x == NewConn(e, peer, 0, Prepare(c), TRUE)
  IN  /\ e \in Connectors /\ Valid(c) /\ TakeId(e)
      /\ conn' = [conn EXCEPT ![e][i] = StampCtrl(SetState(x, "CONNECTING"))]
      /\ net' = net \cup {[type |-> "CONNECT", from |-> e, to |-> peer, dest |-> 0,
                           sender |-> i, version |-> Version[e], arg |-> "NONE"]}
      /\ UNCHANGED up

\* kcpmux_conn_new fails after it took the id: the configuration is invalid, or
\* an allocation fails.  kcpmux_conn_connect returns NULL; a CONNECT that got
\* this far is dropped.
ConnNewFails(e) == TakeId(e) /\ UNCHANGED <<up, conn, net>>

-----------------------------------------------------------------------------
(* Host calls *)

\* kcpmux_conn_close.  On a connection already CLOSING it does nothing.
ConnClose(e, i) ==
  LET x == conn[e][i]
      closing == SetState([x EXCEPT !.ctrl = 0, !.close_reason = "NORMAL",
                                    !.retry_count = 0], "CLOSING")
      sent == StampCtrl(closing)
  IN  /\ x.state \in {"CONNECTING", "CONNECTED"}
      /\ conn' = [conn EXCEPT ![e][i] = IF x.config.close_retries = 0
                                        THEN CloseInternal(sent, "NORMAL")
                                        ELSE sent]
      /\ net' = net \cup ClosePackets(e, i, "NORMAL")
      /\ UNCHANGED <<up, next_connection_id>>

\* kcpmux_conn_set_config; an invalid configuration changes nothing.
\* Mutant: the timer keeps the deadline of the old configuration.
ConnSetConfigNoRefresh(e, i, c) ==
  /\ Live(conn[e][i]) /\ Valid(c)
  /\ conn' = [conn EXCEPT ![e][i].config = Prepare(c)]
  /\ UNCHANGED <<up, next_connection_id, net>>
ConnSetConfig(e, i, c) ==
  /\ Live(conn[e][i]) /\ Valid(c)
  /\ conn' = [conn EXCEPT ![e][i] = Refresh([@ EXCEPT !.config = Prepare(c)])]
  /\ UNCHANGED <<up, next_connection_id, net>>

\* The streams of a connection emit KCP segments (__kcp_output, CONNECTED only)
\* and stream close packets; module Stream has the details.
StreamOutput(e, i, type) ==
  /\ \/ type = "PAYLOAD" /\ conn[e][i].state = "CONNECTED"
     \/ /\ type = "STREAM_CTRL" /\ Live(conn[e][i])
        /\ conn[e][i].peer_connection_id # 0
  /\ net' = net \cup {Bare(type, e, i, "NONE")}
  /\ UNCHANGED <<up, next_connection_id, conn>>

\* kcpmux_engine_destroy: every connection is closed, and no packet is sent.
EngineDestroy(e) ==
  /\ up[e]
  /\ up' = [up EXCEPT ![e] = FALSE]
  /\ conn' = [conn EXCEPT ![e] =
       [i \in Id |-> IF Live(@[i]) THEN CloseInternal(@[i], "NORMAL") ELSE @[i]]]
  /\ UNCHANGED <<next_connection_id, net>>

-----------------------------------------------------------------------------
(* kcpmux_protocol_input, one action per message type.  A packet that is not   *)
(* routed, or finds the connection in another state, changes nothing.          *)

\* CONN_CONNECT whose version does not match: an existing passive connection
\* answers, otherwise nothing is created.
ReceiveForeignConnect(e, m) ==
  /\ Arrives(e, m, "CONNECT") /\ m.version # Version[e]
  /\ net' = Rest(m) \cup {Pkt("CONNECT_ACK", e, i, Version[e], "VERSION") :
                          i \in Passive(e, m.from, m.sender)}
  /\ UNCHANGED <<up, next_connection_id, conn>>

\* CONN_CONNECT of a known source id: a CONNECTED connection repeats its ACK.
ReceiveConnectAgain(e, m, i) ==
  /\ Arrives(e, m, "CONNECT") /\ m.version = Version[e]
  /\ i \in Passive(e, m.from, m.sender)
  /\ conn[e][i].state = "CONNECTED"
  /\ conn' = [conn EXCEPT ![e][i] = NoteReceive(@, FALSE)]
  /\ net' = Rest(m) \cup {Pkt("CONNECT_ACK", e, i, Version[e], "OK")}
  /\ UNCHANGED <<up, next_connection_id>>

\* CONN_CONNECT of a new source id: a passive connection is created and
\* conn_connect_notify answers with result.  A rejected connection is closed at
\* once, its callbacks cleared first.  (A configuration that the callback sets is
\* a ConnSetConfig right after this step.)
Accept(e, m, result) ==
  LET i == next_connection_id[e]
      x == NoteReceive(NewConn(e, m.from, m.sender, EngineConfig, FALSE), FALSE)
      ack == [type |-> "CONNECT_ACK", from |-> e, to |-> m.from, dest |-> m.sender,
              sender |-> i, version |-> Version[e], arg |-> AsByte(result)]
  IN  /\ TakeId(e)
      /\ conn' = [conn EXCEPT ![e][i] =
                    IF result = "OK" THEN SetState(x, "CONNECTED")
                    ELSE CloseInternal(x, "REJECTED")]
      /\ net' = Rest(m) \cup {ack}
      /\ UNCHANGED up
\* Mutants: every CONNECT creates a connection; the version is not compared.
ReceiveConnectNoLookup(e, m, result) ==
  Arrives(e, m, "CONNECT") /\ m.version = Version[e] /\ Accept(e, m, result)
ReceiveConnectAnyVersion(e, m, result) ==
  Arrives(e, m, "CONNECT") /\ Passive(e, m.from, m.sender) = {} /\ Accept(e, m, result)
ReceiveConnect(e, m, result) ==
  /\ Arrives(e, m, "CONNECT") /\ m.version = Version[e]
  /\ Passive(e, m.from, m.sender) = {}
  /\ Accept(e, m, result)

\* CONN_CONNECT_ACK, taken only while CONNECTING.
\* Mutants: the ACK's destination id is stored as the peer's; its result is not read.
AckedSwapped(e, x, m) ==
  SetState([x EXCEPT !.peer_connection_id = m.dest], "CONNECTED")
AckedAnyResult(e, x, m) ==
  SetState([x EXCEPT !.peer_connection_id = m.sender], "CONNECTED")
Acked(e, x, m) ==
  IF m.version = Version[e] /\ m.arg = "OK"
  THEN SetState([x EXCEPT !.peer_connection_id = m.sender], "CONNECTED")
  ELSE CloseInternal(SetState(x, "ERROR"),
                     IF m.version # Version[e] \/ m.arg = "VERSION"
                     THEN "VERSION" ELSE "REJECTED")
\* Mutant: taken in every state.
ReceiveConnectAckAnyState(e, m) ==
  /\ Arrives(e, m, "CONNECT_ACK") /\ Routed(e, m)
  /\ conn' = [conn EXCEPT ![e][m.dest] = Acked(e, NoteReceive(@, FALSE), m)]
  /\ net' = Rest(m)
  /\ UNCHANGED <<up, next_connection_id>>
ReceiveConnectAck(e, m) ==
  /\ Arrives(e, m, "CONNECT_ACK") /\ Routed(e, m)
  /\ conn[e][m.dest].state = "CONNECTING"
  /\ conn' = [conn EXCEPT ![e][m.dest] = Acked(e, NoteReceive(@, FALSE), m)]
  /\ net' = Rest(m)
  /\ UNCHANGED <<up, next_connection_id>>

\* CONN_KEEPALIVE, and STREAM_CLOSE or STREAM_CLOSE_ACK of a stream that has it.
ReceiveKeepalive(e, m) ==
  /\ Arrives(e, m, "KEEPALIVE") \/ Arrives(e, m, "STREAM_CTRL")
  /\ Routed(e, m)
  /\ conn' = [conn EXCEPT ![e][m.dest] = NoteReceive(@, FALSE)]
  /\ net' = Rest(m)
  /\ UNCHANGED <<up, next_connection_id>>

\* STREAM_PAYLOAD that the stream's KCP takes.
ReceivePayload(e, m) ==
  /\ Arrives(e, m, "PAYLOAD") /\ Routed(e, m)
  /\ conn[e][m.dest].state = "CONNECTED"
  /\ conn' = [conn EXCEPT ![e][m.dest] = NoteReceive(@, TRUE)]
  /\ net' = Rest(m)
  /\ UNCHANGED <<up, next_connection_id>>

\* CONN_CLOSE, in any state: acknowledged to the id known now, then closed with
\* the sender's reason.
\* Mutant: acknowledged, and closed only if this side is not closing as well.
ReceiveCloseOnce(e, m) ==
  /\ Arrives(e, m, "CLOSE") /\ Routed(e, m)
  /\ conn' = [conn EXCEPT ![e][m.dest] =
       IF @.state = "CLOSING" THEN NoteReceive(@, FALSE)
       ELSE CloseInternal(NoteReceive(@, FALSE), m.arg)]
  /\ net' = Rest(m) \cup {Bare("CLOSE_ACK", e, m.dest, m.arg)}
  /\ UNCHANGED <<up, next_connection_id>>
ReceiveClose(e, m) ==
  /\ Arrives(e, m, "CLOSE") /\ Routed(e, m)
  /\ conn' = [conn EXCEPT ![e][m.dest] = CloseInternal(NoteReceive(@, FALSE), m.arg)]
  /\ net' = Rest(m) \cup {Bare("CLOSE_ACK", e, m.dest, m.arg)}
  /\ UNCHANGED <<up, next_connection_id>>

\* CONN_CLOSE_ACK, taken only while CLOSING; the local reason counts.
ReceiveCloseAck(e, m) ==
  /\ Arrives(e, m, "CLOSE_ACK") /\ Routed(e, m)
  /\ conn[e][m.dest].state = "CLOSING"
  /\ conn' = [conn EXCEPT ![e][m.dest] =
                CloseInternal(NoteReceive(@, FALSE), conn[e][m.dest].close_reason)]
  /\ net' = Rest(m)
  /\ UNCHANGED <<up, next_connection_id>>

-----------------------------------------------------------------------------
(* kcpmux_conn_update, called when the timer node is due *)

Due(e, i) == Live(conn[e][i]) /\ conn[e][i].timer = 0

\* The deadline has moved since the node was scheduled: schedule it again.
UpdateEarly(x) == Remaining(x) > 0

\* A retransmission of CONNECT or CLOSE is counted.
\* Mutant: it is not.
RetryUncounted(x) == StampCtrl(x)
Retry(x) == StampCtrl([x EXCEPT !.retry_count = @ + 1])

UpdateConnecting(e, i) ==
  LET x == conn[e][i]
      retry == x.retry_count < x.config.connect_retries
  IN  /\ Due(e, i) /\ x.state = "CONNECTING"
      /\ conn' = [conn EXCEPT ![e][i] =
           IF UpdateEarly(x) THEN Refresh(x)
           ELSE IF retry THEN Retry(x)
           ELSE CloseInternal(SetState(x, "ERROR"), "TIMEOUT")]
      /\ net' = IF ~UpdateEarly(x) /\ retry
                THEN net \cup {Pkt("CONNECT", e, i, Version[e], "NONE")} ELSE net
      /\ UNCHANGED <<up, next_connection_id>>

UpdateConnected(e, i) ==
  LET x == conn[e][i]
      c == x.config
      silent == x.recv >= c.keepalive_timeout_ms
      idle == c.idle_timeout_ms > 0 /\ x.payload >= c.idle_timeout_ms
      probe == c.keepalive_interval_ms > 0 /\ x.keepalive >= c.keepalive_interval_ms
  IN  /\ Due(e, i) /\ x.state = "CONNECTED"
      /\ conn' = [conn EXCEPT ![e][i] =
           IF UpdateEarly(x) THEN Refresh(x)
           ELSE IF silent THEN CloseInternal(SetState(x, "ERROR"), "TIMEOUT")
           ELSE IF idle
                THEN CloseInternal(StampCtrl(SetState(x, "CLOSING")), "IDLE")
           ELSE Refresh(IF probe THEN StampKeepalive(x) ELSE x)]
      /\ net' = IF UpdateEarly(x) \/ silent THEN net
                ELSE IF idle THEN net \cup ClosePackets(e, i, "IDLE")
                ELSE IF probe THEN net \cup {Bare("KEEPALIVE", e, i, "NONE")} ELSE net
      /\ UNCHANGED <<up, next_connection_id>>

\* The last retry is sent and the connection closed in the same step.
UpdateClosing(e, i) ==
  LET x == conn[e][i]
      retry == x.retry_count < x.config.close_retries
  IN  /\ Due(e, i) /\ x.state = "CLOSING"
      /\ conn' = [conn EXCEPT ![e][i] =
           IF UpdateEarly(x) THEN Refresh(x)
           ELSE IF retry /\ Retry(x).retry_count < x.config.close_retries
                THEN Retry(x)
           ELSE CloseInternal(x, x.close_reason)]
      /\ net' = IF ~UpdateEarly(x) /\ retry
                THEN net \cup ClosePackets(e, i, x.close_reason) ELSE net
      /\ UNCHANGED <<up, next_connection_id>>

\* The clock of engine e advances (monotonic_time_ms).
Older(age) == IF age < MaxAge THEN age + 1 ELSE age
Aged(x) ==
  [x EXCEPT !.ctrl = Older(@), !.recv = Older(@), !.keepalive = Older(@),
            !.payload = Older(@), !.timer = IF @ = 0 THEN 0 ELSE @ - 1]
Tick(e) ==
  /\ conn' = [conn EXCEPT ![e] =
       [i \in Id |-> IF Live(@[i]) THEN Aged(@[i]) ELSE @[i]]]
  /\ UNCHANGED <<up, next_connection_id, net>>

-----------------------------------------------------------------------------
Host ==
  \E e \in Engine :
    \/ \E peer \in Engine \ {e}, c \in Configs : ConnConnect(e, peer, c)
    \/ "fail" \in HostOps /\ ConnNewFails(e)
    \/ "destroy" \in HostOps /\ EngineDestroy(e)
    \/ \E i \in Id :
         \/ "close" \in HostOps /\ ConnClose(e, i)
         \/ "set_config" \in HostOps /\ \E c \in Configs : ConnSetConfig(e, i, c)
         \/ "payload" \in HostOps /\ StreamOutput(e, i, "PAYLOAD")
         \/ "stream_ctrl" \in HostOps /\ StreamOutput(e, i, "STREAM_CTRL")

Input ==
  \E e \in Engine, m \in net :
    \/ ReceiveForeignConnect(e, m)
    \/ \E i \in Id : ReceiveConnectAgain(e, m, i)
    \/ \E result \in Answers : ReceiveConnect(e, m, result)
    \/ ReceiveConnectAck(e, m)
    \/ ReceiveKeepalive(e, m)
    \/ ReceivePayload(e, m)
    \/ ReceiveClose(e, m)
    \/ ReceiveCloseAck(e, m)

Update(e, i) ==
  UpdateConnecting(e, i) \/ UpdateConnected(e, i) \/ UpdateClosing(e, i)

Next ==
  \/ Host
  \/ Input
  \/ \E e \in Engine, i \in Id : Update(e, i)
  \/ \E e \in Engine : Tick(e)

Spec == Init /\ [][Next]_vars

\* Clocks advance, and the host calls kcpmux_engine_update when the one-shot
\* timer it was asked for expires.  Nothing is assumed of the host or the network.
Fairness ==
  /\ \A e \in Engine : WF_vars(Tick(e))
  /\ \A e \in Engine, i \in Id : WF_vars(Update(e, i))

FairSpec == Spec /\ Fairness

-----------------------------------------------------------------------------
(* Properties *)

Sender(m) == conn[m.from][m.sender]
Target(m) == conn[m.to][m.dest]

\* handshake_map holds one entry per key: two live passive connections never
\* answer for the same (peer address, source id), however often CONNECT arrives
\* (kcpmux_htb_add would silently ignore the second one).
HandshakeUnique ==
  \A e, f \in Engine, p \in Id : \A i, j \in Passive(e, f, p) : i = j

\* The ids two engines exchange agree: the id an initiator stored from a
\* CONNECT_ACK belongs to a passive connection created for exactly that
\* initiator, and a passive connection's peer id to an initiator at its peer
\* address, even when the ACK is a late copy and the other end is gone.
RouteAgreement ==
  \A e \in Engine, i \in Id :
    LET x == conn[e][i]
        y == conn[x.peer_addr][x.peer_connection_id]
    IN  x.state # "FREE" /\ x.peer_connection_id # 0 =>
          /\ y.state # "FREE" /\ y.peer_addr = e
          /\ y.is_initiator = ~x.is_initiator
          /\ x.is_initiator => y.peer_connection_id = i

\* A packet in flight names an id its receiver has handed out, to a connection
\* of the other role at the sender's address; what an initiator sends can only
\* reach the passive connection made for it, however late it arrives.
NoCrossTalk ==
  \A m \in net : m.dest # 0 =>
    /\ Target(m).state # "FREE" /\ Target(m).peer_addr = m.from
    /\ Target(m).is_initiator = ~Sender(m).is_initiator
    /\ Sender(m).is_initiator => Target(m).peer_connection_id = m.sender

\* An initiator is CONNECTED only to a connection whose acceptor said OK:
\* conn_connect_notify's verdict and the ACK on the wire agree.
AcceptAgreed ==
  \A e \in Engine, i \in Id :
    LET x == conn[e][i]
    IN  x.is_initiator /\ x.state = "CONNECTED" =>
          conn[x.peer_addr][x.peer_connection_id].notified # "REJECTED"

\* What a CLOSE_ACK tells its receiver is true: it comes from the receiver's
\* own peer, and that peer is gone.  (A connection that ends by CLOSE_ACK leaves
\* no live peer behind.)
CloseAckMutual ==
  \A m \in net : m.type = "CLOSE_ACK" /\ m.dest # 0 =>
    /\ Target(m).peer_connection_id = m.sender
    /\ ~Live(Sender(m))

\* What the routing rests on: ids not yet issued are unused; who must know its
\* peer's id knows it; every packet in flight was sent by a connection that still
\* stands for the same two endpoints.  Together with RouteAgreement and
\* HandshakeUnique this is preserved by every step.
Fresh ==
  \A e \in Engine, i \in Id :
    next_connection_id[e] # 0 /\ i >= next_connection_id[e] => conn[e][i].state = "FREE"
Known ==
  \A e \in Engine, i \in Id :
    LET x == conn[e][i]
    IN  x.state # "FREE" =>
          /\ ~x.is_initiator => x.peer_connection_id # 0
          /\ x.state = "CONNECTED" => x.peer_connection_id # 0
          /\ x.state = "CONNECTING" => x.is_initiator /\ x.peer_connection_id = 0
PacketOK(m) ==
  LET s == Sender(m)
  IN  /\ s.state # "FREE" /\ s.peer_addr = m.to
      /\ m.type = "CONNECT" => m.dest = 0 /\ s.is_initiator
      /\ m.type # "CONNECT" =>
           m.dest = s.peer_connection_id /\ (m.dest = 0 => ~Live(s))
      /\ m.type = "CONNECT_ACK" => ~s.is_initiator
      /\ m.type = "CLOSE" => m.arg \in Reason
      /\ m.type = "CLOSE_ACK" =>
           ~Live(s) /\ (m.dest # 0 => Target(m).peer_connection_id = m.sender)

\* Every packet in flight agrees with the connection that sent it (addresses,
\* roles, ids, and after a CLOSE_ACK that it is closed), ids from the counter of
\* kcpmux_conn_new upwards are unused, and the two ends of a handshake agree.
IndInv ==
  /\ TypeOK /\ Fresh /\ Known /\ RouteAgreement /\ HandshakeUnique
  /\ \A m \in net : PacketOK(m)

\* The timer node of a live connection is always scheduled at the connection's
\* current deadline: no path that moves an anchor, the state or the
\* configuration forgets kcpmux_conn_refresh_timer.
TimerExact ==
  \A e \in Engine, i \in Id :
    Live(conn[e][i]) => conn[e][i].timer = Remaining(conn[e][i])

\* An id stands for one connection for ever: the role and peer address of a
\* handle never change, its peer id is set at most once, and a closed
\* connection never comes back (id allocation, the CONNECTING guard on ACKs).
HandleKept ==
  \A e \in Engine, i \in Id :
    LET x == conn[e][i]
        y == conn'[e][i]
    IN  x.state # "FREE" =>
          /\ y.is_initiator = x.is_initiator /\ y.peer_addr = x.peer_addr
          /\ x.peer_connection_id # 0 => y.peer_connection_id = x.peer_connection_id
          /\ ~Live(x) => y = x
HandleStable == [][HandleKept]_vars

\* Engines of different protocol versions never connect, and the acceptor makes
\* no connection at all: the initiator learns nothing and runs into its timeout.
VersionGate ==
  \A e \in Engine, i \in Id :
    LET x == conn[e][i]
    IN  x.state # "FREE" /\ Version[e] # Version[x.peer_addr] =>
          /\ x.is_initiator /\ x.state # "CONNECTED"
          /\ x.notified \in {"NONE", "NORMAL", "TIMEOUT"}

\* The transient states end by themselves: retries are bounded, also when the
\* configuration changes meanwhile and when nothing is delivered.
TransientEnds ==
  \A e \in Engine, i \in Id :
    /\ conn[e][i].state = "CONNECTING" ~> conn[e][i].state # "CONNECTING"
    /\ conn[e][i].state = "CLOSING" ~> ~Live(conn[e][i])

\* No connection stays half open: when the other end is gone, whether its CLOSE
\* was lost, it was never sent (kcpmux_engine_destroy) or the connection timed
\* out, this end is closed as well, by CLOSE or by the keepalive timeout.
HalfOpenEnds ==
  \A e \in Engine, i \in Id :
    LET x == conn[e][i]
    IN  x.state = "CONNECTED" /\ ~Live(conn[x.peer_addr][x.peer_connection_id])
          ~> ~Live(conn[e][i])

\* docs/protocol.md: "Connection close affects only that connection."
CloseHitsOwnPeer ==
  \A m \in net : m.type = "CLOSE" /\ Target(m).state = "CONNECTED" =>
    Target(m).peer_connection_id = m.sender
=============================================================================
