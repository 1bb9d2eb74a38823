--------------------------- MODULE ConnectionProofs ---------------------------
(***************************************************************************)
(* Proofs about module Connection, for every set of engines, every id width, *)
(* every configuration and every network that loses, delays, reorders and     *)
(* duplicates packets.                                                       *)
(***************************************************************************)
EXTENDS Connection, TLAPS

(* Most leaves are first-order; those that need arithmetic or sequences name SMT.   *)
USE ZenonT(30)

-----------------------------------------------------------------------------
(* What the operators on one connection return *)

\* The identity of a connection: what no operator on a live connection touches.
SameHandle(x, y) ==
  /\ y.is_initiator = x.is_initiator
  /\ y.peer_addr = x.peer_addr
  /\ y.peer_connection_id = x.peer_connection_id

\* kcpmux_conn_calculate_deadline yields a natural number of milliseconds.
LEMMA RemainingType ==
  ASSUME NEW x \in Conn
  PROVE  Remaining(x) \in Nat
BY SMTT(30) DEF Remaining, Left, Earlier, Conn, Config

\* kcpmux_conn_refresh_timer changes the timer and nothing else.
LEMMA RefreshFacts ==
  ASSUME NEW x \in Conn
  PROVE  /\ Refresh(x) \in Conn
         /\ SameHandle(x, Refresh(x))
         /\ Refresh(x).state = x.state
         /\ Refresh(x).notified = x.notified
         /\ Refresh(x).config = x.config
BY RemainingType DEF Refresh, Conn, SameHandle

\* kcpmux_conn_set_state changes the state and the timer.
LEMMA SetStateFacts ==
  ASSUME NEW x \in Conn, NEW s \in State
  PROVE  /\ SetState(x, s) \in Conn
         /\ SameHandle(x, SetState(x, s))
         /\ SetState(x, s).state = s
         /\ SetState(x, s).notified = x.notified
<1> DEFINE y == [x EXCEPT !.state = s]
<1>1. y \in Conn /\ SameHandle(x, y) /\ y.state = s /\ y.notified = x.notified
  BY DEF Conn, SameHandle
<1>2. QED
  BY <1>1, RefreshFacts DEF SetState, SameHandle

\* kcpmux_conn_note_receive, the send stamps and a retry change ages, the retry
\* count and the timer.
Kept(x, y) ==
  y \in Conn /\ SameHandle(x, y) /\ y.state = x.state /\ y.notified = x.notified

LEMMA StampFacts ==
  ASSUME NEW x \in Conn, NEW p \in BOOLEAN
  PROVE  /\ Kept(x, NoteReceive(x, p))
         /\ Kept(x, StampCtrl(x))
         /\ Kept(x, StampKeepalive(x))
         /\ Kept(x, Retry(x))
<1>1. \A y : Kept(x, y) => Kept(x, Refresh(y))
  BY RefreshFacts DEF Kept, SameHandle
<1>2. Kept(x, [x EXCEPT !.recv = 0, !.payload = IF p THEN 0 ELSE @])
  BY DEF Kept, SameHandle, Conn
<1>3. Kept(x, [x EXCEPT !.ctrl = 0])
  BY DEF Kept, SameHandle, Conn
<1>4. Kept(x, [x EXCEPT !.keepalive = 0])
  BY DEF Kept, SameHandle, Conn
<1> DEFINE r == [x EXCEPT !.retry_count = @ + 1]
<1>5. Kept(x, r)
  BY SMTT(30) DEF Kept, SameHandle, Conn
<1>6. Kept(r, [r EXCEPT !.ctrl = 0])
  <2> HIDE DEF r
  <2> QED  BY <1>5 DEF Kept, SameHandle, Conn
<1>7. Kept(x, [r EXCEPT !.ctrl = 0])
  <2> HIDE DEF r
  <2> QED  BY <1>5, <1>6 DEF Kept, SameHandle
<1>8. QED
  BY <1>1, <1>2, <1>3, <1>4, <1>7 DEF NoteReceive, StampCtrl, StampKeepalive, Retry

\* kcpmux_conn_close_internal leaves a dead connection with the same identity.
LEMMA CloseFacts ==
  ASSUME NEW x \in Conn, NEW r \in Reason
  PROVE  /\ CloseInternal(x, r) \in Conn
         /\ SameHandle(x, CloseInternal(x, r))
         /\ CloseInternal(x, r).state \in {"CLOSED", "ERROR"}
         /\ CloseInternal(x, r).notified = r
BY DEF CloseInternal, Conn, SameHandle, Reason, State

\* kcpmux_conn_config_prepare yields a configuration.
LEMMA PrepareType ==
  ASSUME NEW c \in Config
  PROVE  Prepare(c) \in Config
BY ConstantsOK DEF Prepare, Config

\* kcpmux_conn_new
LEMMA NewConnFacts ==
  ASSUME NEW e \in Engine, NEW f \in Engine, NEW p \in Id0, NEW c \in Config,
         NEW b \in BOOLEAN
  PROVE  /\ NewConn(e, f, p, c, b) \in Conn
         /\ NewConn(e, f, p, c, b).is_initiator = b
         /\ NewConn(e, f, p, c, b).peer_addr = f
         /\ NewConn(e, f, p, c, b).peer_connection_id = p
         /\ NewConn(e, f, p, c, b).state = "FREE"
         /\ NoConn(e) \in Conn
<1>1. NoConn(e) \in Conn /\ NoConn(e).state = "FREE"
  BY ConstantsOK, SMTT(30) DEF NoConn, Conn, Id0, State, Reason
<1>2. QED
  BY <1>1 DEF NewConn, Conn

-----------------------------------------------------------------------------
(* Steps that neither create a connection nor bind one to its peer's id *)

Quiet ==
  \A e \in Engine, i \in Id :
    LET x == conn[e][i]
        y == conn'[e][i]
    IN  /\ SameHandle(x, y)
        /\ y.state = "FREE" <=> x.state = "FREE"
        /\ ~Live(x) => y = x
        /\ y.state \in {"CONNECTED", "CONNECTING"} => x.state = y.state

\* The types of the fields that routing reads.
LEMMA ConnTyped ==
  ASSUME TypeOK, NEW e \in Engine, NEW i \in Id
  PROVE  /\ conn[e][i] \in Conn
         /\ conn[e][i].state \in State
         /\ conn[e][i].is_initiator \in BOOLEAN
         /\ conn[e][i].peer_addr \in Engine
         /\ conn[e][i].peer_connection_id \in Id0
         /\ conn[e][i].peer_connection_id # 0 => conn[e][i].peer_connection_id \in Id
<1>1. conn[e][i] \in Conn
  BY DEF TypeOK
<1>2. \A p \in Id0 : p # 0 => p \in Id
  BY ConstantsOK, SMTT(30) DEF Id, Id0
<1>3. QED
  BY <1>1, <1>2 DEF Conn

\* RouteAgreement for one connection, with the types of what it names.
LEMMA PeerFacts ==
  ASSUME IndInv, NEW e \in Engine, NEW i \in Id,
         conn[e][i].state # "FREE", conn[e][i].peer_connection_id # 0
  PROVE  /\ conn[e][i].peer_addr \in Engine /\ conn[e][i].peer_connection_id \in Id
         /\ LET y == conn[conn[e][i].peer_addr][conn[e][i].peer_connection_id]
            IN  /\ y.state # "FREE" /\ y.peer_addr = e
                /\ y.is_initiator = ~conn[e][i].is_initiator
                /\ conn[e][i].is_initiator => y.peer_connection_id = i
<1>1. conn[e][i].peer_addr \in Engine /\ conn[e][i].peer_connection_id \in Id
  BY ConnTyped DEF IndInv
<1>2. QED
  BY <1>1 DEF IndInv, RouteAgreement

\* The connection a packet names and the one that sent it belong together.
LEMMA PacketRoute ==
  ASSUME IndInv, NEW m \in net, m.dest # 0
  PROVE  /\ conn[m.to][m.dest].state # "FREE"
         /\ conn[m.to][m.dest].peer_addr = m.from
         /\ conn[m.to][m.dest].is_initiator = ~conn[m.from][m.sender].is_initiator
         /\ conn[m.from][m.sender].is_initiator =>
              conn[m.to][m.dest].peer_connection_id = m.sender
<1>1. m \in Packet /\ PacketOK(m)
  BY DEF IndInv, TypeOK
<1>2. PICK e \in Engine, i \in Id : e = m.from /\ i = m.sender
  BY <1>1 DEF Packet
<1>3. /\ conn[e][i].state # "FREE" /\ conn[e][i].peer_addr = m.to
      /\ conn[e][i].peer_connection_id = m.dest
  BY <1>1, <1>2 DEF PacketOK, Sender
<1>4. LET y == conn[conn[e][i].peer_addr][conn[e][i].peer_connection_id]
      IN  /\ y.state # "FREE" /\ y.peer_addr = e
          /\ y.is_initiator = ~conn[e][i].is_initiator
          /\ conn[e][i].is_initiator => y.peer_connection_id = i
  BY <1>3, PeerFacts, SMTT(30)
<1>5. QED
  BY <1>2, <1>3, <1>4

\* A packet stays consistent in a quiet step.
LEMMA QuietPacket ==
  ASSUME IndInv, Quiet, NEW m \in net
  PROVE  PacketOK(m)'
<1>1. m \in Packet /\ PacketOK(m)
  BY DEF IndInv, TypeOK
<1> DEFINE x == conn[m.from][m.sender]
           y == conn'[m.from][m.sender]
<1>2. /\ SameHandle(x, y) /\ (y.state = "FREE" <=> x.state = "FREE")
      /\ ~Live(x) => ~Live(y)
  BY <1>1 DEF Quiet, Packet, SameHandle, Live
<1>3. m.dest # 0 => conn'[m.to][m.dest].peer_connection_id = conn[m.to][m.dest].peer_connection_id
  <2>1. m.dest # 0 => m.dest \in Id /\ m.to \in Engine
    BY <1>1, ConstantsOK, SMTT(30) DEF Packet, Id, Id0
  <2>2. QED
    BY <2>1 DEF Quiet, SameHandle
<1>4. QED
  BY <1>1, <1>2, <1>3 DEF PacketOK, Sender, Target, SameHandle

\* A quiet step whose new packets are consistent preserves the invariant.
LEMMA QuietStep ==
  ASSUME IndInv, TypeOK', Quiet, Fresh',
         \A m \in net' : m \in net \/ PacketOK(m)'
  PROVE  IndInv'
<1>1. Known'
  <2> SUFFICES ASSUME NEW e \in Engine, NEW i \in Id, conn'[e][i].state # "FREE"
               PROVE  LET y == conn'[e][i]
                      IN  /\ ~y.is_initiator => y.peer_connection_id # 0
                          /\ y.state = "CONNECTED" => y.peer_connection_id # 0
                          /\ y.state = "CONNECTING" => y.is_initiator /\ y.peer_connection_id = 0
    BY DEF Known
  <2> DEFINE x == conn[e][i]
             y == conn'[e][i]
  <2>1. /\ SameHandle(x, y) /\ x.state # "FREE"
        /\ y.state \in {"CONNECTED", "CONNECTING"} => x.state = y.state
    BY DEF Quiet
  <2>2. /\ ~x.is_initiator => x.peer_connection_id # 0
        /\ x.state = "CONNECTED" => x.peer_connection_id # 0
        /\ x.state = "CONNECTING" => x.is_initiator /\ x.peer_connection_id = 0
    BY <2>1 DEF IndInv, Known
  <2>3. QED
    BY <2>1, <2>2 DEF SameHandle
<1>2. RouteAgreement'
  <2> SUFFICES ASSUME NEW e \in Engine, NEW i \in Id,
                      conn'[e][i].state # "FREE", conn'[e][i].peer_connection_id # 0
               PROVE  LET x == conn'[e][i]
                          y == conn'[x.peer_addr][x.peer_connection_id]
                      IN  /\ y.state # "FREE" /\ y.peer_addr = e
                          /\ y.is_initiator = ~x.is_initiator
                          /\ x.is_initiator => y.peer_connection_id = i
    BY DEF RouteAgreement
  <2> DEFINE x == conn[e][i]
             y == conn[x.peer_addr][x.peer_connection_id]
  <2>1. /\ x.state # "FREE" /\ x.peer_connection_id # 0
        /\ SameHandle(x, conn'[e][i])
    BY DEF Quiet, SameHandle
  <2>2. x \in Conn /\ x.peer_addr \in Engine /\ x.peer_connection_id \in Id
    BY <2>1, ConnTyped DEF IndInv
  <2>3. /\ y.state # "FREE" /\ y.peer_addr = e
        /\ y.is_initiator = ~x.is_initiator
        /\ x.is_initiator => y.peer_connection_id = i
    BY <2>1 DEF IndInv, RouteAgreement
  <2>4. /\ SameHandle(y, conn'[x.peer_addr][x.peer_connection_id])
        /\ conn'[x.peer_addr][x.peer_connection_id].state # "FREE"
    BY <2>2, <2>3 DEF Quiet
  <2>5. QED
    BY <2>1, <2>3, <2>4 DEF SameHandle
<1>3. HandshakeUnique'
  <2>1. \A e, f \in Engine, p \in Id : Passive(e, f, p)' \subseteq Passive(e, f, p)
    BY DEF Quiet, Passive, SameHandle
  <2>2. QED
    BY <2>1, SMTT(30) DEF IndInv, HandshakeUnique
<1>4. \A m \in net' : PacketOK(m)'
  BY QuietPacket
<1>5. QED
  BY <1>1, <1>2, <1>3, <1>4 DEF IndInv

\* An update of one live connection that keeps its identity is quiet.
LEMMA OneStep ==
  ASSUME IndInv, NEW e \in Engine, NEW i \in Id, Live(conn[e][i]),
         NEW y \in Conn, SameHandle(conn[e][i], y), y.state # "FREE",
         y.state \in {"CONNECTED", "CONNECTING"} => conn[e][i].state = y.state,
         conn' = [conn EXCEPT ![e][i] = y], UNCHANGED next_connection_id
  PROVE  /\ Quiet /\ Fresh' /\ conn' \in [Engine -> [Id -> Conn]]
         /\ conn'[e][i] = y
<1>1. conn \in [Engine -> [Id -> Conn]]
  BY DEF IndInv, TypeOK
<1>2. /\ conn' \in [Engine -> [Id -> Conn]] /\ conn'[e][i] = y
      /\ \A f \in Engine, j \in Id : f # e \/ j # i => conn'[f][j] = conn[f][j]
  BY <1>1
<1>3. Quiet
  BY <1>2 DEF Quiet, SameHandle, Live
<1>4. Fresh'
  BY <1>3 DEF IndInv, Fresh, Quiet
<1>5. QED
  BY <1>2, <1>3, <1>4

\* A packet that connection x = conn[e][i] sends in a step that leaves it as y.
OwnPacket(e, i, y, m) ==
  LET x == conn[e][i]
  IN  /\ m \in Packet /\ m.from = e /\ m.sender = i /\ m.to = x.peer_addr
      /\ m.type = "CONNECT" => m.dest = 0 /\ x.is_initiator
      /\ m.type # "CONNECT" =>
           m.dest = x.peer_connection_id /\ (m.dest = 0 => ~Live(y))
      /\ m.type = "CONNECT_ACK" => ~x.is_initiator
      /\ m.type = "CLOSE" => m.arg \in Reason
      /\ m.type = "CLOSE_ACK" =>
           ~Live(y) /\ (m.dest # 0 => conn[m.to][m.dest].peer_connection_id = i)

\* What such a packet says is consistent after a quiet step.
LEMMA OwnPacketOK ==
  ASSUME IndInv, Quiet, NEW e \in Engine, NEW i \in Id, conn[e][i].state # "FREE",
         NEW m, OwnPacket(e, i, conn'[e][i], m)
  PROVE  PacketOK(m)'
<1>1. SameHandle(conn[e][i], conn'[e][i]) /\ conn'[e][i].state # "FREE"
  BY DEF Quiet
<1>2. m.dest # 0 => conn'[m.to][m.dest].peer_connection_id = conn[m.to][m.dest].peer_connection_id
  <2>1. m.dest # 0 => m.dest \in Id /\ m.to \in Engine
    BY ConstantsOK, SMTT(30) DEF OwnPacket, Packet, Id, Id0
  <2>2. QED
    BY <2>1 DEF Quiet, SameHandle
<1>3. QED
  BY <1>1, <1>2 DEF OwnPacket, PacketOK, Sender, Target, SameHandle

\* A step of one live connection, with the packets it sends, preserves the
\* invariant.
LEMMA LocalStep ==
  ASSUME IndInv, NEW e \in Engine, NEW i \in Id, Live(conn[e][i]),
         NEW y \in Conn, SameHandle(conn[e][i], y), y.state # "FREE",
         y.state \in {"CONNECTED", "CONNECTING"} => conn[e][i].state = y.state,
         conn' = [conn EXCEPT ![e][i] = y], UNCHANGED <<up, next_connection_id>>,
         \A m \in net' : m \in net \/ OwnPacket(e, i, y, m)
  PROVE  IndInv' /\ Quiet
<1>1. /\ Quiet /\ Fresh' /\ conn' \in [Engine -> [Id -> Conn]]
      /\ conn'[e][i] = y
  BY OneStep
<1>2. conn[e][i].state # "FREE"
  BY DEF Live
<1>3. net' \subseteq Packet
  BY DEF IndInv, TypeOK, OwnPacket
<1>4. TypeOK'
  BY <1>1, <1>3 DEF IndInv, TypeOK
<1>5. \A m \in net' : m \in net \/ PacketOK(m)'
  BY <1>1, <1>2, OwnPacketOK
<1>6. QED
  BY <1>1, <1>4, <1>5, QuietStep

\* A packet made by Pkt from a connection is typed and names that connection.
LEMMA PktFacts ==
  ASSUME TypeOK, NEW e \in Engine, NEW i \in Id, NEW v \in Nat,
         NEW type \in {"CONNECT", "CONNECT_ACK", "KEEPALIVE", "CLOSE", "CLOSE_ACK",
                       "PAYLOAD", "STREAM_CTRL"},
         NEW arg \in AckResult \cup Reason \cup {"NONE"}
  PROVE  LET m == Pkt(type, e, i, v, arg)
         IN  /\ m \in Packet /\ m.from = e /\ m.sender = i /\ m.type = type
             /\ m.to = conn[e][i].peer_addr /\ m.arg = arg
             /\ m.dest = IF type = "CONNECT" THEN 0 ELSE conn[e][i].peer_connection_id
<1>1. conn[e][i].peer_addr \in Engine /\ conn[e][i].peer_connection_id \in Id0 /\ 0 \in Id0
  BY ConnTyped, ConstantsOK, SMTT(30) DEF Id0
<1>2. QED
  BY <1>1 DEF Pkt, Packet

-----------------------------------------------------------------------------
(* Host calls *)

LEMMA ConnCloseStep ==
  ASSUME IndInv, NEW e \in Engine, NEW i \in Id, ConnClose(e, i)
  PROVE  IndInv' /\ Quiet
<1> DEFINE x == conn[e][i]
           w == [x EXCEPT !.ctrl = 0, !.close_reason = "NORMAL", !.retry_count = 0]
           c == SetState(w, "CLOSING")
           sent == StampCtrl(c)
           y == IF x.config.close_retries = 0 THEN CloseInternal(sent, "NORMAL") ELSE sent
<1>1. TypeOK /\ x \in Conn /\ Live(x)
  BY ConnTyped DEF IndInv, ConnClose, Live
<1>2. w \in Conn /\ SameHandle(x, w)
  BY <1>1 DEF Conn, SameHandle, Reason
<1>3. sent \in Conn /\ SameHandle(x, sent) /\ sent.state = "CLOSING"
  <2>1. c \in Conn /\ SameHandle(x, c) /\ c.state = "CLOSING"
    <3> HIDE DEF w
    <3> QED  BY <1>2, SetStateFacts DEF SameHandle, State
  <2> HIDE DEF c
  <2>2. Kept(c, sent)
    BY <2>1, StampFacts
  <2>3. QED
    BY <2>1, <2>2 DEF Kept, SameHandle
<1>4. y \in Conn /\ SameHandle(x, y) /\ y.state \in {"CLOSING", "CLOSED", "ERROR"}
  <2> HIDE DEF sent
  <2> QED  BY <1>3, CloseFacts, SMTT(30) DEF SameHandle, Reason
<1>5. conn' = [conn EXCEPT ![e][i] = y] /\ UNCHANGED <<up, next_connection_id>>
  BY DEF ConnClose
<1>6. \A m \in net' : m \in net \/ OwnPacket(e, i, y, m)
  <2> SUFFICES ASSUME NEW m \in net', m \notin net
               PROVE  OwnPacket(e, i, y, m)
    OBVIOUS
  <2>1. m = Pkt("CLOSE", e, i, 0, "NORMAL") /\ x.peer_connection_id # 0
    BY DEF ConnClose, ClosePackets, Bare
  <2> HIDE DEF y
  <2>2. QED
    BY <1>1, <2>1, PktFacts, SMTT(30) DEF OwnPacket, Reason
<1>7. QED
  <2> HIDE DEF y
  <2> QED  BY <1>1, <1>4, <1>5, <1>6, LocalStep

LEMMA ConnSetConfigStep ==
  ASSUME IndInv, NEW e \in Engine, NEW i \in Id, NEW c \in Configs, ConnSetConfig(e, i, c)
  PROVE  IndInv' /\ Quiet
<1> DEFINE x == conn[e][i]
           w == [x EXCEPT !.config = Prepare(c)]
           y == Refresh(w)
<1>1. TypeOK /\ x \in Conn /\ Live(x)
  BY ConnTyped DEF IndInv, ConnSetConfig
<1>2. w \in Conn /\ SameHandle(x, w) /\ w.state = x.state
  BY <1>1, PrepareType, ConstantsOK DEF Conn, SameHandle
<1>3. y \in Conn /\ SameHandle(x, y) /\ y.state = x.state
  <2> HIDE DEF w
  <2> QED  BY <1>2, RefreshFacts DEF SameHandle
<1>4. conn' = [conn EXCEPT ![e][i] = y] /\ UNCHANGED <<up, next_connection_id, net>>
  BY DEF ConnSetConfig
<1>5. QED
  <2> HIDE DEF y
  <2> QED  BY <1>1, <1>3, <1>4, LocalStep DEF Live

LEMMA StreamOutputStep ==
  ASSUME IndInv, NEW e \in Engine, NEW i \in Id, NEW type \in {"PAYLOAD", "STREAM_CTRL"},
         StreamOutput(e, i, type)
  PROVE  IndInv' /\ Quiet
<1> DEFINE x == conn[e][i]
           k == Pkt(type, e, i, 0, "NONE")
<1>1. TypeOK /\ x \in Conn /\ Live(x)
  BY ConnTyped DEF IndInv, StreamOutput, Live
<1>2. x.peer_connection_id # 0
  BY <1>1 DEF IndInv, Known, StreamOutput
<1>3. OwnPacket(e, i, x, k)
  BY <1>1, <1>2, PktFacts, SMTT(30) DEF OwnPacket
<1>4. conn' = [conn EXCEPT ![e][i] = x]
  BY DEF StreamOutput, IndInv, TypeOK
<1>5. net' = net \cup {k} /\ UNCHANGED <<up, next_connection_id>>
  BY DEF StreamOutput, Bare
<1>6. QED
  <2> HIDE DEF k, x
  <2> QED  BY <1>1, <1>3, <1>4, <1>5, LocalStep DEF Live, SameHandle, x

-----------------------------------------------------------------------------
(* Packets that change one live connection *)

\* A routed packet names a live connection of the receiver at the source address.
LEMMA RoutedFacts ==
  ASSUME IndInv, NEW e \in Engine, NEW m \in net, Routed(e, m)
  PROVE  /\ TypeOK /\ m \in Packet /\ PacketOK(m)
         /\ m.dest \in Id /\ m.dest # 0
         /\ conn[e][m.dest] \in Conn /\ Live(conn[e][m.dest])
         /\ conn[e][m.dest].state # "FREE"
         /\ conn[e][m.dest].peer_addr = m.from
<1>1. m.dest \in Id
  BY DEF Routed
<1>2. m.dest # 0
  BY <1>1, ConstantsOK, SMTT(30) DEF Id
<1>3. QED
  BY <1>1, <1>2, ConnTyped DEF Routed, IndInv, TypeOK, Live

LEMMA ReceiveConnectAgainStep ==
  ASSUME IndInv, NEW e \in Engine, NEW m \in net, NEW i \in Id, ReceiveConnectAgain(e, m, i)
  PROVE  IndInv' /\ Quiet
<1> DEFINE x == conn[e][i]
           y == NoteReceive(x, FALSE)
           k == Pkt("CONNECT_ACK", e, i, Version[e], "OK")
<1>1. TypeOK /\ x \in Conn /\ Live(x) /\ ~x.is_initiator /\ x.state # "FREE"
  BY ConnTyped DEF IndInv, ReceiveConnectAgain, Passive, Live
<1>2. x.peer_connection_id # 0
  BY <1>1 DEF IndInv, Known
<1>3. Kept(x, y)
  BY <1>1, StampFacts
<1>4. OwnPacket(e, i, y, k)
  <2> Version[e] \in Nat
    BY ConstantsOK
  <2> HIDE DEF y
  <2> QED  BY <1>1, <1>2, PktFacts, SMTT(30) DEF OwnPacket, AckResult
<1>5. /\ conn' = [conn EXCEPT ![e][i] = y] /\ UNCHANGED <<up, next_connection_id>>
      /\ net' \subseteq net \cup {k}
  BY DEF ReceiveConnectAgain, Rest
<1>6. QED
  <2> HIDE DEF y, k
  <2> QED  BY <1>1, <1>3, <1>4, <1>5, LocalStep DEF Kept

LEMMA ReceiveKeepaliveStep ==
  ASSUME IndInv, NEW e \in Engine, NEW m \in net,
         ReceiveKeepalive(e, m) \/ ReceivePayload(e, m)
  PROVE  IndInv' /\ Quiet
<1> DEFINE x == conn[e][m.dest]
<1>1. PICK p \in BOOLEAN :
        /\ Routed(e, m) /\ UNCHANGED <<up, next_connection_id>> /\ net' \subseteq net
        /\ conn' = [conn EXCEPT ![e][m.dest] = NoteReceive(x, p)]
  BY DEF ReceiveKeepalive, ReceivePayload, Rest
<1> DEFINE y == NoteReceive(x, p)
<1>2. m.dest \in Id /\ Live(x) /\ x \in Conn /\ x.state # "FREE"
  BY <1>1, RoutedFacts
<1>3. Kept(x, y)
  BY <1>2, StampFacts
<1>4. QED
  <2> HIDE DEF y
  <2> QED  BY <1>1, <1>2, <1>3, LocalStep DEF Kept, y

\* The CLOSE_ACK tells the truth: the CLOSE came from the connection that the
\* acknowledged one answers to.
LEMMA ReceiveCloseStep ==
  ASSUME IndInv, NEW e \in Engine, NEW m \in net, ReceiveClose(e, m)
  PROVE  IndInv' /\ Quiet
<1> DEFINE d == m.dest
           x == conn[e][d]
           n == NoteReceive(x, FALSE)
           y == CloseInternal(n, m.arg)
           k == Pkt("CLOSE_ACK", e, d, 0, m.arg)
<1>1. /\ Routed(e, m) /\ UNCHANGED <<up, next_connection_id>>
      /\ net' \subseteq net \cup {k} /\ m.type = "CLOSE" /\ m.to = e
      /\ conn' = [conn EXCEPT ![e][d] = y]
  BY DEF ReceiveClose, Rest, Arrives, Bare
<1>2. /\ TypeOK /\ m \in Packet /\ PacketOK(m) /\ d \in Id /\ d # 0
      /\ x \in Conn /\ Live(x) /\ x.state # "FREE" /\ x.peer_addr = m.from
  BY <1>1, RoutedFacts
<1>3. y \in Conn /\ SameHandle(x, y) /\ y.state \in {"CLOSED", "ERROR"}
  <2>1. Kept(x, n) /\ m.arg \in Reason
    BY <1>1, <1>2, StampFacts DEF PacketOK
  <2> HIDE DEF n
  <2>2. QED
    BY <2>1, CloseFacts DEF Kept, SameHandle
<1> DEFINE s == conn[m.from][m.sender]
<1>4. /\ m.from \in Engine /\ m.sender \in Id
      /\ s.state # "FREE" /\ s.peer_addr = e /\ s.peer_connection_id = d
  BY <1>1, <1>2 DEF Packet, PacketOK, Sender
<1>5. x.is_initiator = ~s.is_initiator /\ (s.is_initiator => x.peer_connection_id = m.sender)
  BY <1>2, <1>4, SMTT(30) DEF IndInv, RouteAgreement
<1>6. x.peer_connection_id # 0 => conn[x.peer_addr][x.peer_connection_id].peer_connection_id = d
  <2>1. CASE x.is_initiator
    BY <2>1, <1>2, SMTT(30) DEF IndInv, RouteAgreement
  <2>2. CASE ~x.is_initiator
    <3>1. s.is_initiator
      BY <2>2, <1>4, <1>5, ConnTyped DEF IndInv
    <3>2. QED
      BY <3>1, <1>2, <1>4, <1>5
  <2>3. QED
    BY <2>1, <2>2
<1>7. OwnPacket(e, d, y, k)
  <2>1. m.arg \in Reason
    BY <1>1, <1>2 DEF PacketOK
  <2>2. ~Live(y)
    <3> HIDE DEF y
    <3> QED  BY <1>3 DEF Live
  <2> HIDE DEF y, d
  <2>3. QED
    BY <1>2, <1>6, <2>1, <2>2, PktFacts, SMTT(30) DEF OwnPacket
<1>8. QED
  <2> HIDE DEF y, k, d
  <2> QED  BY <1>1, <1>2, <1>3, <1>7, LocalStep DEF Live

LEMMA ReceiveCloseAckStep ==
  ASSUME IndInv, NEW e \in Engine, NEW m \in net, ReceiveCloseAck(e, m)
  PROVE  IndInv' /\ Quiet
<1> DEFINE d == m.dest
           x == conn[e][d]
           n == NoteReceive(x, FALSE)
           y == CloseInternal(n, x.close_reason)
<1>1. /\ Routed(e, m) /\ UNCHANGED <<up, next_connection_id>> /\ net' \subseteq net
      /\ conn' = [conn EXCEPT ![e][d] = y]
  BY DEF ReceiveCloseAck, Rest
<1>2. TypeOK /\ d \in Id /\ x \in Conn /\ Live(x) /\ x.state # "FREE"
  BY <1>1, RoutedFacts
<1>3. y \in Conn /\ SameHandle(x, y) /\ y.state \in {"CLOSED", "ERROR"}
  <2>1. Kept(x, n) /\ x.close_reason \in Reason
    BY <1>2, StampFacts DEF Conn
  <2> HIDE DEF n
  <2>2. QED
    BY <2>1, CloseFacts DEF Kept, SameHandle
<1>4. QED
  <2> HIDE DEF y, d
  <2> QED  BY <1>1, <1>2, <1>3, LocalStep

-----------------------------------------------------------------------------
(* kcpmux_conn_update *)

\* What one update may turn a live connection into.
UpdateResult(x, y) ==
  \/ y \in {Refresh(x), Retry(x), Refresh(StampKeepalive(x))}
  \/ y = CloseInternal(SetState(x, "ERROR"), "TIMEOUT")
  \/ y = CloseInternal(StampCtrl(SetState(x, "CLOSING")), "IDLE")
  \/ y = CloseInternal(x, x.close_reason)

LEMMA UpdateFacts ==
  ASSUME NEW x \in Conn, Live(x), NEW y, UpdateResult(x, y)
  PROVE  /\ y \in Conn /\ SameHandle(x, y) /\ y.state # "FREE"
         /\ y.state \in {"CONNECTED", "CONNECTING"} => x.state = y.state
<1>1. CASE y \in {Refresh(x), Retry(x)}
  BY <1>1, RefreshFacts, StampFacts DEF Kept, Live
<1>2. CASE y = Refresh(StampKeepalive(x))
  <2>1. Kept(x, StampKeepalive(x))
    BY StampFacts
  <2>2. QED
    BY <1>2, <2>1, RefreshFacts DEF Kept, SameHandle, Live
<1>3. CASE y = CloseInternal(SetState(x, "ERROR"), "TIMEOUT")
  <2>1. SetState(x, "ERROR") \in Conn /\ SameHandle(x, SetState(x, "ERROR"))
    BY SetStateFacts DEF State
  <2>2. QED
    BY <1>3, <2>1, CloseFacts DEF SameHandle, Reason
<1>4. CASE y = CloseInternal(StampCtrl(SetState(x, "CLOSING")), "IDLE")
  <2>1. SetState(x, "CLOSING") \in Conn /\ SameHandle(x, SetState(x, "CLOSING"))
    BY SetStateFacts DEF State
  <2>2. Kept(SetState(x, "CLOSING"), StampCtrl(SetState(x, "CLOSING")))
    BY <2>1, StampFacts
  <2>3. QED
    BY <1>4, <2>1, <2>2, CloseFacts DEF SameHandle, Reason, Kept
<1>5. CASE y = CloseInternal(x, x.close_reason)
  <2>1. x.close_reason \in Reason
    BY DEF Conn
  <2>2. QED
    BY <1>5, <2>1, CloseFacts
<1>6. QED
  BY <1>1, <1>2, <1>3, <1>4, <1>5 DEF UpdateResult

LEMMA UpdateStep ==
  ASSUME IndInv, NEW e \in Engine, NEW i \in Id, Update(e, i)
  PROVE  IndInv' /\ Quiet
<1> DEFINE x == conn[e][i]
<1>1. TypeOK /\ x \in Conn /\ Live(x) /\ x.state # "FREE" /\ x.close_reason \in Reason
  <2>1. Live(x)
    BY DEF Update, UpdateConnecting, UpdateConnected, UpdateClosing, Due
  <2>2. TypeOK /\ x \in Conn
    BY ConnTyped DEF IndInv
  <2>3. QED
    BY <2>1, <2>2 DEF Live, Conn
<1>2. PICK y : UpdateResult(x, y) /\ conn' = [conn EXCEPT ![e][i] = y]
  <2>1. CASE UpdateConnecting(e, i)
    BY <2>1 DEF UpdateConnecting, UpdateResult
  <2>2. CASE UpdateConnected(e, i)
    BY <2>2 DEF UpdateConnected, UpdateResult
  <2>3. CASE UpdateClosing(e, i)
    BY <2>3 DEF UpdateClosing, UpdateResult
  <2>4. QED
    BY <2>1, <2>2, <2>3 DEF Update
<1>3. /\ y \in Conn /\ SameHandle(x, y) /\ y.state # "FREE"
      /\ y.state \in {"CONNECTED", "CONNECTING"} => x.state = y.state
  BY <1>1, <1>2, UpdateFacts
<1>4. \A m \in net' : m \in net \/ OwnPacket(e, i, y, m)
  <2> SUFFICES ASSUME NEW m \in net', m \notin net
               PROVE  OwnPacket(e, i, y, m)
    OBVIOUS
  <2>1. CASE UpdateConnecting(e, i)
    <3>1. m = Pkt("CONNECT", e, i, Version[e], "NONE") /\ x.is_initiator
      BY <2>1, <1>1 DEF UpdateConnecting, IndInv, Known
    <3>2. QED
      BY <3>1, <1>1, PktFacts, ConstantsOK, SMTT(30) DEF OwnPacket
  <2>2. CASE ~UpdateConnecting(e, i)
    <3>1. /\ x.peer_connection_id # 0
          /\ m \in {Pkt("CLOSE", e, i, 0, "IDLE"), Pkt("CLOSE", e, i, 0, x.close_reason),
                    Pkt("KEEPALIVE", e, i, 0, "NONE")}
      <4>1. CASE UpdateConnected(e, i)
        BY <4>1, <1>1 DEF UpdateConnected, ClosePackets, Bare, IndInv, Known
      <4>2. CASE UpdateClosing(e, i)
        BY <4>2, <1>1 DEF UpdateClosing, ClosePackets, Bare
      <4>3. QED
        BY <2>2, <4>1, <4>2 DEF Update
    <3>2. QED
      BY <3>1, <1>1, PktFacts, SMTT(30) DEF OwnPacket, Reason
  <2>3. QED
    BY <2>1, <2>2
<1>5. UNCHANGED <<up, next_connection_id>>
  BY DEF Update, UpdateConnecting, UpdateConnected, UpdateClosing
<1>6. QED
  BY <1>1, <1>2, <1>3, <1>4, <1>5, LocalStep

-----------------------------------------------------------------------------
(* Steps of a whole engine *)

\* One clock tick changes ages and what is left of the timer.
LEMMA AgedFacts ==
  ASSUME NEW x \in Conn
  PROVE  Kept(x, Aged(x))
<1>1. \A n \in Nat : Older(n) \in Nat
  BY ConstantsOK, SMTT(30) DEF Older
<1>2. (IF x.timer = 0 THEN 0 ELSE x.timer - 1) \in Nat
  BY SMTT(30) DEF Conn
<1>3. QED
  BY <1>1, <1>2 DEF Kept, SameHandle, Aged, Conn

\* A step that maps the live connections of one engine, each to one of the same
\* identity, preserves the invariant.
LEMMA EngineStep ==
  ASSUME IndInv, NEW e \in Engine, NEW F \in [Conn -> Conn],
         \A x \in Conn : Live(x) =>
           /\ SameHandle(x, F[x]) /\ F[x].state # "FREE"
           /\ F[x].state \in {"CONNECTED", "CONNECTING"} => x.state = F[x].state,
         conn' = [conn EXCEPT ![e] =
           [i \in Id |-> IF Live(conn[e][i]) THEN F[conn[e][i]] ELSE conn[e][i]]],
         up' \in [Engine -> BOOLEAN], UNCHANGED <<next_connection_id, net>>
  PROVE  IndInv' /\ Quiet
<1>1. conn \in [Engine -> [Id -> Conn]]
  BY DEF IndInv, TypeOK
<1>2. /\ conn' \in [Engine -> [Id -> Conn]]
      /\ \A i \in Id : conn'[e][i] = IF Live(conn[e][i]) THEN F[conn[e][i]] ELSE conn[e][i]
      /\ \A f \in Engine : f # e => conn'[f] = conn[f]
  BY <1>1
<1>3. Quiet
  <2> SUFFICES ASSUME NEW f \in Engine, NEW i \in Id
               PROVE  LET x == conn[f][i]
                          y == conn'[f][i]
                      IN  /\ SameHandle(x, y)
                          /\ y.state = "FREE" <=> x.state = "FREE"
                          /\ ~Live(x) => y = x
                          /\ y.state \in {"CONNECTED", "CONNECTING"} => x.state = y.state
    BY DEF Quiet
  <2>1. CASE f = e /\ Live(conn[f][i])
    <3>1. conn[f][i] \in Conn
      BY <1>1
    <3>2. QED
      BY <2>1, <3>1, <1>2 DEF Live
  <2>2. CASE f # e \/ ~Live(conn[f][i])
    BY <2>2, <1>2 DEF SameHandle
  <2>3. QED
    BY <2>1, <2>2
<1>4. Fresh' /\ TypeOK'
  BY <1>2, <1>3 DEF IndInv, TypeOK, Fresh, Quiet
<1>5. QED
  BY <1>3, <1>4, QuietStep

LEMMA EngineDestroyStep ==
  ASSUME IndInv, NEW e \in Engine, EngineDestroy(e)
  PROVE  IndInv' /\ Quiet
<1> DEFINE F == [x \in Conn |-> CloseInternal(x, "NORMAL")]
<1>1. /\ F \in [Conn -> Conn]
      /\ \A x \in Conn : SameHandle(x, F[x]) /\ F[x].state \in {"CLOSED", "ERROR"}
  BY CloseFacts DEF Reason
<1>2. \A i \in Id : conn[e][i] \in Conn
  BY DEF IndInv, TypeOK
<1>3. /\ conn' = [conn EXCEPT ![e] =
           [i \in Id |-> IF Live(conn[e][i]) THEN F[conn[e][i]] ELSE conn[e][i]]]
      /\ up' \in [Engine -> BOOLEAN] /\ UNCHANGED <<next_connection_id, net>>
  BY <1>2 DEF EngineDestroy, IndInv, TypeOK
<1>4. QED
  <2> HIDE DEF F
  <2> QED  BY <1>1, <1>3, EngineStep, SMTT(30)

LEMMA TickStep ==
  ASSUME IndInv, NEW e \in Engine, Tick(e)
  PROVE  IndInv' /\ Quiet
<1> DEFINE F == [x \in Conn |-> Aged(x)]
<1>1. /\ F \in [Conn -> Conn]
      /\ \A x \in Conn : SameHandle(x, F[x]) /\ F[x].state = x.state
  BY AgedFacts DEF Kept
<1>2. \A i \in Id : conn[e][i] \in Conn
  BY DEF IndInv, TypeOK
<1>3. /\ conn' = [conn EXCEPT ![e] =
           [i \in Id |-> IF Live(conn[e][i]) THEN F[conn[e][i]] ELSE conn[e][i]]]
      /\ up' \in [Engine -> BOOLEAN] /\ UNCHANGED <<next_connection_id, net>>
  BY <1>2 DEF Tick, IndInv, TypeOK
<1>4. QED
  <2> HIDE DEF F
  <2> QED  BY <1>1, <1>3, EngineStep DEF Live

-----------------------------------------------------------------------------
(* Creation *)

\* kcpmux_conn_new hands out an id that no connection has.
LEMMA TakeIdFacts ==
  ASSUME IndInv, NEW e \in Engine, TakeId(e)
  PROVE  /\ next_connection_id[e] \in Id
         /\ conn[e][next_connection_id[e]].state = "FREE"
         /\ next_connection_id' \in [Engine -> Id0]
         /\ next_connection_id'[e] # 0 => next_connection_id'[e] = next_connection_id[e] + 1
         /\ \A f \in Engine : f # e => next_connection_id'[f] = next_connection_id[f]
<1>1. next_connection_id \in [Engine -> Id0] /\ next_connection_id[e] # 0
  BY DEF IndInv, TypeOK, TakeId
<1>2. next_connection_id[e] \in Id
  BY <1>1, ConstantsOK, SMTT(30) DEF Id, Id0
<1>3. conn[e][next_connection_id[e]].state = "FREE"
  BY <1>1, <1>2, SMTT(30) DEF IndInv, Fresh, Id
<1>4. (IF next_connection_id[e] = MaxId THEN 0 ELSE next_connection_id[e] + 1) \in Id0
  BY <1>1, ConstantsOK, SMTT(30) DEF Id0
<1>5. next_connection_id' = [next_connection_id EXCEPT ![e] =
         IF next_connection_id[e] = MaxId THEN 0 ELSE next_connection_id[e] + 1]
  BY DEF TakeId
<1>6. QED
  BY <1>1, <1>2, <1>3, <1>4, <1>5

LEMMA ConnNewFailsStep ==
  ASSUME IndInv, NEW e \in Engine, ConnNewFails(e)
  PROVE  IndInv' /\ Quiet
<1>1. TakeId(e) /\ UNCHANGED <<up, conn, net>>
  BY DEF ConnNewFails
<1>2. Quiet
  BY <1>1 DEF Quiet, SameHandle
<1>3. TypeOK'
  BY <1>1, TakeIdFacts DEF IndInv, TypeOK
<1>4. Fresh'
  <2> SUFFICES ASSUME NEW f \in Engine, NEW j \in Id, next_connection_id'[f] # 0,
                      j >= next_connection_id'[f]
               PROVE  conn'[f][j].state = "FREE"
    BY DEF Fresh
  <2>1. next_connection_id[f] # 0 /\ j >= next_connection_id[f]
    BY <1>1, TakeIdFacts, SMTT(30) DEF Id
  <2>2. QED
    BY <1>1, <2>1 DEF IndInv, Fresh
<1>5. QED
  BY <1>1, <1>2, <1>3, <1>4, QuietStep

\* A connection that is created disturbs no other: nothing referred to its id.
LEMMA CreateStep ==
  ASSUME IndInv, NEW e \in Engine, TakeId(e), UNCHANGED up,
         NEW y \in Conn, y.state # "FREE",
         y.is_initiator => y.peer_connection_id = 0 /\ y.state = "CONNECTING",
         ~y.is_initiator =>
           LET z == conn[y.peer_addr][y.peer_connection_id]
           IN  /\ y.peer_connection_id # 0 /\ y.state # "CONNECTING"
               /\ z.state # "FREE" /\ z.is_initiator /\ z.peer_addr = e
               /\ Passive(e, y.peer_addr, y.peer_connection_id) = {},
         conn' = [conn EXCEPT ![e][next_connection_id[e]] = y],
         net' \subseteq Packet, \A m \in net' : m \in net \/ PacketOK(m)'
  PROVE  IndInv' /\ HandleKept
<1> DEFINE i == next_connection_id[e]
<1>1. /\ i \in Id /\ conn[e][i].state = "FREE"
      /\ next_connection_id' \in [Engine -> Id0]
      /\ next_connection_id'[e] # 0 => next_connection_id'[e] = i + 1
      /\ \A f \in Engine : f # e => next_connection_id'[f] = next_connection_id[f]
  BY TakeIdFacts
<1> HIDE DEF i
<1>2. conn \in [Engine -> [Id -> Conn]]
  BY DEF IndInv, TypeOK
<1>3. /\ conn' \in [Engine -> [Id -> Conn]] /\ conn'[e][i] = y
      /\ \A f \in Engine, j \in Id : f # e \/ j # i => conn'[f][j] = conn[f][j]
  BY <1>1, <1>2 DEF i
<1>4. \A f \in Engine, j \in Id : conn[f][j].state # "FREE" => conn'[f][j] = conn[f][j]
  BY <1>1, <1>3
<1>5. TypeOK'
  BY <1>1, <1>3 DEF IndInv, TypeOK
<1>6. Fresh'
  <2> SUFFICES ASSUME NEW f \in Engine, NEW j \in Id, next_connection_id'[f] # 0,
                      j >= next_connection_id'[f]
               PROVE  conn'[f][j].state = "FREE"
    BY DEF Fresh
  <2>1. CASE f = e
    <3>1. next_connection_id[e] # 0 /\ j >= next_connection_id[e] /\ j # i
      BY <1>1, <2>1, ConstantsOK, SMTT(30) DEF Id, i
    <3>2. QED
      BY <3>1, <2>1, <1>3, SMTT(30) DEF IndInv, Fresh
  <2>2. CASE f # e
    BY <2>2, <1>1, <1>3, SMTT(30) DEF IndInv, Fresh
  <2>3. QED
    BY <2>1, <2>2
<1>7. Known'
  <2> SUFFICES ASSUME NEW f \in Engine, NEW j \in Id, conn'[f][j].state # "FREE"
               PROVE  LET x == conn'[f][j]
                      IN  /\ ~x.is_initiator => x.peer_connection_id # 0
                          /\ x.state = "CONNECTED" => x.peer_connection_id # 0
                          /\ x.state = "CONNECTING" => x.is_initiator /\ x.peer_connection_id = 0
    BY DEF Known
  <2>1. CASE f = e /\ j = i
    <3>1. y.is_initiator \in BOOLEAN
      BY DEF Conn
    <3>2. QED
      BY <2>1, <3>1, <1>3
  <2>2. CASE f # e \/ j # i
    BY <2>2, <1>3 DEF IndInv, Known
  <2>3. QED
    BY <2>1, <2>2
<1>8. RouteAgreement'
  <2> SUFFICES ASSUME NEW f \in Engine, NEW j \in Id,
                      conn'[f][j].state # "FREE", conn'[f][j].peer_connection_id # 0
               PROVE  LET x == conn'[f][j]
                          z == conn'[x.peer_addr][x.peer_connection_id]
                      IN  /\ z.state # "FREE" /\ z.peer_addr = f
                          /\ z.is_initiator = ~x.is_initiator
                          /\ x.is_initiator => z.peer_connection_id = j
    BY DEF RouteAgreement
  <2> DEFINE x == conn'[f][j]
  <2>1. x.peer_addr \in Engine /\ x.peer_connection_id \in Id
    <3>1. x \in Conn
      BY <1>3
    <3>2. QED
      BY <3>1, ConstantsOK, SMTT(30) DEF Conn, Id, Id0
  <2>2. CASE f = e /\ j = i
    <3>1. x = y /\ ~y.is_initiator
      BY <2>2, <1>3
    <3>2. LET z == conn[x.peer_addr][x.peer_connection_id]
          IN  z.state # "FREE" /\ z.is_initiator /\ z.peer_addr = e
      BY <3>1
    <3>3. conn'[x.peer_addr][x.peer_connection_id] = conn[x.peer_addr][x.peer_connection_id]
      <4> HIDE DEF x
      <4> QED  BY <2>1, <3>2, <1>4
    <3>4. conn[x.peer_addr][x.peer_connection_id].is_initiator = TRUE /\ x.is_initiator = FALSE
      <4> HIDE DEF x
      <4>1. x.is_initiator \in BOOLEAN
        BY <3>1 DEF Conn
      <4>2. conn[x.peer_addr][x.peer_connection_id].is_initiator \in BOOLEAN
        BY <2>1, ConnTyped DEF IndInv
      <4>3. QED
        BY <3>1, <3>2, <4>1, <4>2
    <3>5. QED
      BY <2>2, <3>2, <3>3, <3>4
  <2>3. CASE f # e \/ j # i
    <3> DEFINE c == conn[f][j]
               z == conn[c.peer_addr][c.peer_connection_id]
    <3>1. x = c
      BY <2>3, <1>3
    <3>2. c.state # "FREE" /\ c.peer_connection_id # 0
      BY <3>1
    <3>3. /\ z.state # "FREE" /\ z.peer_addr = f
          /\ z.is_initiator = ~c.is_initiator
          /\ c.is_initiator => z.peer_connection_id = j
      BY <3>2, PeerFacts
    <3>4. conn'[c.peer_addr][c.peer_connection_id] = z
      <4>1. c.peer_addr \in Engine /\ c.peer_connection_id \in Id
        BY <3>2, PeerFacts
      <4>2. QED
        BY <4>1, <3>3, <1>4
    <3> HIDE DEF c, z
    <3>5. QED
      BY <3>1, <3>3, <3>4
  <2>4. QED
    BY <2>2, <2>3
<1>9. HandshakeUnique'
  <2> SUFFICES ASSUME NEW f \in Engine, NEW g \in Engine, NEW p \in Id,
                      NEW j \in Passive(f, g, p)', NEW k \in Passive(f, g, p)', j # k
               PROVE  FALSE
    BY DEF HandshakeUnique
  <2>1. \A n \in Passive(f, g, p)' : (f = e /\ n = i) \/ n \in Passive(f, g, p)
    BY <1>3 DEF Passive
  <2>2. f = e /\ i \in {j, k} /\ (j \in Passive(e, g, p) \/ k \in Passive(e, g, p))
    BY <2>1 DEF IndInv, HandshakeUnique
  <2>3. ~y.is_initiator /\ y.peer_addr = g /\ y.peer_connection_id = p
    BY <2>2, <1>3, SMTT(30) DEF Passive
  <2>4. QED
    BY <2>2, <2>3
<1>10. \A m \in net : PacketOK(m)'
  <2> SUFFICES ASSUME NEW m \in net
               PROVE  PacketOK(m)'
    OBVIOUS
  <2> DEFINE s == conn[m.from][m.sender]
  <2>1. m \in Packet /\ PacketOK(m) /\ m.from \in Engine /\ m.sender \in Id
    BY DEF IndInv, TypeOK, Packet
  <2>2. conn'[m.from][m.sender] = s
    BY <2>1, <1>4 DEF PacketOK, Sender
  <2>3. m.type # "CONNECT" /\ m.dest # 0 => conn'[m.to][m.dest] = conn[m.to][m.dest]
    <3> SUFFICES ASSUME m.type # "CONNECT", m.dest # 0
                 PROVE  conn'[m.to][m.dest] = conn[m.to][m.dest]
      OBVIOUS
    <3>2. conn[m.to][m.dest].state # "FREE"
      BY PacketRoute
    <3>3. m.to \in Engine /\ m.dest \in Id
      BY <2>1, ConstantsOK, SMTT(30) DEF Packet, Id, Id0
    <3>4. QED
      BY <3>2, <3>3, <1>4
  <2>4. QED
    BY <2>1, <2>2, <2>3 DEF PacketOK, Sender, Target
<1>11. HandleKept
  BY <1>4 DEF HandleKept
<1>12. QED
  BY <1>5, <1>6, <1>7, <1>8, <1>9, <1>10, <1>11 DEF IndInv

LEMMA ConnConnectStep ==
  ASSUME IndInv, NEW e \in Engine, NEW peer \in Engine, NEW c \in Configs,
         ConnConnect(e, peer, c)
  PROVE  IndInv' /\ HandleKept
<1> DEFINE i == next_connection_id[e]
           x == NewConn(e, peer, 0, Prepare(c), TRUE)
           w == SetState(x, "CONNECTING")
           y == StampCtrl(w)
<1>0. PICK k : k = [type |-> "CONNECT", from |-> e, to |-> peer, dest |-> 0,
                    sender |-> i, version |-> Version[e], arg |-> "NONE"]
  OBVIOUS
<1>1. /\ TakeId(e) /\ UNCHANGED up
      /\ conn' = [conn EXCEPT ![e][i] = y] /\ net' = net \cup {k}
  BY <1>0 DEF ConnConnect
<1>2. i \in Id /\ TypeOK
  BY <1>1, TakeIdFacts DEF IndInv
<1>3. /\ y \in Conn /\ y.state = "CONNECTING" /\ y.is_initiator
      /\ y.peer_addr = peer /\ y.peer_connection_id = 0
  <2>1. /\ x \in Conn /\ x.is_initiator /\ x.peer_addr = peer
        /\ x.peer_connection_id = 0
    <3>1. 0 \in Id0 /\ Prepare(c) \in Config
      BY PrepareType, ConstantsOK, SMTT(30) DEF Id0
    <3>2. QED
      BY <3>1, NewConnFacts
  <2> HIDE DEF x
  <2>2. w \in Conn /\ SameHandle(x, w) /\ w.state = "CONNECTING"
    BY <2>1, SetStateFacts DEF State
  <2> HIDE DEF w
  <2>3. Kept(w, y)
    BY <2>2, StampFacts
  <2>4. QED
    BY <2>1, <2>2, <2>3 DEF Kept, SameHandle
<1> HIDE DEF y
<1>4. conn'[e][i] = y
  BY <1>1, <1>2 DEF TypeOK
<1>5. k \in Packet
  BY <1>0, <1>2, ConstantsOK, SMTT(30) DEF Packet, Id0
<1>6. PacketOK(k)'
  BY <1>0, <1>3, <1>4 DEF PacketOK, Sender
<1>7. net' \subseteq Packet
  BY <1>1, <1>2, <1>5 DEF TypeOK
<1>8. QED
  BY <1>1, <1>3, <1>6, <1>7, CreateStep

LEMMA ReceiveConnectStep ==
  ASSUME IndInv, NEW e \in Engine, NEW m \in net, NEW result \in Answers,
         ReceiveConnect(e, m, result)
  PROVE  IndInv' /\ HandleKept
<1> DEFINE i == next_connection_id[e]
           n == NewConn(e, m.from, m.sender, EngineConfig, FALSE)
           x == NoteReceive(n, FALSE)
           y == IF result = "OK" THEN SetState(x, "CONNECTED")
                ELSE CloseInternal(x, "REJECTED")
<1>0. PICK k : k = [type |-> "CONNECT_ACK", from |-> e, to |-> m.from, dest |-> m.sender,
                    sender |-> i, version |-> Version[e], arg |-> AsByte(result)]
  OBVIOUS
<1>1. /\ TakeId(e) /\ UNCHANGED up /\ m.type = "CONNECT" /\ m.to = e
      /\ Passive(e, m.from, m.sender) = {}
      /\ conn' = [conn EXCEPT ![e][i] = y] /\ net' \subseteq net \cup {k}
  BY <1>0 DEF ReceiveConnect, Accept, Arrives, Rest
<1>2. i \in Id /\ TypeOK
  BY <1>1, TakeIdFacts DEF IndInv
<1>3. /\ m \in Packet /\ PacketOK(m) /\ m.from \in Engine /\ m.sender \in Id
      /\ m.sender # 0 /\ m.sender \in Id0
  <2>1. m \in Packet /\ PacketOK(m)
    BY DEF IndInv, TypeOK
  <2>2. m.from \in Engine /\ m.sender \in Id
    BY <2>1 DEF Packet
  <2>3. QED
    BY <2>1, <2>2, ConstantsOK, SMTT(30) DEF Id, Id0
<1>4. /\ y \in Conn /\ y.state \notin {"FREE", "CONNECTING"} /\ ~y.is_initiator
      /\ y.peer_addr = m.from /\ y.peer_connection_id = m.sender
  <2>1. /\ n \in Conn /\ n.is_initiator = FALSE /\ n.peer_addr = m.from
        /\ n.peer_connection_id = m.sender
    <3>1. EngineConfig \in Config
      BY ConstantsOK
    <3>2. \A f \in Engine, p \in Id0 :
            LET z == NewConn(e, f, p, EngineConfig, FALSE)
            IN  /\ z \in Conn /\ z.is_initiator = FALSE /\ z.peer_addr = f
                /\ z.peer_connection_id = p
      <4>1. NoConn(e) \in Conn
        BY ConstantsOK, SMTT(30) DEF NoConn, Conn, Id0, State, Reason
      <4>2. QED
        BY <3>1, <4>1 DEF NewConn, Conn
    <3>3. QED
      BY <1>3, <3>2
  <2> HIDE DEF n
  <2>2. Kept(n, x)
    BY <2>1, StampFacts
  <2> HIDE DEF x
  <2>3. SetState(x, "CONNECTED") \in Conn /\ SameHandle(x, SetState(x, "CONNECTED"))
        /\ SetState(x, "CONNECTED").state = "CONNECTED"
    BY <2>2, SetStateFacts DEF State, Kept
  <2>4. LET z == CloseInternal(x, "REJECTED")
        IN  z \in Conn /\ SameHandle(x, z) /\ z.state \in {"CLOSED", "ERROR"}
    BY <2>2, CloseFacts DEF Reason, Kept
  <2>5. QED
    BY <2>1, <2>2, <2>3, <2>4 DEF Kept, SameHandle
<1> HIDE DEF y
<1>5. LET z == conn[y.peer_addr][y.peer_connection_id]
      IN  z.state # "FREE" /\ z.is_initiator /\ z.peer_addr = e
  BY <1>1, <1>3, <1>4 DEF PacketOK, Sender
<1>6. conn'[e][i] = y
  BY <1>1, <1>2 DEF TypeOK
<1>7. k \in Packet
  <2>1. Version[e] \in Nat /\ AsByte(result) \in AckResult
    BY ConstantsOK DEF AsByte, AckResult, Answer
  <2>2. QED
    BY <1>0, <1>2, <1>3, <2>1 DEF Packet
<1>8. PacketOK(k)'
  BY <1>0, <1>3, <1>4, <1>6 DEF PacketOK, Sender
<1>9. net' \subseteq Packet
  BY <1>1, <1>2, <1>7 DEF TypeOK
<1>10. QED
  BY <1>1, <1>3, <1>4, <1>5, <1>8, <1>9, CreateStep

-----------------------------------------------------------------------------
(* Packets that concern several connections *)

\* A CONNECT_ACK binds an initiator to the id of a passive connection that was
\* created for it.
LEMMA ReceiveConnectAckStep ==
  ASSUME IndInv, NEW e \in Engine, NEW m \in net, ReceiveConnectAck(e, m)
  PROVE  IndInv' /\ HandleKept
<1> DEFINE d == m.dest
           x == conn[e][d]
           n == NoteReceive(x, FALSE)
           y == Acked(e, n, m)
           p == conn[m.from][m.sender]
<1>1. /\ Routed(e, m) /\ UNCHANGED <<up, next_connection_id>> /\ net' \subseteq net
      /\ conn' = [conn EXCEPT ![e][d] = y] /\ m.type = "CONNECT_ACK" /\ m.to = e
      /\ x.state = "CONNECTING"
  BY DEF ReceiveConnectAck, Rest, Arrives
<1>2. /\ TypeOK /\ m \in Packet /\ PacketOK(m) /\ d \in Id /\ d # 0
      /\ x \in Conn /\ Live(x) /\ x.state # "FREE" /\ x.peer_addr = m.from
  BY <1>1, RoutedFacts
<1>3. Kept(x, n)
  BY <1>2, StampFacts
<1>4. /\ m.from \in Engine /\ m.sender \in Id /\ m.sender # 0 /\ m.sender \in Id0
      /\ p.state # "FREE" /\ ~p.is_initiator /\ p.peer_addr = e /\ p.peer_connection_id = d
  <2>1. m.from \in Engine /\ m.sender \in Id
    BY <1>2 DEF Packet
  <2>2. m.sender # 0 /\ m.sender \in Id0
    BY <2>1, ConstantsOK, SMTT(30) DEF Id, Id0
  <2>3. QED
    BY <1>1, <1>2, <2>1, <2>2 DEF PacketOK, Sender
<1>5. x.is_initiator /\ x.peer_connection_id = 0
  BY <1>1, <1>2 DEF IndInv, Known
<1> HIDE DEF n
<1>6. CASE m.version = Version[e] /\ m.arg = "OK"
  <2> DEFINE w == [n EXCEPT !.peer_connection_id = m.sender]
  <2>1. /\ w \in Conn /\ w.is_initiator = x.is_initiator /\ w.peer_addr = m.from
        /\ w.peer_connection_id = m.sender
    BY <1>2, <1>3, <1>4 DEF Kept, SameHandle, Conn
  <2>2. y = SetState(w, "CONNECTED")
    BY <1>6 DEF Acked
  <2> HIDE DEF w, y
  <2>3. /\ y \in Conn /\ y.state = "CONNECTED" /\ y.is_initiator = x.is_initiator
        /\ y.peer_addr = m.from /\ y.peer_connection_id = m.sender
    BY <2>1, <2>2, SetStateFacts DEF State, SameHandle
  <2>4. /\ conn' \in [Engine -> [Id -> Conn]] /\ conn'[e][d] = y
        /\ \A f \in Engine, j \in Id : f # e \/ j # d => conn'[f][j] = conn[f][j]
    BY <1>1, <1>2, <2>3 DEF TypeOK
  <2>5. \A f \in Engine, j \in Id :
          /\ conn'[f][j].state = "FREE" <=> conn[f][j].state = "FREE"
          /\ conn'[f][j].is_initiator = conn[f][j].is_initiator
          /\ conn'[f][j].peer_addr = conn[f][j].peer_addr
          /\ conn[f][j].peer_connection_id # 0 =>
               conn'[f][j].peer_connection_id = conn[f][j].peer_connection_id
          /\ ~Live(conn[f][j]) => conn'[f][j] = conn[f][j]
    BY <1>2, <1>5, <2>3, <2>4
  <2>6. HandleKept
    BY <2>5 DEF HandleKept
  <2>7. TypeOK' /\ Fresh'
    BY <1>1, <2>4, <2>5, SMTT(30) DEF IndInv, TypeOK, Fresh
  <2>8. Known'
    BY <1>5, <2>3, <2>4, <1>4, SMTT(30) DEF IndInv, Known
  <2>9. RouteAgreement'
    <3> SUFFICES ASSUME NEW f \in Engine, NEW j \in Id,
                        conn'[f][j].state # "FREE", conn'[f][j].peer_connection_id # 0
                 PROVE  LET u == conn'[f][j]
                            v == conn'[u.peer_addr][u.peer_connection_id]
                        IN  /\ v.state # "FREE" /\ v.peer_addr = f
                            /\ v.is_initiator = ~u.is_initiator
                            /\ u.is_initiator => v.peer_connection_id = j
      BY DEF RouteAgreement
    <3>1. CASE f = e /\ j = d
      <4>1. p # x /\ (m.from # e \/ m.sender # d)
        BY <1>4, <1>5
      <4>2. conn'[m.from][m.sender] = p
        BY <4>1, <1>4, <2>4
      <4>3. p.is_initiator = FALSE /\ x.is_initiator = TRUE
        BY <1>2, <1>4, <1>5, ConnTyped, SMTT(30) DEF Conn
      <4>4. /\ conn'[f][j] = y /\ y.peer_addr = m.from /\ y.peer_connection_id = m.sender
            /\ y.is_initiator = TRUE /\ p.peer_addr = f /\ p.peer_connection_id = j
        BY <3>1, <4>3, <1>4, <2>3, <2>4
      <4>5. /\ p.state # "FREE" /\ p.is_initiator = ~y.is_initiator
        BY <1>4, <4>3, <4>4
      <4>6. QED
        BY <4>2, <4>4, <4>5
    <3>2. CASE f # e \/ j # d
      <4> DEFINE c == conn[f][j]
                 z == conn[c.peer_addr][c.peer_connection_id]
      <4>1. conn'[f][j] = c
        BY <3>2, <2>4
      <4>2. c.state # "FREE" /\ c.peer_connection_id # 0
        BY <4>1
      <4>3. /\ c.peer_addr \in Engine /\ c.peer_connection_id \in Id
            /\ z.state # "FREE" /\ z.peer_addr = f
            /\ z.is_initiator = ~c.is_initiator
            /\ c.is_initiator => z.peer_connection_id = j
        BY <4>2, PeerFacts
      <4> DEFINE v == conn'[c.peer_addr][c.peer_connection_id]
      <4>4. /\ v.state # "FREE" /\ v.peer_addr = z.peer_addr
            /\ v.is_initiator = z.is_initiator
            /\ z.peer_connection_id # 0 => v.peer_connection_id = z.peer_connection_id
        BY <4>3, <2>5
      <4>5. j # 0
        BY ConstantsOK, SMTT(30) DEF Id
      <4> HIDE DEF c, z
      <4>6. /\ v.state # "FREE" /\ v.peer_addr = f
            /\ v.is_initiator = ~c.is_initiator
            /\ c.is_initiator => v.peer_connection_id = j
        <5> HIDE DEF v
        <5> QED  BY <4>3, <4>4, <4>5
      <4>7. QED
        BY <4>1, <4>6
    <3>3. QED
      BY <3>1, <3>2
  <2>10. HandshakeUnique'
    <3>1. \A f, g \in Engine, q \in Id : Passive(f, g, q)' \subseteq Passive(f, g, q)
      BY <2>3, <2>4, <1>5 DEF Passive
    <3>2. QED
      BY <3>1, SMTT(30) DEF IndInv, HandshakeUnique
  <2>11. \A k \in net : PacketOK(k)'
    <3> SUFFICES ASSUME NEW k \in net
                 PROVE  PacketOK(k)'
      OBVIOUS
    <3> DEFINE s == conn[k.from][k.sender]
               t == conn'[k.from][k.sender]
    <3>1. /\ k \in Packet /\ PacketOK(k) /\ k.from \in Engine /\ k.sender \in Id
          /\ k.to \in Engine /\ k.sender # 0
          /\ k.dest # 0 => k.dest \in Id
      BY ConstantsOK, SMTT(30) DEF IndInv, TypeOK, Packet, Id, Id0
    <3>2. /\ t.state = "FREE" <=> s.state = "FREE"
          /\ t.is_initiator = s.is_initiator
          /\ t.peer_addr = s.peer_addr
          /\ s.peer_connection_id # 0 => t.peer_connection_id = s.peer_connection_id
          /\ ~Live(s) => t = s
      BY <3>1, <2>5
    <3>3. k.dest # 0 /\ conn[k.to][k.dest].peer_connection_id = k.sender =>
            conn'[k.to][k.dest].peer_connection_id = k.sender
      BY <3>1, <2>5
    <3>4. QED
      BY <3>1, <3>2, <3>3 DEF PacketOK, Sender, Target
  <2>12. QED
    BY <1>1, <2>6, <2>7, <2>8, <2>9, <2>10, <2>11 DEF IndInv
<1>7. CASE ~(m.version = Version[e] /\ m.arg = "OK")
  <2> DEFINE w == SetState(n, "ERROR")
  <2>1. w \in Conn /\ SameHandle(x, w)
    BY <1>3, SetStateFacts DEF State, Kept, SameHandle
  <2>2. y \in {CloseInternal(w, "VERSION"), CloseInternal(w, "REJECTED")}
    BY <1>7 DEF Acked
  <2> HIDE DEF w, y
  <2>3. y \in Conn /\ SameHandle(x, y) /\ y.state \in {"CLOSED", "ERROR"}
    BY <2>1, <2>2, CloseFacts, SMTT(30) DEF SameHandle, Reason
  <2>4. IndInv' /\ Quiet
    BY <1>1, <1>2, <2>3, LocalStep DEF d
  <2>5. QED
    BY <2>4 DEF Quiet, HandleKept, SameHandle
<1>8. QED
  BY <1>6, <1>7

LEMMA ReceiveForeignConnectStep ==
  ASSUME IndInv, NEW e \in Engine, NEW m \in net, ReceiveForeignConnect(e, m)
  PROVE  IndInv' /\ Quiet
<1>1. /\ UNCHANGED <<up, next_connection_id, conn>>
      /\ \A k \in net' : k \in net \/ \E i \in Passive(e, m.from, m.sender) :
                           k = Pkt("CONNECT_ACK", e, i, Version[e], "VERSION")
  BY DEF ReceiveForeignConnect, Rest
<1>2. Quiet /\ Fresh'
  BY <1>1 DEF IndInv, Quiet, SameHandle, Fresh
<1>3. TypeOK
  BY DEF IndInv
<1>4. \A k \in net' : k \in net \/ (k \in Packet /\ PacketOK(k)')
  <2> SUFFICES ASSUME NEW k \in net', NEW i \in Passive(e, m.from, m.sender),
                      k = Pkt("CONNECT_ACK", e, i, Version[e], "VERSION")
               PROVE  k \in Packet /\ PacketOK(k)'
    BY <1>1
  <2> DEFINE x == conn[e][i]
  <2>1. i \in Id /\ Live(x) /\ ~x.is_initiator /\ x.state # "FREE"
    BY DEF Passive, Live
  <2>2. x.peer_connection_id # 0
    BY <2>1 DEF IndInv, Known
  <2>3. OwnPacket(e, i, x, k)
    BY <1>3, <2>1, <2>2, PktFacts, ConstantsOK, SMTT(30) DEF OwnPacket, AckResult
  <2>4. conn'[e][i] = x
    BY <1>1
  <2>5. QED
    BY <1>2, <2>1, <2>3, <2>4, OwnPacketOK DEF OwnPacket
<1>5. TypeOK'
  BY <1>1, <1>4 DEF IndInv, TypeOK
<1>6. QED
  BY <1>2, <1>4, <1>5, QuietStep

-----------------------------------------------------------------------------
(* The theorems *)

\* Every step of the engines, the hosts and the network preserves the invariant,
\* and no step changes what a handle stands for.
LEMMA NextStep ==
  ASSUME IndInv, Next
  PROVE  IndInv' /\ HandleKept
<1>1. Quiet => HandleKept
  BY DEF Quiet, HandleKept, SameHandle
<1>2. CASE Host
  <2>1. PICK e \in Engine :
          \/ \E peer \in Engine \ {e}, c \in Configs : ConnConnect(e, peer, c)
          \/ ConnNewFails(e)
          \/ EngineDestroy(e)
          \/ \E i \in Id : \/ ConnClose(e, i)
                           \/ \E c \in Configs : ConnSetConfig(e, i, c)
                           \/ StreamOutput(e, i, "PAYLOAD")
                           \/ StreamOutput(e, i, "STREAM_CTRL")
    BY <1>2 DEF Host
  <2>2. CASE \E peer \in Engine \ {e}, c \in Configs : ConnConnect(e, peer, c)
    BY <2>2, ConnConnectStep
  <2>3. CASE ConnNewFails(e)
    BY <2>3, <1>1, ConnNewFailsStep
  <2>4. CASE EngineDestroy(e)
    BY <2>4, <1>1, EngineDestroyStep
  <2>5. ASSUME NEW i \in Id,
               \/ ConnClose(e, i)
               \/ \E c \in Configs : ConnSetConfig(e, i, c)
               \/ StreamOutput(e, i, "PAYLOAD")
               \/ StreamOutput(e, i, "STREAM_CTRL")
        PROVE  IndInv' /\ HandleKept
    BY <2>5, <1>1, ConnCloseStep, ConnSetConfigStep, StreamOutputStep
  <2>6. QED
    BY <2>1, <2>2, <2>3, <2>4, <2>5
<1>3. CASE Input
  <2>1. PICK e \in Engine, m \in net :
          \/ ReceiveForeignConnect(e, m)
          \/ \E i \in Id : ReceiveConnectAgain(e, m, i)
          \/ \E result \in Answers : ReceiveConnect(e, m, result)
          \/ ReceiveConnectAck(e, m)
          \/ ReceiveKeepalive(e, m)
          \/ ReceivePayload(e, m)
          \/ ReceiveClose(e, m)
          \/ ReceiveCloseAck(e, m)
    BY <1>3 DEF Input
  <2>2. CASE ReceiveForeignConnect(e, m)
    BY <2>2, <1>1, ReceiveForeignConnectStep
  <2>3. CASE \E i \in Id : ReceiveConnectAgain(e, m, i)
    BY <2>3, <1>1, ReceiveConnectAgainStep
  <2>4. CASE \E result \in Answers : ReceiveConnect(e, m, result)
    BY <2>4, ReceiveConnectStep
  <2>5. CASE ReceiveConnectAck(e, m)
    BY <2>5, ReceiveConnectAckStep
  <2>6. CASE ReceiveKeepalive(e, m) \/ ReceivePayload(e, m)
    BY <2>6, <1>1, ReceiveKeepaliveStep
  <2>7. CASE ReceiveClose(e, m)
    BY <2>7, <1>1, ReceiveCloseStep
  <2>8. CASE ReceiveCloseAck(e, m)
    BY <2>8, <1>1, ReceiveCloseAckStep
  <2>9. QED
    BY <2>1, <2>2, <2>3, <2>4, <2>5, <2>6, <2>7, <2>8
<1>4. CASE \E e \in Engine, i \in Id : Update(e, i)
  BY <1>4, <1>1, UpdateStep
<1>5. CASE \E e \in Engine : Tick(e)
  BY <1>5, <1>1, TickStep
<1>6. QED
  BY <1>2, <1>3, <1>4, <1>5 DEF Next

\* kcpmux_engine_create starts with no connection and no packet.
LEMMA InitStep ==
  ASSUME Init
  PROVE  IndInv
<1>1. \A e \in Engine, i \in Id : conn[e][i] = NoConn(e)
  BY DEF Init
<1>2. \A e \in Engine : NoConn(e) \in Conn /\ NoConn(e).state = "FREE"
  BY ConstantsOK, SMTT(30) DEF NoConn, Conn, Id0, State, Reason
<1>3. FirstIds \subseteq Id0
  BY ConstantsOK, SMTT(30) DEF Id, Id0
<1>4. TypeOK
  BY <1>2, <1>3 DEF Init, TypeOK
<1>5. Fresh /\ Known /\ RouteAgreement
  BY <1>1, <1>2 DEF Fresh, Known, RouteAgreement
<1>6. HandshakeUnique
  BY <1>1, <1>2 DEF HandshakeUnique, Passive, Live
<1>7. QED
  BY <1>4, <1>5, <1>6 DEF IndInv, Init

\* The invariant of the connection layer holds in every reachable state.
THEOREM Invariance == Spec => []IndInv
<1>1. Init => IndInv
  BY InitStep
<1>2. IndInv /\ [Next]_vars => IndInv'
  <2> SUFFICES ASSUME IndInv, [Next]_vars
               PROVE  IndInv'
    OBVIOUS
  <2>1. CASE Next
    BY <2>1, NextStep
  <2>2. CASE UNCHANGED vars
    <3>1. Quiet /\ net' = net
      BY <2>2 DEF vars, Quiet, SameHandle
    <3>2. TypeOK' /\ Fresh'
      BY <2>2 DEF vars, IndInv, TypeOK, Fresh
    <3>3. QED
      BY <3>1, <3>2, QuietStep
  <2>3. QED
    BY <2>1, <2>2
<1>3. QED
  BY <1>1, <1>2, PTL DEF Spec

\* Type correctness: counters, handles and packets keep their types; in
\* particular the id counter wraps to 0 and never leaves its range.
THEOREM TypeCorrect == Spec => []TypeOK
<1>1. IndInv => TypeOK
  BY DEF IndInv
<1>2. QED
  BY <1>1, Invariance, PTL

\* The two ends of a handshake agree on each other's ids, whatever is lost,
\* delayed, reordered or duplicated.
THEOREM RoutesAgree == Spec => []RouteAgreement
<1>1. IndInv => RouteAgreement
  BY DEF IndInv
<1>2. QED
  BY <1>1, Invariance, PTL

\* At most one live passive connection answers for a (peer address, source id),
\* the key of handshake_map.
THEOREM OnePassive == Spec => []HandshakeUnique
<1>1. IndInv => HandshakeUnique
  BY DEF IndInv
<1>2. QED
  BY <1>1, Invariance, PTL

\* A packet never names an id that its receiver has not handed out, or has handed
\* out to a connection with somebody else; from an initiator it can only reach
\* the connection made for that initiator.
THEOREM PacketsStayOnRoute == Spec => []NoCrossTalk
<1>1. IndInv => NoCrossTalk
  BY PacketRoute DEF NoCrossTalk, Sender, Target
<1>2. QED
  BY <1>1, Invariance, PTL

\* A CLOSE_ACK comes from the receiver's own peer, and that peer is closed: no
\* connection that ends by CLOSE_ACK leaves a live peer behind.
THEOREM CloseAckTruthful == Spec => []CloseAckMutual
<1>1. IndInv => CloseAckMutual
  BY DEF IndInv, CloseAckMutual, PacketOK
<1>2. QED
  BY <1>1, Invariance, PTL

\* A connection handle stands for one connection for ever.
THEOREM HandlesStable == Spec => HandleStable
<1>1. IndInv /\ [Next]_vars => [HandleKept]_vars
  BY NextStep
<1>2. QED
  BY <1>1, Invariance, PTL DEF Spec, HandleStable

-----------------------------------------------------------------------------
(* Timers, versions and verdicts.  A second invariant on top of IndInv: what   *)
(* each connection record says by itself, and what packets say of versions,    *)
(* reasons and results.                                                        *)

\* No timeout of the configuration is longer than an age can be.
Suits(c) ==
  /\ c.ctrl_timeout_ms <= MaxAge /\ c.keepalive_timeout_ms <= MaxAge
  /\ c.keepalive_interval_ms <= MaxAge /\ c.idle_timeout_ms <= MaxAge

\* The timer node is scheduled at the deadline.
Exact(x) == Suits(x.config) /\ (Live(x) => x.timer = Remaining(x))

\* A connection whose end has not been notified.
Core(x) ==
  x \in Conn /\ Suits(x.config) /\ x.close_reason = "NORMAL" /\ x.notified = "NONE"

\* What an operator makes of such a connection short of closing it.
Moved(x, y) == Core(y) /\ SameHandle(x, y) /\ Exact(y)

\* Version gate of one connection of engine e.
Gate(e, x) ==
  Version[e] # Version[x.peer_addr] =>
    /\ x.is_initiator /\ x.state # "CONNECTED"
    /\ x.notified \in {"NONE", "NORMAL", "TIMEOUT"}

Sane(e, x) ==
  /\ Exact(x) /\ x.close_reason = "NORMAL" /\ (Live(x) => x.notified = "NONE")
  /\ Gate(e, x)

\* What a packet carries: the version of its sender's build, a reason that is no
\* rejection, and OK only from a connection that was not rejected (unless the
\* host's verdict is cut to a byte, "WIDE").
Carried(m) ==
  /\ m.type \in {"CONNECT", "CONNECT_ACK"} => m.version = Version[m.from]
  /\ m.type = "CLOSE" => m.arg \in {"NORMAL", "IDLE"}
  /\ "WIDE" \notin Answers /\ m.type = "CONNECT_ACK" /\ m.arg = "OK" =>
       Sender(m).notified # "REJECTED"

Verdicts ==
  /\ \A e \in Engine, i \in Id : conn[e][i].state # "FREE" => Sane(e, conn[e][i])
  /\ \A m \in net : Carried(m)
  /\ "WIDE" \notin Answers => AcceptAgreed

\* The configurations in use suit the ages.
LEMMA ConfigsSuit ==
  /\ EngineConfig \in Config /\ Suits(EngineConfig)
  /\ \A c \in Configs : Valid(c) => Prepare(c) \in Config /\ Suits(Prepare(c))
BY ConstantsOK, AgesSuffice, PrepareType, SMTT(30) DEF Suits, Config

\* kcpmux_conn_refresh_timer leaves the timer at the deadline, whatever it was.
LEMMA RefreshExact ==
  ASSUME NEW x \in Conn, Suits(x.config)
  PROVE  Exact(Refresh(x))
<1> DEFINE r == Remaining(x)
<1>1. r \in Nat
  BY RemainingType
<1>2. Remaining(Refresh(x)) = r
  BY DEF Remaining, Refresh, Conn
<1>3. Refresh(x).config = x.config /\ Refresh(x).state = x.state
      /\ (Live(x) => Refresh(x).timer = r)
  BY DEF Refresh, Conn
<1>4. QED
  <2> HIDE DEF r
  <2> QED  BY <1>2, <1>3 DEF Exact, Live

\* Every operator on an open connection refreshes the timer last.
LEMMA MovedOps ==
  ASSUME NEW x, Core(x)
  PROVE  /\ Moved(x, Refresh(x)) /\ Refresh(x).state = x.state
         /\ \A s \in State : Moved(x, SetState(x, s)) /\ SetState(x, s).state = s
         /\ \A p \in BOOLEAN : Moved(x, NoteReceive(x, p)) /\ NoteReceive(x, p).state = x.state
         /\ Moved(x, StampCtrl(x)) /\ StampCtrl(x).state = x.state
         /\ Moved(x, StampKeepalive(x)) /\ StampKeepalive(x).state = x.state
         /\ Moved(x, Retry(x)) /\ Retry(x).state = x.state
<1> DEFINE R(z) == Core(z) /\ SameHandle(x, z)
<1>1. \A z : R(z) => Moved(x, Refresh(z)) /\ Refresh(z).state = z.state
  <2> SUFFICES ASSUME NEW z, R(z)
               PROVE  Moved(x, Refresh(z)) /\ Refresh(z).state = z.state
    OBVIOUS
  <2>1. Exact(Refresh(z))
    BY RefreshExact DEF Core
  <2>2. /\ Refresh(z) \in Conn /\ SameHandle(z, Refresh(z)) /\ Refresh(z).state = z.state
        /\ Refresh(z).notified = z.notified /\ Refresh(z).config = z.config
    BY RefreshFacts DEF Core
  <2>3. Refresh(z).close_reason = z.close_reason
    BY DEF Refresh, Core, Conn
  <2>4. QED
    BY <2>1, <2>2, <2>3 DEF Moved, Core, SameHandle
<1>2. R(x)
  BY DEF SameHandle
<1>3. \A s \in State : LET z == [x EXCEPT !.state = s] IN R(z) /\ z.state = s
  BY DEF Core, SameHandle, Conn
<1>4. \A p \in BOOLEAN :
        LET z == [x EXCEPT !.recv = 0, !.payload = IF p THEN 0 ELSE @]
        IN  R(z) /\ z.state = x.state
  BY DEF Core, SameHandle, Conn
<1>5. LET z == [x EXCEPT !.ctrl = 0] IN R(z) /\ z.state = x.state
  BY DEF Core, SameHandle, Conn
<1>6. LET z == [x EXCEPT !.keepalive = 0] IN R(z) /\ z.state = x.state
  BY DEF Core, SameHandle, Conn
<1>7. LET z == [[x EXCEPT !.retry_count = @ + 1] EXCEPT !.ctrl = 0]
      IN  R(z) /\ z.state = x.state
  <2> DEFINE r == [x EXCEPT !.retry_count = @ + 1]
  <2>1. R(r) /\ r.state = x.state
    BY SMTT(30) DEF Core, SameHandle, Conn
  <2> HIDE DEF r
  <2>2. LET z == [r EXCEPT !.ctrl = 0] IN R(z) /\ z.state = x.state
    BY <2>1 DEF Core, SameHandle, Conn
  <2>3. QED
    BY <2>2 DEF r
<1> HIDE DEF R
<1>8. QED
  BY <1>1, <1>2, <1>3, <1>4, <1>5, <1>6, <1>7
  DEF SetState, NoteReceive, StampCtrl, StampKeepalive, Retry

\* kcpmux_conn_close_internal
LEMMA EndedOps ==
  ASSUME NEW x, Core(x), NEW r \in Reason
  PROVE  LET y == CloseInternal(x, r)
         IN  /\ SameHandle(x, y) /\ Exact(y) /\ y.close_reason = "NORMAL"
             /\ ~Live(y) /\ y.state # "CONNECTED" /\ y.notified = r
<1>1. /\ SameHandle(x, CloseInternal(x, r))
      /\ CloseInternal(x, r).state \in {"CLOSED", "ERROR"}
      /\ CloseInternal(x, r).notified = r
  BY CloseFacts DEF Core
<1>2. CloseInternal(x, r).config = x.config /\ CloseInternal(x, r).close_reason = "NORMAL"
  BY DEF CloseInternal, Core, Conn
<1>3. QED
  BY <1>1, <1>2 DEF Core, Exact, Live

\* A tick of the clock takes one off every deadline that is not reached, and off
\* the timer.
LEMMA AgedExact ==
  ASSUME NEW x \in Conn, Exact(x), Live(x)
  PROVE  Exact(Aged(x)) /\ Aged(x).close_reason = x.close_reason
<1> DEFINE Less(n) == IF n = 0 THEN 0 ELSE n - 1
<1>1. \A a, t \in Nat : t <= MaxAge => Left(Older(a), t) = Less(Left(a, t)) /\ Left(a, t) \in Nat
  BY ConstantsOK, SMTT(30) DEF Left, Older
<1>2. \A a, b \in Nat : Earlier(Less(a), Less(b)) = Less(Earlier(a, b)) /\ Earlier(a, b) \in Nat
  BY SMTT(30) DEF Earlier
<1> DEFINE y == Aged(x)
           c == x.config
<1>3. /\ y.ctrl = Older(x.ctrl) /\ y.recv = Older(x.recv) /\ y.payload = Older(x.payload)
      /\ y.keepalive = Older(x.keepalive) /\ y.timer = Less(x.timer)
      /\ y.config = c /\ y.state = x.state /\ y.close_reason = x.close_reason
  BY DEF Aged, Conn
<1>4. /\ x.ctrl \in Nat /\ x.recv \in Nat /\ x.payload \in Nat /\ x.keepalive \in Nat
      /\ c.ctrl_timeout_ms \in Nat /\ c.keepalive_timeout_ms \in Nat
      /\ c.keepalive_interval_ms \in Nat /\ c.idle_timeout_ms \in Nat
  BY DEF Conn, Config
<1>5. /\ c.ctrl_timeout_ms <= MaxAge /\ c.keepalive_timeout_ms <= MaxAge
      /\ c.keepalive_interval_ms <= MaxAge /\ c.idle_timeout_ms <= MaxAge
  BY DEF Exact, Suits
<1> HIDE DEF y, c, Less
<1>6. Remaining(y) = Less(Remaining(x))
  <2> DEFINE sx == Left(x.recv, c.keepalive_timeout_ms)
             sy == Left(y.recv, c.keepalive_timeout_ms)
             kx == Left(x.keepalive, c.keepalive_interval_ms)
             ky == Left(y.keepalive, c.keepalive_interval_ms)
             ix == Left(x.payload, c.idle_timeout_ms)
             iy == Left(y.payload, c.idle_timeout_ms)
             cx == Left(x.ctrl, c.ctrl_timeout_ms)
             cy == Left(y.ctrl, c.ctrl_timeout_ms)
             px == IF c.keepalive_interval_ms > 0 THEN Earlier(sx, kx) ELSE sx
             py == IF c.keepalive_interval_ms > 0 THEN Earlier(sy, ky) ELSE sy
  <2>1. /\ sx \in Nat /\ sy = Less(sx) /\ kx \in Nat /\ ky = Less(kx)
        /\ ix \in Nat /\ iy = Less(ix) /\ cx \in Nat /\ cy = Less(cx)
    <3>1. sx \in Nat /\ sy = Less(sx)
      BY <1>1, <1>3, <1>4, <1>5, SMTT(30)
    <3>2. kx \in Nat /\ ky = Less(kx)
      BY <1>1, <1>3, <1>4, <1>5, SMTT(30)
    <3>3. ix \in Nat /\ iy = Less(ix)
      BY <1>1, <1>3, <1>4, <1>5, SMTT(30)
    <3>4. cx \in Nat /\ cy = Less(cx)
      BY <1>1, <1>3, <1>4, <1>5, SMTT(30)
    <3>5. QED
      BY <3>1, <3>2, <3>3, <3>4
  <2>2. Remaining(x) = IF x.state # "CONNECTED" THEN cx
                       ELSE IF c.idle_timeout_ms > 0 THEN Earlier(px, ix) ELSE px
    BY DEF Remaining, c
  <2>3. Remaining(y) = IF x.state # "CONNECTED" THEN cy
                       ELSE IF c.idle_timeout_ms > 0 THEN Earlier(py, iy) ELSE py
    BY <1>3 DEF Remaining
  <2> HIDE DEF sx, sy, kx, ky, ix, iy, cx, cy
  <2>4. px \in Nat /\ py = Less(px)
    BY <2>1, <1>2
  <2> HIDE DEF px, py
  <2>5. Earlier(py, iy) = Less(Earlier(px, ix))
    BY <2>1, <2>4, <1>2
  <2>6. CASE x.state # "CONNECTED"
    BY <2>1, <2>2, <2>3, <2>6
  <2>7. CASE x.state = "CONNECTED" /\ c.idle_timeout_ms > 0
    BY <2>2, <2>3, <2>5, <2>7
  <2>8. CASE x.state = "CONNECTED" /\ ~(c.idle_timeout_ms > 0)
    BY <2>2, <2>3, <2>4, <2>8
  <2>9. QED
    BY <2>6, <2>7, <2>8
<1>7. QED
  BY <1>3, <1>6 DEF Exact, Live, y, c

\* What a step may make of connection x of engine e.
Change(e, x, y) ==
  /\ Sane(e, y)
  /\ x.state # "FREE" /\ ~x.is_initiator /\ y.notified = "REJECTED" => x.notified = "REJECTED"
  /\ "WIDE" \notin Answers /\ y.is_initiator /\ y.state = "CONNECTED" =>
       \/ x.state = "CONNECTED"
       \/ LET z == conn[y.peer_addr][y.peer_connection_id]
          IN  z.state # "FREE" /\ z.notified # "REJECTED"

\* Steps made of such changes keep the second invariant: a passive connection
\* that was not rejected when it was created never becomes so.
LEMMA ChangeStep ==
  ASSUME IndInv, IndInv', HandleKept, Verdicts,
         \A e \in Engine, i \in Id :
           conn'[e][i] = conn[e][i] \/ Change(e, conn[e][i], conn'[e][i]),
         \A m \in net' : m \in net \/ Carried(m)'
  PROVE  Verdicts'
<1>1. \A e \in Engine, i \in Id : conn'[e][i].state # "FREE" => Sane(e, conn'[e][i])
  BY DEF Verdicts, Change
<1>2. ASSUME NEW e \in Engine, NEW i \in Id, conn[e][i].state # "FREE",
             ~conn[e][i].is_initiator, conn[e][i].notified # "REJECTED"
      PROVE  conn'[e][i].notified # "REJECTED"
  BY <1>2 DEF Change
<1>3. \A m \in net' : Carried(m)'
  <2> SUFFICES ASSUME NEW m \in net
               PROVE  Carried(m)'
    OBVIOUS
  <2>1. Carried(m) /\ PacketOK(m) /\ m.from \in Engine /\ m.sender \in Id
    BY DEF Verdicts, IndInv, TypeOK, Packet
  <2>2. m.type = "CONNECT_ACK" /\ Sender(m).notified # "REJECTED" => Sender(m)'.notified # "REJECTED"
    BY <2>1, <1>2 DEF PacketOK, Sender
  <2>3. QED
    BY <2>1, <2>2 DEF Carried
<1>4. "WIDE" \notin Answers => AcceptAgreed'
  <2> SUFFICES ASSUME "WIDE" \notin Answers, NEW e \in Engine, NEW i \in Id,
                      conn'[e][i].is_initiator, conn'[e][i].state = "CONNECTED"
               PROVE  conn'[conn'[e][i].peer_addr][conn'[e][i].peer_connection_id].notified
                        # "REJECTED"
    BY DEF AcceptAgreed
  <2>0. PICK f, p : f = conn'[e][i].peer_addr /\ p = conn'[e][i].peer_connection_id
    OBVIOUS
  <2>1. f \in Engine /\ p \in Id /\ ~conn'[f][p].is_initiator
    <3>1. conn'[e][i] \in Conn /\ p # 0
      BY <2>0 DEF IndInv, TypeOK, Known
    <3>2. f \in Engine /\ p \in Id
      BY <2>0, <3>1, ConstantsOK, SMTT(30) DEF Conn, Id, Id0
    <3>3. conn'[f][p].is_initiator = ~conn'[e][i].is_initiator
      <4>1. RouteAgreement' /\ conn'[e][i].state # "FREE"
        BY DEF IndInv
      <4>2. QED
        BY <2>0, <3>1, <4>1 DEF RouteAgreement
    <3>4. QED
      BY <3>2, <3>3
  <2>2. conn[f][p].state # "FREE" /\ conn[f][p].notified # "REJECTED"
    <3>1. CASE conn[e][i].state = "CONNECTED"
      <4>1. /\ conn[e][i].is_initiator /\ conn[e][i].peer_addr = f
            /\ conn[e][i].peer_connection_id = p /\ p # 0
        BY <3>1, <2>0, ConstantsOK, SMTT(30) DEF HandleKept, IndInv, Known
      <4>2. conn[f][p].state # "FREE"
        BY <3>1, <4>1, PeerFacts
      <4>3. QED
        BY <3>1, <4>1, <4>2 DEF Verdicts, AcceptAgreed
    <3>2. CASE conn[e][i].state # "CONNECTED"
      BY <3>2, <2>0 DEF Change
    <3>3. QED
      BY <3>1, <3>2
  <2>3. ~conn[f][p].is_initiator
    BY <2>1, <2>2 DEF HandleKept
  <2>4. QED
    BY <2>0, <2>1, <2>2, <2>3, <1>2
<1>5. QED
  BY <1>1, <1>3, <1>4 DEF Verdicts

\* The same for a step that writes one connection.
LEMMA OneChange ==
  ASSUME IndInv, IndInv', HandleKept, Verdicts, NEW e \in Engine, NEW i \in Id, NEW y,
         conn' = [conn EXCEPT ![e][i] = y], Change(e, conn[e][i], y),
         \A m \in net' : m \in net \/ Carried(m)'
  PROVE  Verdicts' /\ conn'[e][i] = y
<1>1. conn \in [Engine -> [Id -> Conn]]
  BY DEF IndInv, TypeOK
<1>2. conn'[e][i] = y /\ \A f \in Engine, j \in Id : f # e \/ j # i => conn'[f][j] = conn[f][j]
  BY <1>1
<1>3. \A f \in Engine, j \in Id :
        conn'[f][j] = conn[f][j] \/ Change(f, conn[f][j], conn'[f][j])
  BY <1>2
<1>4. QED
  BY <1>2, <1>3, ChangeStep

\* A live connection is open, and what its operators make of it is a change.
LEMMA LiveCore ==
  ASSUME IndInv, Verdicts, NEW e \in Engine, NEW i \in Id, Live(conn[e][i])
  PROVE  /\ Core(conn[e][i]) /\ conn[e][i].state # "FREE" /\ Sane(e, conn[e][i])
         /\ \A y : Moved(conn[e][i], y) /\ y.state = conn[e][i].state =>
                     Change(e, conn[e][i], y)
         /\ \A z, r : /\ Core(z) /\ SameHandle(conn[e][i], z) /\ r \in {"NORMAL", "TIMEOUT"}
                      => Change(e, conn[e][i], CloseInternal(z, r))
<1> DEFINE x == conn[e][i]
<1>1. x.state # "FREE" /\ Sane(e, x) /\ x \in Conn
  BY ConnTyped DEF Live, Verdicts, IndInv
<1>2. Core(x)
  BY <1>1 DEF Core, Sane, Exact
<1> HIDE DEF x
<1>3. ASSUME NEW y, Moved(x, y), y.state = x.state
      PROVE  Change(e, x, y)
  <2>1. Sane(e, y)
    BY <1>1, <1>3 DEF Sane, Moved, Core, Gate, SameHandle
  <2>2. QED
    BY <2>1, <1>3 DEF Change, Moved, Core
<1>4. ASSUME NEW z, NEW r, Core(z), SameHandle(x, z), r \in {"NORMAL", "TIMEOUT"}
      PROVE  Change(e, x, CloseInternal(z, r))
  <2> DEFINE y == CloseInternal(z, r)
  <2>1. /\ SameHandle(z, y) /\ Exact(y) /\ y.close_reason = "NORMAL"
        /\ ~Live(y) /\ y.state # "CONNECTED" /\ y.notified = r
    BY <1>4, EndedOps DEF Reason
  <2> HIDE DEF y
  <2>2. Sane(e, y)
    BY <1>1, <1>4, <2>1 DEF Sane, Gate, SameHandle
  <2>3. Change(e, x, y)
    BY <2>1, <2>2, <1>4 DEF Change
  <2>4. QED
    BY <2>3 DEF y
<1>5. QED
  BY <1>1, <1>2, <1>3, <1>4 DEF x

\* kcpmux_conn_close
LEMMA ConnCloseVerdict ==
  ASSUME IndInv, IndInv', HandleKept, Verdicts, NEW e \in Engine, NEW i \in Id, ConnClose(e, i)
  PROVE  Verdicts'
<1> DEFINE x == conn[e][i]
           w == [x EXCEPT !.ctrl = 0, !.close_reason = "NORMAL", !.retry_count = 0]
           c == SetState(w, "CLOSING")
           sent == StampCtrl(c)
           y == IF x.config.close_retries = 0 THEN CloseInternal(sent, "NORMAL") ELSE sent
<1>1. Live(x) /\ conn' = [conn EXCEPT ![e][i] = y]
  BY DEF ConnClose, Live
<1>2. /\ Core(x) /\ x.state # "FREE" /\ Sane(e, x)
      /\ \A z, r : /\ Core(z) /\ SameHandle(x, z) /\ r \in {"NORMAL", "TIMEOUT"}
                   => Change(e, x, CloseInternal(z, r))
  BY <1>1, LiveCore
<1>3. Core(w) /\ SameHandle(x, w)
  BY <1>2 DEF Core, Conn, SameHandle, Reason
<1>4. Moved(x, sent) /\ sent.state = "CLOSING"
  <2> HIDE DEF w
  <2>1. Moved(w, c) /\ c.state = "CLOSING"
    BY <1>3, MovedOps DEF State
  <2> HIDE DEF c
  <2>2. Moved(c, sent) /\ sent.state = "CLOSING"
    BY <2>1, MovedOps DEF Moved
  <2>3. QED
    BY <1>3, <2>1, <2>2 DEF Moved, SameHandle
<1> HIDE DEF sent, x
<1>5. Change(e, x, y)
  <2>1. Sane(e, sent)
    BY <1>2, <1>4 DEF Sane, Gate, Moved, Core, SameHandle
  <2>2. Change(e, x, sent)
    BY <1>4, <2>1 DEF Change, Moved, Core
  <2>3. Change(e, x, CloseInternal(sent, "NORMAL"))
    BY <1>2, <1>4 DEF Moved
  <2>4. QED
    BY <2>2, <2>3
<1>6. \A m \in net' : m \in net \/ Carried(m)'
  BY SMTT(30) DEF ConnClose, ClosePackets, Bare, Pkt, Carried
<1>7. QED
  <2> HIDE DEF y
  <2> QED  BY <1>1, <1>5, <1>6, OneChange DEF x

\* kcpmux_conn_set_config
LEMMA ConnSetConfigVerdict ==
  ASSUME IndInv, IndInv', HandleKept, Verdicts, NEW e \in Engine, NEW i \in Id,
         NEW c \in Configs, ConnSetConfig(e, i, c)
  PROVE  Verdicts'
<1> DEFINE x == conn[e][i]
           w == [x EXCEPT !.config = Prepare(c)]
           y == Refresh(w)
<1>1. Live(x) /\ Valid(c) /\ net' = net
  BY DEF ConnSetConfig
<1>2. Core(x) /\ Sane(e, x)
  BY <1>1, LiveCore
<1>3. Core(w) /\ SameHandle(x, w) /\ w.state = x.state
  <2> PICK d : d = Prepare(c)
    OBVIOUS
  <2>1. d \in Config /\ Suits(d)
    BY <1>1, ConfigsSuit
  <2>2. QED
    BY <1>2, <2>1 DEF Core, Conn, SameHandle
<1>4. Moved(x, y) /\ y.state = x.state
  <2> HIDE DEF w
  <2>1. Moved(w, y) /\ y.state = w.state
    BY <1>3, MovedOps DEF State
  <2>2. QED
    BY <1>3, <2>1 DEF Moved, SameHandle
<1>5. Change(e, x, y)
  <2> HIDE DEF y
  <2> QED  BY <1>1, <1>4, LiveCore
<1>6. conn' = [conn EXCEPT ![e][i] = y]
  BY DEF ConnSetConfig
<1>7. QED
  <2> HIDE DEF y
  <2> QED  BY <1>1, <1>5, <1>6, OneChange

\* kcpmux_engine_destroy and the clock change every live connection of an engine.
LEMMA DestroyVerdict ==
  ASSUME IndInv, IndInv', HandleKept, Verdicts, NEW e \in Engine, EngineDestroy(e)
  PROVE  Verdicts'
<1>1. conn \in [Engine -> [Id -> Conn]]
  BY DEF IndInv, TypeOK
<1>2. /\ \A i \in Id : conn'[e][i] = IF Live(conn[e][i])
                                     THEN CloseInternal(conn[e][i], "NORMAL") ELSE conn[e][i]
      /\ \A f \in Engine : f # e => conn'[f] = conn[f]
      /\ net' = net
  BY <1>1 DEF EngineDestroy
<1>3. ASSUME NEW i \in Id, Live(conn[e][i])
      PROVE  Change(e, conn[e][i], CloseInternal(conn[e][i], "NORMAL"))
  BY <1>3, LiveCore DEF SameHandle
<1>4. \A f \in Engine, i \in Id :
        conn'[f][i] = conn[f][i] \/ Change(f, conn[f][i], conn'[f][i])
  BY <1>2, <1>3
<1>5. QED
  BY <1>2, <1>4, ChangeStep

LEMMA TickVerdict ==
  ASSUME IndInv, IndInv', HandleKept, Verdicts, NEW e \in Engine, Tick(e)
  PROVE  Verdicts'
<1>1. conn \in [Engine -> [Id -> Conn]]
  BY DEF IndInv, TypeOK
<1>2. /\ \A i \in Id : conn'[e][i] = IF Live(conn[e][i]) THEN Aged(conn[e][i]) ELSE conn[e][i]
      /\ \A f \in Engine : f # e => conn'[f] = conn[f]
      /\ net' = net
  BY <1>1 DEF Tick
<1>3. ASSUME NEW i \in Id, Live(conn[e][i])
      PROVE  Change(e, conn[e][i], Aged(conn[e][i]))
  <2> DEFINE x == conn[e][i]
             y == Aged(x)
  <2>1. Core(x) /\ Sane(e, x)
    BY <1>3, LiveCore
  <2>2. Kept(x, y) /\ Exact(y) /\ y.close_reason = x.close_reason
    BY <1>3, <2>1, AgedFacts, AgedExact DEF Core, Sane
  <2> HIDE DEF y
  <2>3. Moved(x, y) /\ y.state = x.state
    BY <2>1, <2>2 DEF Moved, Core, Kept, Exact
  <2>4. Change(e, x, y)
    BY <1>3, <2>3, LiveCore
  <2>5. QED
    BY <2>4 DEF y
<1>4. \A f \in Engine, i \in Id :
        conn'[f][i] = conn[f][i] \/ Change(f, conn[f][i], conn'[f][i])
  BY <1>2, <1>3
<1>5. QED
  BY <1>2, <1>4, ChangeStep

\* kcpmux_conn_connect
LEMMA ConnConnectVerdict ==
  ASSUME IndInv, IndInv', HandleKept, Verdicts, NEW e \in Engine, NEW peer \in Engine,
         NEW c \in Configs, ConnConnect(e, peer, c)
  PROVE  Verdicts'
<1> DEFINE i == next_connection_id[e]
           x == NewConn(e, peer, 0, Prepare(c), TRUE)
           w == SetState(x, "CONNECTING")
           y == StampCtrl(w)
<1>1. Valid(c) /\ TakeId(e) /\ conn' = [conn EXCEPT ![e][i] = y]
  BY DEF ConnConnect
<1>2. i \in Id /\ conn[e][i].state = "FREE"
  BY <1>1, TakeIdFacts
<1>3. Core(x) /\ x.is_initiator
  <2> PICK d : d = Prepare(c)
    OBVIOUS
  <2>1. d \in Config /\ Suits(d) /\ 0 \in Id0
    BY <1>1, ConfigsSuit, ConstantsOK, SMTT(30) DEF Id0
  <2>2. NewConn(e, peer, 0, d, TRUE) \in Conn
    BY <2>1, NewConnFacts
  <2>3. QED
    BY <2>1, <2>2 DEF Core, NewConn, NoConn
<1>4. Moved(x, y) /\ y.state = "CONNECTING"
  <2> HIDE DEF x
  <2>1. Moved(x, w) /\ w.state = "CONNECTING"
    BY <1>3, MovedOps, SMTT(30) DEF State
  <2> HIDE DEF w
  <2>2. Moved(w, y) /\ y.state = "CONNECTING"
    BY <2>1, MovedOps DEF Moved, State
  <2>3. QED
    BY <2>1, <2>2 DEF Moved, SameHandle
<1> HIDE DEF y, x, i
<1>5. Change(e, conn[e][i], y)
  <2>1. Sane(e, y)
    BY <1>3, <1>4 DEF Sane, Gate, Moved, Core, SameHandle
  <2>2. QED
    BY <1>2, <1>4, <2>1 DEF Change
<1>6. \A m \in net' : m \in net \/ Carried(m)'
  BY SMTT(30) DEF ConnConnect, Carried
<1>7. QED
  BY <1>1, <1>2, <1>5, <1>6, OneChange

\* Steps that only send or drop packets.
LEMMA SendVerdict ==
  ASSUME IndInv, IndInv', HandleKept, Verdicts, UNCHANGED conn,
         \A m \in net' : m \in net \/ Carried(m)'
  PROVE  Verdicts'
BY ChangeStep

\* A CONNECT of a connection that exists, and the packets that are only noted.
LEMMA NotedVerdict ==
  ASSUME IndInv, IndInv', HandleKept, Verdicts, NEW e \in Engine, NEW i \in Id,
         Live(conn[e][i]), NEW p \in BOOLEAN,
         conn' = [conn EXCEPT ![e][i] = NoteReceive(conn[e][i], p)],
         \A m \in net' : m \in net \/ m = Pkt("CONNECT_ACK", e, i, Version[e], "OK")
  PROVE  Verdicts'
<1> DEFINE x == conn[e][i]
           y == NoteReceive(x, p)
<1>1. Core(x)
  BY LiveCore
<1>2. Moved(x, y) /\ y.state = x.state
  BY <1>1, MovedOps
<1> HIDE DEF y
<1>3. Change(e, x, y)
  BY <1>2, LiveCore
<1>4. conn'[e][i] = y
  BY DEF IndInv, TypeOK, y
<1>5. \A m \in net' : m \in net \/ Carried(m)'
  BY <1>2, <1>4, SMTT(30) DEF Carried, Pkt, Sender, Moved, Core
<1>6. conn' = [conn EXCEPT ![e][i] = y]
  BY DEF y
<1>7. QED
  BY <1>3, <1>5, <1>6, OneChange

\* A CONNECT of another version: only an ACK that says so.
LEMMA ForeignVerdict ==
  ASSUME IndInv, IndInv', HandleKept, Verdicts, NEW e \in Engine, NEW m \in net,
         ReceiveForeignConnect(e, m)
  PROVE  Verdicts'
<1>1. \A k \in net' : k \in net \/ Carried(k)'
  BY SMTT(30) DEF ReceiveForeignConnect, Rest, Pkt, Carried
<1>2. QED
  BY <1>1, SendVerdict DEF ReceiveForeignConnect

\* A CONNECT is accepted only when it carries the receiver's version, which is
\* the version of the engine it came from.
LEMMA AcceptVerdict ==
  ASSUME IndInv, IndInv', HandleKept, Verdicts, NEW e \in Engine, NEW m \in net,
         NEW result \in Answers, ReceiveConnect(e, m, result)
  PROVE  Verdicts'
<1> DEFINE i == next_connection_id[e]
           n == NewConn(e, m.from, m.sender, EngineConfig, FALSE)
           x == NoteReceive(n, FALSE)
           y == IF result = "OK" THEN SetState(x, "CONNECTED")
                ELSE CloseInternal(x, "REJECTED")
<1>0. PICK k : k = [type |-> "CONNECT_ACK", from |-> e, to |-> m.from, dest |-> m.sender,
                    sender |-> i, version |-> Version[e], arg |-> AsByte(result)]
  OBVIOUS
<1>1. /\ TakeId(e) /\ m.type = "CONNECT" /\ m.version = Version[e]
      /\ conn' = [conn EXCEPT ![e][i] = y] /\ net' \subseteq net \cup {k}
  BY <1>0 DEF ReceiveConnect, Accept, Arrives, Rest
<1>2. i \in Id /\ conn[e][i].state = "FREE"
  BY <1>1, TakeIdFacts
<1>3. m \in Packet /\ m.from \in Engine /\ m.sender \in Id0 /\ Version[m.from] = Version[e]
  BY <1>1, ConstantsOK, SMTT(30) DEF IndInv, TypeOK, Packet, Verdicts, Carried, Id, Id0
<1>4. Core(n) /\ n.is_initiator = FALSE /\ n.peer_addr = m.from
  <2>1. n \in Conn /\ n.is_initiator = FALSE /\ n.peer_addr = m.from
    <3>1. \A f \in Engine, p \in Id0 :
            LET z == NewConn(e, f, p, EngineConfig, FALSE)
            IN  z \in Conn /\ z.is_initiator = FALSE /\ z.peer_addr = f
      <4>1. NoConn(e) \in Conn /\ EngineConfig \in Config
        BY ConstantsOK, SMTT(30) DEF NoConn, Conn, Id0, State, Reason
      <4>2. QED
        BY <4>1 DEF NewConn, Conn
    <3>2. QED
      BY <1>3, <3>1
  <2>2. n.config = EngineConfig /\ n.close_reason = "NORMAL" /\ n.notified = "NONE"
    BY DEF NewConn, NoConn
  <2>3. QED
    BY <2>1, <2>2, ConfigsSuit DEF Core
<1> HIDE DEF n
<1>5. Moved(n, x)
  BY <1>4, MovedOps
<1> HIDE DEF x
<1>6. /\ Sane(e, y) /\ ~y.is_initiator
      /\ result = "OK" => y.notified = "NONE"
  <2>1. CASE result = "OK"
    <3>1. Moved(x, y) /\ y.state = "CONNECTED"
      BY <2>1, <1>5, MovedOps DEF Moved, State
    <3> HIDE DEF y
    <3>2. QED
      BY <3>1, <1>3, <1>4, <1>5 DEF Moved, Core, Sane, Gate, SameHandle
  <2>2. CASE result # "OK"
    <3>1. /\ SameHandle(x, y) /\ Exact(y) /\ y.close_reason = "NORMAL" /\ ~Live(y)
      BY <2>2, <1>5, EndedOps DEF Moved, Reason
    <3> HIDE DEF y
    <3>2. QED
      BY <2>2, <3>1, <1>3, <1>4, <1>5 DEF Moved, Sane, Gate, SameHandle
  <2>3. QED
    BY <2>1, <2>2
<1> HIDE DEF y, i
<1>7. Change(e, conn[e][i], y)
  BY <1>2, <1>6 DEF Change
<1>8. conn'[e][i] = y
  BY <1>1, <1>2 DEF IndInv, TypeOK
<1>9. \A l \in net' : l \in net \/ Carried(l)'
  <2>1. "WIDE" \notin Answers /\ AsByte(result) = "OK" => y.notified = "NONE"
    BY <1>6 DEF AsByte
  <2>2. Carried(k)'
    BY <1>0, <1>8, <2>1 DEF Carried, Sender
  <2>3. QED
    BY <1>1, <2>2
<1>10. QED
  BY <1>1, <1>2, <1>7, <1>9, OneChange

\* A CONNECT_ACK comes from a passive connection, hence from an engine of the same
\* version; its OK is what conn_connect_notify said.
LEMMA AckVerdict ==
  ASSUME IndInv, IndInv', HandleKept, Verdicts, NEW e \in Engine, NEW m \in net,
         ReceiveConnectAck(e, m)
  PROVE  Verdicts'
<1> DEFINE d == m.dest
           x == conn[e][d]
           n == NoteReceive(x, FALSE)
           y == Acked(e, n, m)
<1>1. /\ Routed(e, m) /\ net' \subseteq net /\ m.type = "CONNECT_ACK" /\ m.to = e
      /\ conn' = [conn EXCEPT ![e][d] = y] /\ x.state = "CONNECTING"
  BY DEF ReceiveConnectAck, Rest, Arrives
<1>2. /\ m \in Packet /\ PacketOK(m) /\ d \in Id
      /\ Live(x) /\ x.peer_addr = m.from
  BY <1>1, RoutedFacts
<1>3. /\ m.from \in Engine /\ m.sender \in Id /\ m.sender \in Id0
      /\ conn[m.from][m.sender].state # "FREE"
      /\ ~conn[m.from][m.sender].is_initiator /\ conn[m.from][m.sender].peer_addr = e
  BY <1>1, <1>2, ConstantsOK, SMTT(30) DEF Packet, PacketOK, Sender, Id, Id0
<1>4. Version[m.from] = Version[e]
  BY <1>3 DEF Verdicts, Sane, Gate
<1>5. x.is_initiator
  BY <1>1, <1>2 DEF IndInv, Known
<1>6. Core(x) /\ Moved(x, n) /\ n.state = x.state
  BY <1>2, LiveCore, MovedOps
<1> HIDE DEF n
<1>7. Change(e, x, y)
  <2>1. CASE m.version = Version[e] /\ m.arg = "OK"
    <3> DEFINE w == [n EXCEPT !.peer_connection_id = m.sender]
    <3>1. /\ Core(w) /\ w.is_initiator = x.is_initiator /\ w.peer_addr = m.from
          /\ w.peer_connection_id = m.sender
      BY <1>2, <1>3, <1>6 DEF Moved, SameHandle, Core, Conn
    <3>2. y = SetState(w, "CONNECTED")
      BY <2>1 DEF Acked
    <3> HIDE DEF w, y
    <3>3. Moved(w, y) /\ y.state = "CONNECTED"
      BY <3>1, <3>2, MovedOps DEF State
    <3>4. Sane(e, y)
      BY <3>1, <3>3, <1>4 DEF Sane, Moved, Core, Gate, SameHandle
    <3>5. "WIDE" \notin Answers =>
            conn[y.peer_addr][y.peer_connection_id].notified # "REJECTED"
      BY <2>1, <3>1, <3>3, <1>1 DEF Verdicts, Carried, Sender, Moved, SameHandle
    <3>6. conn[y.peer_addr][y.peer_connection_id].state # "FREE"
      BY <3>1, <3>3, <1>3 DEF Moved, SameHandle
    <3>7. QED
      BY <3>4, <3>5, <3>6, <1>5 DEF Change
  <2>2. CASE ~(m.version = Version[e] /\ m.arg = "OK")
    <3> DEFINE w == SetState(n, "ERROR")
    <3>1. Moved(n, w)
      BY <1>6, MovedOps DEF Moved, State
    <3>2. PICK r \in Reason : y = CloseInternal(w, r)
      BY <2>2 DEF Acked, Reason
    <3> HIDE DEF w, y
    <3>3. /\ SameHandle(w, y) /\ Exact(y) /\ y.close_reason = "NORMAL"
          /\ ~Live(y) /\ y.state # "CONNECTED"
      BY <3>1, <3>2, EndedOps DEF Moved
    <3>4. Sane(e, y)
      BY <3>1, <3>3, <1>2, <1>4, <1>6 DEF Sane, Gate, Moved, SameHandle
    <3>5. QED
      BY <3>3, <3>4, <1>5 DEF Change
  <2>3. QED
    BY <2>1, <2>2
<1>8. QED
  <2> HIDE DEF y, d
  <2> QED  BY <1>1, <1>2, <1>7, OneChange

\* A CLOSE reaches only engines of the same version, with a reason that is no
\* rejection.
LEMMA CloseVerdict ==
  ASSUME IndInv, IndInv', HandleKept, Verdicts, NEW e \in Engine, NEW m \in net,
         ReceiveClose(e, m)
  PROVE  Verdicts'
<1> DEFINE d == m.dest
           x == conn[e][d]
           n == NoteReceive(x, FALSE)
           y == CloseInternal(n, m.arg)
<1>1. /\ Routed(e, m) /\ m.type = "CLOSE" /\ m.to = e
      /\ net' \subseteq net \cup {Bare("CLOSE_ACK", e, d, m.arg)}
      /\ conn' = [conn EXCEPT ![e][d] = y]
  BY DEF ReceiveClose, Rest, Arrives
<1>2. /\ m \in Packet /\ PacketOK(m) /\ d \in Id /\ d # 0
      /\ Live(x) /\ x.peer_addr = m.from
  BY <1>1, RoutedFacts
<1>3. Core(x) /\ Sane(e, x) /\ x.is_initiator \in BOOLEAN
  BY <1>2, LiveCore, ConnTyped DEF IndInv
<1>4. Version[m.from] = Version[e]
  <2>1. /\ m.from \in Engine /\ m.sender \in Id
        /\ conn[m.from][m.sender].state # "FREE" /\ conn[m.from][m.sender].peer_addr = e
    BY <1>1, <1>2 DEF Packet, PacketOK, Sender
  <2>2. Gate(m.from, conn[m.from][m.sender]) /\ Gate(e, x)
    BY <2>1, <1>3 DEF Verdicts, Sane
  <2>3. x.is_initiator = ~conn[m.from][m.sender].is_initiator
    BY <1>1, <1>2, PacketRoute
  <2>4. QED
    BY <2>1, <2>2, <2>3, <1>2 DEF Gate
<1>5. m.arg \in {"NORMAL", "IDLE"}
  BY <1>1 DEF Verdicts, Carried
<1>6. Moved(x, n)
  BY <1>3, MovedOps
<1> HIDE DEF n
<1>7. /\ SameHandle(n, y) /\ Exact(y) /\ y.close_reason = "NORMAL"
      /\ ~Live(y) /\ y.state # "CONNECTED" /\ y.notified = m.arg
  BY <1>5, <1>6, EndedOps DEF Moved, Reason
<1> HIDE DEF y
<1>8. Sane(e, y)
  BY <1>2, <1>4, <1>6, <1>7 DEF Sane, Gate, Moved, SameHandle
<1>9. Change(e, x, y)
  BY <1>5, <1>7, <1>8 DEF Change
<1>10. \A k \in net' : k \in net \/ Carried(k)'
  BY <1>1, SMTT(30) DEF Carried, Bare, Pkt
<1>11. QED
  <2> HIDE DEF d
  <2> QED  BY <1>1, <1>2, <1>9, <1>10, OneChange

\* A CLOSE_ACK ends a connection with the local reason, which is NORMAL.
LEMMA CloseAckVerdict ==
  ASSUME IndInv, IndInv', HandleKept, Verdicts, NEW e \in Engine, NEW m \in net,
         ReceiveCloseAck(e, m)
  PROVE  Verdicts'
<1> DEFINE d == m.dest
           x == conn[e][d]
           n == NoteReceive(x, FALSE)
           y == CloseInternal(n, x.close_reason)
<1>1. Routed(e, m) /\ net' \subseteq net /\ conn' = [conn EXCEPT ![e][d] = y]
  BY DEF ReceiveCloseAck, Rest
<1>2. d \in Id /\ Live(x)
  BY <1>1, RoutedFacts
<1>3. Core(x) /\ x.close_reason = "NORMAL"
  BY <1>2, LiveCore DEF Core
<1>4. Moved(x, n)
  BY <1>3, MovedOps
<1> HIDE DEF n
<1>5. Change(e, x, y)
  <2> HIDE DEF d
  <2> QED  BY <1>2, <1>3, <1>4, LiveCore DEF Moved
<1>6. QED
  <2> HIDE DEF d, y
  <2> QED  BY <1>1, <1>2, <1>5, OneChange

\* What kcpmux_conn_update sends: CONNECT with the own version, CLOSE with reason
\* NORMAL or IDLE, KEEPALIVE.
LEMMA UpdateVerdict ==
  ASSUME IndInv, IndInv', HandleKept, Verdicts, NEW e \in Engine, NEW i \in Id, Update(e, i)
  PROVE  Verdicts'
<1> DEFINE x == conn[e][i]
<1>1. Live(x)
  BY DEF Update, UpdateConnecting, UpdateConnected, UpdateClosing, Due
<1>2. Core(x) /\ Sane(e, x) /\ x.close_reason = "NORMAL"
  BY <1>1, LiveCore DEF Core
<1>3. PICK y : /\ UpdateResult(x, y) /\ conn' = [conn EXCEPT ![e][i] = y]
               /\ y = CloseInternal(StampCtrl(SetState(x, "CLOSING")), "IDLE") =>
                    x.state = "CONNECTED"
  <2>1. CASE UpdateConnecting(e, i)
    <3> DEFINE y == IF UpdateEarly(x) THEN Refresh(x)
                    ELSE IF x.retry_count < x.config.connect_retries THEN Retry(x)
                    ELSE CloseInternal(SetState(x, "ERROR"), "TIMEOUT")
    <3>1. conn' = [conn EXCEPT ![e][i] = y] /\ UpdateResult(x, y)
      BY <2>1 DEF UpdateConnecting, UpdateResult
    <3>2. y.notified # "IDLE"
      <4>1. Refresh(x).notified = "NONE" /\ Retry(x).notified = "NONE"
        BY <1>2, MovedOps DEF Moved, Core
      <4>2. CloseInternal(SetState(x, "ERROR"), "TIMEOUT").notified = "TIMEOUT"
        <5>1. Core(SetState(x, "ERROR"))
          BY <1>2, MovedOps DEF Moved, State
        <5>2. QED
          BY <5>1, EndedOps DEF Reason
      <4>3. QED
        BY <4>1, <4>2
    <3>3. CloseInternal(StampCtrl(SetState(x, "CLOSING")), "IDLE").notified = "IDLE"
      BY <1>2, MovedOps, EndedOps DEF Moved, State, Reason
    <3> HIDE DEF y
    <3>4. QED
      BY <3>1, <3>2, <3>3
  <2>2. CASE UpdateConnected(e, i)
    BY <2>2 DEF UpdateConnected, UpdateResult
  <2>3. CASE UpdateClosing(e, i)
    <3> DEFINE y == IF UpdateEarly(x) THEN Refresh(x)
                    ELSE IF /\ x.retry_count < x.config.close_retries
                            /\ Retry(x).retry_count < x.config.close_retries
                         THEN Retry(x)
                    ELSE CloseInternal(x, x.close_reason)
    <3>1. conn' = [conn EXCEPT ![e][i] = y] /\ UpdateResult(x, y)
      BY <2>3 DEF UpdateClosing, UpdateResult
    <3>2. y.notified # "IDLE"
      <4>1. Refresh(x).notified = "NONE" /\ Retry(x).notified = "NONE"
        BY <1>2, MovedOps DEF Moved, Core
      <4>2. CloseInternal(x, x.close_reason).notified = "NORMAL"
        BY <1>2, EndedOps DEF Moved, Core, Reason
      <4>3. QED
        BY <4>1, <4>2
    <3>3. CloseInternal(StampCtrl(SetState(x, "CLOSING")), "IDLE").notified = "IDLE"
      BY <1>2, MovedOps, EndedOps DEF Moved, State, Reason
    <3> HIDE DEF y
    <3>4. QED
      BY <3>1, <3>2, <3>3
  <2>4. QED
    BY <2>1, <2>2, <2>3 DEF Update
<1> HIDE DEF x
<1>4. Change(e, x, y)
  <2>0. /\ \A z : Moved(x, z) /\ z.state = x.state => Change(e, x, z)
        /\ \A z, r : /\ Core(z) /\ SameHandle(x, z) /\ r \in {"NORMAL", "TIMEOUT"}
                     => Change(e, x, CloseInternal(z, r))
    BY <1>1, LiveCore DEF x
  <2>1. CASE y \in {Refresh(x), Retry(x)}
    BY <2>0, <2>1, <1>2, MovedOps
  <2>2. CASE y = Refresh(StampKeepalive(x))
    <3> DEFINE k == StampKeepalive(x)
    <3>1. Moved(x, k) /\ k.state = x.state
      BY <1>2, MovedOps
    <3> HIDE DEF k
    <3>2. Moved(k, Refresh(k)) /\ Refresh(k).state = k.state
      BY <3>1, MovedOps DEF Moved
    <3>3. Moved(x, Refresh(k)) /\ Refresh(k).state = x.state
      BY <3>1, <3>2 DEF Moved, SameHandle
    <3>4. QED
      BY <2>0, <2>2, <3>3 DEF k
  <2>3. CASE y = CloseInternal(SetState(x, "ERROR"), "TIMEOUT")
    <3>1. Moved(x, SetState(x, "ERROR"))
      BY <1>2, MovedOps DEF State
    <3>2. QED
      BY <2>0, <2>3, <3>1 DEF Moved
  <2>4. CASE y = CloseInternal(StampCtrl(SetState(x, "CLOSING")), "IDLE")
    <3> DEFINE c == SetState(x, "CLOSING")
               k == StampCtrl(c)
    <3>1. Moved(x, c)
      BY <1>2, MovedOps DEF State
    <3> HIDE DEF c
    <3>2. Moved(c, k)
      BY <3>1, MovedOps DEF Moved
    <3> HIDE DEF k
    <3>3. y = CloseInternal(k, "IDLE")
      BY <2>4 DEF k, c
    <3>4. /\ SameHandle(k, y) /\ Exact(y) /\ y.close_reason = "NORMAL"
          /\ ~Live(y) /\ y.state # "CONNECTED" /\ y.notified = "IDLE"
      BY <3>2, <3>3, EndedOps DEF Moved, Reason
    <3>5. Version[e] = Version[x.peer_addr]
      BY <2>4, <1>2, <1>3 DEF Sane, Gate
    <3>6. Sane(e, y)
      BY <3>1, <3>2, <3>4, <3>5 DEF Sane, Gate, Moved, SameHandle
    <3>7. QED
      BY <3>4, <3>6 DEF Change
  <2>5. CASE y = CloseInternal(x, x.close_reason)
    BY <2>0, <2>5, <1>2 DEF SameHandle
  <2>6. QED
    BY <1>3, <2>1, <2>2, <2>3, <2>4, <2>5 DEF UpdateResult
<1>5. \A m \in net' : m \in net \/ Carried(m)'
  <2>1. CASE UpdateConnecting(e, i)
    BY <2>1, SMTT(30) DEF UpdateConnecting, Pkt, Carried
  <2>2. CASE UpdateConnected(e, i)
    BY <2>2, SMTT(30) DEF UpdateConnected, ClosePackets, Bare, Pkt, Carried
  <2>3. CASE UpdateClosing(e, i)
    BY <2>3, <1>2, SMTT(30) DEF UpdateClosing, ClosePackets, Bare, Pkt, Carried, x
  <2>4. QED
    BY <2>1, <2>2, <2>3 DEF Update
<1>6. QED
  BY <1>3, <1>4, <1>5, OneChange DEF x

\* Every step keeps the second invariant.
LEMMA VerdictsStep ==
  ASSUME IndInv, Verdicts, Next
  PROVE  Verdicts'
<1>1. IndInv' /\ HandleKept
  BY NextStep
<1>2. CASE Host
  <2>1. PICK e \in Engine :
          \/ \E peer \in Engine \ {e}, c \in Configs : ConnConnect(e, peer, c)
          \/ ConnNewFails(e)
          \/ EngineDestroy(e)
          \/ \E i \in Id : \/ ConnClose(e, i)
                           \/ \E c \in Configs : ConnSetConfig(e, i, c)
                           \/ StreamOutput(e, i, "PAYLOAD")
                           \/ StreamOutput(e, i, "STREAM_CTRL")
    BY <1>2 DEF Host
  <2>2. CASE \E peer \in Engine \ {e}, c \in Configs : ConnConnect(e, peer, c)
    BY <2>2, <1>1, ConnConnectVerdict
  <2>3. CASE ConnNewFails(e)
    BY <2>3, <1>1, SendVerdict DEF ConnNewFails
  <2>4. CASE EngineDestroy(e)
    BY <2>4, <1>1, DestroyVerdict
  <2>5. ASSUME NEW i \in Id, ConnClose(e, i) \/ \E c \in Configs : ConnSetConfig(e, i, c)
        PROVE  Verdicts'
    BY <2>5, <1>1, ConnCloseVerdict, ConnSetConfigVerdict
  <2>6. ASSUME NEW i \in Id, NEW type \in {"PAYLOAD", "STREAM_CTRL"}, StreamOutput(e, i, type)
        PROVE  Verdicts'
    <3>1. \A m \in net' : m \in net \/ Carried(m)'
      BY <2>6, SMTT(30) DEF StreamOutput, Bare, Pkt, Carried
    <3>2. QED
      BY <2>6, <3>1, <1>1, SendVerdict DEF StreamOutput
  <2>7. QED
    BY <2>1, <2>2, <2>3, <2>4, <2>5, <2>6
<1>3. CASE Input
  <2>1. PICK e \in Engine, m \in net :
          \/ ReceiveForeignConnect(e, m)
          \/ \E i \in Id : ReceiveConnectAgain(e, m, i)
          \/ \E result \in Answers : ReceiveConnect(e, m, result)
          \/ ReceiveConnectAck(e, m)
          \/ ReceiveKeepalive(e, m) \/ ReceivePayload(e, m)
          \/ ReceiveClose(e, m)
          \/ ReceiveCloseAck(e, m)
    BY <1>3 DEF Input
  <2>2. CASE ReceiveForeignConnect(e, m)
    BY <2>2, <1>1, ForeignVerdict
  <2>3. ASSUME NEW i \in Id, ReceiveConnectAgain(e, m, i)
        PROVE  Verdicts'
    <3>1. /\ Live(conn[e][i]) /\ conn' = [conn EXCEPT ![e][i] = NoteReceive(conn[e][i], FALSE)]
          /\ \A k \in net' : k \in net \/ k = Pkt("CONNECT_ACK", e, i, Version[e], "OK")
      BY <2>3 DEF ReceiveConnectAgain, Live, Rest
    <3>2. QED
      BY <3>1, <1>1, NotedVerdict
  <2>4. CASE \E result \in Answers : ReceiveConnect(e, m, result)
    BY <2>4, <1>1, AcceptVerdict
  <2>5. CASE ReceiveConnectAck(e, m)
    BY <2>5, <1>1, AckVerdict
  <2>6. CASE ReceiveKeepalive(e, m) \/ ReceivePayload(e, m)
    <3>1. PICK p \in BOOLEAN :
            /\ Routed(e, m) /\ net' \subseteq net
            /\ conn' = [conn EXCEPT ![e][m.dest] = NoteReceive(conn[e][m.dest], p)]
      BY <2>6 DEF ReceiveKeepalive, ReceivePayload, Rest
    <3>2. m.dest \in Id /\ Live(conn[e][m.dest])
      BY <3>1 DEF Routed
    <3>3. QED
      BY <3>1, <3>2, <1>1, NotedVerdict
  <2>7. CASE ReceiveClose(e, m)
    BY <2>7, <1>1, CloseVerdict
  <2>8. CASE ReceiveCloseAck(e, m)
    BY <2>8, <1>1, CloseAckVerdict
  <2>9. QED
    BY <2>1, <2>2, <2>3, <2>4, <2>5, <2>6, <2>7, <2>8
<1>4. CASE \E e \in Engine, i \in Id : Update(e, i)
  BY <1>4, <1>1, UpdateVerdict
<1>5. CASE \E e \in Engine : Tick(e)
  BY <1>5, <1>1, TickVerdict
<1>6. QED
  BY <1>2, <1>3, <1>4, <1>5 DEF Next

\* The second invariant holds in every reachable state.
LEMMA VerdictsInvariant == Spec => []Verdicts
<1>1. Init => Verdicts
  <2> SUFFICES ASSUME Init
               PROVE  Verdicts
    OBVIOUS
  <2>1. \A e \in Engine, i \in Id : conn[e][i].state = "FREE"
    BY DEF Init, NoConn
  <2>2. AcceptAgreed /\ net = {}
    BY <2>1 DEF AcceptAgreed, Init
  <2>3. QED
    BY <2>1, <2>2 DEF Verdicts
<1>2. IndInv /\ IndInv' /\ Verdicts /\ [Next]_vars => Verdicts'
  <2> SUFFICES ASSUME IndInv, IndInv', Verdicts, [Next]_vars
               PROVE  Verdicts'
    OBVIOUS
  <2>1. CASE Next
    BY <2>1, VerdictsStep
  <2>2. CASE UNCHANGED vars
    <3>1. HandleKept
      BY <2>2 DEF vars, HandleKept
    <3>2. QED
      BY <2>2, <3>1, SendVerdict DEF vars
  <2>3. QED
    BY <2>1, <2>2
<1>3. QED
  BY <1>1, <1>2, Invariance, PTL DEF Spec

\* The timer node of every live connection is at the connection's deadline after
\* every step: whatever moves an anchor, the state or the configuration also
\* refreshes the timer, and a tick of the clock shortens both alike.
THEOREM TimerAlwaysExact == Spec => []TimerExact
<1>1. Verdicts => TimerExact
  BY DEF Verdicts, Sane, Exact, TimerExact, Live
<1>2. QED
  BY <1>1, VerdictsInvariant, PTL

\* Engines of different versions never connect, no passive connection is made, and
\* the initiator ends with TIMEOUT (or NORMAL when its host closes it): neither a
\* CONNECT_ACK nor a CLOSE of another version ever exists to reach it.
THEOREM VersionsNeverMix == Spec => []VersionGate
<1>1. Verdicts => VersionGate
  BY DEF Verdicts, Sane, Gate, VersionGate
<1>2. QED
  BY <1>1, VerdictsInvariant, PTL

\* When conn_connect_notify answers with values that a byte can hold, an initiator
\* is CONNECTED only to a connection whose acceptor said OK.  (The hypothesis is
\* needed: a wide result is cut to OK on the wire.)
THEOREM VerdictsAgree == "WIDE" \notin Answers => (Spec => []AcceptAgreed)
<1>1. SUFFICES ASSUME "WIDE" \notin Answers
               PROVE  Spec => []AcceptAgreed
  OBVIOUS
<1>2. Verdicts => AcceptAgreed
  BY <1>1 DEF Verdicts
<1>3. QED
  BY <1>2, VerdictsInvariant, PTL
=============================================================================
