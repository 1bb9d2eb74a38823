--------------------------- MODULE StreamPairProofs ---------------------------
(* Proofs about StreamPair, for any number of chunks and any retry settings: the *)
(* steps an end takes by itself (application calls, timer updates, its           *)
(* connection), the steps that receive a packet, the invariance theorem, and     *)
(* from it what NORMAL means to the applications.                                *)
EXTENDS StreamPair, TLAPS

(* Most leaves are first-order; those that need arithmetic or sequences name SMT.   *)
USE ZenonT(30)

-----------------------------------------------------------------------------
(* Steps an end takes by itself                                               *)


(* There are two ends, each the other of the other.                              *)
LEMMA OtherEnd ==
  /\ \A e \in Ends : Other(e) \in Ends /\ Other(Other(e)) = e /\ Other(e) # e
  /\ \A e, d \in Ends : d = e \/ d = Other(e)
BY DEF Ends, Other

(* Control and payload packets are packets.                                     *)
LEMMA PacketTypes ==
  /\ \A t \in {"CLOSE", "CLOSE_ACK"}, e \in Ends, r \in Reasons :
       /\ Control(t, e, r) \in Packets
       /\ Control(t, e, r).type = t
       /\ Control(t, e, r).from = e
       /\ Control(t, e, r).reason = r
  /\ \A e \in Ends, n \in Nat, K \in SUBSET Nat :
       /\ Payload(e, n, K) \in Packets
       /\ Payload(e, n, K).type = "PAYLOAD"
       /\ Payload(e, n, K).from = e
       /\ Payload(e, n, K).data = n
       /\ Payload(e, n, K).acks = K
BY DEF Control, Payload, Packets, Reasons

(* What a flush of KCP sends: its own chunks, and acknowledgements of what it stored. *)
LEMMA OutputPackets ==
  ASSUME TypeOK, NEW e \in Ends, NEW s \in Nat, NEW q \in Output(e, s)
  PROVE  /\ q \in Packets
         /\ q.type = "PAYLOAD" /\ q.from = e /\ q.acks = rcv[e]
         /\ q.data \in Nat /\ q.data <= s
<1>1. rcv[e] \in SUBSET Nat
  BY DEF TypeOK
<1>2. PICK n \in Nat : n <= s /\ q = Payload(e, n, rcv[e])
  <2>1. CASE \E n \in (1..s) \ ackd[e] : q = Payload(e, n, rcv[e])
    BY <2>1, SMTT(30)
  <2>2. CASE q = Payload(e, 0, rcv[e])
    BY <2>2, SMTT(30)
  <2> QED
    BY <2>1, <2>2 DEF Output
<1> QED
  BY <1>1, <1>2, PacketTypes, SMTT(30)

(* Some retry limit is not below zero.                                          *)
LEMMA SomeRetries == \E max \in Retries : 0 <= max
<1>1. PICK max : max \in Retries
  BY ConstantsAssumption
<1>2. max \in Nat
  BY <1>1, ConstantsAssumption
<1> QED
  BY <1>1, <1>2, SMTT(30)

(* The initial state: no stream, no packet.                                     *)
LEMMA InitInv == Init => IndInv
<1> SUFFICES ASSUME Init PROVE IndInv
  OBVIOUS
<1>1. TypeOK
  BY SomeRetries, SMTT(30) DEF Init, TypeOK, States, Phases, Reasons, Ends
<1>2. \A p \in net : PacketTrue(p)
  BY DEF Init
<1>3. \A e \in Ends : KcpHonest(e)
  BY OtherEnd, SMTT(30) DEF Init, KcpHonest
<1>4. \A e \in Ends : PhaseTrue(e)
  BY OtherEnd DEF Init, PhaseTrue
<1> QED
  BY <1>1, <1>2, <1>3, <1>4 DEF IndInv

(* kcpmux_stream_close_internal touches its own end only.                         *)
LEMMA CloseInternalEffect ==
  ASSUME TypeOK, NEW e \in Ends, NEW r \in Reasons, CloseInternal(e, r)
  PROVE  /\ state' \in [Ends -> States] /\ told' \in [Ends -> Reasons \cup {"none"}]
         /\ state'[e] = "CLOSED"
         /\ told'[e] = IF mute[e] THEN told[e] ELSE r
         /\ \A d \in Ends : d # e => state'[d] = state[d] /\ told'[d] = told[d]
<1>1. state' = [state EXCEPT ![e] = "CLOSED"] /\ state \in [Ends -> States] /\ told \in [Ends -> Reasons \cup {"none"}]
  BY DEF CloseInternal, TypeOK
<1>2. CASE mute[e]
  <2>1. told' = told
    BY <1>2 DEF CloseInternal
  <2> QED
    BY <1>1, <1>2, <2>1 DEF States
<1>3. CASE ~mute[e]
  <2>1. told' = [told EXCEPT ![e] = r]
    BY <1>3 DEF CloseInternal
  <2> QED
    BY <1>1, <1>3, <2>1 DEF States
<1> QED
  BY <1>2, <1>3

(* So does kcpmux_stream_advance_local_close.                                     *)
LEMMA AdvanceEffect ==
  ASSUME TypeOK, NEW e \in Ends, NEW max \in Retries, AdvanceLocalClose(e, max)
  PROVE  /\ state' \in [Ends -> States] /\ told' \in [Ends -> Reasons \cup {"none"}]
         /\ phase' \in [Ends -> Phases] /\ reason' \in [Ends -> Reasons]
         /\ retry' = [retry EXCEPT ![e] = 0]
         /\ state'[e] \in {"CLOSING", "CLOSED"}
         /\ phase'[e] = "WAIT_ACK" /\ reason'[e] = "NORMAL"
         /\ \/ told'[e] = told[e]
            \/ state'[e] = "CLOSED" /\ told'[e] = "NORMAL" /\ ~mute[e]
         /\ \A d \in Ends : d # e => /\ state'[d] = state[d] /\ told'[d] = told[d]
                                     /\ phase'[d] = phase[d] /\ reason'[d] = reason[d]
<1>1. /\ phase' \in [Ends -> Phases] /\ reason' \in [Ends -> Reasons]
      /\ retry' = [retry EXCEPT ![e] = 0]
      /\ phase'[e] = "WAIT_ACK" /\ reason'[e] = "NORMAL"
      /\ \A d \in Ends : d # e => phase'[d] = phase[d] /\ reason'[d] = reason[d]
  BY DEF AdvanceLocalClose, TypeOK, Phases, Reasons
<1>2. CASE max = 0
  <2>1. CloseInternal(e, "NORMAL") /\ "NORMAL" \in Reasons
    BY <1>2 DEF AdvanceLocalClose, Reasons
  <2> QED
    BY <1>1, <2>1, CloseInternalEffect
<1>3. CASE max # 0
  <2>1. state' = [state EXCEPT ![e] = "CLOSING"] /\ told' = told
    BY <1>3 DEF AdvanceLocalClose
  <2> QED
    BY <1>1, <2>1 DEF TypeOK, States
<1> QED
  BY <1>2, <1>3

(* After the peer's STREAM_CLOSE(NORMAL) everything it sent is in KCP.               *)
LEMMA PeerSaid ==
  ASSUME IndInv, NEW e \in Ends, PeerSaidNormal(e)
  PROVE  /\ appClosed[Other(e)]
         /\ state[Other(e)] \in {"CLOSING", "CLOSED"}
         /\ 1..sent[Other(e)] \subseteq rcv[e]
<1> DEFINE p == Control("CLOSE", Other(e), "NORMAL")
<1>1. p.type = "CLOSE" /\ p.from = Other(e) /\ p.reason = "NORMAL"
  BY DEF Control
<1>2. PacketTrue(p)
  BY DEF IndInv, PeerSaidNormal
<1>3. Other(e) \in Ends /\ Other(Other(e)) = e
  BY OtherEnd
<1>4. ackd[Other(e)] \subseteq rcv[e]
  BY <1>3 DEF IndInv, KcpHonest
<1> HIDE DEF p
<1> QED
  BY <1>1, <1>2, <1>4 DEF PacketTrue

(* What an old packet says stays true when no data moves and nobody reopens.        *)
LEMMA PacketKept ==
  ASSUME IndInv, NEW q \in net, UNCHANGED dataVars,
         \A d \in Ends : state[d] \in {"CLOSING", "CLOSED"} => state'[d] \in {"CLOSING", "CLOSED"},
         \A d \in Ends : appClosed[d] => appClosed'[d]
  PROVE  PacketTrue(q)'
<1>1. q.from \in Ends
  BY DEF IndInv, TypeOK, Packets
<1>2. PacketTrue(q)
  BY DEF IndInv
<1> QED
  BY <1>1, <1>2 DEF PacketTrue, dataVars

(* Nothing about KCP changes when no data moves.                                    *)
LEMMA KcpKept ==
  ASSUME IndInv, NEW d \in Ends, UNCHANGED dataVars
  PROVE  KcpHonest(d)'
BY DEF IndInv, KcpHonest, dataVars

(* An end whose own state does not change keeps its facts, when no data moves and   *)
(* no packet disappears.                                                            *)
LEMMA PhaseKept ==
  ASSUME IndInv, NEW d \in Ends, UNCHANGED dataVars, net \subseteq net',
         state'[d] = state[d], phase'[d] = phase[d], reason'[d] = reason[d],
         mute'[d] = mute[d], seen'[d] = seen[d], told'[d] = told[d],
         appClosed'[d] = appClosed[d], cascaded'[d] = cascaded[d],
         appClosed[Other(d)] => appClosed'[Other(d)]
  PROVE  PhaseTrue(d)'
<1>1. PeerSaidNormal(d) => PeerSaidNormal(d)'
  BY DEF PeerSaidNormal
<1>2. PhaseTrue(d)
  BY DEF IndInv
<1> QED
  BY <1>1, <1>2 DEF PhaseTrue, dataVars

(* An end that closes: what it must know when it reports NORMAL.                    *)
LEMMA ClosedPhase ==
  ASSUME IndInv, NEW e \in Ends, NEW r \in Reasons, UNCHANGED dataVars, net \subseteq net',
         state'[e] = "CLOSED", mute'[e] = mute[e], e = "B" => seen'[e],
         told'[e] = IF mute[e] THEN told[e] ELSE r,
         r = "NORMAL" /\ ~mute[e] /\ ~cascaded'[e]
           => /\ ~appClosed'[e] => PeerSaidNormal(e) /\ Len(log[e]) = sent[Other(e)]
              /\ ~appClosed'[Other(e)] => 1..sent[e] \subseteq rcv[Other(e)]
  PROVE  PhaseTrue(e)'
<1>1. PeerSaidNormal(e) => PeerSaidNormal(e)'
  BY DEF PeerSaidNormal
<1>2. mute[e] => told[e] = "none"
  BY DEF IndInv, PhaseTrue
<1>3. told'[e] = "NORMAL" => r = "NORMAL" /\ ~mute[e]
  BY <1>2
<1> QED
  BY <1>1, <1>2, <1>3 DEF PhaseTrue, dataVars

(* A closing or open end of the accepting side has moved the high-water mark.        *)
LEMMA SeenWhenThere ==
  ASSUME IndInv, NEW e \in Ends, state[e] # "ABSENT", e = "B"
  PROVE  seen[e]
BY DEF IndInv, PhaseTrue

(* kcpmux_stream_create: an open end without data.                            *)
LEMMA CreateStep ==
  ASSUME IndInv, NEW e \in Ends, Create(e)
  PROVE  IndInv'
<1>1. TypeOK'
  BY PacketTypes, ConstantsAssumption DEF Create, IndInv, TypeOK, States, Phases, Reasons, endVars, dataVars
<1>2. ASSUME NEW q \in net' PROVE PacketTrue(q)'
  BY SMTT(30) DEF Create, IndInv, TypeOK, PacketTrue, Packets, PhaseTrue, dataVars
<1>3. ASSUME NEW d \in Ends PROVE KcpHonest(d)'
  <2>1. UNCHANGED dataVars
    BY DEF Create
  <2> QED
    BY <2>1, KcpKept
<1>4. ASSUME NEW d \in Ends PROVE PhaseTrue(d)'
  <2>1. CASE d = e
    BY OtherEnd, <2>1, PacketTypes DEF Create, IndInv, TypeOK, PacketTrue, KcpHonest, PhaseTrue, PeerSaidNormal, endVars, dataVars
  <2>2. CASE d = Other(e)
    <3>1. /\ state'[d] = state[d] /\ phase'[d] = phase[d] /\ reason'[d] = reason[d]
          /\ mute'[d] = mute[d] /\ seen'[d] = seen[d] /\ told'[d] = told[d]
          /\ appClosed'[d] = appClosed[d] /\ cascaded'[d] = cascaded[d]
      BY OtherEnd, <2>2 DEF Create, IndInv, TypeOK, endVars
    <3>2. UNCHANGED dataVars /\ net \subseteq net' /\ (appClosed[e] => appClosed'[e])
      BY DEF Create, IndInv, TypeOK, endVars
    <3>3. e = Other(d)
      BY <2>2, OtherEnd
    <3> QED
      BY <3>1, <3>2, <3>3, PhaseKept
  <2> QED
    BY OtherEnd, <2>1, <2>2
<1> QED
  BY <1>1, <1>2, <1>3, <1>4 DEF IndInv

(* kcpmux_stream_send: sent grows only while the end is open, when no CLOSE of it exists.*)
LEMMA SendStep ==
  ASSUME IndInv, NEW e \in Ends, Send(e)
  PROVE  IndInv'
<1>1. TypeOK'
  <2>1. sent' \in [Ends -> Nat]
    BY SMTT(30) DEF Send, IndInv, TypeOK
  <2>2. net' \subseteq Packets
    <3>1. TypeOK /\ net \subseteq Packets /\ sent[e] + 1 \in Nat
      BY SMTT(30) DEF IndInv, TypeOK
    <3>2. Output(e, sent[e] + 1) \subseteq Packets
      BY <3>1, OutputPackets
    <3> QED
      BY <3>1, <3>2 DEF Send
  <2> QED
    BY <2>1, <2>2 DEF Send, IndInv, TypeOK, endVars
<1>2. ASSUME NEW q \in net' PROVE PacketTrue(q)'
  BY PacketTypes, SMTT(30) DEF Send, Output, Payload, IndInv, TypeOK, PacketTrue, Packets, endVars, dataVars
<1>3. ASSUME NEW d \in Ends PROVE KcpHonest(d)'
  BY OtherEnd, PacketTypes, SMTT(30) DEF Send, Output, Payload, IndInv, TypeOK, PacketTrue, KcpHonest, PhaseTrue, Packets, endVars, dataVars
<1>4. ASSUME NEW d \in Ends PROVE PhaseTrue(d)'
  BY OtherEnd, PacketTypes, SMTT(30) DEF Send, Output, Payload, IndInv, TypeOK, PacketTrue, KcpHonest, PhaseTrue, PeerSaidNormal, Packets, endVars, dataVars
<1> QED
  BY <1>1, <1>2, <1>3, <1>4 DEF IndInv

(* kcpmux_stream_recv: the last chunk read in REMOTE_DRAIN is the last chunk the peer sent.*)
LEMMA RecvStep ==
  ASSUME IndInv, NEW e \in Ends, Recv(e)
  PROVE  IndInv'
<1>1. TypeOK'
  <2>1. log' \in [Ends -> Seq(Nat)] /\ taken' \in [Ends -> Nat]
    BY SMTT(30) DEF Recv, IndInv, TypeOK
  <2>2. phase' \in [Ends -> Phases]
    BY DEF Recv, IndInv, TypeOK, Phases
  <2> QED
    BY <2>1, <2>2, SMTT(30) DEF Recv, IndInv, TypeOK
<1>2. ASSUME NEW q \in net' PROVE PacketTrue(q)'
  BY PacketTypes, SMTT(30) DEF Recv, Readable, IndInv, TypeOK, PacketTrue, Packets, endVars, dataVars
<1>3. ASSUME NEW d \in Ends PROVE KcpHonest(d)'
  BY OtherEnd, PacketTypes, SMTT(30) DEF Recv, Readable, IndInv, TypeOK, PacketTrue, KcpHonest, PhaseTrue, Packets, endVars, dataVars
<1>4. ASSUME NEW d \in Ends PROVE PhaseTrue(d)'
  <2>1. CASE d = e
    <3>1. log'[e] = Append(log[e], taken[e] + 1) /\ Len(log'[e]) = Len(log[e]) + 1
      BY SMTT(30) DEF Recv, IndInv, TypeOK
    <3>2. /\ state'[e] = state[e] /\ UNCHANGED <<sent, rcv, ackd, net, appClosed, told, cascaded, mute, reason, seen>>
          /\ state[e] # "ABSENT"
      BY DEF Recv
    <3>3. ASSUME state[e] = "CLOSING" PROVE phase'[e] \in {"REMOTE_DRAIN", "FINALIZE"} /\ phase[e] = "REMOTE_DRAIN"
      BY OtherEnd, <3>3 DEF Recv, IndInv, TypeOK
    <3>4. ASSUME state[e] = "CLOSING", phase'[e] = "FINALIZE" PROVE Len(log'[e]) = sent[Other(e)]
      <4>1. Len(log[e]) + 2 \notin rcv[e] /\ Len(log[e]) + 1 \in rcv[e]
        BY OtherEnd, <3>3, <3>4, SMTT(30) DEF Recv, Readable, IndInv, TypeOK, KcpHonest
      <4>2. PeerSaidNormal(e)
        BY OtherEnd, <3>3, <3>4 DEF IndInv, PhaseTrue
      <4>3. 1..sent[Other(e)] \subseteq rcv[e] /\ rcv[e] \subseteq 1..sent[Other(e)]
        BY <4>2, PeerSaid DEF IndInv, KcpHonest
      <4>4. Len(log[e]) \in Nat /\ sent[Other(e)] \in Nat
        BY OtherEnd, SMTT(30) DEF IndInv, TypeOK
      <4>5. Len(log[e]) + 1 <= sent[Other(e)] /\ ~(Len(log[e]) + 2 <= sent[Other(e)])
        BY OtherEnd, <4>1, <4>3, <4>4, SMTT(30)
      <4> QED
        BY OtherEnd, <3>1, <4>4, <4>5, SMTT(30)
    <3>5. state[e] # "CLOSED" /\ told[e] = "none"
      BY DEF Recv, IndInv, PhaseTrue
    <3> QED
      BY OtherEnd, <2>1, <3>1, <3>2, <3>3, <3>4, <3>5, SMTT(30) DEF IndInv, PhaseTrue, PeerSaidNormal
  <2>2. CASE d = Other(e)
    BY OtherEnd, <2>2, SMTT(30) DEF Recv, IndInv, TypeOK, PhaseTrue, PeerSaidNormal
  <2> QED
    BY OtherEnd, <2>1, <2>2
<1> QED
  BY <1>1, <1>2, <1>3, <1>4 DEF IndInv

(* kcpmux_stream_close of an unused stream: nothing was sent, so nothing is missing.*)
LEMMA CloseUnusedStep ==
  ASSUME IndInv, NEW e \in Ends, CloseUnused(e)
  PROVE  IndInv'
<1>0. /\ state' \in [Ends -> States] /\ told' \in [Ends -> Reasons \cup {"none"}]
      /\ state'[e] = "CLOSED"
      /\ told'[e] = IF mute[e] THEN told[e] ELSE "NORMAL"
      /\ \A d \in Ends : d # e => state'[d] = state[d] /\ told'[d] = told[d]
  <2>1. "NORMAL" \in Reasons
    BY DEF IndInv, TypeOK, Reasons
  <2>2. CloseInternal(e, "NORMAL")
    BY DEF CloseUnused
  <2> QED
    BY <2>1, <2>2, CloseInternalEffect DEF IndInv
<1>1. TypeOK'
  <2>1. /\ state' \in [Ends -> States] /\ phase' \in [Ends -> Phases]
        /\ reason' \in [Ends -> Reasons] /\ told' \in [Ends -> Reasons \cup {"none"}]
    BY <1>0 DEF CloseUnused, IndInv, TypeOK, States, Phases, Reasons
  <2>2. retry' \in [Ends -> Nat] /\ \A d \in Ends : \E max \in Retries : retry'[d] <= max
    BY SomeRetries DEF CloseUnused, IndInv, TypeOK
  <2>3. appClosed' \in [Ends -> BOOLEAN]
    BY DEF CloseUnused, IndInv, TypeOK
  <2> QED
    BY <2>1, <2>2, <2>3 DEF CloseUnused, IndInv, TypeOK, dataVars
<1>2. ASSUME NEW q \in net' PROVE PacketTrue(q)'
  <2>1. UNCHANGED <<dataVars, net>>
    BY DEF CloseUnused
  <2>2. \A d \in Ends : state[d] \in {"CLOSING", "CLOSED"} => state'[d] \in {"CLOSING", "CLOSED"}
    BY <1>0
  <2>3. \A d \in Ends : appClosed[d] => appClosed'[d]
    BY DEF CloseUnused, IndInv, TypeOK
  <2> QED
    BY <1>2, <2>1, <2>2, <2>3, PacketKept
<1>3. ASSUME NEW d \in Ends PROVE KcpHonest(d)'
  <2>1. UNCHANGED dataVars
    BY DEF CloseUnused
  <2> QED
    BY <2>1, KcpKept
<1>4. ASSUME NEW d \in Ends PROVE PhaseTrue(d)'
  <2>1. CASE d = e
    <3>1. UNCHANGED <<dataVars, mute, seen>> /\ net \subseteq net' /\ state[e] # "ABSENT"
      BY DEF CloseUnused
    <3>2. e = "B" => seen'[e]
      BY <3>1, SeenWhenThere
    <3>3. "NORMAL" \in Reasons
      BY DEF Reasons
    <3>4. "NORMAL" = "NORMAL" /\ ~mute[e] /\ ~cascaded'[e]
            => /\ ~appClosed'[e] => PeerSaidNormal(e) /\ Len(log[e]) = sent[Other(e)]
               /\ ~appClosed'[Other(e)] => 1..sent[e] \subseteq rcv[Other(e)]
      <4>1. appClosed'[e] /\ sent[e] = 0
        BY DEF CloseUnused, IndInv, TypeOK
      <4> QED
        BY <4>1, SMTT(30)
    <3> QED
      BY <1>0, <2>1, <3>1, <3>2, <3>3, <3>4, ClosedPhase
  <2>2. CASE d = Other(e)
    <3>1. /\ state'[d] = state[d] /\ phase'[d] = phase[d] /\ reason'[d] = reason[d]
          /\ mute'[d] = mute[d] /\ seen'[d] = seen[d] /\ told'[d] = told[d]
          /\ appClosed'[d] = appClosed[d] /\ cascaded'[d] = cascaded[d]
      BY <1>0, OtherEnd, <2>2 DEF CloseUnused, IndInv, TypeOK, endVars
    <3>2. UNCHANGED dataVars /\ net \subseteq net' /\ (appClosed[e] => appClosed'[e])
      BY DEF CloseUnused, IndInv, TypeOK, endVars
    <3>3. e = Other(d)
      BY <2>2, OtherEnd
    <3> QED
      BY <3>1, <3>2, <3>3, PhaseKept
  <2> QED
    BY OtherEnd, <2>1, <2>2
<1> QED
  BY <1>1, <1>2, <1>3, <1>4 DEF IndInv

(* kcpmux_stream_close with nothing unacknowledged.                           *)
LEMMA CloseDrainedStep ==
  ASSUME IndInv, NEW e \in Ends, CloseDrained(e)
  PROVE  IndInv'
<1>0. PICK max \in Retries : AdvanceLocalClose(e, max)
  BY DEF CloseDrained
<1>a. /\ state' \in [Ends -> States] /\ told' \in [Ends -> Reasons \cup {"none"}]
      /\ phase' \in [Ends -> Phases] /\ reason' \in [Ends -> Reasons]
      /\ retry' = [retry EXCEPT ![e] = 0]
      /\ state'[e] \in {"CLOSING", "CLOSED"}
      /\ phase'[e] = "WAIT_ACK" /\ reason'[e] = "NORMAL"
      /\ \/ told'[e] = told[e]
         \/ state'[e] = "CLOSED" /\ told'[e] = "NORMAL" /\ ~mute[e]
      /\ \A d \in Ends : d # e => /\ state'[d] = state[d] /\ told'[d] = told[d]
                                  /\ phase'[d] = phase[d] /\ reason'[d] = reason[d]
  BY <1>0, AdvanceEffect DEF IndInv
<1>1. TypeOK'
  <2>1. retry' \in [Ends -> Nat] /\ \A d \in Ends : \E m \in Retries : retry'[d] <= m
    BY <1>a, SomeRetries DEF IndInv, TypeOK
  <2>2. net' \subseteq Packets
    BY OutputPackets, PacketTypes, SMTT(30) DEF CloseDrained, IndInv, TypeOK, Reasons
  <2> QED
    BY <1>a, <2>1, <2>2 DEF CloseDrained, IndInv, TypeOK, dataVars
<1>2. ASSUME NEW q \in net' PROVE PacketTrue(q)'
  <2>1. CASE q \in net
    <3>1. q.from \in Ends
      BY <2>1 DEF IndInv, TypeOK, Packets
    <3>2. \A d \in Ends : state[d] \in {"CLOSING", "CLOSED"} => state'[d] \in {"CLOSING", "CLOSED"}
      BY <1>a
    <3>3. \A d \in Ends : appClosed[d] => appClosed'[d]
      BY DEF CloseDrained, IndInv, TypeOK
    <3> QED
      BY <2>1, <3>1, <3>2, <3>3 DEF CloseDrained, IndInv, PacketTrue, dataVars
  <2>3. CASE q = Control("CLOSE", e, "NORMAL")
    <3>1. appClosed'[e] /\ 1..sent[e] \subseteq ackd[e]
      BY SMTT(30) DEF CloseDrained, NothingToSend, IndInv, TypeOK, PhaseTrue
    <3>2. q.type = "CLOSE" /\ q.from = e /\ q.reason = "NORMAL"
      BY <2>3 DEF Control
    <3> QED
      BY <1>a, <2>3, <3>1, <3>2 DEF CloseDrained, PacketTrue, dataVars
  <2> QED
    BY <1>2, <2>1, <2>3 DEF CloseDrained
<1>3. ASSUME NEW d \in Ends PROVE KcpHonest(d)'
  <2>1. UNCHANGED dataVars
    BY DEF CloseDrained
  <2> QED
    BY <2>1, KcpKept
<1>4. ASSUME NEW d \in Ends PROVE PhaseTrue(d)'
  <2>1. CASE d = e
    <3>1. /\ appClosed'[e] /\ ~mute[e] /\ told[e] = "none" /\ 1..sent[e] \subseteq ackd[e]
          /\ state[e] # "ABSENT"
      BY SMTT(30) DEF CloseDrained, NothingToSend, IndInv, TypeOK, PhaseTrue
    <3>2. ackd[e] \subseteq rcv[Other(e)]
      BY DEF IndInv, KcpHonest
    <3>3. e = "B" => seen[e]
      BY <3>1 DEF IndInv, PhaseTrue
    <3> QED
      BY <1>a, <2>1, <3>1, <3>2, <3>3 DEF CloseDrained, PhaseTrue, dataVars
  <2>2. CASE d = Other(e)
    <3>1. /\ state'[d] = state[d] /\ phase'[d] = phase[d] /\ reason'[d] = reason[d]
          /\ told'[d] = told[d]
      BY OtherEnd, <1>a, <2>2
    <3>2. /\ UNCHANGED <<mute, seen, cascaded, dataVars>> /\ net \subseteq net'
          /\ appClosed'[d] = appClosed[d] /\ (appClosed[e] => appClosed'[e])
      BY OtherEnd, <2>2 DEF CloseDrained, IndInv, TypeOK
    <3>3. e = Other(d)
      BY <2>2, OtherEnd
    <3> QED
      BY <3>1, <3>2, <3>3, PhaseKept
  <2> QED
    BY OtherEnd, <2>1, <2>2
<1> QED
  BY <1>1, <1>2, <1>3, <1>4 DEF IndInv

(* kcpmux_stream_close into LOCAL_DRAIN.                                      *)
LEMMA CloseDrainingStep ==
  ASSUME IndInv, NEW e \in Ends, CloseDraining(e)
  PROVE  IndInv'
<1>1. TypeOK'
  <2>1. /\ state' \in [Ends -> States] /\ phase' \in [Ends -> Phases]
        /\ reason' \in [Ends -> Reasons] /\ told' \in [Ends -> Reasons \cup {"none"}]
    BY DEF CloseDraining, EnterPhase, IndInv, TypeOK, States, Phases, Reasons
  <2>2. retry' \in [Ends -> Nat] /\ \A d \in Ends : \E max \in Retries : retry'[d] <= max
    BY SomeRetries DEF CloseDraining, IndInv, TypeOK
  <2>3. appClosed' \in [Ends -> BOOLEAN]
    BY DEF CloseDraining, IndInv, TypeOK
  <2> QED
    BY <2>1, <2>2, <2>3 DEF CloseDraining, IndInv, TypeOK, dataVars
<1>2. ASSUME NEW q \in net' PROVE PacketTrue(q)'
  BY SMTT(30) DEF CloseDraining, EnterPhase, IndInv, TypeOK, PacketTrue, Packets, PhaseTrue, dataVars
<1>3. ASSUME NEW d \in Ends PROVE KcpHonest(d)'
  <2>1. UNCHANGED dataVars
    BY DEF CloseDraining
  <2> QED
    BY <2>1, KcpKept
<1>4. ASSUME NEW d \in Ends PROVE PhaseTrue(d)'
  <2>1. CASE d = e
    <3>1. /\ state'[e] = "CLOSING" /\ phase'[e] = "LOCAL_DRAIN" /\ reason'[e] = "NORMAL" /\ appClosed'[e]
      BY DEF CloseDraining, EnterPhase, IndInv, TypeOK
    <3>2. UNCHANGED <<dataVars, net, mute, seen, told>> /\ state[e] = "OPEN"
      BY DEF CloseDraining
    <3>3. told[e] = "none" /\ ~mute[e] /\ (e = "B" => seen[e])
      BY <3>2 DEF IndInv, PhaseTrue
    <3> QED
      BY <2>1, <3>1, <3>2, <3>3 DEF PhaseTrue
  <2>2. CASE d = Other(e)
    <3>1. /\ state'[d] = state[d] /\ phase'[d] = phase[d] /\ reason'[d] = reason[d]
          /\ mute'[d] = mute[d] /\ seen'[d] = seen[d] /\ told'[d] = told[d]
          /\ appClosed'[d] = appClosed[d] /\ cascaded'[d] = cascaded[d]
      BY OtherEnd, <2>2 DEF CloseDraining, EnterPhase, IndInv, TypeOK, endVars
    <3>2. UNCHANGED dataVars /\ net \subseteq net' /\ (appClosed[e] => appClosed'[e])
      BY DEF CloseDraining, IndInv, TypeOK, endVars
    <3>3. e = Other(d)
      BY <2>2, OtherEnd
    <3> QED
      BY <3>1, <3>2, <3>3, PhaseKept
  <2> QED
    BY OtherEnd, <2>1, <2>2
<1> QED
  BY <1>1, <1>2, <1>3, <1>4 DEF IndInv

(* kcpmux_stream_close during REMOTE_DRAIN.                                   *)
LEMMA CloseGiveUpStep ==
  ASSUME IndInv, NEW e \in Ends, CloseGiveUp(e)
  PROVE  IndInv'
<1>1. TypeOK'
  BY PacketTypes, ConstantsAssumption DEF CloseGiveUp, EnterPhase, IndInv, TypeOK, States, Phases, Reasons, endVars, dataVars
<1>2. ASSUME NEW q \in net' PROVE PacketTrue(q)'
  BY DEF CloseGiveUp, EnterPhase, IndInv, TypeOK, PacketTrue, Packets, dataVars
<1>3. ASSUME NEW d \in Ends PROVE KcpHonest(d)'
  <2>1. UNCHANGED dataVars
    BY DEF CloseGiveUp
  <2> QED
    BY <2>1, KcpKept
<1>4. ASSUME NEW d \in Ends PROVE PhaseTrue(d)'
  <2>1. CASE d = e
    <3>1. /\ state'[e] = "CLOSING" /\ phase'[e] = "FINALIZE" /\ reason'[e] = "NORMAL" /\ appClosed'[e]
      BY DEF CloseGiveUp, EnterPhase, IndInv, TypeOK
    <3>2. UNCHANGED <<dataVars, net, mute, seen, told>> /\ state[e] = "CLOSING" /\ phase[e] = "REMOTE_DRAIN"
      BY DEF CloseGiveUp
    <3>3. told[e] = "none" /\ PeerSaidNormal(e) /\ (e = "B" => seen[e])
      BY <3>2 DEF IndInv, PhaseTrue
    <3>4. PeerSaidNormal(e)'
      BY <3>2, <3>3 DEF PeerSaidNormal
    <3> QED
      BY <2>1, <3>1, <3>2, <3>3, <3>4 DEF PhaseTrue
  <2>2. CASE d = Other(e)
    <3>1. /\ state'[d] = state[d] /\ phase'[d] = phase[d] /\ reason'[d] = reason[d]
          /\ mute'[d] = mute[d] /\ seen'[d] = seen[d] /\ told'[d] = told[d]
          /\ appClosed'[d] = appClosed[d] /\ cascaded'[d] = cascaded[d]
      BY OtherEnd, <2>2 DEF CloseGiveUp, EnterPhase, IndInv, TypeOK, endVars
    <3>2. UNCHANGED dataVars /\ net \subseteq net' /\ (appClosed[e] => appClosed'[e])
      BY DEF CloseGiveUp, IndInv, TypeOK, endVars
    <3>3. e = Other(d)
      BY <2>2, OtherEnd
    <3> QED
      BY <3>1, <3>2, <3>3, PhaseKept
  <2> QED
    BY OtherEnd, <2>1, <2>2
<1> QED
  BY <1>1, <1>2, <1>3, <1>4 DEF IndInv

(* kcpmux_stream_update of an open stream: KCP output only.                   *)
LEMMA UpdateOpenStep ==
  ASSUME IndInv, NEW e \in Ends, UpdateOpen(e)
  PROVE  IndInv'
<1>1. TypeOK'
  <2>1. net' \subseteq Packets
    BY OutputPackets DEF UpdateOpen, IndInv, TypeOK
  <2> QED
    BY <2>1 DEF UpdateOpen, IndInv, TypeOK, endVars, dataVars
<1>2. ASSUME NEW q \in net' PROVE PacketTrue(q)'
  BY PacketTypes, SMTT(30) DEF UpdateOpen, Output, Payload, IndInv, TypeOK, PacketTrue, Packets, endVars, dataVars
<1>3. ASSUME NEW d \in Ends PROVE KcpHonest(d)'
  <2>1. UNCHANGED dataVars
    BY DEF UpdateOpen
  <2> QED
    BY <2>1, KcpKept
<1>4. ASSUME NEW d \in Ends PROVE PhaseTrue(d)'
  <2>1. CASE d = e
    <3>1. UNCHANGED <<state, phase, reason, mute, seen, told, appClosed, cascaded, dataVars>> /\ net \subseteq net'
      BY DEF UpdateOpen, endVars
    <3> QED
      BY <2>1, <3>1, PhaseKept
  <2>2. CASE d = Other(e)
    <3>1. /\ state'[d] = state[d] /\ phase'[d] = phase[d] /\ reason'[d] = reason[d]
          /\ mute'[d] = mute[d] /\ seen'[d] = seen[d] /\ told'[d] = told[d]
          /\ appClosed'[d] = appClosed[d] /\ cascaded'[d] = cascaded[d]
      BY OtherEnd, <2>2 DEF UpdateOpen, IndInv, TypeOK, endVars
    <3>2. UNCHANGED dataVars /\ net \subseteq net' /\ (appClosed[e] => appClosed'[e])
      BY DEF UpdateOpen, IndInv, TypeOK, endVars
    <3>3. e = Other(d)
      BY <2>2, OtherEnd
    <3> QED
      BY <3>1, <3>2, <3>3, PhaseKept
  <2> QED
    BY OtherEnd, <2>1, <2>2
<1> QED
  BY <1>1, <1>2, <1>3, <1>4 DEF IndInv

(* kcpmux_stream_update at the end of LOCAL_DRAIN.                            *)
LEMMA UpdateDrainedStep ==
  ASSUME IndInv, NEW e \in Ends, UpdateDrained(e)
  PROVE  IndInv'
<1>0. PICK max \in Retries : AdvanceLocalClose(e, max)
  BY DEF UpdateDrained
<1>a. /\ state' \in [Ends -> States] /\ told' \in [Ends -> Reasons \cup {"none"}]
      /\ phase' \in [Ends -> Phases] /\ reason' \in [Ends -> Reasons]
      /\ retry' = [retry EXCEPT ![e] = 0]
      /\ state'[e] \in {"CLOSING", "CLOSED"}
      /\ phase'[e] = "WAIT_ACK" /\ reason'[e] = "NORMAL"
      /\ \/ told'[e] = told[e]
         \/ state'[e] = "CLOSED" /\ told'[e] = "NORMAL" /\ ~mute[e]
      /\ \A d \in Ends : d # e => /\ state'[d] = state[d] /\ told'[d] = told[d]
                                  /\ phase'[d] = phase[d] /\ reason'[d] = reason[d]
  BY <1>0, AdvanceEffect DEF IndInv
<1>1. TypeOK'
  <2>1. retry' \in [Ends -> Nat] /\ \A d \in Ends : \E m \in Retries : retry'[d] <= m
    BY <1>a, SomeRetries DEF IndInv, TypeOK
  <2>2. net' \subseteq Packets
    BY OutputPackets, PacketTypes, SMTT(30) DEF UpdateDrained, IndInv, TypeOK, Reasons
  <2> QED
    BY <1>a, <2>1, <2>2 DEF UpdateDrained, IndInv, TypeOK, dataVars
<1>2. ASSUME NEW q \in net' PROVE PacketTrue(q)'
  <2>1. CASE q \in net
    <3>1. q.from \in Ends
      BY <2>1 DEF IndInv, TypeOK, Packets
    <3>2. \A d \in Ends : state[d] \in {"CLOSING", "CLOSED"} => state'[d] \in {"CLOSING", "CLOSED"}
      BY <1>a
    <3>3. \A d \in Ends : appClosed[d] => appClosed'[d]
      BY DEF UpdateDrained, IndInv, TypeOK
    <3> QED
      BY <2>1, <3>1, <3>2, <3>3 DEF UpdateDrained, IndInv, PacketTrue, dataVars
  <2>2. CASE q \in Output(e, sent[e])
    BY <2>2, OutputPackets, SMTT(30) DEF UpdateDrained, IndInv, TypeOK, PacketTrue, dataVars
  <2>3. CASE q = Control("CLOSE", e, "NORMAL")
    <3>1. appClosed'[e] /\ 1..sent[e] \subseteq ackd[e]
      BY DEF UpdateDrained, NothingToSend, IndInv, TypeOK, PhaseTrue
    <3>2. q.type = "CLOSE" /\ q.from = e /\ q.reason = "NORMAL"
      BY <2>3 DEF Control
    <3> QED
      BY <1>a, <2>3, <3>1, <3>2 DEF UpdateDrained, PacketTrue, dataVars
  <2> QED
    BY <1>2, <2>1, <2>2, <2>3 DEF UpdateDrained
<1>3. ASSUME NEW d \in Ends PROVE KcpHonest(d)'
  <2>1. UNCHANGED dataVars
    BY DEF UpdateDrained
  <2> QED
    BY <2>1, KcpKept
<1>4. ASSUME NEW d \in Ends PROVE PhaseTrue(d)'
  <2>1. CASE d = e
    <3>1. /\ appClosed'[e] /\ ~mute[e] /\ told[e] = "none" /\ 1..sent[e] \subseteq ackd[e]
          /\ state[e] # "ABSENT"
      BY DEF UpdateDrained, NothingToSend, IndInv, TypeOK, PhaseTrue
    <3>2. ackd[e] \subseteq rcv[Other(e)]
      BY DEF IndInv, KcpHonest
    <3>3. e = "B" => seen[e]
      BY <3>1 DEF IndInv, PhaseTrue
    <3> QED
      BY <1>a, <2>1, <3>1, <3>2, <3>3 DEF UpdateDrained, PhaseTrue, dataVars
  <2>2. CASE d = Other(e)
    <3>1. /\ state'[d] = state[d] /\ phase'[d] = phase[d] /\ reason'[d] = reason[d]
          /\ told'[d] = told[d]
      BY OtherEnd, <1>a, <2>2
    <3>2. /\ UNCHANGED <<mute, seen, cascaded, dataVars>> /\ net \subseteq net'
          /\ appClosed'[d] = appClosed[d] /\ (appClosed[e] => appClosed'[e])
      BY OtherEnd, <2>2 DEF UpdateDrained, IndInv, TypeOK
    <3>3. e = Other(d)
      BY <2>2, OtherEnd
    <3> QED
      BY <3>1, <3>2, <3>3, PhaseKept
  <2> QED
    BY OtherEnd, <2>1, <2>2
<1> QED
  BY <1>1, <1>2, <1>3, <1>4 DEF IndInv

(* kcpmux_stream_update during LOCAL_DRAIN, and its timeout.                  *)
LEMMA UpdateDrainingStep ==
  ASSUME IndInv, NEW e \in Ends, UpdateDraining(e)
  PROVE  IndInv'
<1>1. TypeOK'
  <2>1. net' \subseteq Packets
    BY OutputPackets, PacketTypes, SMTT(30) DEF UpdateDraining, IndInv, TypeOK, Reasons
  <2>2. /\ state' \in [Ends -> States] /\ reason' \in [Ends -> Reasons]
        /\ told' \in [Ends -> Reasons \cup {"none"}]
    <3>1. CASE UNCHANGED <<state, reason, told>>
      BY <3>1 DEF IndInv, TypeOK
    <3>2. CASE reason' = [reason EXCEPT ![e] = "TIMEOUT"] /\ CloseInternal(e, "TIMEOUT")
      BY <3>2 DEF CloseInternal, IndInv, TypeOK, States, Reasons
    <3> QED
      BY <3>1, <3>2 DEF UpdateDraining
  <2> QED
    BY <2>1, <2>2 DEF UpdateDraining, IndInv, TypeOK, dataVars
<1>2. ASSUME NEW q \in net' PROVE PacketTrue(q)'
  <2>1. CASE q \in net
    BY <2>1 DEF UpdateDraining, IndInv, TypeOK, Packets, PacketTrue, AdvanceLocalClose, CloseInternal, dataVars
  <2>2. CASE q \in Output(e, sent[e])
    BY <2>2, OutputPackets, SMTT(30) DEF UpdateDraining, IndInv, TypeOK, PacketTrue, dataVars
  <2>3. CASE q = Control("CLOSE", e, "TIMEOUT")
    BY <2>3, PacketTypes, SMTT(30) DEF UpdateDraining, IndInv, TypeOK, PacketTrue, PhaseTrue, NothingToSend,
         AdvanceLocalClose, CloseInternal, Reasons, dataVars
  <2> QED
    BY <1>2, <2>1, <2>2, <2>3 DEF UpdateDraining
<1>3. ASSUME NEW d \in Ends PROVE KcpHonest(d)'
  <2>1. UNCHANGED dataVars
    BY DEF UpdateDraining
  <2> QED
    BY <2>1, KcpKept
<1>4. ASSUME NEW d \in Ends PROVE PhaseTrue(d)'
  <2>1. CASE d = e
    <3>1. UNCHANGED <<dataVars, mute, seen, phase, appClosed, cascaded>> /\ net \subseteq net' /\ state[e] # "ABSENT"
      BY DEF UpdateDraining
    <3>2. e = "B" => seen'[e]
      BY <3>1, SeenWhenThere
    <3>3. CASE UNCHANGED <<state, reason, told>>
      BY <2>1, <3>1, <3>3, PhaseKept
    <3>4. CASE CloseInternal(e, "TIMEOUT")
      <4>1. "TIMEOUT" \in Reasons /\ "TIMEOUT" # "NORMAL"
        BY DEF Reasons
      <4>2. state'[e] = "CLOSED" /\ told'[e] = IF mute[e] THEN told[e] ELSE "TIMEOUT"
        BY <3>4, <4>1, CloseInternalEffect DEF IndInv
      <4> QED
        BY <2>1, <3>1, <3>2, <4>1, <4>2, ClosedPhase
    <3> QED
      BY <3>3, <3>4 DEF UpdateDraining
  <2>2. CASE d = Other(e)
    <3>1. /\ state'[d] = state[d] /\ phase'[d] = phase[d] /\ reason'[d] = reason[d]
          /\ mute'[d] = mute[d] /\ seen'[d] = seen[d] /\ told'[d] = told[d]
          /\ appClosed'[d] = appClosed[d] /\ cascaded'[d] = cascaded[d]
      BY OtherEnd, <2>2, SMTT(30) DEF UpdateDraining, CloseInternal, IndInv, TypeOK, endVars
    <3>2. UNCHANGED dataVars /\ net \subseteq net' /\ (appClosed[e] => appClosed'[e])
      BY DEF UpdateDraining, IndInv, TypeOK, endVars
    <3>3. e = Other(d)
      BY <2>2, OtherEnd
    <3> QED
      BY <3>1, <3>2, <3>3, PhaseKept
  <2> QED
    BY OtherEnd, <2>1, <2>2
<1> QED
  BY <1>1, <1>2, <1>3, <1>4 DEF IndInv

(* kcpmux_stream_update in WAIT_ACK: the reason repeated is the one first sent.*)
LEMMA UpdateWaitAckStep ==
  ASSUME IndInv, NEW e \in Ends, UpdateWaitAck(e)
  PROVE  IndInv'
<1>1. TypeOK'
  <2>1. reason[e] \in Reasons
    BY DEF IndInv, TypeOK
  <2>2. net' \subseteq Packets
    <3>1. net' = net \/ net' = net \cup {Control("CLOSE", e, reason[e])}
      BY DEF UpdateWaitAck
    <3>2. Control("CLOSE", e, reason[e]) \in Packets
      BY <2>1, PacketTypes
    <3> QED
      BY <3>1, <3>2 DEF IndInv, TypeOK
  <2>3. state' \in [Ends -> States] /\ told' \in [Ends -> Reasons \cup {"none"}]
    BY <2>1 DEF UpdateWaitAck, CloseInternal, IndInv, TypeOK, States
  <2>4. retry[e] \in Nat /\ Retries \subseteq Nat
    BY ConstantsAssumption DEF IndInv, TypeOK
  <2>5. \/ \E max \in Retries : retry' = [retry EXCEPT ![e] = retry[e] + 1] /\ retry[e] + 1 <= max
        \/ retry' = retry
    <3>1. PICK max \in Retries :
            IF retry[e] < max
            THEN retry' = [retry EXCEPT ![e] = retry[e] + 1]
            ELSE retry' = retry
      BY DEF UpdateWaitAck
    <3> QED
      BY <2>4, <3>1, SMTT(30)
  <2>6. CASE retry' = retry
    BY <2>2, <2>3, <2>6, SMTT(30) DEF UpdateWaitAck, IndInv, TypeOK, dataVars
  <2>7. CASE \E max \in Retries : retry' = [retry EXCEPT ![e] = retry[e] + 1] /\ retry[e] + 1 <= max
    <3>1. PICK max \in Retries : retry' = [retry EXCEPT ![e] = retry[e] + 1] /\ retry[e] + 1 <= max
      BY <2>7
    <3>2. retry' \in [Ends -> Nat]
      BY <2>4, <3>1, SMTT(30) DEF IndInv, TypeOK
    <3>3. ASSUME NEW d \in Ends PROVE \E m \in Retries : retry'[d] <= m
      <4>1. CASE d = e
        BY <4>1, <3>1 DEF IndInv, TypeOK
      <4>2. CASE d # e
        BY <4>2, <3>1 DEF IndInv, TypeOK
      <4> QED
        BY <4>1, <4>2
    <3> QED
      BY <2>2, <2>3, <3>2, <3>3 DEF UpdateWaitAck, IndInv, TypeOK, dataVars
  <2> QED
    BY <2>5, <2>6, <2>7
<1>2. ASSUME NEW q \in net' PROVE PacketTrue(q)'
  <2>1. CASE q \in net
    <3>1. q.from \in Ends
      BY <2>1 DEF IndInv, TypeOK, Packets
    <3>2. \A d \in Ends : state[d] \in {"CLOSING", "CLOSED"} => state'[d] \in {"CLOSING", "CLOSED"}
      BY DEF UpdateWaitAck, CloseInternal, IndInv, TypeOK
    <3> QED
      BY <2>1, <3>1, <3>2 DEF UpdateWaitAck, IndInv, PacketTrue, dataVars
  <2>3. CASE q = Control("CLOSE", e, reason[e])
    BY <2>3, PacketTypes, SMTT(30) DEF UpdateWaitAck, IndInv, TypeOK, PacketTrue, PhaseTrue, NothingToSend,
         AdvanceLocalClose, CloseInternal, Reasons, dataVars
  <2> QED
    BY <1>2, <2>1, <2>3 DEF UpdateWaitAck
<1>3. ASSUME NEW d \in Ends PROVE KcpHonest(d)'
  <2>1. UNCHANGED dataVars
    BY DEF UpdateWaitAck
  <2> QED
    BY <2>1, KcpKept
<1>4. ASSUME NEW d \in Ends PROVE PhaseTrue(d)'
  <2>1. CASE d = e
    <3>1. UNCHANGED <<dataVars, mute, seen, phase, reason, appClosed, cascaded>> /\ net \subseteq net' /\ state[e] # "ABSENT"
      BY DEF UpdateWaitAck
    <3>2. e = "B" => seen'[e]
      BY <3>1, SeenWhenThere
    <3>3. CASE UNCHANGED <<state, told>>
      BY <2>1, <3>1, <3>3, PhaseKept
    <3>4. CASE CloseInternal(e, reason[e])
      <4>1. reason[e] \in Reasons
        BY DEF IndInv, TypeOK
      <4>2. state'[e] = "CLOSED" /\ told'[e] = IF mute[e] THEN told[e] ELSE reason[e]
        BY <3>4, <4>1, CloseInternalEffect DEF IndInv
      <4>3. ~mute[e] => appClosed[e] /\ 1..sent[e] \subseteq ackd[e]
        BY DEF UpdateWaitAck, IndInv, PhaseTrue
      <4>4. ackd[e] \subseteq rcv[Other(e)]
        BY DEF IndInv, KcpHonest
      <4> QED
        BY <2>1, <3>1, <3>2, <4>1, <4>2, <4>3, <4>4, ClosedPhase
    <3> QED
      BY <3>3, <3>4 DEF UpdateWaitAck
  <2>2. CASE d = Other(e)
    <3>1. /\ state'[d] = state[d] /\ phase'[d] = phase[d] /\ reason'[d] = reason[d]
          /\ mute'[d] = mute[d] /\ seen'[d] = seen[d] /\ told'[d] = told[d]
          /\ appClosed'[d] = appClosed[d] /\ cascaded'[d] = cascaded[d]
      BY OtherEnd, <2>2, SMTT(30) DEF UpdateWaitAck, CloseInternal, IndInv, TypeOK, endVars
    <3>2. UNCHANGED dataVars /\ net \subseteq net' /\ (appClosed[e] => appClosed'[e])
      BY DEF UpdateWaitAck, IndInv, TypeOK, endVars
    <3>3. e = Other(d)
      BY <2>2, OtherEnd
    <3> QED
      BY <3>1, <3>2, <3>3, PhaseKept
  <2> QED
    BY OtherEnd, <2>1, <2>2
<1> QED
  BY <1>1, <1>2, <1>3, <1>4 DEF IndInv

(* kcpmux_stream_update when the receive drain has timed out.                 *)
LEMMA UpdateRemoteDrainStep ==
  ASSUME IndInv, NEW e \in Ends, UpdateRemoteDrain(e)
  PROVE  IndInv'
<1>0. /\ state' \in [Ends -> States] /\ told' \in [Ends -> Reasons \cup {"none"}]
      /\ state'[e] = "CLOSED"
      /\ told'[e] = IF mute[e] THEN told[e] ELSE "TIMEOUT"
      /\ \A d \in Ends : d # e => state'[d] = state[d] /\ told'[d] = told[d]
  <2>1. "TIMEOUT" \in Reasons
    BY DEF IndInv, TypeOK, Reasons
  <2>2. CloseInternal(e, "TIMEOUT")
    BY DEF UpdateRemoteDrain
  <2> QED
    BY <2>1, <2>2, CloseInternalEffect DEF IndInv
<1>1. TypeOK'
  BY <1>0 DEF UpdateRemoteDrain, IndInv, TypeOK, dataVars
<1>2. ASSUME NEW q \in net' PROVE PacketTrue(q)'
  <2>1. UNCHANGED <<dataVars, net>>
    BY DEF UpdateRemoteDrain
  <2>2. \A d \in Ends : state[d] \in {"CLOSING", "CLOSED"} => state'[d] \in {"CLOSING", "CLOSED"}
    BY <1>0
  <2>3. \A d \in Ends : appClosed[d] => appClosed'[d]
    BY DEF UpdateRemoteDrain, IndInv, TypeOK
  <2> QED
    BY <1>2, <2>1, <2>2, <2>3, PacketKept
<1>3. ASSUME NEW d \in Ends PROVE KcpHonest(d)'
  <2>1. UNCHANGED dataVars
    BY DEF UpdateRemoteDrain
  <2> QED
    BY <2>1, KcpKept
<1>4. ASSUME NEW d \in Ends PROVE PhaseTrue(d)'
  <2>1. CASE d = e
    <3>1. UNCHANGED <<dataVars, mute, seen>> /\ net \subseteq net' /\ state[e] # "ABSENT"
      BY DEF UpdateRemoteDrain
    <3>2. e = "B" => seen'[e]
      BY <3>1, SeenWhenThere
    <3>3. "TIMEOUT" \in Reasons
      BY DEF Reasons
    <3>4. "TIMEOUT" = "NORMAL" /\ ~mute[e] /\ ~cascaded'[e]
            => /\ ~appClosed'[e] => PeerSaidNormal(e) /\ Len(log[e]) = sent[Other(e)]
               /\ ~appClosed'[Other(e)] => 1..sent[e] \subseteq rcv[Other(e)]
      OBVIOUS
    <3> QED
      BY <1>0, <2>1, <3>1, <3>2, <3>3, <3>4, ClosedPhase
  <2>2. CASE d = Other(e)
    <3>1. /\ state'[d] = state[d] /\ phase'[d] = phase[d] /\ reason'[d] = reason[d]
          /\ mute'[d] = mute[d] /\ seen'[d] = seen[d] /\ told'[d] = told[d]
          /\ appClosed'[d] = appClosed[d] /\ cascaded'[d] = cascaded[d]
      BY <1>0, OtherEnd, <2>2 DEF UpdateRemoteDrain, IndInv, TypeOK, endVars
    <3>2. UNCHANGED dataVars /\ net \subseteq net' /\ (appClosed[e] => appClosed'[e])
      BY DEF UpdateRemoteDrain, IndInv, TypeOK, endVars
    <3>3. e = Other(d)
      BY <2>2, OtherEnd
    <3> QED
      BY <3>1, <3>2, <3>3, PhaseKept
  <2> QED
    BY OtherEnd, <2>1, <2>2
<1> QED
  BY <1>1, <1>2, <1>3, <1>4 DEF IndInv

(* kcpmux_stream_update in FINALIZE.                                          *)
LEMMA UpdateFinalizeStep ==
  ASSUME IndInv, NEW e \in Ends, UpdateFinalize(e)
  PROVE  IndInv'
<1>0. /\ state' \in [Ends -> States] /\ told' \in [Ends -> Reasons \cup {"none"}]
      /\ state'[e] = "CLOSED"
      /\ told'[e] = IF mute[e] THEN told[e] ELSE reason[e]
      /\ \A d \in Ends : d # e => state'[d] = state[d] /\ told'[d] = told[d]
  <2>1. reason[e] \in Reasons
    BY DEF IndInv, TypeOK, Reasons
  <2>2. CloseInternal(e, reason[e])
    BY DEF UpdateFinalize
  <2> QED
    BY <2>1, <2>2, CloseInternalEffect DEF IndInv
<1>1. TypeOK'
  BY <1>0 DEF UpdateFinalize, IndInv, TypeOK, dataVars
<1>2. ASSUME NEW q \in net' PROVE PacketTrue(q)'
  <2>1. UNCHANGED <<dataVars, net>>
    BY DEF UpdateFinalize
  <2>2. \A d \in Ends : state[d] \in {"CLOSING", "CLOSED"} => state'[d] \in {"CLOSING", "CLOSED"}
    BY <1>0
  <2>3. \A d \in Ends : appClosed[d] => appClosed'[d]
    BY DEF UpdateFinalize, IndInv, TypeOK
  <2> QED
    BY <1>2, <2>1, <2>2, <2>3, PacketKept
<1>3. ASSUME NEW d \in Ends PROVE KcpHonest(d)'
  <2>1. UNCHANGED dataVars
    BY DEF UpdateFinalize
  <2> QED
    BY <2>1, KcpKept
<1>4. ASSUME NEW d \in Ends PROVE PhaseTrue(d)'
  <2>1. CASE d = e
    <3>1. UNCHANGED <<dataVars, mute, seen>> /\ net \subseteq net' /\ state[e] # "ABSENT"
      BY DEF UpdateFinalize
    <3>2. e = "B" => seen'[e]
      BY <3>1, SeenWhenThere
    <3>3. reason[e] \in Reasons
      BY DEF IndInv, TypeOK
    <3>4. reason[e] = "NORMAL" /\ ~mute[e] /\ ~cascaded'[e]
            => /\ ~appClosed'[e] => PeerSaidNormal(e) /\ Len(log[e]) = sent[Other(e)]
               /\ ~appClosed'[Other(e)] => 1..sent[e] \subseteq rcv[Other(e)]
      <4>1. PeerSaidNormal(e) /\ (appClosed[e] \/ mute[e] \/ Len(log[e]) = sent[Other(e)])
        BY DEF UpdateFinalize, IndInv, PhaseTrue
      <4>2. appClosed[Other(e)]
        BY <4>1, PeerSaid
      <4>3. appClosed' = appClosed
        BY DEF UpdateFinalize
      <4> QED
        BY <4>1, <4>2, <4>3
    <3> QED
      BY <1>0, <2>1, <3>1, <3>2, <3>3, <3>4, ClosedPhase
  <2>2. CASE d = Other(e)
    <3>1. /\ state'[d] = state[d] /\ phase'[d] = phase[d] /\ reason'[d] = reason[d]
          /\ mute'[d] = mute[d] /\ seen'[d] = seen[d] /\ told'[d] = told[d]
          /\ appClosed'[d] = appClosed[d] /\ cascaded'[d] = cascaded[d]
      BY <1>0, OtherEnd, <2>2 DEF UpdateFinalize, IndInv, TypeOK, endVars
    <3>2. UNCHANGED dataVars /\ net \subseteq net' /\ (appClosed[e] => appClosed'[e])
      BY DEF UpdateFinalize, IndInv, TypeOK, endVars
    <3>3. e = Other(d)
      BY <2>2, OtherEnd
    <3> QED
      BY <3>1, <3>2, <3>3, PhaseKept
  <2> QED
    BY OtherEnd, <2>1, <2>2
<1> QED
  BY <1>1, <1>2, <1>3, <1>4 DEF IndInv

(* The connection starts closing: no stream changes.                          *)
LEMMA ConnCloseStartStep ==
  ASSUME IndInv, NEW e \in Ends, ConnCloseStart(e)
  PROVE  IndInv'
<1>1. TypeOK'
  BY PacketTypes, ConstantsAssumption DEF ConnCloseStart, IndInv, TypeOK, States, Phases, Reasons, endVars, dataVars
<1>2. ASSUME NEW q \in net' PROVE PacketTrue(q)'
  BY DEF ConnCloseStart, IndInv, TypeOK, PacketTrue, Packets, dataVars
<1>3. ASSUME NEW d \in Ends PROVE KcpHonest(d)'
  <2>1. UNCHANGED dataVars
    BY DEF ConnCloseStart
  <2> QED
    BY <2>1, KcpKept
<1>4. ASSUME NEW d \in Ends PROVE PhaseTrue(d)'
  <2>1. CASE d = e
    <3>1. UNCHANGED <<state, phase, reason, mute, seen, told, appClosed, cascaded, dataVars, net>>
      BY DEF ConnCloseStart
    <3> QED
      BY <2>1, <3>1, PhaseKept
  <2>2. CASE d = Other(e)
    <3>1. /\ state'[d] = state[d] /\ phase'[d] = phase[d] /\ reason'[d] = reason[d]
          /\ mute'[d] = mute[d] /\ seen'[d] = seen[d] /\ told'[d] = told[d]
          /\ appClosed'[d] = appClosed[d] /\ cascaded'[d] = cascaded[d]
      BY OtherEnd, <2>2 DEF ConnCloseStart, IndInv, TypeOK, endVars
    <3>2. UNCHANGED dataVars /\ net \subseteq net' /\ (appClosed[e] => appClosed'[e])
      BY DEF ConnCloseStart, IndInv, TypeOK, endVars
    <3>3. e = Other(d)
      BY <2>2, OtherEnd
    <3> QED
      BY <3>1, <3>2, <3>3, PhaseKept
  <2> QED
    BY OtherEnd, <2>1, <2>2
<1> QED
  BY <1>1, <1>2, <1>3, <1>4 DEF IndInv

(* kcpmux_conn_close_internal takes the stream along.                         *)
LEMMA ConnEndsStep ==
  ASSUME IndInv, NEW e \in Ends, ConnEnds(e)
  PROVE  IndInv'
<1>1. TypeOK'
  <2>1. /\ state' \in [Ends -> States] /\ cascaded' \in [Ends -> BOOLEAN]
        /\ told' \in [Ends -> Reasons \cup {"none"}]
    <3>1. CASE state[e] \in {"OPEN", "CLOSING"}
      <4>1. PICK r \in Reasons : CloseInternal(e, r)
        BY <3>1 DEF ConnEnds
      <4>2. state' \in [Ends -> States] /\ told' \in [Ends -> Reasons \cup {"none"}]
        BY <4>1 DEF CloseInternal, IndInv, TypeOK, States
      <4>3. cascaded' = [cascaded EXCEPT ![e] = TRUE]
        BY <3>1 DEF ConnEnds
      <4> QED
        BY <4>2, <4>3 DEF IndInv, TypeOK
    <3>2. CASE state[e] \notin {"OPEN", "CLOSING"}
      BY <3>2 DEF ConnEnds, IndInv, TypeOK
    <3> QED
      BY <3>1, <3>2
  <2>2. conn' \in [Ends -> {"CONNECTED", "CLOSING", "CLOSED"}]
    BY DEF ConnEnds, IndInv, TypeOK
  <2> QED
    BY <2>1, <2>2 DEF ConnEnds, IndInv, TypeOK, dataVars
<1>2. ASSUME NEW q \in net' PROVE PacketTrue(q)'
  BY SMTT(30) DEF ConnEnds, CloseInternal, IndInv, TypeOK, PacketTrue, Packets, dataVars
<1>3. ASSUME NEW d \in Ends PROVE KcpHonest(d)'
  <2>1. UNCHANGED dataVars
    BY DEF ConnEnds
  <2> QED
    BY <2>1, KcpKept
<1>4. ASSUME NEW d \in Ends PROVE PhaseTrue(d)'
  <2>1. CASE d = e
    <3>1. UNCHANGED <<dataVars, net, mute, seen, phase, reason, appClosed>>
      BY DEF ConnEnds
    <3>2. CASE state[e] \notin {"OPEN", "CLOSING"}
      <4>1. UNCHANGED <<state, told, cascaded>>
        BY <3>2 DEF ConnEnds
      <4> QED
        BY <2>1, <3>1, <4>1, PhaseKept
    <3>3. CASE state[e] \in {"OPEN", "CLOSING"}
      <4>1. PICK r \in Reasons : CloseInternal(e, r)
        BY <3>3 DEF ConnEnds
      <4>2. state'[e] = "CLOSED" /\ told'[e] = IF mute[e] THEN told[e] ELSE r
        BY <4>1, CloseInternalEffect DEF IndInv
      <4>3. cascaded'[e]
        BY <3>3 DEF ConnEnds, IndInv, TypeOK
      <4>4. e = "B" => seen'[e]
        BY <3>1, <3>3, SeenWhenThere
      <4> QED
        BY <2>1, <3>1, <4>1, <4>2, <4>3, <4>4, ClosedPhase
    <3> QED
      BY <3>2, <3>3
  <2>2. CASE d = Other(e)
    <3>1. /\ state'[d] = state[d] /\ phase'[d] = phase[d] /\ reason'[d] = reason[d]
          /\ mute'[d] = mute[d] /\ seen'[d] = seen[d] /\ told'[d] = told[d]
          /\ appClosed'[d] = appClosed[d] /\ cascaded'[d] = cascaded[d]
      BY OtherEnd, <2>2, SMTT(30) DEF ConnEnds, CloseInternal, IndInv, TypeOK, endVars
    <3>2. UNCHANGED dataVars /\ net \subseteq net' /\ (appClosed[e] => appClosed'[e])
      BY DEF ConnEnds, IndInv, TypeOK, endVars
    <3>3. e = Other(d)
      BY <2>2, OtherEnd
    <3> QED
      BY <3>1, <3>2, <3>3, PhaseKept
  <2> QED
    BY OtherEnd, <2>1, <2>2
<1> QED
  BY <1>1, <1>2, <1>3, <1>4 DEF IndInv

-----------------------------------------------------------------------------
(* Steps that receive a packet                                                *)


(* kcpmux_stream_handle_payload: what arrives was sent, what is acknowledged is stored.*)
LEMMA ReceivePayloadStep ==
  ASSUME IndInv, NEW e \in Ends, NEW p \in Arriving(e, "PAYLOAD"), ReceivePayload(e, p)
  PROVE  IndInv'
<1>1. TypeOK'
  <2>1. Stored(p) \subseteq Nat /\ p.acks \subseteq Nat
    BY DEF Stored, Arriving, IndInv, TypeOK, Packets
  <2>2. rcv' \in [Ends -> SUBSET Nat] /\ ackd' \in [Ends -> SUBSET Nat]
    BY <2>1 DEF ReceivePayload, IndInv, TypeOK
  <2> QED
    BY <2>2 DEF ReceivePayload, IndInv, TypeOK, endVars
<1>2. ASSUME NEW q \in net' PROVE PacketTrue(q)'
  BY PacketTypes, SMTT(30) DEF ReceivePayload, KcpActive, Stored, Arriving, IndInv, TypeOK, PacketTrue, Packets, endVars, dataVars
<1>3. ASSUME NEW d \in Ends PROVE KcpHonest(d)'
  BY OtherEnd, PacketTypes, SMTT(30) DEF ReceivePayload, KcpActive, Stored, Arriving, IndInv, TypeOK, PacketTrue, KcpHonest, PhaseTrue, Packets, endVars, dataVars
<1>4. ASSUME NEW d \in Ends PROVE PhaseTrue(d)'
  BY OtherEnd, PacketTypes, SMTT(30) DEF ReceivePayload, KcpActive, Stored, Arriving, IndInv, TypeOK, PacketTrue, KcpHonest, PhaseTrue, PeerSaidNormal, Packets, endVars, dataVars
<1> QED
  BY <1>1, <1>2, <1>3, <1>4 DEF IndInv

(* The first payload of a new id makes a stream; before it the end knows nothing.*)
LEMMA AcceptStep ==
  ASSUME IndInv, NEW e \in Ends, NEW p \in Arriving(e, "PAYLOAD"), Accept(e, p)
  PROVE  IndInv'
<1>1. TypeOK'
  <2>1. Stored(p) \subseteq Nat /\ p.acks \subseteq Nat
    BY DEF Stored, Arriving, IndInv, TypeOK, Packets
  <2>2. rcv' \in [Ends -> SUBSET Nat] /\ ackd' \in [Ends -> SUBSET Nat] /\ taken' \in [Ends -> Nat]
    BY <2>1 DEF Accept, IndInv, TypeOK
  <2>3. state' \in [Ends -> States] /\ seen' \in [Ends -> BOOLEAN]
    BY DEF Accept, IndInv, TypeOK, States
  <2> QED
    BY <2>2, <2>3 DEF Accept, IndInv, TypeOK
<1>2. ASSUME NEW q \in net' PROVE PacketTrue(q)'
  BY PacketTypes, SMTT(30) DEF Accept, Stored, Arriving, IndInv, TypeOK, PacketTrue, PhaseTrue, Packets, endVars, dataVars
<1>3. ASSUME NEW d \in Ends PROVE KcpHonest(d)'
  BY OtherEnd, PacketTypes, SMTT(30) DEF Accept, Stored, Arriving, IndInv, TypeOK, PacketTrue, KcpHonest, PhaseTrue, Packets, endVars, dataVars
<1>4. ASSUME NEW d \in Ends PROVE PhaseTrue(d)'
  BY OtherEnd, PacketTypes, SMTT(30) DEF Accept, Stored, Arriving, IndInv, TypeOK, PacketTrue, KcpHonest, PhaseTrue, PeerSaidNormal, Packets, endVars, dataVars
<1> QED
  BY <1>1, <1>2, <1>3, <1>4 DEF IndInv

(* The first payload of a new id, refused by stream_create_notify.            *)
LEMMA RejectStep ==
  ASSUME IndInv, NEW e \in Ends, NEW p \in Arriving(e, "PAYLOAD"), Reject(e, p)
  PROVE  IndInv'
<1>1. TypeOK'
  BY PacketTypes, ConstantsAssumption, SMTT(30) DEF Reject, Arriving, IndInv, TypeOK, States, Phases, Reasons, endVars, dataVars
<1>2. ASSUME NEW q \in net' PROVE PacketTrue(q)'
  <2>1. CASE q \in net
    BY <2>1 DEF Reject, IndInv, TypeOK, Packets, PacketTrue, AdvanceLocalClose, CloseInternal, dataVars
  <2>3. CASE q = Control("CLOSE", e, "REJECTED")
    BY <2>3, PacketTypes, SMTT(30) DEF Reject, IndInv, TypeOK, PacketTrue, PhaseTrue, NothingToSend,
         AdvanceLocalClose, CloseInternal, Reasons, dataVars
  <2> QED
    BY <1>2, <2>1, <2>3 DEF Reject
<1>3. ASSUME NEW d \in Ends PROVE KcpHonest(d)'
  <2>1. UNCHANGED dataVars
    BY DEF Reject
  <2> QED
    BY <2>1, KcpKept
<1>4. ASSUME NEW d \in Ends PROVE PhaseTrue(d)'
  <2>1. CASE d = e
    BY OtherEnd, <2>1, PacketTypes, SMTT(30) DEF Reject, IndInv, TypeOK, PacketTrue, KcpHonest, PhaseTrue, PeerSaidNormal, endVars, dataVars
  <2>2. CASE d = Other(e)
    <3>1. /\ state'[d] = state[d] /\ phase'[d] = phase[d] /\ reason'[d] = reason[d]
          /\ mute'[d] = mute[d] /\ seen'[d] = seen[d] /\ told'[d] = told[d]
          /\ appClosed'[d] = appClosed[d] /\ cascaded'[d] = cascaded[d]
      BY OtherEnd, <2>2 DEF Reject, IndInv, TypeOK, endVars
    <3>2. UNCHANGED dataVars /\ net \subseteq net' /\ (appClosed[e] => appClosed'[e])
      BY DEF Reject, IndInv, TypeOK, endVars
    <3>3. e = Other(d)
      BY <2>2, OtherEnd
    <3> QED
      BY <3>1, <3>2, <3>3, PhaseKept
  <2> QED
    BY OtherEnd, <2>1, <2>2
<1> QED
  BY <1>1, <1>2, <1>3, <1>4 DEF IndInv

(* The first payload of a new id, refused by KCP.                             *)
LEMMA AcceptFailsStep ==
  ASSUME IndInv, NEW e \in Ends, NEW p \in Arriving(e, "PAYLOAD"), AcceptFails(e, p)
  PROVE  IndInv'
<1>0. /\ state' \in [Ends -> States] /\ told' \in [Ends -> Reasons \cup {"none"}]
      /\ state'[e] = "CLOSED"
      /\ told'[e] = IF mute[e] THEN told[e] ELSE "ERROR"
      /\ \A d \in Ends : d # e => state'[d] = state[d] /\ told'[d] = told[d]
  <2>1. "ERROR" \in Reasons
    BY DEF IndInv, TypeOK, Reasons
  <2>2. CloseInternal(e, "ERROR")
    BY DEF AcceptFails
  <2> QED
    BY <2>1, <2>2, CloseInternalEffect DEF IndInv
<1>1. TypeOK'
  BY <1>0 DEF AcceptFails, IndInv, TypeOK, dataVars
<1>2. ASSUME NEW q \in net' PROVE PacketTrue(q)'
  <2>1. UNCHANGED <<dataVars, net>>
    BY DEF AcceptFails
  <2>2. \A d \in Ends : state[d] \in {"CLOSING", "CLOSED"} => state'[d] \in {"CLOSING", "CLOSED"}
    BY <1>0
  <2>3. \A d \in Ends : appClosed[d] => appClosed'[d]
    BY DEF AcceptFails, IndInv, TypeOK
  <2> QED
    BY <1>2, <2>1, <2>2, <2>3, PacketKept
<1>3. ASSUME NEW d \in Ends PROVE KcpHonest(d)'
  <2>1. UNCHANGED dataVars
    BY DEF AcceptFails
  <2> QED
    BY <2>1, KcpKept
<1>4. ASSUME NEW d \in Ends PROVE PhaseTrue(d)'
  <2>1. CASE d = e
    <3>1. UNCHANGED <<dataVars, mute>> /\ net \subseteq net' /\ seen'[e]
      BY DEF AcceptFails, IndInv, TypeOK
    <3>2. "ERROR" \in Reasons /\ "ERROR" # "NORMAL"
      BY DEF Reasons
    <3> QED
      BY <1>0, <2>1, <3>1, <3>2, ClosedPhase
  <2>2. CASE d = Other(e)
    <3>1. /\ state'[d] = state[d] /\ phase'[d] = phase[d] /\ reason'[d] = reason[d]
          /\ mute'[d] = mute[d] /\ seen'[d] = seen[d] /\ told'[d] = told[d]
          /\ appClosed'[d] = appClosed[d] /\ cascaded'[d] = cascaded[d]
      BY <1>0, OtherEnd, <2>2 DEF AcceptFails, IndInv, TypeOK, endVars
    <3>2. UNCHANGED dataVars /\ net \subseteq net' /\ (appClosed[e] => appClosed'[e])
      BY DEF AcceptFails, IndInv, TypeOK, endVars
    <3>3. e = Other(d)
      BY <2>2, OtherEnd
    <3> QED
      BY <3>1, <3>2, <3>3, PhaseKept
  <2> QED
    BY OtherEnd, <2>1, <2>2
<1> QED
  BY <1>1, <1>2, <1>3, <1>4 DEF IndInv

(* kcpmux_stream_handle_close with a reason other than NORMAL.                *)
LEMMA ReceiveAbortStep ==
  ASSUME IndInv, NEW e \in Ends, NEW p \in Arriving(e, "CLOSE"), ReceiveAbort(e, p)
  PROVE  IndInv'
<1>0. /\ state' \in [Ends -> States] /\ told' \in [Ends -> Reasons \cup {"none"}]
      /\ state'[e] = "CLOSED"
      /\ told'[e] = IF mute[e] THEN told[e] ELSE p.reason
      /\ \A d \in Ends : d # e => state'[d] = state[d] /\ told'[d] = told[d]
  <2>1. p.reason \in Reasons
    BY DEF Arriving, Packets, IndInv, TypeOK, Reasons
  <2>2. CloseInternal(e, p.reason)
    BY DEF ReceiveAbort
  <2> QED
    BY <2>1, <2>2, CloseInternalEffect DEF IndInv
<1>1. TypeOK'
  <2>1. p.reason \in Reasons
    BY DEF Arriving, IndInv, TypeOK, Packets
  <2>2. net' \subseteq Packets
    <3>1. Control("CLOSE_ACK", e, p.reason) \in Packets /\ net \subseteq Packets
      BY <2>1, PacketTypes DEF IndInv, TypeOK
    <3> QED
      BY <3>1 DEF ReceiveAbort
  <2>3. state' \in [Ends -> States] /\ told' \in [Ends -> Reasons \cup {"none"}]
    BY <1>0, <2>1 DEF ReceiveAbort, IndInv, TypeOK, States
  <2> QED
    BY <2>2, <2>3 DEF ReceiveAbort, IndInv, TypeOK, dataVars
<1>2. ASSUME NEW q \in net' PROVE PacketTrue(q)'
  <2>1. CASE q \in net
    <3>1. q.from \in Ends
      BY <2>1 DEF IndInv, TypeOK, Packets
    <3>2. \A d \in Ends : state[d] \in {"CLOSING", "CLOSED"} => state'[d] \in {"CLOSING", "CLOSED"}
      BY <1>0 DEF ReceiveAbort, IndInv, TypeOK
    <3> QED
      BY <2>1, <3>1, <3>2 DEF ReceiveAbort, IndInv, PacketTrue, dataVars
  <2>2. CASE q = Control("CLOSE_ACK", e, p.reason)
    <3>1. q.type = "CLOSE_ACK"
      BY <2>2 DEF Control
    <3> QED
      BY <3>1 DEF PacketTrue
  <2> QED
    BY <1>2, <2>1, <2>2 DEF ReceiveAbort
<1>3. ASSUME NEW d \in Ends PROVE KcpHonest(d)'
  <2>1. UNCHANGED dataVars
    BY DEF ReceiveAbort
  <2> QED
    BY <2>1, KcpKept
<1>4. ASSUME NEW d \in Ends PROVE PhaseTrue(d)'
  <2>1. CASE d = e
    <3>1. UNCHANGED <<dataVars, mute, seen>> /\ net \subseteq net' /\ state[e] # "ABSENT"
      BY DEF ReceiveAbort, Known
    <3>2. e = "B" => seen'[e]
      BY <3>1, SeenWhenThere
    <3>3. p.reason \in Reasons
      BY DEF Arriving, Packets, IndInv, TypeOK
    <3>4. p.reason = "NORMAL" /\ ~mute[e] /\ ~cascaded'[e]
            => /\ ~appClosed'[e] => PeerSaidNormal(e) /\ Len(log[e]) = sent[Other(e)]
               /\ ~appClosed'[Other(e)] => 1..sent[e] \subseteq rcv[Other(e)]
      BY DEF ReceiveAbort
    <3> QED
      BY <1>0, <2>1, <3>1, <3>2, <3>3, <3>4, ClosedPhase
  <2>2. CASE d = Other(e)
    <3>1. /\ state'[d] = state[d] /\ phase'[d] = phase[d] /\ reason'[d] = reason[d]
          /\ mute'[d] = mute[d] /\ seen'[d] = seen[d] /\ told'[d] = told[d]
          /\ appClosed'[d] = appClosed[d] /\ cascaded'[d] = cascaded[d]
      BY <1>0, OtherEnd, <2>2 DEF ReceiveAbort, IndInv, TypeOK, endVars
    <3>2. UNCHANGED dataVars /\ net \subseteq net' /\ (appClosed[e] => appClosed'[e])
      BY DEF ReceiveAbort, IndInv, TypeOK, endVars
    <3>3. e = Other(d)
      BY <2>2, OtherEnd
    <3> QED
      BY <3>1, <3>2, <3>3, PhaseKept
  <2> QED
    BY OtherEnd, <2>1, <2>2
<1> QED
  BY <1>1, <1>2, <1>3, <1>4 DEF IndInv

(* kcpmux_stream_handle_close of an open stream: nothing readable means everything read.*)
LEMMA ReceiveCloseStep ==
  ASSUME IndInv, NEW e \in Ends, NEW p \in Arriving(e, "CLOSE"), ReceiveClose(e, p)
  PROVE  IndInv'
<1>1. TypeOK'
  <2>1. net' \subseteq Packets
    <3>1. Control("CLOSE_ACK", e, "NORMAL") \in Packets /\ net \subseteq Packets
      BY PacketTypes DEF IndInv, TypeOK, Reasons
    <3> QED
      BY <3>1 DEF ReceiveClose
  <2>2. /\ state' \in [Ends -> States] /\ phase' \in [Ends -> Phases]
        /\ reason' \in [Ends -> Reasons]
    BY DEF ReceiveClose, EnterPhase, IndInv, TypeOK, States, Phases, Reasons
  <2> QED
    BY <2>1, <2>2 DEF ReceiveClose, IndInv, TypeOK, dataVars
<1>2. ASSUME NEW q \in net' PROVE PacketTrue(q)'
  <2>1. CASE q \in net
    <3>1. q.from \in Ends
      BY <2>1 DEF IndInv, TypeOK, Packets
    <3>2. \A d \in Ends : state[d] \in {"CLOSING", "CLOSED"} => state'[d] \in {"CLOSING", "CLOSED"}
      BY DEF ReceiveClose, EnterPhase, IndInv, TypeOK
    <3> QED
      BY <2>1, <3>1, <3>2 DEF ReceiveClose, IndInv, PacketTrue, dataVars
  <2>2. CASE q = Control("CLOSE_ACK", e, "NORMAL")
    <3>1. q.type = "CLOSE_ACK"
      BY <2>2 DEF Control
    <3> QED
      BY <3>1 DEF PacketTrue
  <2> QED
    BY <1>2, <2>1, <2>2 DEF ReceiveClose
<1>3. ASSUME NEW d \in Ends PROVE KcpHonest(d)'
  <2>1. UNCHANGED dataVars
    BY DEF ReceiveClose
  <2> QED
    BY <2>1, KcpKept
<1>4. ASSUME NEW d \in Ends PROVE PhaseTrue(d)'
  <2>1. CASE d = e
    <3>1. PeerSaidNormal(e) /\ PeerSaidNormal(e)'
      BY OtherEnd, PacketTypes, SMTT(30) DEF ReceiveClose, Arriving, PeerSaidNormal, IndInv, TypeOK, PacketTrue, Packets
    <3>2. /\ state'[e] = "CLOSING" /\ phase'[e] \in {"REMOTE_DRAIN", "FINALIZE"}
          /\ reason'[e] = "NORMAL"
          /\ phase'[e] = "FINALIZE" => ~Readable(e)
      BY DEF ReceiveClose, EnterPhase, IndInv, TypeOK
    <3>3. ASSUME ~Readable(e) PROVE Len(log[e]) = sent[Other(e)]
      <4>1. 1..sent[Other(e)] \subseteq rcv[e] /\ rcv[e] \subseteq 1..sent[Other(e)] /\ 1..Len(log[e]) \subseteq rcv[e]
        BY <3>1, PeerSaid DEF IndInv, KcpHonest
      <4>2. Len(log[e]) \in Nat /\ sent[Other(e)] \in Nat /\ Len(log[e]) + 1 \notin rcv[e]
        BY OtherEnd, <3>3, SMTT(30) DEF Readable, IndInv, TypeOK, KcpHonest
      <4>3. ~(Len(log[e]) + 1 <= sent[Other(e)])
        BY OtherEnd, <4>1, <4>2, SMTT(30)
      <4>4. Len(log[e]) <= sent[Other(e)]
        <5>1. CASE Len(log[e]) = 0
          BY OtherEnd, <5>1, <4>2, SMTT(30)
        <5>2. CASE Len(log[e]) \in 1..Len(log[e])
          BY OtherEnd, <5>2, <4>1, <4>2, SMTT(30)
        <5> QED
          BY OtherEnd, <5>1, <5>2, <4>2, SMTT(30)
      <4> QED
        BY OtherEnd, <4>2, <4>3, <4>4, SMTT(30)
    <3>4. state[e] = "OPEN" /\ told[e] = "none" /\ ~mute[e]
      BY DEF ReceiveClose, IndInv, PhaseTrue
    <3> QED
      BY OtherEnd, <2>1, <3>1, <3>2, <3>3, <3>4 DEF ReceiveClose, IndInv, PhaseTrue, dataVars
  <2>2. CASE d = Other(e)
    <3>1. /\ state'[d] = state[d] /\ phase'[d] = phase[d] /\ reason'[d] = reason[d]
          /\ mute'[d] = mute[d] /\ seen'[d] = seen[d] /\ told'[d] = told[d]
          /\ appClosed'[d] = appClosed[d] /\ cascaded'[d] = cascaded[d]
      BY OtherEnd, <2>2 DEF ReceiveClose, EnterPhase, IndInv, TypeOK, endVars
    <3>2. UNCHANGED dataVars /\ net \subseteq net' /\ (appClosed[e] => appClosed'[e])
      BY DEF ReceiveClose, IndInv, TypeOK, endVars
    <3>3. e = Other(d)
      BY <2>2, OtherEnd
    <3> QED
      BY <3>1, <3>2, <3>3, PhaseKept
  <2> QED
    BY OtherEnd, <2>1, <2>2
<1> QED
  BY <1>1, <1>2, <1>3, <1>4 DEF IndInv

(* kcpmux_stream_handle_close of a closing stream.                            *)
LEMMA ReceiveCloseAgainStep ==
  ASSUME IndInv, NEW e \in Ends, NEW p \in Arriving(e, "CLOSE"), ReceiveCloseAgain(e, p)
  PROVE  IndInv'
<1>1. TypeOK'
  <2>1. net' \subseteq Packets
    <3>1. Control("CLOSE_ACK", e, "NORMAL") \in Packets /\ net \subseteq Packets
      BY PacketTypes DEF IndInv, TypeOK, Reasons
    <3> QED
      BY <3>1 DEF ReceiveCloseAgain
  <2>2. /\ state' \in [Ends -> States] /\ phase' \in [Ends -> Phases]
        /\ reason' \in [Ends -> Reasons]
    <3>1. CASE EnterPhase(e, "FINALIZE", "NORMAL")
      BY <3>1 DEF EnterPhase, IndInv, TypeOK, States, Phases, Reasons
    <3>2. CASE UNCHANGED <<state, phase, reason>>
      BY <3>2 DEF IndInv, TypeOK
    <3> QED
      BY <3>1, <3>2 DEF ReceiveCloseAgain
  <2> QED
    BY <2>1, <2>2, SMTT(30) DEF ReceiveCloseAgain, IndInv, TypeOK, dataVars
<1>2. ASSUME NEW q \in net' PROVE PacketTrue(q)'
  <2>1. CASE q \in net
    <3>1. q.from \in Ends
      BY <2>1 DEF IndInv, TypeOK, Packets
    <3>2. \A d \in Ends : state[d] \in {"CLOSING", "CLOSED"} => state'[d] \in {"CLOSING", "CLOSED"}
      BY SMTT(30) DEF ReceiveCloseAgain, EnterPhase, IndInv, TypeOK
    <3> QED
      BY <2>1, <3>1, <3>2 DEF ReceiveCloseAgain, IndInv, PacketTrue, dataVars
  <2>2. CASE q = Control("CLOSE_ACK", e, "NORMAL")
    <3>1. q.type = "CLOSE_ACK"
      BY <2>2 DEF Control
    <3> QED
      BY <3>1 DEF PacketTrue
  <2> QED
    BY <1>2, <2>1, <2>2 DEF ReceiveCloseAgain
<1>3. ASSUME NEW d \in Ends PROVE KcpHonest(d)'
  <2>1. UNCHANGED dataVars
    BY DEF ReceiveCloseAgain
  <2> QED
    BY <2>1, KcpKept
<1>4. ASSUME NEW d \in Ends PROVE PhaseTrue(d)'
  <2>1. CASE d = e
    <3>1. PeerSaidNormal(e) /\ PeerSaidNormal(e)'
      BY OtherEnd, PacketTypes, SMTT(30) DEF ReceiveCloseAgain, Arriving, PeerSaidNormal, IndInv, TypeOK, PacketTrue, Packets
    <3>2. CASE phase[e] \in {"LOCAL_DRAIN", "WAIT_ACK"}
      <4>1. state'[e] = "CLOSING" /\ phase'[e] = "FINALIZE" /\ reason'[e] = "NORMAL"
        BY OtherEnd, <3>2, SMTT(30) DEF ReceiveCloseAgain, EnterPhase, IndInv, TypeOK
      <4>2. state[e] = "CLOSING" /\ told[e] = "none" /\ (appClosed[e] \/ mute[e])
        BY OtherEnd, <3>2 DEF ReceiveCloseAgain, IndInv, PhaseTrue
      <4> QED
        BY OtherEnd, <2>1, <3>1, <4>1, <4>2 DEF ReceiveCloseAgain, IndInv, PhaseTrue, dataVars
    <3>3. CASE phase[e] \notin {"LOCAL_DRAIN", "WAIT_ACK"}
      <4>1. /\ UNCHANGED <<state, phase, reason, mute, seen, told, appClosed, cascaded>>
            /\ UNCHANGED dataVars /\ net \subseteq net'
        BY <3>3 DEF ReceiveCloseAgain
      <4> QED
        BY <2>1, <4>1, OtherEnd, PhaseKept
    <3> QED
      BY OtherEnd, <3>2, <3>3
  <2>2. CASE d = Other(e)
    <3>1. /\ state'[d] = state[d] /\ phase'[d] = phase[d] /\ reason'[d] = reason[d]
          /\ mute'[d] = mute[d] /\ seen'[d] = seen[d] /\ told'[d] = told[d]
          /\ appClosed'[d] = appClosed[d] /\ cascaded'[d] = cascaded[d]
      BY OtherEnd, <2>2, SMTT(30) DEF ReceiveCloseAgain, EnterPhase, IndInv, TypeOK, endVars
    <3>2. UNCHANGED dataVars /\ net \subseteq net' /\ (appClosed[e] => appClosed'[e])
      BY DEF ReceiveCloseAgain, IndInv, TypeOK, endVars
    <3>3. e = Other(d)
      BY <2>2, OtherEnd
    <3> QED
      BY <3>1, <3>2, <3>3, PhaseKept
  <2> QED
    BY OtherEnd, <2>1, <2>2
<1> QED
  BY <1>1, <1>2, <1>3, <1>4 DEF IndInv

(* STREAM_CLOSE_ACK in WAIT_ACK.                                              *)
LEMMA ReceiveCloseAckStep ==
  ASSUME IndInv, NEW e \in Ends, NEW p \in Arriving(e, "CLOSE_ACK"), ReceiveCloseAck(e, p)
  PROVE  IndInv'
<1>0. /\ state' \in [Ends -> States] /\ told' \in [Ends -> Reasons \cup {"none"}]
      /\ state'[e] = "CLOSED"
      /\ told'[e] = IF mute[e] THEN told[e] ELSE reason[e]
      /\ \A d \in Ends : d # e => state'[d] = state[d] /\ told'[d] = told[d]
  <2>1. reason[e] \in Reasons
    BY DEF IndInv, TypeOK, Reasons
  <2>2. CloseInternal(e, reason[e])
    BY DEF ReceiveCloseAck
  <2> QED
    BY <2>1, <2>2, CloseInternalEffect DEF IndInv
<1>1. TypeOK'
  BY <1>0 DEF ReceiveCloseAck, IndInv, TypeOK, dataVars
<1>2. ASSUME NEW q \in net' PROVE PacketTrue(q)'
  <2>1. UNCHANGED <<dataVars, net>>
    BY DEF ReceiveCloseAck
  <2>2. \A d \in Ends : state[d] \in {"CLOSING", "CLOSED"} => state'[d] \in {"CLOSING", "CLOSED"}
    BY <1>0
  <2>3. \A d \in Ends : appClosed[d] => appClosed'[d]
    BY DEF ReceiveCloseAck, IndInv, TypeOK
  <2> QED
    BY <1>2, <2>1, <2>2, <2>3, PacketKept
<1>3. ASSUME NEW d \in Ends PROVE KcpHonest(d)'
  <2>1. UNCHANGED dataVars
    BY DEF ReceiveCloseAck
  <2> QED
    BY <2>1, KcpKept
<1>4. ASSUME NEW d \in Ends PROVE PhaseTrue(d)'
  <2>1. CASE d = e
    <3>1. UNCHANGED <<dataVars, mute, seen>> /\ net \subseteq net' /\ state[e] # "ABSENT"
      BY DEF ReceiveCloseAck, Known
    <3>2. e = "B" => seen'[e]
      BY <3>1, SeenWhenThere
    <3>3. reason[e] \in Reasons
      BY DEF IndInv, TypeOK
    <3>4. reason[e] = "NORMAL" /\ ~mute[e] /\ ~cascaded'[e]
            => /\ ~appClosed'[e] => PeerSaidNormal(e) /\ Len(log[e]) = sent[Other(e)]
               /\ ~appClosed'[Other(e)] => 1..sent[e] \subseteq rcv[Other(e)]
      <4>1. ~mute[e] => appClosed[e] /\ 1..sent[e] \subseteq ackd[e]
        BY DEF ReceiveCloseAck, IndInv, PhaseTrue
      <4>2. ackd[e] \subseteq rcv[Other(e)]
        BY DEF IndInv, KcpHonest
      <4>3. appClosed' = appClosed
        BY DEF ReceiveCloseAck
      <4> QED
        BY <4>1, <4>2, <4>3
    <3> QED
      BY <1>0, <2>1, <3>1, <3>2, <3>3, <3>4, ClosedPhase
  <2>2. CASE d = Other(e)
    <3>1. /\ state'[d] = state[d] /\ phase'[d] = phase[d] /\ reason'[d] = reason[d]
          /\ mute'[d] = mute[d] /\ seen'[d] = seen[d] /\ told'[d] = told[d]
          /\ appClosed'[d] = appClosed[d] /\ cascaded'[d] = cascaded[d]
      BY <1>0, OtherEnd, <2>2 DEF ReceiveCloseAck, IndInv, TypeOK, endVars
    <3>2. UNCHANGED dataVars /\ net \subseteq net' /\ (appClosed[e] => appClosed'[e])
      BY DEF ReceiveCloseAck, IndInv, TypeOK, endVars
    <3>3. e = Other(d)
      BY <2>2, OtherEnd
    <3> QED
      BY <3>1, <3>2, <3>3, PhaseKept
  <2> QED
    BY OtherEnd, <2>1, <2>2
<1> QED
  BY <1>1, <1>2, <1>3, <1>4 DEF IndInv

(* The invariant holds forever, whatever the network, the timeouts and the two     *)
(* applications do.                                                                *)
THEOREM Invariance == Spec => []IndInv
<1>1. IndInv /\ [Next]_vars => IndInv'
  <2> SUFFICES ASSUME IndInv, [Next]_vars PROVE IndInv'
    OBVIOUS
  <2>1. CASE UNCHANGED vars
    BY <2>1, SMTT(30) DEF vars, endVars, dataVars, IndInv, TypeOK, PacketTrue, KcpHonest, PhaseTrue, PeerSaidNormal
  <2>2. CASE Next
    <3>1. PICK e \in Ends :
            \/ Create(e) \/ Send(e) \/ Recv(e)
            \/ CloseUnused(e) \/ CloseDrained(e) \/ CloseDraining(e) \/ CloseGiveUp(e)
            \/ UpdateOpen(e) \/ UpdateDrained(e) \/ UpdateDraining(e) \/ UpdateWaitAck(e)
            \/ UpdateRemoteDrain(e) \/ UpdateFinalize(e)
            \/ \E p \in Arriving(e, "PAYLOAD") :
                 ReceivePayload(e, p) \/ Accept(e, p) \/ Reject(e, p) \/ AcceptFails(e, p)
            \/ \E p \in Arriving(e, "CLOSE") :
                 ReceiveAbort(e, p) \/ ReceiveClose(e, p) \/ ReceiveCloseAgain(e, p)
            \/ \E p \in Arriving(e, "CLOSE_ACK") : ReceiveCloseAck(e, p)
            \/ ConnCloseStart(e) \/ ConnEnds(e)
      BY <2>2 DEF Next
    <3>2. CASE Create(e)
      BY <3>2, CreateStep
    <3>3. CASE Send(e)
      BY <3>3, SendStep
    <3>4. CASE Recv(e)
      BY <3>4, RecvStep
    <3>5. CASE CloseUnused(e)
      BY <3>5, CloseUnusedStep
    <3>6. CASE CloseDrained(e)
      BY <3>6, CloseDrainedStep
    <3>7. CASE CloseDraining(e)
      BY <3>7, CloseDrainingStep
    <3>8. CASE CloseGiveUp(e)
      BY <3>8, CloseGiveUpStep
    <3>9. CASE UpdateOpen(e)
      BY <3>9, UpdateOpenStep
    <3>10. CASE UpdateDrained(e)
      BY <3>10, UpdateDrainedStep
    <3>11. CASE UpdateDraining(e)
      BY <3>11, UpdateDrainingStep
    <3>12. CASE UpdateWaitAck(e)
      BY <3>12, UpdateWaitAckStep
    <3>13. CASE UpdateRemoteDrain(e)
      BY <3>13, UpdateRemoteDrainStep
    <3>14. CASE UpdateFinalize(e)
      BY <3>14, UpdateFinalizeStep
    <3>15. CASE ConnCloseStart(e)
      BY <3>15, ConnCloseStartStep
    <3>16. CASE ConnEnds(e)
      BY <3>16, ConnEndsStep
    <3>17. ASSUME NEW p \in Arriving(e, "PAYLOAD"), ReceivePayload(e, p) PROVE IndInv'
      BY <3>17, ReceivePayloadStep
    <3>18. ASSUME NEW p \in Arriving(e, "PAYLOAD"), Accept(e, p) PROVE IndInv'
      BY <3>18, AcceptStep
    <3>19. ASSUME NEW p \in Arriving(e, "PAYLOAD"), Reject(e, p) PROVE IndInv'
      BY <3>19, RejectStep
    <3>20. ASSUME NEW p \in Arriving(e, "PAYLOAD"), AcceptFails(e, p) PROVE IndInv'
      BY <3>20, AcceptFailsStep
    <3>21. ASSUME NEW p \in Arriving(e, "CLOSE"), ReceiveAbort(e, p) PROVE IndInv'
      BY <3>21, ReceiveAbortStep
    <3>22. ASSUME NEW p \in Arriving(e, "CLOSE"), ReceiveClose(e, p) PROVE IndInv'
      BY <3>22, ReceiveCloseStep
    <3>23. ASSUME NEW p \in Arriving(e, "CLOSE"), ReceiveCloseAgain(e, p) PROVE IndInv'
      BY <3>23, ReceiveCloseAgainStep
    <3>24. ASSUME NEW p \in Arriving(e, "CLOSE_ACK"), ReceiveCloseAck(e, p) PROVE IndInv'
      BY <3>24, ReceiveCloseAckStep
    <3> QED
      BY <3>1, <3>2, <3>3, <3>4, <3>5, <3>6, <3>7, <3>8, <3>9, <3>10, <3>11, <3>12, <3>13, <3>14, <3>15, <3>16, <3>17, <3>18, <3>19, <3>20, <3>21, <3>22, <3>23, <3>24
  <2> QED
    BY <2>1, <2>2
<1> QED
  BY <1>1, InitInv, PTL DEF Spec

(* STREAM_CLOSE(NORMAL) follows the data it closes: whoever receives it has       *)
(* everything in KCP already.                                                     *)
THEOREM CloseFollowsData == Spec => []CloseAfterData
<1>1. IndInv => CloseAfterData
  BY OtherEnd DEF IndInv, TypeOK, Packets, PacketTrue, KcpHonest, CloseAfterData
<1> QED
  BY <1>1, Invariance, PTL

(* Told NORMAL without having closed: the application read all there was.          *)
THEOREM NormalIsRead == Spec => []NormalMeansRead
<1>1. IndInv => NormalMeansRead
  BY DEF IndInv, PhaseTrue, NormalMeansRead
<1> QED
  BY <1>1, Invariance, PTL

(* Told NORMAL after closing alone: all that was sent arrived.                      *)
THEOREM NormalIsArrived == Spec => []NormalMeansArrived
<1>1. IndInv => NormalMeansArrived
  BY DEF IndInv, PhaseTrue, NormalMeansArrived
<1> QED
  BY <1>1, Invariance, PTL

(* No chunk is read twice or out of order, over the whole life of the stream id.   *)
THEOREM InOrderOnce == Spec => []ReadInOrderOnce
<1>1. IndInv => ReadInOrderOnce
  <2> SUFFICES ASSUME IndInv, NEW e \in Ends
               PROVE  /\ \A i \in 1..Len(log[e]) : log[e][i] = i
                      /\ Len(log[e]) <= sent[Other(e)]
    BY DEF ReadInOrderOnce
  <2>1. Len(log[e]) \in Nat /\ sent[Other(e)] \in Nat
    BY OtherEnd, SMTT(30) DEF IndInv, TypeOK
  <2>2. 1..Len(log[e]) \subseteq 1..sent[Other(e)]
    BY DEF IndInv, KcpHonest
  <2>3. Len(log[e]) <= sent[Other(e)]
    <3>1. CASE Len(log[e]) = 0
      BY <3>1, <2>1, SMTT(30)
    <3>2. CASE Len(log[e]) \in 1..Len(log[e])
      BY <3>2, <2>1, <2>2, SMTT(30)
    <3> QED
      BY <3>1, <3>2, <2>1, SMTT(30)
  <2> QED
    BY <2>3 DEF IndInv, KcpHonest
<1> QED
  BY <1>1, Invariance, PTL
=============================================================================
