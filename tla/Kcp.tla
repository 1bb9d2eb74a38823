--------------------------------- MODULE Kcp ---------------------------------
(***************************************************************************)
(* The KCP core below a stream (third_party/kcp/ikcp.c as this repository    *)
(* ships it): two control blocks that exchange numbered segments over a      *)
(* network that loses, repeats and reorders them.                            *)
(*                                                                          *)
(* A message is one segment: kcpmux_stream_send_chunks never hands KCP more  *)
(* than kcp_mss bytes, so frg is 0.  The messages of an end are numbered    *)
(* from 0.  Timestamps, RTT, fast retransmission and congestion control    *)
(* only decide how much of the window is used and which segments are          *)
(* repeated now: both are free choices here.  Several segments may share a    *)
(* datagram; ikcp_input takes them one after the other, here one per step.    *)
(***************************************************************************)
EXTENDS Integers, Sequences, FiniteSets

CONSTANTS
  End,               \* the two control blocks
  MaxSend,           \* how many messages the stream of each end sends
  SndWnd, RcvWnd,    \* snd_wnd, rcv_wnd
  RemindLimit,       \* IKCP_REMIND_LIMIT
  InFlight,          \* bound: segments of an end on their way when it updates, late ones apart
  MaxLate,           \* bound: segments held back at the same time
  MaxFaults          \* bound: how often the network loses, repeats or holds back a segment

ASSUME ConstantsOK ==
  /\ \E p, q \in End : p # q /\ End = {p, q}
  /\ MaxSend \in [End -> Nat]
  /\ SndWnd \in Nat \ {0} /\ RcvWnd \in Nat \ {0}
  /\ RemindLimit \in Nat /\ InFlight \in Nat
  /\ MaxLate \in Nat /\ MaxFaults \in Nat

Peer(p) == CHOOSE q \in End : q # p

\* What travels: wnd and una are in every segment, sn in PUSH and ACK, data in PUSH.
Segment == [cmd: {"PUSH", "ACK", "WASK", "WINS"}, to: End, sn: Nat, una: Nat,
            wnd: Nat, data: Nat]

\* ikcpcb.  snd_buf and rcv_buf map the sn of a segment to its message; acklist
\* holds the sns to acknowledge, probe the pending IKCP_ASK_ flags, and waits is
\* "probe_wait # 0".  snd_una is SndUna below.
VARIABLES
  kcp,      \* [End -> control block]
  net,      \* the segments in flight
  late,     \* those of them that newer segments may overtake
  sent,     \* history: how many messages the stream of p handed to ikcp_send
  got,      \* history: got[p] is what the stream of p took from ikcp_recv
  faults    \* faults of the network so far

vars == <<kcp, net, late, sent, got, faults>>

\* ikcp_create
Create ==
  [snd_queue |-> << >>, snd_buf |-> << >>, snd_nxt |-> 0,
   rmt_wnd |-> RcvWnd, rcv_nxt |-> 0, rcv_buf |-> << >>, rcv_queue |-> << >>,
   acklist |-> {}, probe |-> {}, waits |-> FALSE, reminds |-> 0]

Init ==
  /\ kcp = [p \in End |-> Create]
  /\ net = {} /\ late = {}
  /\ sent = [p \in End |-> 0] /\ got = [p \in End |-> << >>]
  /\ faults = 0

-----------------------------------------------------------------------------
(* Helpers *)

\* ikcp_waitsnd, ikcp_wnd_unused
Waitsnd(k) == Cardinality(DOMAIN k.snd_buf) + Len(k.snd_queue)
WndUnused(k) ==
  IF Len(k.rcv_queue) < RcvWnd THEN RcvWnd - Len(k.rcv_queue) ELSE 0

\* ikcp_shrink_buf: the oldest segment not acknowledged yet.
SndUna(k) ==
  IF DOMAIN k.snd_buf = {} THEN k.snd_nxt
  ELSE CHOOSE u \in DOMAIN k.snd_buf : \A sn \in DOMAIN k.snd_buf : u <= sn

Keep(f, S) == [sn \in S |-> f[sn]]

\* ikcp_parse_una and ikcp_parse_ack drop segments from snd_buf.
Acked(k, sns) ==
  [k EXCEPT !.snd_buf = Keep(@, DOMAIN @ \ sns)]

\* Where the loop that moves rcv_buf to rcv_queue stops: everything below n is
\* there, and n is missing or the queue is full.
Stops(k) ==
  LET full == k.rcv_nxt + WndUnused(k)
  IN  {n \in k.rcv_nxt..full : /\ k.rcv_nxt..(n - 1) \subseteq DOMAIN k.rcv_buf
                               /\ n = full \/ n \notin DOMAIN k.rcv_buf}
Moved(k, n) ==
  [k EXCEPT !.rcv_queue = @ \o [i \in 1..(n - k.rcv_nxt) |-> k.rcv_buf[k.rcv_nxt + i - 1]],
            !.rcv_buf = Keep(@, {sn \in DOMAIN @ : sn >= n}),
            !.rcv_nxt = n]

\* ikcp_parse_data: a segment in the receive window, unless it is there already.
Stored(k, s) ==
  IF s.sn \in DOMAIN k.rcv_buf THEN k
  ELSE [k EXCEPT !.rcv_buf = [sn \in DOMAIN @ \cup {s.sn} |->
                                IF sn = s.sn THEN s.data ELSE @[sn]]]

Tell(k) == [k EXCEPT !.probe = @ \cup {"TELL"}, !.reminds = RemindLimit]

-----------------------------------------------------------------------------
(* The stream's calls *)

\* ikcp_send (ikcp_sendv), one message of at most mss bytes
Send(p) ==
  /\ sent[p] < MaxSend[p]
  /\ sent' = [sent EXCEPT ![p] = @ + 1]
  /\ kcp' = [kcp EXCEPT ![p].snd_queue = Append(@, sent[p])]
  /\ UNCHANGED <<net, late, got, faults>>

\* ikcp_recv: the first message of rcv_queue; then rcv_buf may move up, and a
\* window that was closed is announced.
Recv(p) ==
  LET k == kcp[p]
      rest == [k EXCEPT !.rcv_queue = Tail(@)]
  IN  /\ k.rcv_queue # << >>
      /\ got' = [got EXCEPT ![p] = Append(@, Head(k.rcv_queue))]
      /\ \E n \in Stops(rest) :
           kcp' = [kcp EXCEPT ![p] =
                IF Len(k.rcv_queue) >= RcvWnd /\ Len(Moved(rest, n).rcv_queue) < RcvWnd
                THEN Tell(Moved(rest, n)) ELSE Moved(rest, n)]
      /\ UNCHANGED <<net, late, sent, faults>>

-----------------------------------------------------------------------------
(* ikcp_input, one segment.  Every segment brings the peer's window and una.   *)

\* Mutant: the segment una names is taken as acknowledged.
HeaderUpToUna(k, s) ==
  Acked([k EXCEPT !.rmt_wnd = s.wnd], {sn \in DOMAIN k.snd_buf : sn <= s.una})
Header(k, s) ==
  Acked([k EXCEPT !.rmt_wnd = s.wnd], {sn \in DOMAIN k.snd_buf : sn < s.una})

\* Newer segments may overtake s.
HeldBack(s) ==
  /\ net' = net /\ late' = late \cup {s}
  /\ Cardinality(late \cup {s}) <= MaxLate

\* The network hands over a segment, and may hand it over again later.
Arrives(p, s, cmd) ==
  /\ s \in net /\ s.to = p /\ s.cmd = cmd
  /\ \/ net' = net \ {s} /\ late' = late \ {s} /\ faults' = faults
     \/ HeldBack(s) /\ faults < MaxFaults /\ faults' = faults + 1

InputAck(p, s) ==
  /\ Arrives(p, s, "ACK")
  /\ kcp' = [kcp EXCEPT ![p] = Acked(Header(@, s), {s.sn})]
  /\ UNCHANGED <<sent, got>>

\* Beyond the receive window: dropped.  Below rcv_nxt: only acknowledged again.
InputPush(p, s) ==
  LET k == Header(kcp[p], s)
      noted == [k EXCEPT !.acklist = @ \cup {s.sn}]
      stored == [Stored(noted, s) EXCEPT !.reminds = RemindLimit]
  IN  /\ Arrives(p, s, "PUSH")
      /\ \/ s.sn >= k.rcv_nxt + RcvWnd /\ kcp' = [kcp EXCEPT ![p] = k]
         \/ s.sn < k.rcv_nxt /\ kcp' = [kcp EXCEPT ![p] = noted]
         \/ /\ s.sn \in k.rcv_nxt..(k.rcv_nxt + RcvWnd - 1)
            /\ \E n \in Stops(stored) : kcp' = [kcp EXCEPT ![p] = Moved(stored, n)]
      /\ UNCHANGED <<sent, got>>

InputProbe(p, s) ==
  /\ \/ Arrives(p, s, "WASK") /\ kcp' = [kcp EXCEPT ![p] = Tell(Header(@, s))]
     \/ Arrives(p, s, "WINS") /\ kcp' = [kcp EXCEPT ![p] = Header(@, s)]
  /\ UNCHANGED <<sent, got>>

\* A segment is lost, or held back.
Lose(s) ==
  /\ s \in net /\ faults < MaxFaults /\ faults' = faults + 1
  /\ \/ net' = net \ {s} /\ late' = late \ {s}
     \/ HeldBack(s) /\ s \notin late
  /\ UNCHANGED <<kcp, sent, got>>

-----------------------------------------------------------------------------
(* ikcp_update *)

Out(segs) == net' = net \cup segs /\ late' = late \ segs

Seg(p, cmd, sn, data) ==
  [cmd |-> cmd, to |-> Peer(p), sn |-> sn, una |-> kcp[p].rcv_nxt,
   wnd |-> WndUnused(kcp[p]), data |-> data]

\* Of the segments below una only the latest is acknowledged by its number.
AckSegs(p) ==
  LET k == kcp[p]
      below == {sn \in k.acklist : sn < k.rcv_nxt}
  IN  {Seg(p, "ACK", sn, 0) :
         sn \in {sn \in below : \A l \in below : l <= sn} \cup (k.acklist \ below)}

\* A closed window: the first update starts the probe timer, later ones ask when
\* it is due.
Asks(k, due) == k.rmt_wnd = 0 /\ k.waits /\ due
ProbeSegs(p, due) ==
  {Seg(p, "WASK", 0, 0) : x \in {x \in {1} : Asks(kcp[p], due)}}
    \cup {Seg(p, "WINS", 0, 0) : x \in kcp[p].probe}

\* Mutant: the probe timer is not kept, so that it never comes due.
FlushedForgetsProbe(k) == [k EXCEPT !.acklist = {}, !.probe = {}, !.waits = FALSE]
\* Acknowledgements and probes go out; what is left to do for the data.
Flushed(k) ==
  [k EXCEPT !.acklist = {}, !.probe = {}, !.waits = k.rmt_wnd = 0]

\* Nothing to send: instead of nothing, a few reminders of una and the window.
UpdateIdle(p, due) ==
  LET k == kcp[p]
      segs == AckSegs(p) \cup ProbeSegs(p, due)
      remind == k.reminds > 0 /\ segs = {}
  IN  /\ Waitsnd(k) = 0
      /\ kcp' = [kcp EXCEPT ![p] =
                   [Flushed(k) EXCEPT !.reminds = IF @ > 0 THEN @ - 1 ELSE @]]
      /\ Out(segs \cup {Seg(p, "WINS", 0, 0) : x \in {x \in {1} : remind}})
      /\ UNCHANGED <<sent, got, faults>>

\* Mutant: the window is measured from snd_nxt, as if everything were acknowledged.
AdmitsFromNext(k, w, n) ==
  /\ n \in 0..Len(k.snd_queue) /\ n <= w
  /\ n = Len(k.snd_queue) \/ n = w
\* n messages move from snd_queue to snd_buf: as many as the window w admits.
Admits(k, w, n) ==
  /\ n \in 0..Len(k.snd_queue)
  /\ n > 0 => k.snd_nxt + n - 1 < SndUna(k) + w
  /\ n = Len(k.snd_queue) \/ k.snd_nxt + n >= SndUna(k) + w
Numbered(k, n) ==
  [k EXCEPT !.snd_buf = [sn \in DOMAIN @ \cup k.snd_nxt..(k.snd_nxt + n - 1) |->
                           IF sn < k.snd_nxt THEN @[sn] ELSE k.snd_queue[sn - k.snd_nxt + 1]],
            !.snd_queue = SubSeq(@, n + 1, Len(@)),
            !.snd_nxt = @ + n]

\* The window that counts: snd_wnd, the peer's, and what congestion control, at
\* least 1, allows.  sns are the segments sent by this call: new ones while there is
\* quota and the output works, old ones whose retransmission is due.
Window(k, w) == w \in 0..SndWnd /\ w <= k.rmt_wnd /\ (k.rmt_wnd > 0 => w > 0)
UpdateSend(p, due, w, n, sns) ==
  LET k == Numbered(Flushed(kcp[p]), n)
  IN  /\ Waitsnd(kcp[p]) > 0
      /\ Window(kcp[p], w) /\ Admits(kcp[p], w, n)
      /\ sns \subseteq DOMAIN k.snd_buf
      /\ kcp' = [kcp EXCEPT ![p] = k]
      /\ Out(AckSegs(p) \cup ProbeSegs(p, due)
               \cup {Seg(p, "PUSH", sn, k.snd_buf[sn]) : sn \in sns})
      /\ UNCHANGED <<sent, got, faults>>

\* Segments of p in flight; more than InFlight and p waits.
Travelling(p) == {s \in net \ late : s.to = Peer(p)}
MayUpdate(p) == Cardinality(Travelling(p)) <= InFlight

-----------------------------------------------------------------------------
Input(p) ==
  \E s \in net : InputAck(p, s) \/ InputPush(p, s) \/ InputProbe(p, s)

Update(p) ==
  /\ MayUpdate(p)
  /\ \E due \in BOOLEAN :
       \/ UpdateIdle(p, due)
       \/ \E w \in 0..SndWnd, n \in 0..Len(kcp[p].snd_queue) :
            \E sns \in SUBSET (0..(kcp[p].snd_nxt + n - 1)) : UpdateSend(p, due, w, n, sns)

Next ==
  \/ \E p \in End : Send(p) \/ Recv(p) \/ Input(p) \/ Update(p)
  \/ \E s \in net : Lose(s)

Spec == Init /\ [][Next]_vars

\* The stream's timer calls ikcp_update again and again (ikcp_check is never more
\* than one interval away), each retransmission and the probe timer come due, the
\* application reads what is there, and the network delivers what it does not lose.
UpdateAll(p) ==
  /\ MayUpdate(p)
  /\ \/ UpdateIdle(p, TRUE)
     \/ \E w \in 0..SndWnd, n \in 0..Len(kcp[p].snd_queue) :
          UpdateSend(p, TRUE, w, n,
                     DOMAIN kcp[p].snd_buf \cup kcp[p].snd_nxt..(kcp[p].snd_nxt + n - 1))
Delivered(p) ==
  \E s \in net : /\ net' = net \ {s}
                 /\ InputAck(p, s) \/ InputPush(p, s) \/ InputProbe(p, s)

Fairness == \A p \in End : WF_vars(UpdateAll(p)) /\ WF_vars(Recv(p)) /\ WF_vars(Delivered(p))

FairSpec == Spec /\ Fairness

-----------------------------------------------------------------------------
(* Properties *)

\* The messages of p that its peer's KCP has: those handed on in order, and those
\* kept in rcv_buf until the gap before them is filled.
Arrived(p) == 0..(kcp[Peer(p)].rcv_nxt - 1) \cup DOMAIN kcp[Peer(p)].rcv_buf

Chan == [p \in End |-> [accepted |-> sent[p], arrived |-> Arrived(p),
                        waiting |-> Waitsnd(kcp[p]), read |-> got[Peer(p)]]]

Contract == INSTANCE KcpContract WITH chan <- Chan

\* KCP keeps what streams are built on: every message is handed over once and in
\* the order of sending, and waitsnd counts every message the peer does not have,
\* so that a stream that waits for waitsnd = 0 before STREAM_CLOSE loses nothing.
ImplementsContract == Contract!Spec

\* Buffers stay within the windows also when a delayed segment carries an old
\* window or una: no more than snd_wnd segments are numbered and not acknowledged,
\* and the receiver holds no more than two windows.
WindowsHold ==
  \A p \in End :
    /\ kcp[p].snd_nxt - SndUna(kcp[p]) <= SndWnd
    /\ Len(kcp[p].rcv_queue) <= RcvWnd
    /\ \A sn \in DOMAIN kcp[p].rcv_buf : sn \in kcp[p].rcv_nxt..(kcp[p].rcv_nxt + RcvWnd - 1)

\* What was accepted is read in the end, and the sender learns that it arrived,
\* also after the window was closed and the announcement that it opened was lost
\* (window probes, reminders).
Delivers ==
  \A p \in End :
    LET done == Len(got[Peer(p)]) = sent[p] /\ Waitsnd(kcp[p]) = 0
    IN  ~done ~> done
=============================================================================
