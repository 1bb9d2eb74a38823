------------------------------ MODULE KcpProofs ------------------------------
(***************************************************************************)
(* Kcp implements KcpContract for every window, every number of messages    *)
(* and every number of faults of the network.                               *)
(*                                                                          *)
(* The inductive invariant follows a message through its places.  What send *)
(* accepted is in snd_queue from snd_nxt on (Sender); what the application  *)
(* read and rcv_queue together are the messages below rcv_nxt (Receiver);    *)
(* everything numbered and no longer in snd_buf is at the peer (Agree); and  *)
(* no acknowledgement in flight, una or ACK, is ahead of the peer (NetOK).    *)
(*                                                                          *)
(* The last part bounds the buffers by the windows.  The bounds of a sender  *)
(* are kept because snd_una never goes back; those of a receiver because     *)
(* rcv_nxt does not.                                                         *)
(***************************************************************************)
EXTENDS Kcp, TLAPS, FiniteSetTheorems, WellFoundedInduction

(* Most leaves are first-order; those that need arithmetic or sequences name SMT.   *)
USE ZenonT(30)

\* The messages m, m+1, ..., n-1
Run(m, n) == [i \in 1..(n - m) |-> m + i - 1]

Buffer == UNION {[S -> Nat] : S \in SUBSET Nat}

Block ==
  [snd_queue: Seq(Nat), snd_buf: Buffer, snd_nxt: Nat, rmt_wnd: Nat, rcv_nxt: Nat,
   rcv_buf: Buffer, rcv_queue: Seq(Nat), acklist: SUBSET Nat, probe: SUBSET {"TELL"},
   waits: BOOLEAN, reminds: Nat]

\* The segments that the receiver k has.
Held(k) == 0..(k.rcv_nxt - 1) \cup DOMAIN k.rcv_buf

Sender(k, n) ==
  /\ k.snd_nxt <= n
  /\ DOMAIN k.snd_buf \subseteq 0..(k.snd_nxt - 1)
  /\ \A sn \in DOMAIN k.snd_buf : k.snd_buf[sn] = sn
  /\ k.snd_queue = Run(k.snd_nxt, n)

Receiver(k, g) ==
  /\ Len(g) <= k.rcv_nxt
  /\ g = Run(0, Len(g))
  /\ k.rcv_queue = Run(Len(g), k.rcv_nxt)
  /\ \A sn \in DOMAIN k.rcv_buf : k.rcv_buf[sn] = sn /\ sn >= k.rcv_nxt
  /\ k.acklist \subseteq Held(k)

\* A sender k and the receiver l of its segments
Agree(k, l) ==
  /\ Held(l) \subseteq 0..(k.snd_nxt - 1)
  /\ 0..(k.snd_nxt - 1) \ DOMAIN k.snd_buf \subseteq Held(l)

\* A segment that block k has sent
SegOK(s, k) ==
  /\ s \in Segment
  /\ s.una <= k.rcv_nxt
  /\ s.cmd = "ACK" => s.sn \in Held(k)
  /\ s.cmd = "PUSH" => s.sn < k.snd_nxt /\ s.data = s.sn

IndInv ==
  /\ kcp \in [End -> Block] /\ sent \in [End -> Nat] /\ got \in [End -> Seq(Nat)]
  /\ \A p \in End : /\ Sender(kcp[p], sent[p]) /\ Receiver(kcp[p], got[p])
                    /\ Agree(kcp[p], kcp[Peer(p)])
  /\ \A s \in net : s.to \in End /\ SegOK(s, kcp[Peer(s.to)])

-----------------------------------------------------------------------------
(* Peers, runs of messages and buffers *)

\* Each end is the other one's peer.
LEMMA PeerOK ==
  ASSUME NEW p \in End
  PROVE  /\ Peer(p) \in End /\ Peer(p) # p /\ Peer(Peer(p)) = p
         /\ \A q \in End : q = p \/ q = Peer(p)
BY ConstantsOK, SMTT(30) DEF Peer, ConstantsOK

\* Length and elements of a run.
LEMMA RunType ==
  ASSUME NEW m \in Nat, NEW n \in Nat, m <= n
  PROVE  Run(m, n) \in Seq(Nat) /\ Len(Run(m, n)) = n - m
BY SMTT(30) DEF Run

\* ikcp_send appends the next message.
LEMMA RunAppend ==
  ASSUME NEW m \in Nat, NEW n \in Nat, m <= n
  PROVE  Append(Run(m, n), n) = Run(m, n + 1)
BY SMTT(30) DEF Run

\* ikcp_recv takes the first message.
LEMMA RunTail ==
  ASSUME NEW m \in Nat, NEW n \in Nat, m <= n, Run(m, n) # << >>
  PROVE  m < n /\ Head(Run(m, n)) = m /\ Tail(Run(m, n)) = Run(m + 1, n)
<1>1. m < n
  <2>1. CASE m = n
    BY <2>1, SMTT(30) DEF Run
  <2>. QED BY <2>1, SMTT(30)
<1>2. Head(Run(m, n)) = m
  BY <1>1, SMTT(30) DEF Run
<1>3. Tail(Run(m, n)) = Run(m + 1, n)
  <2>1. Tail(Run(m, n)) = [i \in 1..(n - m - 1) |-> m + (i + 1) - 1]
    BY <1>1, SMTT(30) DEF Run
  <2>2. n - m - 1 = n - (m + 1) /\ \A i \in 1..(n - m - 1) : m + (i + 1) - 1 = (m + 1) + i - 1
    BY SMTT(30)
  <2>. QED BY <2>1, <2>2 DEF Run
<1>. QED BY <1>1, <1>2, <1>3

\* ikcp_update numbers the first j messages of snd_queue.
LEMMA RunSubSeq ==
  ASSUME NEW m \in Nat, NEW n \in Nat, m <= n, NEW j \in 0..(n - m)
  PROVE  SubSeq(Run(m, n), j + 1, Len(Run(m, n))) = Run(m + j, n)
BY RunType, SMTT(30) DEF Run

\* rcv_buf moves up to rcv_queue.
LEMMA RunConcat ==
  ASSUME NEW m \in Nat, NEW n \in Nat, NEW l \in Nat, m <= n, n <= l
  PROVE  Run(m, n) \o Run(n, l) = Run(m, l)
BY SMTT(30) DEF Run

\* Buffers are functions on sns.
LEMMA BufferOK ==
  /\ \A f \in Buffer : DOMAIN f \subseteq Nat /\ \A sn \in DOMAIN f : f[sn] \in Nat
  /\ \A S \in SUBSET Nat : \A f \in [S -> Nat] : f \in Buffer
BY DEF Buffer

LEMMA KeepOK ==
  ASSUME NEW f \in Buffer, NEW S \in SUBSET DOMAIN f
  PROVE  /\ Keep(f, S) \in Buffer /\ DOMAIN Keep(f, S) = S
         /\ \A sn \in S : Keep(f, S)[sn] = f[sn]
<1>1. S \in SUBSET Nat /\ Keep(f, S) \in [S -> Nat]
  BY BufferOK DEF Keep
<1>. QED BY <1>1, BufferOK DEF Keep

-----------------------------------------------------------------------------
(* What the helpers of ikcp.c do to a control block *)

SameSnd(k, l) ==
  l.snd_queue = k.snd_queue /\ l.snd_buf = k.snd_buf /\ l.snd_nxt = k.snd_nxt
SameRcv(k, l) ==
  /\ l.rcv_nxt = k.rcv_nxt /\ l.rcv_buf = k.rcv_buf /\ l.rcv_queue = k.rcv_queue
  /\ l.acklist = k.acklist

\* The window a block announces is a number.
LEMMA WndOK ==
  ASSUME NEW k \in Block
  PROVE  WndUnused(k) \in Nat
<1>1. Len(k.rcv_queue) \in Nat /\ RcvWnd \in Nat
  BY ConstantsOK, SMTT(30) DEF Block, ConstantsOK
<1>. QED BY <1>1, SMTT(30) DEF WndUnused

\* ikcp_parse_una, ikcp_parse_ack: snd_buf shrinks, nothing else changes.
LEMMA AckedOK ==
  ASSUME NEW k \in Block, NEW sns
  PROVE  /\ Acked(k, sns) \in Block /\ SameRcv(k, Acked(k, sns))
         /\ DOMAIN Acked(k, sns).snd_buf = DOMAIN k.snd_buf \ sns
         /\ Acked(k, sns).snd_nxt = k.snd_nxt
         /\ \A n \in Nat : Sender(k, n) => Sender(Acked(k, sns), n)
<1>1. k.snd_buf \in Buffer
  BY DEF Block
<1>2. DEFINE b == Keep(k.snd_buf, DOMAIN k.snd_buf \ sns)
<1>3. /\ b \in Buffer /\ DOMAIN b = DOMAIN k.snd_buf \ sns
      /\ \A sn \in DOMAIN b : b[sn] = k.snd_buf[sn]
  BY <1>1, KeepOK, SMTT(30)
<1>4. Acked(k, sns) = [k EXCEPT !.snd_buf = b]
  BY DEF Acked
<1>. HIDE DEF b
<1>5. /\ Acked(k, sns) \in Block /\ SameRcv(k, Acked(k, sns)) /\ Acked(k, sns).snd_buf = b
      /\ Acked(k, sns).snd_nxt = k.snd_nxt /\ Acked(k, sns).snd_queue = k.snd_queue
  BY <1>3, <1>4 DEF Block, SameRcv
<1>6. \A n \in Nat : Sender(k, n) => Sender(Acked(k, sns), n)
  BY <1>3, <1>5 DEF Sender
<1>. QED BY <1>3, <1>5, <1>6

\* The part of ikcp_input common to all segments.
LEMMA HeaderOK ==
  ASSUME NEW k \in Block, NEW s \in Segment
  PROVE  /\ Header(k, s) \in Block /\ SameRcv(k, Header(k, s))
         /\ DOMAIN Header(k, s).snd_buf = {sn \in DOMAIN k.snd_buf : ~ sn < s.una}
         /\ Header(k, s).snd_nxt = k.snd_nxt
         /\ \A n \in Nat : Sender(k, n) => Sender(Header(k, s), n)
<1>. DEFINE l == [k EXCEPT !.rmt_wnd = s.wnd]
            sns == {sn \in DOMAIN k.snd_buf : sn < s.una}
<1>1. /\ l \in Block /\ SameRcv(k, l) /\ SameSnd(k, l)
  BY DEF Block, Segment, SameRcv, SameSnd
<1>2. \A n \in Nat : Sender(k, n) => Sender(l, n)
  BY <1>1 DEF Sender, SameSnd
<1>3. Header(k, s) = Acked(l, sns)
  BY DEF Header
<1>. HIDE DEF l
<1>4. /\ Acked(l, sns) \in Block /\ SameRcv(l, Acked(l, sns))
      /\ DOMAIN Acked(l, sns).snd_buf = DOMAIN l.snd_buf \ sns
      /\ Acked(l, sns).snd_nxt = l.snd_nxt
      /\ \A n \in Nat : Sender(l, n) => Sender(Acked(l, sns), n)
  BY <1>1, AckedOK
<1>. QED BY <1>1, <1>2, <1>3, <1>4 DEF SameRcv, SameSnd

\* rcv_buf moves up to rcv_queue: what the block has stays the same.
LEMMA MovedOK ==
  ASSUME NEW k \in Block, NEW g \in Seq(Nat), Receiver(k, g), NEW n \in Stops(k)
  PROVE  /\ Moved(k, n) \in Block /\ SameSnd(k, Moved(k, n)) /\ Receiver(Moved(k, n), g)
         /\ Held(Moved(k, n)) = Held(k) /\ k.rcv_nxt <= Moved(k, n).rcv_nxt
<1>1. /\ k.rcv_nxt \in Nat /\ k.rcv_buf \in Buffer /\ Len(g) \in Nat
      /\ DOMAIN k.rcv_buf \subseteq Nat
  BY BufferOK, SMTT(30) DEF Block
<1>2. /\ n \in Nat /\ k.rcv_nxt <= n /\ k.rcv_nxt..(n - 1) \subseteq DOMAIN k.rcv_buf
  BY <1>1, WndOK, SMTT(30) DEF Stops
<1>. DEFINE S == {sn \in DOMAIN k.rcv_buf : sn >= n}
            b == Keep(k.rcv_buf, S)
            up == [i \in 1..(n - k.rcv_nxt) |-> k.rcv_buf[k.rcv_nxt + i - 1]]
<1>3. b \in Buffer /\ DOMAIN b = S /\ \A sn \in S : b[sn] = k.rcv_buf[sn]
  BY <1>1, KeepOK
<1>. HIDE DEF b
<1>r. /\ Len(g) <= k.rcv_nxt /\ k.rcv_queue = Run(Len(g), k.rcv_nxt)
      /\ \A sn \in DOMAIN k.rcv_buf : k.rcv_buf[sn] = sn
  BY DEF Receiver
<1>4. up = Run(k.rcv_nxt, n)
  <2>1. \A i \in 1..(n - k.rcv_nxt) : k.rcv_nxt + i - 1 \in k.rcv_nxt..(n - 1)
    BY <1>1, <1>2, SMTT(30)
  <2>2. \A i \in 1..(n - k.rcv_nxt) : k.rcv_buf[k.rcv_nxt + i - 1] = k.rcv_nxt + i - 1
    BY <1>2, <1>r, <2>1
  <2>. QED BY <2>2 DEF Run
<1>. HIDE DEF up
<1>5. k.rcv_queue \o up = Run(Len(g), n)
  <2>1. Run(Len(g), k.rcv_nxt) \o Run(k.rcv_nxt, n) = Run(Len(g), n)
    BY <1>1, <1>2, <1>r, RunConcat
  <2>. QED BY <1>4, <1>r, <2>1
<1>6. Run(Len(g), n) \in Seq(Nat)
  <2>1. Len(g) <= n
    BY <1>1, <1>2, <1>r, SMTT(30)
  <2>. QED BY <1>1, <1>2, <2>1, RunType
<1>7. Moved(k, n) = [k EXCEPT !.rcv_queue = Run(Len(g), n), !.rcv_buf = b, !.rcv_nxt = n]
  BY <1>5 DEF Moved, b, up
<1>8. /\ Moved(k, n) \in Block /\ SameSnd(k, Moved(k, n)) /\ Moved(k, n).rcv_nxt = n
      /\ Moved(k, n).rcv_queue = Run(Len(g), n) /\ Moved(k, n).rcv_buf = b
      /\ Moved(k, n).acklist = k.acklist
  BY <1>2, <1>3, <1>6, <1>7 DEF Block, SameSnd
<1>9. Held(Moved(k, n)) = Held(k)
  BY <1>1, <1>2, <1>3, <1>8, SMTT(30) DEF Held
<1>10. Receiver(Moved(k, n), g)
  BY <1>1, <1>2, <1>3, <1>8, <1>9, SMTT(30) DEF Receiver
<1>. QED BY <1>2, <1>8, <1>9, <1>10

\* ikcp_parse_data up to the move: the block has one more segment.
LEMMA StoredOK ==
  ASSUME NEW k \in Block, NEW g \in Seq(Nat), Receiver(k, g),
         NEW s \in Segment, s.data = s.sn, s.sn >= k.rcv_nxt
  PROVE  LET noted == [k EXCEPT !.acklist = @ \cup {s.sn}]
             l == [Stored(noted, s) EXCEPT !.reminds = RemindLimit]
         IN  /\ l \in Block /\ SameSnd(k, l) /\ Receiver(l, g)
             /\ Held(l) = Held(k) \cup {s.sn} /\ l.rcv_nxt = k.rcv_nxt
<1>. DEFINE noted == [k EXCEPT !.acklist = @ \cup {s.sn}]
            l == [Stored(noted, s) EXCEPT !.reminds = RemindLimit]
            b == [sn \in DOMAIN k.rcv_buf \cup {s.sn} |->
                    IF sn = s.sn THEN s.data ELSE k.rcv_buf[sn]]
<1>1. /\ k.rcv_nxt \in Nat /\ k.rcv_buf \in Buffer /\ s.sn \in Nat /\ s.data \in Nat
      /\ DOMAIN k.rcv_buf \subseteq Nat /\ \A sn \in DOMAIN k.rcv_buf : k.rcv_buf[sn] \in Nat
  BY BufferOK DEF Block, Segment
<1>2. b \in Buffer
  <2>1. b \in [DOMAIN k.rcv_buf \cup {s.sn} -> Nat]
    BY <1>1
  <2>. QED BY <1>1, <2>1, BufferOK
<1>3. /\ DOMAIN b = DOMAIN k.rcv_buf \cup {s.sn}
      /\ \A sn \in DOMAIN b : b[sn] = IF sn = s.sn THEN s.data ELSE k.rcv_buf[sn]
  OBVIOUS
<1>4. RemindLimit \in Nat
  BY ConstantsOK DEF ConstantsOK
<1>5. noted \in Block /\ noted.rcv_buf = k.rcv_buf /\ noted.rcv_nxt = k.rcv_nxt
      /\ noted.acklist = k.acklist \cup {s.sn} /\ noted.rcv_queue = k.rcv_queue
      /\ SameSnd(k, noted)
  BY <1>1 DEF Block, SameSnd
<1>6. CASE s.sn \in DOMAIN k.rcv_buf
  <2>1. l = [noted EXCEPT !.reminds = RemindLimit]
    BY <1>5, <1>6 DEF Stored
  <2>. HIDE DEF l, noted, b
  <2>2. /\ l \in Block /\ SameSnd(k, l) /\ l.rcv_nxt = k.rcv_nxt /\ l.rcv_buf = k.rcv_buf
        /\ l.rcv_queue = k.rcv_queue /\ l.acklist = k.acklist \cup {s.sn}
    BY <1>4, <1>5, <2>1 DEF Block, SameSnd
  <2>3. Held(l) = Held(k) \cup {s.sn} /\ Held(l) = Held(k)
    BY <1>6, <2>2 DEF Held
  <2>4. Receiver(l, g)
    BY <2>2, <2>3 DEF Receiver
  <2>. QED BY <2>2, <2>3, <2>4 DEF l, noted
<1>7. CASE s.sn \notin DOMAIN k.rcv_buf
  <2>1. l = [[noted EXCEPT !.rcv_buf = b] EXCEPT !.reminds = RemindLimit]
    BY <1>5, <1>7 DEF Stored
  <2>. HIDE DEF l, noted, b
  <2>2. /\ l \in Block /\ SameSnd(k, l) /\ l.rcv_nxt = k.rcv_nxt /\ l.rcv_buf = b
        /\ l.rcv_queue = k.rcv_queue /\ l.acklist = k.acklist \cup {s.sn}
    BY <1>2, <1>4, <1>5, <2>1 DEF Block, SameSnd
  <2>3. Held(l) = Held(k) \cup {s.sn}
    BY <1>3, <2>2 DEF Held
  <2>4. Receiver(l, g)
    BY <1>1, <1>3, <2>2, <2>3, SMTT(30) DEF Receiver
  <2>. QED BY <2>2, <2>3, <2>4 DEF l, noted
<1>. QED BY <1>6, <1>7

\* ikcp_update numbers n messages: they move from snd_queue to snd_buf.
LEMMA NumberedOK ==
  ASSUME NEW k \in Block, NEW m \in Nat, Sender(k, m), NEW n \in 0..Len(k.snd_queue)
  PROVE  /\ Numbered(k, n) \in Block /\ SameRcv(k, Numbered(k, n)) /\ Sender(Numbered(k, n), m)
         /\ Numbered(k, n).snd_nxt = k.snd_nxt + n
         /\ DOMAIN Numbered(k, n).snd_buf = DOMAIN k.snd_buf \cup k.snd_nxt..(k.snd_nxt + n - 1)
<1>. DEFINE D == DOMAIN k.snd_buf \cup k.snd_nxt..(k.snd_nxt + n - 1)
            b == [sn \in D |-> IF sn < k.snd_nxt THEN k.snd_buf[sn]
                                ELSE k.snd_queue[sn - k.snd_nxt + 1]]
<1>1. /\ k.snd_nxt \in Nat /\ k.snd_buf \in Buffer /\ DOMAIN k.snd_buf \subseteq Nat
  BY BufferOK DEF Block
<1>2. /\ k.snd_nxt <= m /\ k.snd_queue = Run(k.snd_nxt, m)
      /\ DOMAIN k.snd_buf \subseteq 0..(k.snd_nxt - 1)
      /\ \A sn \in DOMAIN k.snd_buf : k.snd_buf[sn] = sn
  BY DEF Sender
<1>3. n \in 0..(m - k.snd_nxt) /\ n \in Nat
  <2>1. Len(Run(k.snd_nxt, m)) = m - k.snd_nxt
    BY <1>1, <1>2, RunType
  <2>2. n \in 0..(m - k.snd_nxt)
    BY <1>2, <2>1
  <2>. QED BY <1>1, <2>2, SMTT(30)
<1>4. D \subseteq 0..(k.snd_nxt + n - 1) /\ D \in SUBSET Nat
  BY <1>1, <1>2, <1>3, SMTT(30)
<1>5. \A sn \in D : b[sn] = sn
  <2>1. ASSUME NEW sn \in D, sn < k.snd_nxt PROVE b[sn] = sn
    BY <1>1, <1>2, <1>3, <2>1, SMTT(30)
  <2>2. ASSUME NEW sn \in D, ~ sn < k.snd_nxt PROVE b[sn] = sn
    <3>1. sn \in k.snd_nxt..(k.snd_nxt + n - 1)
      BY <1>1, <1>2, <2>2, SMTT(30)
    <3>2. k.snd_queue[sn - k.snd_nxt + 1] = sn
      BY <1>1, <1>2, <1>3, <3>1, SMTT(30) DEF Run
    <3>. QED BY <2>2, <3>2
  <2>. QED BY <2>1, <2>2
<1>6. b \in Buffer /\ DOMAIN b = D
  <2>1. b \in [D -> Nat]
    BY <1>4, <1>5
  <2>. QED BY <1>4, <2>1, BufferOK, SMTT(30)
<1>7. SubSeq(k.snd_queue, n + 1, Len(k.snd_queue)) = Run(k.snd_nxt + n, m)
  BY <1>1, <1>2, <1>3, RunSubSeq
<1>8. Run(k.snd_nxt + n, m) \in Seq(Nat)
  <2>1. k.snd_nxt + n \in Nat /\ k.snd_nxt + n <= m
    BY <1>1, <1>2, <1>3, SMTT(30)
  <2>. QED BY <2>1, RunType
<1>9. Numbered(k, n) = [k EXCEPT !.snd_buf = b, !.snd_queue = Run(k.snd_nxt + n, m),
                                 !.snd_nxt = k.snd_nxt + n]
  BY <1>7 DEF Numbered
<1>. HIDE DEF b, D
<1>. DEFINE nxt == k.snd_nxt + n
            q == Run(nxt, m)
<1>b. nxt \in Nat /\ q \in Seq(Nat) /\ b \in Buffer
      /\ Numbered(k, n) = [k EXCEPT !.snd_buf = b, !.snd_queue = q, !.snd_nxt = nxt]
  BY <1>1, <1>3, <1>6, <1>8, <1>9, SMTT(30)
<1>. HIDE DEF nxt, q
<1>10. /\ Numbered(k, n) \in Block /\ SameRcv(k, Numbered(k, n))
       /\ Numbered(k, n).snd_nxt = nxt /\ Numbered(k, n).snd_buf = b
       /\ Numbered(k, n).snd_queue = q
  BY <1>b DEF Block, SameRcv
<1>. USE DEF nxt, q, D
<1>11. Sender(Numbered(k, n), m)
  BY <1>1, <1>2, <1>3, <1>4, <1>5, <1>6, <1>10, SMTT(30) DEF Sender
<1>. QED BY <1>6, <1>10, <1>11

-----------------------------------------------------------------------------
(* A step of one end.  Every action changes the block of one end p, which      *)
(* becomes k, the history of p, and the network.                                *)

StepOf(p, k, n, g) ==
  /\ kcp' = [kcp EXCEPT ![p] = k]
  /\ sent' = [sent EXCEPT ![p] = n] /\ got' = [got EXCEPT ![p] = g]

\* What such a step has to establish for the invariant to be kept.
Good(p, k, n, g) ==
  /\ k \in Block /\ n \in Nat /\ g \in Seq(Nat) /\ Sender(k, n) /\ Receiver(k, g)
  /\ Held(kcp[p]) \subseteq Held(k) /\ Held(k) \subseteq 0..(kcp[Peer(p)].snd_nxt - 1)
  /\ kcp[p].rcv_nxt <= k.rcv_nxt /\ kcp[p].snd_nxt <= k.snd_nxt
  /\ 0..(k.snd_nxt - 1) \ DOMAIN k.snd_buf \subseteq Held(kcp[Peer(p)])
  /\ \A s \in net' : s \in net \/ (s.to = Peer(p) /\ SegOK(s, k))

LEMMA Preserve ==
  ASSUME IndInv, NEW p \in End, NEW k, NEW n, NEW g, StepOf(p, k, n, g), Good(p, k, n, g)
  PROVE  IndInv'
<1>. DEFINE q == Peer(p)
<1>1. q \in End /\ q # p /\ Peer(q) = p /\ \A r \in End : r = p \/ r = q
  BY PeerOK
<1>. HIDE DEF q
<1>2. /\ kcp' \in [End -> Block] /\ sent' \in [End -> Nat] /\ got' \in [End -> Seq(Nat)]
      /\ kcp'[p] = k /\ sent'[p] = n /\ got'[p] = g
      /\ kcp'[q] = kcp[q] /\ sent'[q] = sent[q] /\ got'[q] = got[q]
  BY <1>1 DEF IndInv, StepOf, Good
<1>3. /\ Sender(kcp'[p], sent'[p]) /\ Receiver(kcp'[p], got'[p])
      /\ Sender(kcp'[q], sent'[q]) /\ Receiver(kcp'[q], got'[q])
  BY <1>1, <1>2 DEF IndInv, Good
<1>4. Agree(kcp'[p], kcp'[q])
  <2>1. Held(kcp[q]) \subseteq 0..(kcp[p].snd_nxt - 1)
    BY <1>1 DEF IndInv, Agree, q
  <2>2. kcp[p].snd_nxt \in Nat /\ k.snd_nxt \in Nat /\ kcp[p].snd_nxt <= k.snd_nxt
    BY DEF IndInv, Good, Block
  <2>3. Held(kcp[q]) \subseteq 0..(k.snd_nxt - 1)
    BY <2>1, <2>2, SMTT(30)
  <2>. QED BY <1>2, <2>3 DEF Agree, Good, q
<1>5. Agree(kcp'[q], kcp'[p])
  <2>1. 0..(kcp[q].snd_nxt - 1) \ DOMAIN kcp[q].snd_buf \subseteq Held(kcp[p])
    BY <1>1 DEF IndInv, Agree
  <2>. QED BY <1>2, <2>1 DEF Agree, Good, q
<1>6. ASSUME NEW s \in net' PROVE s.to \in End /\ SegOK(s, kcp'[Peer(s.to)])
  <2>1. CASE s.to = q /\ SegOK(s, k)
    BY <1>1, <1>2, <2>1
  <2>2. CASE s \in net /\ s.to = p
    <3>1. SegOK(s, kcp[q])
      BY <2>2 DEF IndInv, q
    <3>. QED BY <1>2, <2>2, <3>1 DEF q
  <2>3. CASE s \in net /\ s.to = q
    <3>1. SegOK(s, kcp[p])
      BY <1>1, <2>3 DEF IndInv
    <3>2. /\ kcp[p].rcv_nxt \in Nat /\ k.rcv_nxt \in Nat /\ kcp[p].rcv_nxt <= k.rcv_nxt
          /\ kcp[p].snd_nxt \in Nat /\ k.snd_nxt \in Nat /\ kcp[p].snd_nxt <= k.snd_nxt
          /\ Held(kcp[p]) \subseteq Held(k)
      BY DEF IndInv, Good, Block
    <3>3. s.una \in Nat /\ s.sn \in Nat
      BY <3>1 DEF SegOK, Segment
    <3>4. SegOK(s, k)
      BY <3>1, <3>2, <3>3, SMTT(30) DEF SegOK
    <3>. QED BY <1>1, <1>2, <2>3, <3>4
  <2>4. s \in net => s.to \in End
    BY DEF IndInv
  <2>. QED BY <1>1, <2>1, <2>2, <2>3, <2>4 DEF Good, q
<1>7. \A r \in End : /\ Sender(kcp'[r], sent'[r]) /\ Receiver(kcp'[r], got'[r])
                     /\ Agree(kcp'[r], kcp'[Peer(r)])
  BY <1>1, <1>3, <1>4, <1>5 DEF q
<1>. QED BY <1>2, <1>6, <1>7 DEF IndInv

-----------------------------------------------------------------------------
(* waitsnd *)

\* waitsnd in numbers.
LEMMA WaitsndOK ==
  ASSUME NEW k \in Block, NEW n \in Nat, Sender(k, n)
  PROVE  /\ IsFiniteSet(DOMAIN k.snd_buf) /\ Cardinality(DOMAIN k.snd_buf) \in Nat
         /\ Waitsnd(k) = Cardinality(DOMAIN k.snd_buf) + (n - k.snd_nxt)
         /\ Waitsnd(k) \in Nat
<1>1. k.snd_nxt \in Nat /\ k.snd_nxt <= n /\ k.snd_queue = Run(k.snd_nxt, n)
      /\ DOMAIN k.snd_buf \subseteq 0..(k.snd_nxt - 1)
  BY DEF Sender, Block
<1>2. IsFiniteSet(0..(k.snd_nxt - 1))
  <2>1. 0 \in Int /\ k.snd_nxt - 1 \in Int
    BY <1>1, SMTT(30)
  <2> QED BY <2>1, FS_Interval
<1>3. IsFiniteSet(DOMAIN k.snd_buf)
  BY <1>1, <1>2, FS_Subset
<1>4. Cardinality(DOMAIN k.snd_buf) \in Nat
  BY <1>3, FS_CardinalityType
<1>5. Len(k.snd_queue) = n - k.snd_nxt
  BY <1>1, RunType
<1>. QED BY <1>1, <1>3, <1>4, <1>5, SMTT(30) DEF Waitsnd

\* waitsnd counts every message that the peer, which has H, does not have.
LEMMA Counted ==
  ASSUME NEW k \in Block, NEW n \in Nat, Sender(k, n), NEW H,
         0..(k.snd_nxt - 1) \ DOMAIN k.snd_buf \subseteq H
  PROVE  Cardinality(0..(n - 1) \ H) <= Waitsnd(k)
<1>. DEFINE D == DOMAIN k.snd_buf
            I == k.snd_nxt..(n - 1)
<1>1. k.snd_nxt \in Nat /\ k.snd_nxt <= n
  BY DEF Sender, Block
<1>2. 0..(n - 1) \ H \in SUBSET (D \cup I)
  BY <1>1, SMTT(30)
<1>3. IsFiniteSet(D) /\ Cardinality(D) \in Nat /\ Waitsnd(k) = Cardinality(D) + (n - k.snd_nxt)
  BY WaitsndOK
<1>4. IsFiniteSet(I) /\ Cardinality(I) = n - k.snd_nxt
  <2>1. k.snd_nxt \in Int /\ n - 1 \in Int
    BY <1>1, SMTT(30)
  <2>2. /\ IsFiniteSet(k.snd_nxt..(n - 1))
        /\ Cardinality(k.snd_nxt..(n - 1)) = IF k.snd_nxt > n - 1 THEN 0 ELSE (n - 1) - k.snd_nxt + 1
    BY <2>1, FS_Interval
  <2>. QED BY <1>1, <2>2, SMTT(30)
<1>. HIDE DEF D, I
<1>5. IsFiniteSet(D \cap I) /\ Cardinality(D \cap I) \in Nat
  BY <1>3, FS_Subset, FS_CardinalityType
<1>6. /\ IsFiniteSet(D \cup I)
      /\ Cardinality(D \cup I) = Cardinality(D) + Cardinality(I) - Cardinality(D \cap I)
  BY <1>3, <1>4, FS_Union
<1>7. IsFiniteSet(0..(n - 1) \ H) /\ Cardinality(0..(n - 1) \ H) <= Cardinality(D \cup I)
  BY <1>2, <1>6, FS_Subset
<1>8. Cardinality(0..(n - 1) \ H) \in Nat
  BY <1>7, FS_CardinalityType
<1>. QED BY <1>1, <1>3, <1>4, <1>5, <1>6, <1>7, <1>8, SMTT(30)

-----------------------------------------------------------------------------
(* The actions.  Each is a good step of one end, with an effect on what the    *)
(* contract sees.                                                              *)

EffSend(p, k, n, g) ==
  /\ n = sent[p] + 1 /\ g = got[p] /\ Held(k) = Held(kcp[p])
  /\ Waitsnd(k) = Waitsnd(kcp[p]) + 1
EffRecv(p, k, n, g) ==
  /\ n = sent[p] /\ Len(got[p]) \in Held(kcp[p]) /\ g = Append(got[p], Len(got[p]))
  /\ Held(k) = Held(kcp[p]) /\ Waitsnd(k) = Waitsnd(kcp[p])
EffInput(p, k, n, g) ==
  n = sent[p] /\ g = got[p] /\ Waitsnd(k) <= Waitsnd(kcp[p])

\* The facts about end p that the steps start from.
LEMMA Facts ==
  ASSUME IndInv, NEW p \in End
  PROVE  /\ kcp[p] \in Block /\ sent[p] \in Nat /\ got[p] \in Seq(Nat)
         /\ Sender(kcp[p], sent[p]) /\ Receiver(kcp[p], got[p])
         /\ Held(kcp[p]) \subseteq 0..(kcp[Peer(p)].snd_nxt - 1)
         /\ 0..(kcp[p].snd_nxt - 1) \ DOMAIN kcp[p].snd_buf \subseteq Held(kcp[Peer(p)])
         /\ kcp[p].snd_nxt \in Nat /\ kcp[p].rcv_nxt \in Nat
<1>1. Agree(kcp[p], kcp[Peer(p)]) /\ Agree(kcp[Peer(p)], kcp[p])
  BY PeerOK DEF IndInv
<1>. QED BY <1>1, SMTT(30) DEF IndInv, Agree, Block

\* ikcp_send
LEMMA SendStep ==
  ASSUME IndInv, NEW p \in End, Send(p)
  PROVE  \E k, n, g : StepOf(p, k, n, g) /\ Good(p, k, n, g) /\ EffSend(p, k, n, g)
<1>. DEFINE k == kcp[p]
            l == [k EXCEPT !.snd_queue = Append(@, sent[p])]
            n == sent[p] + 1
<1>1. /\ k \in Block /\ sent[p] \in Nat /\ got[p] \in Seq(Nat) /\ k.snd_nxt \in Nat
      /\ Sender(k, sent[p]) /\ Receiver(k, got[p])
      /\ Held(k) \subseteq 0..(kcp[Peer(p)].snd_nxt - 1)
      /\ 0..(k.snd_nxt - 1) \ DOMAIN k.snd_buf \subseteq Held(kcp[Peer(p)])
      /\ k.rcv_nxt \in Nat
  BY Facts
<1>2. StepOf(p, l, n, got[p])
  BY DEF Send, StepOf, IndInv
<1>3. k.snd_queue = Run(k.snd_nxt, sent[p]) /\ k.snd_nxt <= sent[p]
  BY <1>1 DEF Sender
<1>4. Append(k.snd_queue, sent[p]) = Run(k.snd_nxt, n)
  BY <1>1, <1>3, RunAppend
<1>5. Append(k.snd_queue, sent[p]) \in Seq(Nat)
  BY <1>1, SMTT(30) DEF Block
<1>. HIDE DEF k
<1>6. /\ l \in Block /\ SameRcv(k, l) /\ l.snd_buf = k.snd_buf /\ l.snd_nxt = k.snd_nxt
      /\ l.snd_queue = Run(k.snd_nxt, n)
  BY <1>1, <1>4, <1>5 DEF Block, SameRcv
<1>. HIDE DEF l
<1>7. Sender(l, n) /\ n \in Nat
  BY <1>1, <1>6, SMTT(30) DEF Sender
<1>8. Receiver(l, got[p]) /\ Held(l) = Held(k) /\ l.rcv_nxt = k.rcv_nxt
  BY <1>1, <1>6 DEF Receiver, SameRcv, Held
<1>9. net' = net
  BY DEF Send
<1>10. Good(p, l, n, got[p])
  BY <1>1, <1>6, <1>7, <1>8, <1>9, SMTT(30) DEF Good, k
<1>11. Waitsnd(l) = Waitsnd(k) + 1
  BY <1>1, <1>6, <1>7, WaitsndOK, SMTT(30)
<1>12. EffSend(p, l, n, got[p])
  BY <1>8, <1>11 DEF EffSend, k
<1>. QED BY <1>2, <1>10, <1>12

\* ikcp_recv
LEMMA RecvStep ==
  ASSUME IndInv, NEW p \in End, Recv(p)
  PROVE  \E k, n, g : StepOf(p, k, n, g) /\ Good(p, k, n, g) /\ EffRecv(p, k, n, g)
<1>. DEFINE k == kcp[p]
            rest == [k EXCEPT !.rcv_queue = Tail(@)]
            g == Append(got[p], Head(k.rcv_queue))
<1>1. /\ k \in Block /\ sent[p] \in Nat /\ got[p] \in Seq(Nat) /\ k.snd_nxt \in Nat
      /\ Sender(k, sent[p]) /\ Receiver(k, got[p])
      /\ Held(k) \subseteq 0..(kcp[Peer(p)].snd_nxt - 1)
      /\ 0..(k.snd_nxt - 1) \ DOMAIN k.snd_buf \subseteq Held(kcp[Peer(p)])
      /\ k.rcv_nxt \in Nat
  BY Facts
<1>2. /\ k.rcv_queue # << >> /\ got' = [got EXCEPT ![p] = g] /\ net' = net /\ sent' = sent
  BY DEF Recv
<1>3. PICK m \in Stops(rest) :
        kcp' = [kcp EXCEPT ![p] =
                IF Len(k.rcv_queue) >= RcvWnd /\ Len(Moved(rest, m).rcv_queue) < RcvWnd
                THEN Tell(Moved(rest, m)) ELSE Moved(rest, m)]
  BY DEF Recv
<1>. DEFINE l == IF Len(k.rcv_queue) >= RcvWnd /\ Len(Moved(rest, m).rcv_queue) < RcvWnd
                 THEN Tell(Moved(rest, m)) ELSE Moved(rest, m)
<1>. HIDE DEF k
<1>4. StepOf(p, l, sent[p], g)
  BY <1>2, <1>3 DEF StepOf, IndInv, k
<1>5. /\ Len(got[p]) \in Nat /\ Len(got[p]) <= k.rcv_nxt /\ got[p] = Run(0, Len(got[p]))
      /\ k.rcv_queue = Run(Len(got[p]), k.rcv_nxt)
  BY <1>1, SMTT(30) DEF Receiver
<1>6. /\ Len(got[p]) < k.rcv_nxt /\ Head(k.rcv_queue) = Len(got[p])
      /\ Tail(k.rcv_queue) = Run(Len(got[p]) + 1, k.rcv_nxt)
  BY <1>1, <1>2, <1>5, RunTail
<1>7. /\ g \in Seq(Nat) /\ Len(g) = Len(got[p]) + 1 /\ g = Run(0, Len(g))
  <2>1. g \in Seq(Nat) /\ Len(g) = Len(got[p]) + 1
    BY <1>1, <1>5, <1>6, SMTT(30)
  <2>2. Append(Run(0, Len(got[p])), Len(got[p])) = Run(0, Len(got[p]) + 1)
    <3>1. 0 \in Nat /\ 0 <= Len(got[p])
      BY <1>5, SMTT(30)
    <3>. QED BY <1>5, <3>1, RunAppend
  <2>. QED BY <1>5, <1>6, <2>1, <2>2
<1>. HIDE DEF g
<1>8. rest \in Block /\ SameSnd(k, rest) /\ rest.rcv_nxt = k.rcv_nxt /\ rest.rcv_buf = k.rcv_buf
      /\ rest.rcv_queue = Run(Len(g), k.rcv_nxt) /\ rest.acklist = k.acklist
  <2>1. Tail(k.rcv_queue) \in Seq(Nat)
    BY <1>1, <1>2, SMTT(30) DEF Block
  <2>2. Tail(k.rcv_queue) = Run(Len(g), k.rcv_nxt)
    BY <1>6, <1>7
  <2>. QED BY <1>1, <2>1, <2>2 DEF Block, SameSnd
<1>. HIDE DEF rest
<1>9. Held(rest) = Held(k)
  BY <1>8 DEF Held
<1>10. Receiver(rest, g)
  BY <1>1, <1>5, <1>6, <1>7, <1>8, <1>9, SMTT(30) DEF Receiver
<1>11. /\ Moved(rest, m) \in Block /\ SameSnd(rest, Moved(rest, m)) /\ Receiver(Moved(rest, m), g)
       /\ Held(Moved(rest, m)) = Held(rest) /\ rest.rcv_nxt <= Moved(rest, m).rcv_nxt
  BY <1>7, <1>8, <1>10, MovedOK
<1>12. /\ l \in Block /\ SameRcv(Moved(rest, m), l) /\ SameSnd(Moved(rest, m), l)
  <2>1. RemindLimit \in Nat
    BY ConstantsOK DEF ConstantsOK
  <2>. QED BY <1>11, <2>1 DEF Tell, Block, SameRcv, SameSnd
<1>. HIDE DEF l
<1>13. Sender(l, sent[p]) /\ l.snd_nxt = k.snd_nxt /\ l.snd_buf = k.snd_buf
  BY <1>1, <1>8, <1>11, <1>12 DEF Sender, SameSnd
<1>14. Held(l) = Held(k) /\ Receiver(l, g) /\ k.rcv_nxt <= l.rcv_nxt
  BY <1>8, <1>9, <1>11, <1>12 DEF Held, Receiver, SameRcv
<1>15. Good(p, l, sent[p], g)
  BY <1>1, <1>2, <1>7, <1>12, <1>13, <1>14, SMTT(30) DEF Good, k
<1>16. Waitsnd(l) = Waitsnd(k)
  BY <1>8, <1>11, <1>12 DEF Waitsnd, SameSnd
<1>17. Len(got[p]) \in Held(k)
  BY <1>1, <1>5, <1>6, SMTT(30) DEF Held
<1>18. EffRecv(p, l, sent[p], g)
  BY <1>6, <1>14, <1>16, <1>17 DEF EffRecv, k, g
<1>. QED BY <1>4, <1>15, <1>18

\* Fewer segments in snd_buf: waitsnd goes down.
LEMMA WaitsndLess ==
  ASSUME NEW k \in Block, NEW l \in Block, NEW n \in Nat, Sender(k, n), Sender(l, n),
         l.snd_nxt = k.snd_nxt, DOMAIN l.snd_buf \subseteq DOMAIN k.snd_buf
  PROVE  Waitsnd(l) <= Waitsnd(k)
<1>1. /\ IsFiniteSet(DOMAIN k.snd_buf) /\ Cardinality(DOMAIN k.snd_buf) \in Nat
      /\ Cardinality(DOMAIN l.snd_buf) \in Nat
      /\ Waitsnd(k) = Cardinality(DOMAIN k.snd_buf) + (n - k.snd_nxt)
      /\ Waitsnd(l) = Cardinality(DOMAIN l.snd_buf) + (n - k.snd_nxt)
  BY WaitsndOK
<1>2. Cardinality(DOMAIN l.snd_buf) <= Cardinality(DOMAIN k.snd_buf)
  BY <1>1, FS_Subset
<1>3. k.snd_nxt \in Nat
  BY DEF Block
<1>. QED BY <1>1, <1>2, <1>3, SMTT(30)

\* A segment arrives at p: una acknowledges nothing the peer does not have.
LEMMA HeaderStep ==
  ASSUME IndInv, NEW p \in End, NEW s \in net, s.to = p
  PROVE  LET k == Header(kcp[p], s)
         IN  /\ s \in Segment /\ SegOK(s, kcp[Peer(p)])
             /\ k \in Block /\ SameRcv(kcp[p], k) /\ Sender(k, sent[p])
             /\ k.snd_nxt = kcp[p].snd_nxt /\ DOMAIN k.snd_buf \subseteq DOMAIN kcp[p].snd_buf
             /\ 0..(k.snd_nxt - 1) \ DOMAIN k.snd_buf \subseteq Held(kcp[Peer(p)])
<1>. DEFINE k == Header(kcp[p], s)
<1>1. s \in Segment /\ SegOK(s, kcp[Peer(p)])
  BY DEF IndInv, SegOK
<1>2. /\ kcp[p] \in Block /\ sent[p] \in Nat /\ Sender(kcp[p], sent[p])
      /\ 0..(kcp[p].snd_nxt - 1) \ DOMAIN kcp[p].snd_buf \subseteq Held(kcp[Peer(p)])
      /\ kcp[p].snd_nxt \in Nat
  BY Facts
<1>3. /\ k \in Block /\ SameRcv(kcp[p], k)
      /\ DOMAIN k.snd_buf = {sn \in DOMAIN kcp[p].snd_buf : ~ sn < s.una}
      /\ k.snd_nxt = kcp[p].snd_nxt /\ Sender(k, sent[p])
  BY <1>1, <1>2, HeaderOK
<1>4. kcp[Peer(p)].rcv_nxt \in Nat
  BY PeerOK, Facts
<1>5. \A sn \in 0..(kcp[p].snd_nxt - 1) : sn < s.una => sn \in Held(kcp[Peer(p)])
  BY <1>1, <1>2, <1>4, SMTT(30) DEF SegOK, Segment, Held
<1>. HIDE DEF k
<1>6. 0..(k.snd_nxt - 1) \ DOMAIN k.snd_buf \subseteq Held(kcp[Peer(p)])
  BY <1>2, <1>3, <1>5
<1>. QED BY <1>1, <1>3, <1>6 DEF k

\* What input leaves in the network was there before.
LEMMA ArrivesOK ==
  ASSUME NEW p, NEW s, NEW cmd, Arrives(p, s, cmd)
  PROVE  s \in net /\ s.to = p /\ s.cmd = cmd /\ \A t \in net' : t \in net
BY DEF Arrives, HeldBack

\* ikcp_input with IKCP_CMD_ACK
LEMMA InputAckStep ==
  ASSUME IndInv, NEW p \in End, NEW s \in net, InputAck(p, s)
  PROVE  \E k, n, g : StepOf(p, k, n, g) /\ Good(p, k, n, g) /\ EffInput(p, k, n, g)
<1>. DEFINE k == kcp[p]
            h == Header(k, s)
            l == Acked(h, {s.sn})
<1>1. /\ k \in Block /\ sent[p] \in Nat /\ got[p] \in Seq(Nat) /\ k.snd_nxt \in Nat
      /\ Sender(k, sent[p]) /\ Receiver(k, got[p])
      /\ Held(k) \subseteq 0..(kcp[Peer(p)].snd_nxt - 1) /\ k.rcv_nxt \in Nat
  BY Facts
<1>2. s.to = p /\ s.cmd = "ACK" /\ \A t \in net' : t \in net
  BY ArrivesOK DEF InputAck
<1>3. StepOf(p, l, sent[p], got[p])
  BY DEF InputAck, StepOf, IndInv
<1>4. /\ SegOK(s, kcp[Peer(p)]) /\ h \in Block /\ SameRcv(k, h) /\ Sender(h, sent[p])
      /\ h.snd_nxt = k.snd_nxt /\ DOMAIN h.snd_buf \subseteq DOMAIN k.snd_buf
      /\ 0..(h.snd_nxt - 1) \ DOMAIN h.snd_buf \subseteq Held(kcp[Peer(p)])
  BY <1>2, HeaderStep
<1>. HIDE DEF h, k
<1>5. /\ l \in Block /\ SameRcv(h, l) /\ l.snd_nxt = h.snd_nxt
      /\ DOMAIN l.snd_buf = DOMAIN h.snd_buf \ {s.sn} /\ Sender(l, sent[p])
  BY <1>1, <1>4, AckedOK
<1>. HIDE DEF l
<1>6. s.sn \in Held(kcp[Peer(p)])
  BY <1>2, <1>4 DEF SegOK
<1>7. Receiver(l, got[p]) /\ Held(l) = Held(k) /\ l.rcv_nxt = k.rcv_nxt
  BY <1>1, <1>4, <1>5 DEF Receiver, SameRcv, Held
<1>8. 0..(l.snd_nxt - 1) \ DOMAIN l.snd_buf \subseteq Held(kcp[Peer(p)])
  BY <1>4, <1>5, <1>6
<1>9. Good(p, l, sent[p], got[p])
  BY <1>1, <1>2, <1>4, <1>5, <1>7, <1>8, SMTT(30) DEF Good, k
<1>10. Waitsnd(l) <= Waitsnd(k)
  BY <1>1, <1>4, <1>5, WaitsndLess
<1>11. EffInput(p, l, sent[p], got[p])
  BY <1>10 DEF EffInput, k
<1>. QED BY <1>3, <1>9, <1>11

\* A step that keeps h, the block after the header, but for the receiver's side.
LEMMA InputGood ==
  ASSUME IndInv, NEW p \in End, NEW s \in net, s.to = p, NEW l \in Block,
         SameSnd(Header(kcp[p], s), l), Receiver(l, got[p]),
         Held(kcp[p]) \subseteq Held(l), Held(l) \subseteq 0..(kcp[Peer(p)].snd_nxt - 1),
         kcp[p].rcv_nxt <= l.rcv_nxt, \A t \in net' : t \in net
  PROVE  Good(p, l, sent[p], got[p]) /\ EffInput(p, l, sent[p], got[p])
<1>. DEFINE h == Header(kcp[p], s)
<1>1. /\ kcp[p] \in Block /\ sent[p] \in Nat /\ got[p] \in Seq(Nat) /\ kcp[p].snd_nxt \in Nat
      /\ Sender(kcp[p], sent[p])
  BY Facts
<1>2. /\ h \in Block /\ Sender(h, sent[p]) /\ h.snd_nxt = kcp[p].snd_nxt
      /\ DOMAIN h.snd_buf \subseteq DOMAIN kcp[p].snd_buf
      /\ 0..(h.snd_nxt - 1) \ DOMAIN h.snd_buf \subseteq Held(kcp[Peer(p)])
  BY HeaderStep
<1>. HIDE DEF h
<1>3. l.snd_buf = h.snd_buf /\ l.snd_nxt = h.snd_nxt /\ l.snd_queue = h.snd_queue
  BY DEF SameSnd, h
<1>4. Sender(l, sent[p])
  BY <1>2, <1>3 DEF Sender
<1>5. Good(p, l, sent[p], got[p])
  BY <1>1, <1>2, <1>3, <1>4, SMTT(30) DEF Good
<1>6. Waitsnd(l) <= Waitsnd(kcp[p])
  BY <1>1, <1>2, <1>3, <1>4, WaitsndLess
<1>. QED BY <1>5, <1>6 DEF EffInput

\* ikcp_input with IKCP_CMD_WASK and IKCP_CMD_WINS
LEMMA InputProbeStep ==
  ASSUME IndInv, NEW p \in End, NEW s \in net, InputProbe(p, s)
  PROVE  \E k, n, g : StepOf(p, k, n, g) /\ Good(p, k, n, g) /\ EffInput(p, k, n, g)
<1>. DEFINE h == Header(kcp[p], s)
<1>1. s.to = p /\ \A t \in net' : t \in net
  BY ArrivesOK DEF InputProbe
<1>2. PICK l \in {Tell(h), h} : StepOf(p, l, sent[p], got[p])
  BY DEF InputProbe, StepOf, IndInv
<1>3. h \in Block /\ SameRcv(kcp[p], h)
  BY <1>1, HeaderStep
<1>. HIDE DEF h
<1>4. l \in Block /\ SameRcv(h, l) /\ SameSnd(h, l)
  <2>1. RemindLimit \in Nat
    BY ConstantsOK DEF ConstantsOK
  <2>. QED BY <1>3, <2>1 DEF Tell, Block, SameRcv, SameSnd
<1>5. Receiver(l, got[p]) /\ Held(l) = Held(kcp[p]) /\ l.rcv_nxt = kcp[p].rcv_nxt
  BY <1>3, <1>4, Facts, SMTT(30) DEF Receiver, SameRcv, Held
<1>6. Good(p, l, sent[p], got[p]) /\ EffInput(p, l, sent[p], got[p])
  <2>1. Held(kcp[p]) \subseteq 0..(kcp[Peer(p)].snd_nxt - 1) /\ kcp[p].rcv_nxt \in Nat
    BY Facts
  <2>. QED BY <1>1, <1>4, <1>5, <2>1, InputGood, SMTT(30) DEF h
<1>. QED BY <1>2, <1>6

\* ikcp_input with IKCP_CMD_PUSH
LEMMA InputPushStep ==
  ASSUME IndInv, NEW p \in End, NEW s \in net, InputPush(p, s)
  PROVE  \E k, n, g : StepOf(p, k, n, g) /\ Good(p, k, n, g) /\ EffInput(p, k, n, g)
<1>. DEFINE h == Header(kcp[p], s)
            noted == [h EXCEPT !.acklist = @ \cup {s.sn}]
            stored == [Stored(noted, s) EXCEPT !.reminds = RemindLimit]
<1>1. s.to = p /\ s.cmd = "PUSH" /\ \A t \in net' : t \in net
  BY ArrivesOK DEF InputPush
<1>2. /\ s \in Segment /\ SegOK(s, kcp[Peer(p)]) /\ h \in Block /\ SameRcv(kcp[p], h)
  BY <1>1, HeaderStep
<1>3. s.sn \in Nat /\ s.sn < kcp[Peer(p)].snd_nxt /\ s.data = s.sn
  BY <1>1, <1>2 DEF SegOK, Segment
<1>4. /\ got[p] \in Seq(Nat) /\ Receiver(kcp[p], got[p]) /\ kcp[p].rcv_nxt \in Nat
      /\ Held(kcp[p]) \subseteq 0..(kcp[Peer(p)].snd_nxt - 1) /\ kcp[Peer(p)].snd_nxt \in Nat
  BY PeerOK, Facts
<1>5. \/ StepOf(p, h, sent[p], got[p])
      \/ s.sn < h.rcv_nxt /\ StepOf(p, noted, sent[p], got[p])
      \/ s.sn >= h.rcv_nxt /\ \E n \in Stops(stored) : StepOf(p, Moved(stored, n), sent[p], got[p])
  <2>1. UNCHANGED <<sent, got>> /\ sent \in [End -> Nat] /\ got \in [End -> Seq(Nat)]
    BY DEF InputPush, IndInv
  <2>2. \/ kcp' = [kcp EXCEPT ![p] = h]
        \/ s.sn < h.rcv_nxt /\ kcp' = [kcp EXCEPT ![p] = noted]
        \/ /\ s.sn \in h.rcv_nxt..(h.rcv_nxt + RcvWnd - 1)
           /\ \E n \in Stops(stored) : kcp' = [kcp EXCEPT ![p] = Moved(stored, n)]
    BY DEF InputPush
  <2>3. s.sn \in h.rcv_nxt..(h.rcv_nxt + RcvWnd - 1) => s.sn >= h.rcv_nxt
    BY <1>2, <1>3, <1>4, SMTT(30) DEF SameRcv
  <2>4. sent' = [sent EXCEPT ![p] = sent[p]] /\ got' = [got EXCEPT ![p] = got[p]]
    BY <2>1
  <2>. QED BY <2>2, <2>3, <2>4 DEF StepOf
<1>. HIDE DEF h
<1>6. Receiver(h, got[p]) /\ Held(h) = Held(kcp[p]) /\ h.rcv_nxt = kcp[p].rcv_nxt
  BY <1>2, <1>4 DEF Receiver, SameRcv, Held
<1>7. CASE StepOf(p, h, sent[p], got[p])
  <2>1. SameSnd(h, h)
    BY DEF SameSnd
  <2>2. Good(p, h, sent[p], got[p]) /\ EffInput(p, h, sent[p], got[p])
    BY <1>1, <1>2, <1>4, <1>6, <2>1, InputGood, SMTT(30) DEF h
  <2>. QED BY <1>7, <2>2
<1>8. CASE s.sn < h.rcv_nxt /\ StepOf(p, noted, sent[p], got[p])
  <2>1. /\ noted \in Block /\ SameSnd(h, noted) /\ noted.rcv_nxt = h.rcv_nxt
        /\ noted.rcv_buf = h.rcv_buf /\ noted.rcv_queue = h.rcv_queue
        /\ noted.acklist = h.acklist \cup {s.sn}
    BY <1>2, <1>3 DEF Block, SameSnd
  <2>2. s.sn \in Held(h)
    BY <1>3, <1>4, <1>6, <1>8, SMTT(30) DEF Held
  <2>. HIDE DEF noted
  <2>3. Held(noted) = Held(h) /\ Receiver(noted, got[p])
    BY <1>6, <2>1, <2>2 DEF Held, Receiver
  <2>4. Good(p, noted, sent[p], got[p]) /\ EffInput(p, noted, sent[p], got[p])
    BY <1>1, <1>4, <1>6, <2>1, <2>3, InputGood, SMTT(30) DEF h
  <2>. QED BY <1>8, <2>4
<1>9. CASE s.sn >= h.rcv_nxt /\ \E n \in Stops(stored) : StepOf(p, Moved(stored, n), sent[p], got[p])
  <2>1. PICK n \in Stops(stored) : StepOf(p, Moved(stored, n), sent[p], got[p])
    BY <1>9
  <2>2. /\ stored \in Block /\ SameSnd(h, stored) /\ Receiver(stored, got[p])
        /\ Held(stored) = Held(h) \cup {s.sn} /\ stored.rcv_nxt = h.rcv_nxt
    BY <1>2, <1>3, <1>4, <1>6, <1>9, StoredOK
  <2>. HIDE DEF stored
  <2>. DEFINE l == Moved(stored, n)
  <2>3. /\ l \in Block /\ SameSnd(stored, l) /\ Receiver(l, got[p])
        /\ Held(l) = Held(stored) /\ stored.rcv_nxt <= l.rcv_nxt
    BY <1>4, <2>2, MovedOK
  <2>. HIDE DEF l
  <2>4. SameSnd(h, l)
    BY <2>2, <2>3 DEF SameSnd
  <2>5. Held(kcp[p]) \subseteq Held(l) /\ Held(l) \subseteq 0..(kcp[Peer(p)].snd_nxt - 1)
        /\ kcp[p].rcv_nxt <= l.rcv_nxt
    BY <1>3, <1>4, <1>6, <2>2, <2>3, SMTT(30)
  <2>6. Good(p, l, sent[p], got[p]) /\ EffInput(p, l, sent[p], got[p])
    BY <1>1, <2>3, <2>4, <2>5, InputGood DEF h
  <2>. QED BY <2>1, <2>6 DEF l
<1>. QED BY <1>5, <1>7, <1>8, <1>9

\* The network loses a segment or holds it back.
LEMMA LoseStep ==
  ASSUME IndInv, NEW p \in End, NEW s \in net, Lose(s)
  PROVE  \E k, n, g : StepOf(p, k, n, g) /\ Good(p, k, n, g) /\ EffInput(p, k, n, g)
<1>1. StepOf(p, kcp[p], sent[p], got[p])
  BY DEF Lose, StepOf, IndInv
<1>2. Good(p, kcp[p], sent[p], got[p])
  BY Facts, SMTT(30) DEF Lose, HeldBack, Good
<1>3. EffInput(p, kcp[p], sent[p], got[p])
  BY Facts, WaitsndOK, SMTT(30) DEF EffInput
<1>. QED BY <1>1, <1>2, <1>3

\* ikcp_update acknowledges what has arrived, and nothing else; l is the block after it.
LEMMA OutOK ==
  ASSUME IndInv, NEW p \in End, NEW due \in BOOLEAN, NEW l,
         l.rcv_nxt = kcp[p].rcv_nxt, Held(l) = Held(kcp[p]),
         NEW s \in AckSegs(p) \cup ProbeSegs(p, due) \cup {Seg(p, "WINS", 0, 0)}
  PROVE  s.to = Peer(p) /\ SegOK(s, l)
<1>1. /\ kcp[p] \in Block /\ kcp[p].rcv_nxt \in Nat /\ WndUnused(kcp[p]) \in Nat
      /\ kcp[p].acklist \subseteq Held(kcp[p]) /\ Peer(p) \in End
      /\ kcp[p].acklist \subseteq Nat
  BY Facts, WndOK, PeerOK DEF Receiver, Block
<1>2. CASE s \in AckSegs(p)
  <2>1. PICK sn \in kcp[p].acklist : s = Seg(p, "ACK", sn, 0)
    BY <1>2 DEF AckSegs
  <2>. QED BY <1>1, <2>1, SMTT(30) DEF Seg, SegOK, Segment
<1>3. CASE s \notin AckSegs(p)
  <2>1. PICK cmd \in {"WASK", "WINS"} : s = Seg(p, cmd, 0, 0)
    BY <1>3 DEF ProbeSegs
  <2>. QED BY <1>1, <2>1, SMTT(30) DEF Seg, SegOK, Segment
<1>. QED BY <1>2, <1>3

\* The block once acknowledgements and probes are out.
LEMMA FlushedOK ==
  ASSUME NEW k \in Block, NEW g, Receiver(k, g)
  PROVE  /\ Flushed(k) \in Block /\ SameSnd(k, Flushed(k)) /\ Receiver(Flushed(k), g)
         /\ Held(Flushed(k)) = Held(k) /\ Flushed(k).rcv_nxt = k.rcv_nxt
<1>. DEFINE l == Flushed(k)
<1>1. /\ l \in Block /\ SameSnd(k, l) /\ l.rcv_nxt = k.rcv_nxt /\ l.rcv_buf = k.rcv_buf
      /\ l.rcv_queue = k.rcv_queue /\ l.acklist = {}
  BY DEF Flushed, Block, SameSnd
<1>. HIDE DEF l
<1>2. Held(l) = Held(k)
  BY <1>1 DEF Held
<1>3. Receiver(l, g)
  BY <1>1 DEF Receiver
<1>. QED BY <1>1, <1>2, <1>3 DEF l

\* ikcp_update with nothing to send
LEMMA UpdateIdleStep ==
  ASSUME IndInv, NEW p \in End, NEW due \in BOOLEAN, UpdateIdle(p, due)
  PROVE  \E k, n, g : StepOf(p, k, n, g) /\ Good(p, k, n, g) /\ EffInput(p, k, n, g)
<1>. DEFINE k == kcp[p]
            f == Flushed(k)
            l == [f EXCEPT !.reminds = IF @ > 0 THEN @ - 1 ELSE @]
<1>1. /\ k \in Block /\ sent[p] \in Nat /\ got[p] \in Seq(Nat) /\ k.snd_nxt \in Nat
      /\ Sender(k, sent[p]) /\ Receiver(k, got[p])
      /\ Held(k) \subseteq 0..(kcp[Peer(p)].snd_nxt - 1)
      /\ 0..(k.snd_nxt - 1) \ DOMAIN k.snd_buf \subseteq Held(kcp[Peer(p)])
      /\ k.rcv_nxt \in Nat
  BY Facts
<1>2. StepOf(p, l, sent[p], got[p])
  BY DEF UpdateIdle, StepOf, IndInv
<1>3. \A s \in net' : s \in net \/ s \in AckSegs(p) \cup ProbeSegs(p, due) \cup {Seg(p, "WINS", 0, 0)}
  BY DEF UpdateIdle, Out
<1>4. /\ f \in Block /\ SameSnd(k, f) /\ Receiver(f, got[p])
      /\ Held(f) = Held(k) /\ f.rcv_nxt = k.rcv_nxt
  BY <1>1, FlushedOK
<1>. HIDE DEF f, k
<1>r. DEFINE r == IF f.reminds > 0 THEN f.reminds - 1 ELSE f.reminds
<1>s. r \in Nat
  BY <1>4, SMTT(30) DEF Block
<1>t. l = [f EXCEPT !.reminds = r]
  OBVIOUS
<1>. HIDE DEF r
<1>5. l \in Block /\ SameSnd(f, l) /\ SameRcv(f, l)
  BY <1>4, <1>s, <1>t DEF Block, SameSnd, SameRcv
<1>. HIDE DEF l
<1>6. /\ Sender(l, sent[p]) /\ l.snd_nxt = k.snd_nxt /\ l.snd_buf = k.snd_buf
      /\ l.snd_queue = k.snd_queue
  BY <1>1, <1>4, <1>5 DEF Sender, SameSnd
<1>7. Receiver(l, got[p]) /\ Held(l) = Held(k) /\ l.rcv_nxt = k.rcv_nxt
  BY <1>4, <1>5 DEF Receiver, SameRcv, Held
<1>8. \A s \in net' : s \in net \/ (s.to = Peer(p) /\ SegOK(s, l))
  BY <1>3, <1>7, OutOK DEF k
<1>9. Good(p, l, sent[p], got[p])
  BY <1>1, <1>5, <1>6, <1>7, <1>8, SMTT(30) DEF Good, k
<1>10. Waitsnd(l) <= Waitsnd(k)
  <2>1. Waitsnd(l) = Waitsnd(k) /\ Waitsnd(k) \in Nat
    BY <1>1, <1>6, WaitsndOK DEF Waitsnd
  <2>. QED BY <2>1, SMTT(30)
<1>. QED BY <1>2, <1>9, <1>10 DEF EffInput, k

\* ikcp_update with data: what moves from snd_queue to snd_buf is still counted.
LEMMA UpdateSendStep ==
  ASSUME IndInv, NEW p \in End, NEW due \in BOOLEAN, NEW w, NEW n, NEW sns,
         UpdateSend(p, due, w, n, sns)
  PROVE  \E k, m, g : StepOf(p, k, m, g) /\ Good(p, k, m, g) /\ EffInput(p, k, m, g)
<1>. DEFINE k == kcp[p]
            f == Flushed(k)
            l == Numbered(f, n)
<1>1. /\ k \in Block /\ sent[p] \in Nat /\ got[p] \in Seq(Nat) /\ k.snd_nxt \in Nat
      /\ Sender(k, sent[p]) /\ Receiver(k, got[p])
      /\ Held(k) \subseteq 0..(kcp[Peer(p)].snd_nxt - 1)
      /\ 0..(k.snd_nxt - 1) \ DOMAIN k.snd_buf \subseteq Held(kcp[Peer(p)])
      /\ k.rcv_nxt \in Nat
  BY Facts
<1>2. StepOf(p, l, sent[p], got[p])
  BY DEF UpdateSend, StepOf, IndInv
<1>3. /\ n \in 0..Len(k.snd_queue) /\ sns \subseteq DOMAIN l.snd_buf
      /\ \A s \in net' : \/ s \in net \/ s \in AckSegs(p) \cup ProbeSegs(p, due)
                         \/ \E sn \in sns : s = Seg(p, "PUSH", sn, l.snd_buf[sn])
  BY DEF UpdateSend, Admits, Out
<1>4. /\ f \in Block /\ SameSnd(k, f) /\ Receiver(f, got[p])
      /\ Held(f) = Held(k) /\ f.rcv_nxt = k.rcv_nxt
  BY <1>1, FlushedOK
<1>. HIDE DEF f, k
<1>5. Sender(f, sent[p]) /\ n \in 0..Len(f.snd_queue) /\ f.snd_nxt = k.snd_nxt
      /\ f.snd_buf = k.snd_buf
  BY <1>1, <1>3, <1>4 DEF Sender, SameSnd
<1>6. /\ l \in Block /\ SameRcv(f, l) /\ Sender(l, sent[p]) /\ l.snd_nxt = k.snd_nxt + n
      /\ DOMAIN l.snd_buf = DOMAIN k.snd_buf \cup k.snd_nxt..(k.snd_nxt + n - 1)
  BY <1>1, <1>4, <1>5, NumberedOK, SMTT(30)
<1>. HIDE DEF l
<1>7. Receiver(l, got[p]) /\ Held(l) = Held(k) /\ l.rcv_nxt = k.rcv_nxt
  BY <1>4, <1>6 DEF Receiver, SameRcv, Held
<1>8. n \in Nat /\ k.snd_nxt <= l.snd_nxt /\ l.snd_nxt <= sent[p]
  <2>1. Len(k.snd_queue) \in Nat
    BY <1>1, SMTT(30) DEF Block
  <2>2. n \in Nat
    BY <1>3, <2>1, SMTT(30)
  <2>. QED BY <1>1, <1>6, <2>2, SMTT(30) DEF Sender
<1>9. 0..(l.snd_nxt - 1) \ DOMAIN l.snd_buf \subseteq Held(kcp[Peer(p)])
  BY <1>1, <1>6, <1>8, SMTT(30)
<1>10. ASSUME NEW sn \in sns
       PROVE  LET s == Seg(p, "PUSH", sn, l.snd_buf[sn]) IN s.to = Peer(p) /\ SegOK(s, l)
  <2>1. sn \in 0..(l.snd_nxt - 1) /\ l.snd_buf[sn] = sn
    BY <1>3, <1>6 DEF Sender
  <2>2. sn \in Nat /\ sn < l.snd_nxt
    BY <1>1, <1>6, <1>8, <2>1, SMTT(30)
  <2>3. WndUnused(kcp[p]) \in Nat /\ Peer(p) \in End
    BY <1>1, WndOK, PeerOK DEF k
  <2>. QED BY <1>1, <1>7, <2>1, <2>2, <2>3, SMTT(30) DEF Seg, SegOK, Segment, k
<1>11. \A s \in net' : s \in net \/ (s.to = Peer(p) /\ SegOK(s, l))
  BY <1>3, <1>7, <1>10, OutOK, SMTT(30) DEF k
<1>12. Good(p, l, sent[p], got[p])
  BY <1>1, <1>6, <1>7, <1>8, <1>9, <1>11, SMTT(30) DEF Good, k
<1>13. Waitsnd(l) <= Waitsnd(k)
  <2>. DEFINE D == DOMAIN k.snd_buf
              I == k.snd_nxt..(k.snd_nxt + n - 1)
  <2>1. /\ IsFiniteSet(D) /\ Cardinality(D) \in Nat
        /\ Waitsnd(k) = Cardinality(D) + (sent[p] - k.snd_nxt)
    BY <1>1, WaitsndOK
  <2>2. /\ Cardinality(DOMAIN l.snd_buf) \in Nat
        /\ Waitsnd(l) = Cardinality(DOMAIN l.snd_buf) + (sent[p] - l.snd_nxt)
    BY <1>1, <1>6, WaitsndOK
  <2>3. IsFiniteSet(I) /\ Cardinality(I) = n
    <3>1. k.snd_nxt \in Int /\ k.snd_nxt + n - 1 \in Int
      BY <1>1, <1>8, SMTT(30)
    <3>2. /\ IsFiniteSet(I)
          /\ Cardinality(I) = IF k.snd_nxt > k.snd_nxt + n - 1 THEN 0
                              ELSE (k.snd_nxt + n - 1) - k.snd_nxt + 1
      BY <3>1, FS_Interval
    <3>. QED BY <1>1, <1>8, <3>2, SMTT(30)
  <2>. HIDE DEF D, I
  <2>4. Cardinality(D \cap I) \in Nat
    BY <2>1, FS_Subset, FS_CardinalityType
  <2>5. Cardinality(D \cup I) = Cardinality(D) + Cardinality(I) - Cardinality(D \cap I)
    BY <2>1, <2>3, FS_Union
  <2>6. DOMAIN l.snd_buf = D \cup I
    BY <1>6 DEF D, I
  <2>7. Cardinality(DOMAIN l.snd_buf) <= Cardinality(D) + n
    BY <1>8, <2>1, <2>3, <2>4, <2>5, <2>6, SMTT(30)
  <2>8. l.snd_nxt = k.snd_nxt + n /\ k.snd_nxt \in Nat /\ sent[p] \in Nat /\ n \in Nat
    BY <1>1, <1>6, <1>8
  <2>. QED BY <2>1, <2>2, <2>7, <2>8, SMTT(30)
<1>. QED BY <1>2, <1>12, <1>13 DEF EffInput, k

-----------------------------------------------------------------------------
(* The invariant, and the contract *)

\* Two blocks fresh from ikcp_create satisfy the invariant.
LEMMA InitInv == Init => IndInv
<1>. SUFFICES ASSUME Init PROVE IndInv
  OBVIOUS
<1>1. /\ kcp = [p \in End |-> Create] /\ net = {} /\ sent = [p \in End |-> 0]
      /\ got = [p \in End |-> << >>]
  BY DEF Init
<1>2. Create \in Block
  <2>1. << >> \in Buffer
    <3>1. << >> \in [{} -> Nat] /\ {} \in SUBSET Nat
      BY SMTT(30)
    <3>. QED BY <3>1, BufferOK
  <2>2. RcvWnd \in Nat
    BY ConstantsOK DEF ConstantsOK
  <2>. QED BY <2>1, <2>2, SMTT(30) DEF Create, Block
<1>3. Run(0, 0) = << >>
  BY SMTT(30) DEF Run
<1>4. Held(Create) = {} /\ DOMAIN Create.snd_buf = {} /\ DOMAIN Create.rcv_buf = {}
  BY SMTT(30) DEF Held, Create
<1>5. Sender(Create, 0)
  BY <1>3, <1>4, SMTT(30) DEF Sender, Create
<1>6. Receiver(Create, << >>)
  BY <1>3, <1>4, SMTT(30) DEF Receiver, Create
<1>7. Agree(Create, Create)
  <2>1. Create.snd_nxt = 0 /\ 0..(0 - 1) = {}
    BY SMTT(30) DEF Create
  <2>. QED BY <1>4, <2>1 DEF Agree
<1>8. \A p \in End : Peer(p) \in End
  BY PeerOK
<1>. QED BY <1>1, <1>2, <1>5, <1>6, <1>7, <1>8, SMTT(30) DEF IndInv

\* Every step is a good step of one end, with one of the three effects.
LEMMA NextStep ==
  ASSUME IndInv, Next
  PROVE  \E p \in End : \E k, n, g :
           /\ StepOf(p, k, n, g) /\ Good(p, k, n, g)
           /\ EffSend(p, k, n, g) \/ EffRecv(p, k, n, g) \/ EffInput(p, k, n, g)
<1>1. ASSUME NEW p \in End, Send(p) PROVE \E k, n, g : StepOf(p, k, n, g) /\ Good(p, k, n, g) /\ EffSend(p, k, n, g)
  BY <1>1, SendStep
<1>2. ASSUME NEW p \in End, Recv(p) PROVE \E k, n, g : StepOf(p, k, n, g) /\ Good(p, k, n, g) /\ EffRecv(p, k, n, g)
  BY <1>2, RecvStep
<1>3. ASSUME NEW p \in End, Input(p) PROVE \E k, n, g : StepOf(p, k, n, g) /\ Good(p, k, n, g) /\ EffInput(p, k, n, g)
  BY <1>3, InputAckStep, InputPushStep, InputProbeStep DEF Input
<1>4. ASSUME NEW p \in End, Update(p) PROVE \E k, n, g : StepOf(p, k, n, g) /\ Good(p, k, n, g) /\ EffInput(p, k, n, g)
  BY <1>4, UpdateIdleStep, UpdateSendStep DEF Update
<1>5. ASSUME NEW s \in net, Lose(s)
      PROVE  \E p \in End : \E k, n, g : StepOf(p, k, n, g) /\ Good(p, k, n, g) /\ EffInput(p, k, n, g)
  <2>1. s.to \in End
    BY <1>5 DEF IndInv
  <2>. QED BY <1>5, <2>1, LoseStep
<1>. QED BY <1>1, <1>2, <1>3, <1>4, <1>5 DEF Next

\* Messages, acknowledgements and windows agree at both ends, in every behaviour.
THEOREM Consistent == Spec => []IndInv
<1>1. ASSUME IndInv, [Next]_vars PROVE IndInv'
  <2>1. CASE Next
    <3>1. PICK p \in End : \E k, n, g : StepOf(p, k, n, g) /\ Good(p, k, n, g)
      BY <1>1, <2>1, NextStep
    <3>. QED BY <1>1, <3>1, Preserve
  <2>2. CASE UNCHANGED vars
    BY <1>1, <2>2 DEF IndInv, vars, SegOK, Held, Agree, Sender, Receiver
  <2>. QED BY <1>1, <2>1, <2>2
<1>. QED BY InitInv, <1>1, PTL DEF Spec

\* What the contract sees of a step of p: the channel of p and that of its peer.
LEMMA ChanOK ==
  ASSUME IndInv, NEW p \in End, NEW k, NEW n, NEW g, StepOf(p, k, n, g)
  PROVE  LET q == Peer(p)
         IN  /\ Chan[p] = [accepted |-> sent[p], arrived |-> Held(kcp[q]),
                           waiting |-> Waitsnd(kcp[p]), read |-> got[q]]
             /\ Chan'[p] = [accepted |-> n, arrived |-> Held(kcp[q]),
                            waiting |-> Waitsnd(k), read |-> got[q]]
             /\ Chan[q] = [accepted |-> sent[q], arrived |-> Held(kcp[p]),
                           waiting |-> Waitsnd(kcp[q]), read |-> got[p]]
             /\ Chan'[q] = [accepted |-> sent[q], arrived |-> Held(k),
                            waiting |-> Waitsnd(kcp[q]), read |-> g]
<1>. DEFINE q == Peer(p)
<1>1. q \in End /\ q # p /\ Peer(q) = p
  BY PeerOK
<1>2. /\ kcp'[p] = k /\ sent'[p] = n /\ got'[p] = g
      /\ kcp'[q] = kcp[q] /\ sent'[q] = sent[q] /\ got'[q] = got[q]
  BY <1>1 DEF IndInv, StepOf
<1>3. \A r \in End : Arrived(r) = Held(kcp[Peer(r)]) /\ Arrived(r)' = Held(kcp'[Peer(r)])
  BY DEF Arrived, Held
<1>. HIDE DEF q
<1>4. \A r \in End :
        /\ Chan[r] = [accepted |-> sent[r], arrived |-> Held(kcp[Peer(r)]),
                      waiting |-> Waitsnd(kcp[r]), read |-> got[Peer(r)]]
        /\ Chan'[r] = [accepted |-> sent'[r], arrived |-> Held(kcp'[Peer(r)]),
                       waiting |-> Waitsnd(kcp'[r]), read |-> got'[Peer(r)]]
  BY <1>3 DEF Chan, Waitsnd
<1>. QED BY <1>1, <1>2, <1>4 DEF q

\* A step of KCP is a step of the contract.
LEMMA ContractStep ==
  ASSUME IndInv, Next
  PROVE  Contract!Next
<1>0. PICK p \in End : \E k, n, g :
        /\ StepOf(p, k, n, g) /\ Good(p, k, n, g)
        /\ EffSend(p, k, n, g) \/ EffRecv(p, k, n, g) \/ EffInput(p, k, n, g)
  BY NextStep, SMTT(30)
<1>1. PICK k, n, g :
        /\ StepOf(p, k, n, g) /\ Good(p, k, n, g)
        /\ EffSend(p, k, n, g) \/ EffRecv(p, k, n, g) \/ EffInput(p, k, n, g)
  BY <1>0
<1>. DEFINE q == Peer(p)
            c == Chan[p]
            cc == Chan'[p]
            d == Chan[q]
            dd == Chan'[q]
<1>2. /\ c = [accepted |-> sent[p], arrived |-> Held(kcp[q]),
              waiting |-> Waitsnd(kcp[p]), read |-> got[q]]
      /\ cc = [accepted |-> n, arrived |-> Held(kcp[q]),
               waiting |-> Waitsnd(k), read |-> got[q]]
      /\ d = [accepted |-> sent[q], arrived |-> Held(kcp[p]),
              waiting |-> Waitsnd(kcp[q]), read |-> got[p]]
      /\ dd = [accepted |-> sent[q], arrived |-> Held(k),
               waiting |-> Waitsnd(kcp[q]), read |-> g]
  BY <1>1, ChanOK, SMTT(60)
<1>3. q \in End /\ \A r \in End : r = p \/ r = q
  BY PeerOK
<1>4. SUFFICES /\ cc = c \/ Contract!Send(c, cc) \/ Contract!Acknowledge(c, cc)
               /\ dd = d \/ Contract!Arrive(d, dd) \/ Contract!Read(d, dd)
  BY <1>3 DEF Contract!Next
<1>. HIDE DEF c, cc, d, dd, q
<1>5. CASE EffSend(p, k, n, g)
  <2>1. Contract!Send(c, cc)
    <3>1. c.accepted = sent[p] /\ c.waiting = Waitsnd(kcp[p])
      BY <1>2
    <3>2. n = sent[p] + 1 /\ Waitsnd(k) = Waitsnd(kcp[p]) + 1
      BY <1>5 DEF EffSend
    <3>3. c.arrived = Held(kcp[q]) /\ c.read = got[q]
      BY <1>2
    <3>4. cc = [accepted |-> c.accepted + 1, arrived |-> c.arrived,
                waiting |-> c.waiting + 1, read |-> c.read]
      BY <1>2, <3>1, <3>2, <3>3
    <3>. QED BY <3>4 DEF Contract!Send
  <2>2. dd = d
    BY <1>2, <1>5 DEF EffSend
  <2>. QED BY <2>1, <2>2
<1>6. CASE EffRecv(p, k, n, g)
  <2>1. cc = c
    BY <1>2, <1>6 DEF EffRecv
  <2>2. Contract!Read(d, dd)
    <3>1. d.read = got[p] /\ d.arrived = Held(kcp[p])
      BY <1>2
    <3>2. Len(got[p]) \in Held(kcp[p]) /\ g = Append(got[p], Len(got[p])) /\ Held(k) = Held(kcp[p])
      BY <1>6 DEF EffRecv
    <3>3. dd = [d EXCEPT !.read = Append(d.read, Len(d.read))]
      <4>. DEFINE r == Append(d.read, Len(d.read))
      <4>1. dd = [accepted |-> sent[q], arrived |-> Held(kcp[p]),
                  waiting |-> Waitsnd(kcp[q]), read |-> r]
        BY <1>2, <3>1, <3>2
      <4>. HIDE DEF r
      <4>2. dd = [d EXCEPT !.read = r]
        BY <1>2, <4>1, SMTT(30)
      <4>. QED BY <4>2 DEF r
    <3>. QED BY <3>1, <3>2, <3>3 DEF Contract!Read
  <2>. QED BY <2>1, <2>2
<1>7. CASE EffInput(p, k, n, g)
  <2>1. n = sent[p] /\ g = got[p] /\ Waitsnd(k) <= Waitsnd(kcp[p])
    BY <1>7 DEF EffInput
  <2>2. Contract!Acknowledge(c, cc)
    <3>1. Cardinality(0..(n - 1) \ Held(kcp[q])) <= Waitsnd(k)
      BY <1>1, Counted DEF Good, q
    <3>2. cc = [c EXCEPT !.waiting = cc.waiting]
      BY <1>2, <2>1, SMTT(30)
    <3>3. /\ c.accepted = n /\ c.arrived = Held(kcp[q]) /\ c.waiting = Waitsnd(kcp[p])
          /\ cc.waiting = Waitsnd(k)
      BY <1>2, <2>1
    <3>4. cc.waiting <= c.waiting
      BY <2>1, <3>3
    <3>5. Cardinality(0..(c.accepted - 1) \ c.arrived) <= cc.waiting
      BY <3>1, <3>3
    <3>6. \A S : Contract!Cardinality(S) = Cardinality(S)
      BY DEF Contract!Cardinality, Cardinality
    <3>. QED BY <3>2, <3>4, <3>5, <3>6 DEF Contract!Acknowledge
  <2>3. Contract!Arrive(d, dd)
    <3>1. kcp[q] \in Block /\ sent[q] \in Nat /\ Sender(kcp[q], sent[q]) /\ kcp[q].snd_nxt \in Nat
      BY <1>3, Facts
    <3>2. Held(kcp[p]) \subseteq Held(k) /\ Held(k) \subseteq 0..(kcp[q].snd_nxt - 1)
      BY <1>1 DEF Good, q
    <3>3. Held(k) \subseteq 0..(sent[q] - 1)
      BY <3>1, <3>2, SMTT(30) DEF Sender
    <3>4. dd = [d EXCEPT !.arrived = dd.arrived]
      BY <1>2, <2>1, SMTT(30)
    <3>. QED BY <1>2, <3>2, <3>3, <3>4 DEF Contract!Arrive
  <2>. QED BY <2>2, <2>3
<1>. QED BY <1>1, <1>5, <1>6, <1>7

\* KCP is reliable, ordered and honest about waitsnd, whatever the network loses,
\* repeats or reorders: ikcp.c implements the contract the stream layer relies on.
THEOREM ReliableStream == Spec => ImplementsContract
<1>1. Init => Contract!Init
  <2>. SUFFICES ASSUME Init PROVE Contract!Init
    OBVIOUS
  <2>1. \A p \in End : /\ kcp[p] = Create /\ sent[p] = 0 /\ got[p] = << >>
    BY DEF Init
  <2>2. \A p \in End : /\ Arrived(p) = {} /\ got[Peer(p)] = << >>
    BY <2>1, PeerOK, SMTT(30) DEF Arrived, Create
  <2>3. Waitsnd(Create) = 0
    BY FS_EmptySet, SMTT(30) DEF Waitsnd, Create
  <2>. QED BY <2>1, <2>2, <2>3 DEF Contract!Init, Chan
<1>2. IndInv /\ [Next]_vars => [Contract!Next]_Chan
  <2>1. ASSUME UNCHANGED vars PROVE Chan' = Chan
    BY <2>1 DEF vars, Chan, Arrived, Waitsnd
  <2>. QED BY <2>1, ContractStep
<1>. QED BY Consistent, <1>1, <1>2, PTL DEF Spec, ImplementsContract, Contract!Spec

-----------------------------------------------------------------------------
(* The windows                                                                *)


SndBound(k) == \A sn \in DOMAIN k.snd_buf : k.snd_nxt <= sn + SndWnd
RcvBound(k) ==
  /\ Len(k.rcv_queue) <= RcvWnd
  /\ \A sn \in DOMAIN k.rcv_buf : sn < k.rcv_nxt + RcvWnd

WinInv == \A p \in End : SndBound(kcp[p]) /\ RcvBound(kcp[p])

\* What a step of p has to establish.
Within(p) == \E k : kcp' = [kcp EXCEPT ![p] = k] /\ SndBound(k) /\ RcvBound(k)

-----------------------------------------------------------------------------
(* Helpers of ikcp.c *)

\* The windows of the two ends are numbers.
LEMMA Windows == SndWnd \in Nat /\ RcvWnd \in Nat
BY ConstantsOK DEF ConstantsOK

\* A set of sequence numbers that is not empty has a least one.
LEMMA LeastSn ==
  ASSUME NEW T, T \subseteq Nat, T # {}
  PROVE  \E u \in T : \A sn \in T : u <= sn
<1>. DEFINE R == {x \in Nat \X Nat : x[1] < x[2]}
<1>1. IsWellFoundedOn(R, Nat)
  BY NatLessThanWellFounded DEF OpToRel
<1>. HIDE DEF R
<1>2. PICK u \in T : \A sn \in T : <<sn, u>> \notin R
  BY <1>1, WFMin
<1>3. ASSUME NEW sn \in T PROVE u <= sn
  <2>1. sn \in Nat /\ u \in Nat
    OBVIOUS
  <2>2. <<sn, u>> \in Nat \X Nat /\ ~ (<<sn, u>>[1] < <<sn, u>>[2])
    BY <1>2, <2>1 DEF R
  <2>. QED BY <2>1, <2>2, SMTT(30)
<1>. QED BY <1>3

\* The length of what rcv_buf adds to rcv_queue is added.
LEMMA ConcatLen ==
  ASSUME NEW s \in Seq(Nat), NEW t \in Seq(Nat)
  PROVE  Len(s \o t) = Len(s) + Len(t)
BY SMTT(30)

\* ikcp_shrink_buf: snd_una is the least segment of snd_buf, or snd_nxt.
LEMMA UnaOK ==
  ASSUME NEW k \in Block, NEW n \in Nat, Sender(k, n)
  PROVE  /\ SndUna(k) \in Nat /\ SndUna(k) <= k.snd_nxt
         /\ \A sn \in DOMAIN k.snd_buf : sn \in Nat /\ SndUna(k) <= sn
         /\ DOMAIN k.snd_buf = {} => SndUna(k) = k.snd_nxt
         /\ DOMAIN k.snd_buf # {} => SndUna(k) \in DOMAIN k.snd_buf
<1>. DEFINE D == DOMAIN k.snd_buf
<1>1. k.snd_nxt \in Nat /\ D \subseteq 0..(k.snd_nxt - 1)
  BY DEF Block, Sender
<1>2. CASE D = {}
  BY <1>1, <1>2, SMTT(30) DEF SndUna
<1>3. CASE D # {}
  <2>1. D \subseteq Nat
    BY <1>1, SMTT(30)
  <2>3. \E u \in D : \A sn \in D : u <= sn
    BY <1>3, <2>1, LeastSn
  <2>4. SndUna(k) \in D /\ \A sn \in D : SndUna(k) <= sn
    BY <1>3, <2>3 DEF SndUna
  <2>. QED BY <1>1, <1>3, <2>4, SMTT(30)
<1>. QED BY <1>2, <1>3

\* Every segment drops acknowledged ones from snd_buf, however old its una is.
LEMMA HeaderWin ==
  ASSUME NEW k \in Block, NEW s \in Segment, SndBound(k), RcvBound(k)
  PROVE  SndBound(Header(k, s)) /\ RcvBound(Header(k, s)) /\ Header(k, s) \in Block
<1>1. /\ Header(k, s) \in Block /\ SameRcv(k, Header(k, s))
      /\ DOMAIN Header(k, s).snd_buf \subseteq DOMAIN k.snd_buf
      /\ Header(k, s).snd_nxt = k.snd_nxt
  BY HeaderOK
<1>. QED BY <1>1 DEF SndBound, RcvBound, SameRcv

\* rcv_buf moves up to rcv_queue as far as there is room.
LEMMA MovedWin ==
  ASSUME NEW k \in Block, RcvBound(k), NEW n \in Stops(k)
  PROVE  RcvBound(Moved(k, n)) /\ SameSnd(k, Moved(k, n))
<1>. DEFINE up == [i \in 1..(n - k.rcv_nxt) |-> k.rcv_buf[k.rcv_nxt + i - 1]]
            b == Keep(k.rcv_buf, {sn \in DOMAIN k.rcv_buf : sn >= n})
<1>1. /\ k.rcv_nxt \in Nat /\ k.rcv_queue \in Seq(Nat) /\ k.rcv_buf \in Buffer
      /\ DOMAIN k.rcv_buf \subseteq Nat
  BY BufferOK DEF Block
<1>2. /\ n \in Nat /\ k.rcv_nxt <= n /\ n <= k.rcv_nxt + WndUnused(k)
      /\ k.rcv_nxt..(n - 1) \subseteq DOMAIN k.rcv_buf
  BY <1>1, WndOK, SMTT(30) DEF Stops
<1>3. WndUnused(k) = RcvWnd - Len(k.rcv_queue)
  <2>1. Len(k.rcv_queue) \in Nat /\ Len(k.rcv_queue) <= RcvWnd
    BY <1>1, SMTT(30) DEF RcvBound
  <2>. HIDE DEF up, b
  <2>2. CASE Len(k.rcv_queue) < RcvWnd
    BY <2>2 DEF WndUnused
  <2>3. CASE Len(k.rcv_queue) = RcvWnd
    <3>1. WndUnused(k) = 0
      BY <2>3, Windows, SMTT(30) DEF WndUnused
    <3>. QED BY <2>3, <3>1, Windows, SMTT(30)
  <2>. QED BY <2>1, <2>2, <2>3, Windows, SMTT(30)
<1>4. up \in Seq(Nat) /\ Len(up) = n - k.rcv_nxt
  <2>1. n - k.rcv_nxt \in Nat
    BY <1>1, <1>2, SMTT(30)
  <2>2. \A i \in 1..(n - k.rcv_nxt) : k.rcv_nxt + i - 1 \in k.rcv_nxt..(n - 1)
    BY <1>1, <1>2, SMTT(30)
  <2>3. \A i \in 1..(n - k.rcv_nxt) : k.rcv_buf[k.rcv_nxt + i - 1] \in Nat
    BY <1>1, <1>2, <2>2, BufferOK
  <2>. QED BY <2>1, <2>3, SMTT(30)
<1>5. DOMAIN b \subseteq DOMAIN k.rcv_buf
  BY DEF Keep
<1>. HIDE DEF up, b
<1>6. Moved(k, n) = [k EXCEPT !.rcv_queue = k.rcv_queue \o up, !.rcv_buf = b, !.rcv_nxt = n]
  BY DEF Moved, up, b
<1>7. /\ Moved(k, n).rcv_queue = k.rcv_queue \o up /\ Moved(k, n).rcv_buf = b
      /\ Moved(k, n).rcv_nxt = n /\ SameSnd(k, Moved(k, n))
  BY <1>6 DEF Block, SameSnd
<1>8. Len(k.rcv_queue \o up) = Len(k.rcv_queue) + Len(up)
  BY <1>1, <1>4, ConcatLen, SMTT(30)
<1>9. Len(k.rcv_queue) + Len(up) <= RcvWnd
  BY <1>1, <1>2, <1>3, <1>4, Windows, SMTT(30)
<1>10. \A sn \in DOMAIN b : sn < n + RcvWnd
  BY <1>1, <1>2, <1>5, Windows, SMTT(30) DEF RcvBound
<1>. QED BY <1>7, <1>8, <1>9, <1>10 DEF RcvBound

\* Messages are numbered as far as the window reaches from snd_una.
LEMMA NumberedWin ==
  ASSUME NEW k \in Block, NEW m \in Nat, Sender(k, m), SndBound(k),
         NEW w \in 0..SndWnd, NEW n, Admits(k, w, n)
  PROVE  SndBound(Numbered(k, n))
<1>1. /\ k.snd_nxt \in Nat /\ Len(k.snd_queue) \in Nat /\ n \in 0..Len(k.snd_queue)
      /\ n > 0 => k.snd_nxt + n - 1 < SndUna(k) + w
  BY SMTT(30) DEF Admits, Block
<1>2. n \in Nat /\ w \in Nat /\ w <= SndWnd
  BY <1>1, Windows, SMTT(30)
<1>3. /\ Numbered(k, n).snd_nxt = k.snd_nxt + n
      /\ DOMAIN Numbered(k, n).snd_buf = DOMAIN k.snd_buf \cup k.snd_nxt..(k.snd_nxt + n - 1)
  BY <1>1, NumberedOK, SMTT(30)
<1>4. /\ SndUna(k) \in Nat /\ SndUna(k) <= k.snd_nxt
      /\ \A sn \in DOMAIN k.snd_buf : sn \in Nat /\ SndUna(k) <= sn
  BY UnaOK
<1>5. CASE n = 0
  BY <1>1, <1>3, <1>5, SMTT(30) DEF SndBound
<1>6. CASE n > 0
  <2>1. k.snd_nxt + n <= SndUna(k) + SndWnd
    BY <1>1, <1>2, <1>4, <1>6, Windows, SMTT(30)
  <2>2. \A sn \in DOMAIN Numbered(k, n).snd_buf : sn \in Nat /\ SndUna(k) <= sn
    BY <1>1, <1>2, <1>3, <1>4, SMTT(30)
  <2>. QED BY <1>1, <1>2, <1>3, <1>4, <2>1, <2>2, Windows, SMTT(30) DEF SndBound
<1>. QED BY <1>2, <1>5, <1>6, SMTT(30)

-----------------------------------------------------------------------------
(* The actions *)

\* ikcp_send leaves both buffers alone.
LEMMA SendWin ==
  ASSUME IndInv, WinInv, NEW p \in End, Send(p)
  PROVE  Within(p)
<1>. DEFINE l == [kcp[p] EXCEPT !.snd_queue = Append(@, sent[p])]
<1>1. kcp[p] \in Block /\ SndBound(kcp[p]) /\ RcvBound(kcp[p])
  BY DEF IndInv, WinInv
<1>2. kcp' = [kcp EXCEPT ![p] = l]
  BY DEF Send
<1>3. /\ l.snd_buf = kcp[p].snd_buf /\ l.snd_nxt = kcp[p].snd_nxt /\ SameRcv(kcp[p], l)
  BY <1>1 DEF Block, SameRcv
<1>. HIDE DEF l
<1>4. SndBound(l) /\ RcvBound(l)
  BY <1>1, <1>3 DEF SndBound, RcvBound, SameRcv
<1>. QED BY <1>2, <1>4 DEF Within

\* ikcp_recv makes room in rcv_queue before it fills it again.
LEMMA RecvWin ==
  ASSUME IndInv, WinInv, NEW p \in End, Recv(p)
  PROVE  Within(p)
<1>. DEFINE k == kcp[p]
            rest == [k EXCEPT !.rcv_queue = Tail(@)]
<1>1. k \in Block /\ SndBound(k) /\ RcvBound(k) /\ k.rcv_queue # << >>
  BY DEF IndInv, WinInv, Recv
<1>2. PICK n \in Stops(rest) :
        kcp' = [kcp EXCEPT ![p] =
                IF Len(k.rcv_queue) >= RcvWnd /\ Len(Moved(rest, n).rcv_queue) < RcvWnd
                THEN Tell(Moved(rest, n)) ELSE Moved(rest, n)]
  BY DEF Recv
<1>. DEFINE l == IF Len(k.rcv_queue) >= RcvWnd /\ Len(Moved(rest, n).rcv_queue) < RcvWnd
                 THEN Tell(Moved(rest, n)) ELSE Moved(rest, n)
<1>3. Tail(k.rcv_queue) \in Seq(Nat) /\ Len(Tail(k.rcv_queue)) <= RcvWnd
  BY <1>1, Windows, SMTT(30) DEF Block, RcvBound
<1>. HIDE DEF k
<1>4. /\ rest \in Block /\ SameSnd(k, rest) /\ rest.rcv_queue = Tail(k.rcv_queue)
      /\ rest.rcv_buf = k.rcv_buf /\ rest.rcv_nxt = k.rcv_nxt
  BY <1>1, <1>3 DEF Block, SameSnd
<1>. HIDE DEF rest
<1>5. RcvBound(rest)
  BY <1>1, <1>3, <1>4 DEF RcvBound
<1>6. RcvBound(Moved(rest, n)) /\ SameSnd(rest, Moved(rest, n))
  BY <1>4, <1>5, MovedWin
<1>7. Moved(rest, n) = [rest EXCEPT !.rcv_queue = Moved(rest, n).rcv_queue,
                                    !.rcv_buf = Moved(rest, n).rcv_buf,
                                    !.rcv_nxt = Moved(rest, n).rcv_nxt]
  BY <1>4 DEF Moved, Block
<1>8. SameRcv(Moved(rest, n), l) /\ SameSnd(Moved(rest, n), l)
  BY <1>4, <1>7 DEF Tell, Block, SameRcv, SameSnd
<1>9. SndBound(l) /\ RcvBound(l)
  BY <1>1, <1>4, <1>6, <1>8 DEF SndBound, RcvBound, SameRcv, SameSnd
<1>. QED BY <1>2, <1>9 DEF Within, k

\* ikcp_input of an acknowledgement
LEMMA InputAckWin ==
  ASSUME IndInv, WinInv, NEW p \in End, NEW s \in net, InputAck(p, s)
  PROVE  Within(p)
<1>. DEFINE h == Header(kcp[p], s)
            l == Acked(h, {s.sn})
<1>1. /\ kcp[p] \in Block /\ SndBound(kcp[p]) /\ RcvBound(kcp[p]) /\ s \in Segment
  BY DEF IndInv, WinInv, SegOK
<1>2. kcp' = [kcp EXCEPT ![p] = l]
  BY DEF InputAck
<1>3. h \in Block /\ SndBound(h) /\ RcvBound(h)
  BY <1>1, HeaderWin
<1>. HIDE DEF h
<1>4. /\ SameRcv(h, l) /\ DOMAIN l.snd_buf \subseteq DOMAIN h.snd_buf
      /\ l.snd_nxt = h.snd_nxt
  BY <1>3, AckedOK, SMTT(30)
<1>. HIDE DEF l
<1>5. SndBound(l) /\ RcvBound(l)
  BY <1>3, <1>4 DEF SndBound, RcvBound, SameRcv
<1>. QED BY <1>2, <1>5 DEF Within

\* ikcp_input of window probes and announcements
LEMMA InputProbeWin ==
  ASSUME IndInv, WinInv, NEW p \in End, NEW s \in net, InputProbe(p, s)
  PROVE  Within(p)
<1>. DEFINE h == Header(kcp[p], s)
<1>1. /\ kcp[p] \in Block /\ SndBound(kcp[p]) /\ RcvBound(kcp[p]) /\ s \in Segment
  BY DEF IndInv, WinInv, SegOK
<1>2. kcp' = [kcp EXCEPT ![p] = h] \/ kcp' = [kcp EXCEPT ![p] = Tell(h)]
  BY DEF InputProbe
<1>3. h \in Block /\ SndBound(h) /\ RcvBound(h)
  BY <1>1, HeaderWin
<1>. HIDE DEF h
<1>4. SameRcv(h, Tell(h)) /\ SameSnd(h, Tell(h))
  BY <1>3 DEF Tell, Block, SameRcv, SameSnd
<1>5. SndBound(Tell(h)) /\ RcvBound(Tell(h))
  BY <1>3, <1>4 DEF SndBound, RcvBound, SameRcv, SameSnd
<1>. QED BY <1>2, <1>3, <1>5 DEF Within

\* ikcp_input of data: a segment outside the receive window is not stored.
LEMMA InputPushWin ==
  ASSUME IndInv, WinInv, NEW p \in End, NEW s \in net, InputPush(p, s)
  PROVE  Within(p)
<1>. DEFINE h == Header(kcp[p], s)
            noted == [h EXCEPT !.acklist = @ \cup {s.sn}]
            stored == [Stored(noted, s) EXCEPT !.reminds = RemindLimit]
<1>1. /\ kcp[p] \in Block /\ SndBound(kcp[p]) /\ RcvBound(kcp[p]) /\ s \in Segment
      /\ s.sn \in Nat /\ s.data \in Nat /\ RemindLimit \in Nat
  BY ConstantsOK DEF IndInv, WinInv, SegOK, Segment, ConstantsOK
<1>2. \/ kcp' = [kcp EXCEPT ![p] = h]
      \/ kcp' = [kcp EXCEPT ![p] = noted]
      \/ /\ s.sn \in h.rcv_nxt..(h.rcv_nxt + RcvWnd - 1)
         /\ \E n \in Stops(stored) : kcp' = [kcp EXCEPT ![p] = Moved(stored, n)]
  BY DEF InputPush
<1>3. h \in Block /\ SndBound(h) /\ RcvBound(h)
  BY <1>1, HeaderWin
<1>. HIDE DEF h
<1>4. noted \in Block /\ SameSnd(h, noted) /\ noted.rcv_nxt = h.rcv_nxt
      /\ noted.rcv_buf = h.rcv_buf /\ noted.rcv_queue = h.rcv_queue
  BY <1>1, <1>3 DEF Block, SameSnd
<1>. HIDE DEF noted
<1>5. SndBound(noted) /\ RcvBound(noted)
  BY <1>3, <1>4 DEF SndBound, RcvBound, SameSnd
<1>6. CASE kcp' = [kcp EXCEPT ![p] = h] \/ kcp' = [kcp EXCEPT ![p] = noted]
  BY <1>3, <1>5, <1>6 DEF Within
<1>7. CASE /\ s.sn \in h.rcv_nxt..(h.rcv_nxt + RcvWnd - 1)
           /\ \E n \in Stops(stored) : kcp' = [kcp EXCEPT ![p] = Moved(stored, n)]
  <2>. DEFINE b == [sn \in DOMAIN noted.rcv_buf \cup {s.sn} |->
                      IF sn = s.sn THEN s.data ELSE noted.rcv_buf[sn]]
              c == IF s.sn \in DOMAIN noted.rcv_buf THEN noted.rcv_buf ELSE b
  <2>1. noted.rcv_buf \in Buffer /\ DOMAIN noted.rcv_buf \subseteq Nat
    BY <1>4, BufferOK DEF Block
  <2>2. c \in Buffer /\ DOMAIN c = DOMAIN noted.rcv_buf \cup {s.sn}
    <3>1. DOMAIN noted.rcv_buf \cup {s.sn} \in SUBSET Nat
      BY <1>1, <2>1
    <3>2. b \in [DOMAIN noted.rcv_buf \cup {s.sn} -> Nat]
      BY <1>1, <2>1, BufferOK
    <3>. QED BY <2>1, <3>1, <3>2, BufferOK
  <2>3. Stored(noted, s) = [noted EXCEPT !.rcv_buf = c]
    BY <1>4 DEF Stored, Block
  <2>. HIDE DEF c
  <2>4. /\ stored \in Block /\ SameSnd(noted, stored) /\ stored.rcv_buf = c
        /\ stored.rcv_nxt = noted.rcv_nxt /\ stored.rcv_queue = noted.rcv_queue
    BY <1>1, <1>4, <2>2, <2>3 DEF Block, SameSnd
  <2>. HIDE DEF stored
  <2>5. s.sn < noted.rcv_nxt + RcvWnd
    <3>1. h.rcv_nxt \in Nat
      BY <1>3 DEF Block
    <3>. QED BY <1>1, <1>4, <1>7, <3>1, Windows, SMTT(30)
  <2>6. RcvBound(stored)
    BY <1>5, <2>2, <2>4, <2>5 DEF RcvBound
  <2>7. PICK n \in Stops(stored) : kcp' = [kcp EXCEPT ![p] = Moved(stored, n)]
    BY <1>7
  <2>8. RcvBound(Moved(stored, n)) /\ SameSnd(stored, Moved(stored, n))
    BY <2>4, <2>6, MovedWin
  <2>9. SndBound(Moved(stored, n))
    BY <1>5, <2>4, <2>8 DEF SndBound, SameSnd
  <2>. QED BY <2>7, <2>8, <2>9 DEF Within
<1>. QED BY <1>2, <1>6, <1>7

\* ikcp_update with nothing to send
LEMMA UpdateIdleWin ==
  ASSUME IndInv, WinInv, NEW p \in End, NEW due \in BOOLEAN, UpdateIdle(p, due)
  PROVE  Within(p)
<1>. DEFINE k == kcp[p]
            f == Flushed(k)
            l == [f EXCEPT !.reminds = IF @ > 0 THEN @ - 1 ELSE @]
<1>1. k \in Block /\ SndBound(k) /\ RcvBound(k)
  BY DEF IndInv, WinInv
<1>2. kcp' = [kcp EXCEPT ![p] = l]
  BY DEF UpdateIdle
<1>. HIDE DEF k
<1>3. SameSnd(k, l)
  BY <1>1 DEF Flushed, Block, SameSnd
<1>4. l.rcv_nxt = k.rcv_nxt /\ l.rcv_buf = k.rcv_buf /\ l.rcv_queue = k.rcv_queue
  BY <1>1 DEF Flushed, Block
<1>. HIDE DEF l
<1>5. SndBound(l) /\ RcvBound(l)
  BY <1>1, <1>3, <1>4 DEF SndBound, RcvBound, SameSnd
<1>. QED BY <1>2, <1>5 DEF Within

\* ikcp_update with data
LEMMA UpdateSendWin ==
  ASSUME IndInv, WinInv, NEW p \in End, NEW due \in BOOLEAN, NEW w, NEW n, NEW sns,
         UpdateSend(p, due, w, n, sns)
  PROVE  Within(p)
<1>. DEFINE k == kcp[p]
            f == Flushed(k)
            l == Numbered(f, n)
<1>1. /\ k \in Block /\ SndBound(k) /\ RcvBound(k) /\ sent[p] \in Nat
      /\ Sender(k, sent[p]) /\ Receiver(k, got[p])
  BY DEF IndInv, WinInv
<1>2. kcp' = [kcp EXCEPT ![p] = l] /\ w \in 0..SndWnd /\ Admits(k, w, n)
  BY DEF UpdateSend, Window
<1>. HIDE DEF k
<1>3. f \in Block /\ SameSnd(k, f)
  BY <1>1, FlushedOK
<1>4. f.rcv_nxt = k.rcv_nxt /\ f.rcv_buf = k.rcv_buf /\ f.rcv_queue = k.rcv_queue
  BY <1>1 DEF Flushed, Block
<1>. HIDE DEF f
<1>5. SndBound(f) /\ RcvBound(f) /\ Sender(f, sent[p])
  BY <1>1, <1>3, <1>4 DEF SndBound, RcvBound, SameSnd, Sender
<1>6. Admits(f, w, n)
  <2>1. SndUna(f) = SndUna(k)
    BY <1>3, SMTT(30) DEF SndUna, SameSnd
  <2>. QED BY <1>2, <1>3, <2>1 DEF Admits, SameSnd
<1>7. SndBound(l)
  BY <1>1, <1>2, <1>3, <1>5, <1>6, NumberedWin
<1>8. SameRcv(f, l)
  <2>1. n \in 0..Len(f.snd_queue)
    BY <1>6 DEF Admits
  <2>. QED BY <1>1, <1>3, <1>5, <2>1, NumberedOK
<1>. HIDE DEF l
<1>9. RcvBound(l)
  BY <1>5, <1>8 DEF RcvBound, SameRcv
<1>. QED BY <1>2, <1>7, <1>9 DEF Within, k

-----------------------------------------------------------------------------
(* The invariant *)

\* Both blocks are empty at first.
LEMMA InitWin == Init => WinInv
<1>. SUFFICES ASSUME Init, NEW p \in End PROVE SndBound(kcp[p]) /\ RcvBound(kcp[p])
  BY DEF WinInv
<1>1. kcp[p] = Create
  BY DEF Init
<1>2. Create.snd_buf = << >> /\ Create.rcv_buf = << >> /\ Create.rcv_queue = << >>
  BY DEF Create
<1>3. DOMAIN << >> = {} /\ Len(<< >>) = 0
  BY SMTT(30)
<1>. QED BY <1>1, <1>2, <1>3, Windows, SMTT(30) DEF SndBound, RcvBound

\* A step changes the block of one end, and keeps it within its windows.
LEMMA NextWin ==
  ASSUME IndInv, WinInv, Next
  PROVE  UNCHANGED kcp \/ \E p \in End : Within(p)
<1>1. ASSUME NEW p \in End, Send(p) PROVE Within(p)
  BY <1>1, SendWin
<1>2. ASSUME NEW p \in End, Recv(p) PROVE Within(p)
  BY <1>2, RecvWin
<1>3. ASSUME NEW p \in End, Input(p) PROVE Within(p)
  BY <1>3, InputAckWin, InputPushWin, InputProbeWin DEF Input
<1>4. ASSUME NEW p \in End, Update(p) PROVE Within(p)
  BY <1>4, UpdateIdleWin, UpdateSendWin DEF Update
<1>5. ASSUME NEW s \in net, Lose(s) PROVE UNCHANGED kcp
  BY <1>5 DEF Lose
<1>. QED BY <1>1, <1>2, <1>3, <1>4, <1>5 DEF Next

\* The bounds are those of WindowsHold, which measures from snd_una.
LEMMA WinMeans == IndInv /\ WinInv => WindowsHold
<1>. SUFFICES ASSUME IndInv, WinInv, NEW p \in End
              PROVE  /\ kcp[p].snd_nxt - SndUna(kcp[p]) <= SndWnd
                     /\ Len(kcp[p].rcv_queue) <= RcvWnd
                     /\ \A sn \in DOMAIN kcp[p].rcv_buf :
                          sn \in kcp[p].rcv_nxt..(kcp[p].rcv_nxt + RcvWnd - 1)
  BY DEF WindowsHold
<1>. DEFINE k == kcp[p]
<1>1. /\ k \in Block /\ SndBound(k) /\ RcvBound(k) /\ sent[p] \in Nat
      /\ Sender(k, sent[p]) /\ Receiver(k, got[p])
  BY DEF IndInv, WinInv
<1>. HIDE DEF k
<1>2. /\ SndUna(k) \in Nat
      /\ DOMAIN k.snd_buf = {} => SndUna(k) = k.snd_nxt
      /\ DOMAIN k.snd_buf # {} => SndUna(k) \in DOMAIN k.snd_buf
  BY <1>1, UnaOK
<1>3. /\ k.snd_nxt \in Nat /\ k.rcv_nxt \in Nat /\ DOMAIN k.rcv_buf \subseteq Nat
  BY <1>1, BufferOK DEF Block
<1>4. k.snd_nxt - SndUna(k) <= SndWnd
  BY <1>1, <1>2, <1>3, Windows, SMTT(30) DEF SndBound
<1>5. Len(k.rcv_queue) <= RcvWnd
  BY <1>1 DEF RcvBound
<1>6. ASSUME NEW sn \in DOMAIN k.rcv_buf
      PROVE  sn \in k.rcv_nxt..(k.rcv_nxt + RcvWnd - 1)
  <2>1. sn \in Nat /\ sn >= k.rcv_nxt /\ sn < k.rcv_nxt + RcvWnd
    BY <1>1, <1>3 DEF Receiver, RcvBound
  <2>. QED BY <1>3, <2>1, Windows, SMTT(30)
<1>. QED BY <1>4, <1>5, <1>6 DEF k

\* No segment is numbered beyond snd_wnd from the oldest one that is not
\* acknowledged, and a receiver stores nothing beyond its window, in every
\* behaviour of ikcp_input, ikcp_update, ikcp_send and ikcp_recv.
THEOREM WithinWindows == Spec => []WindowsHold
<1>1. IndInv /\ WinInv /\ [Next]_vars => WinInv'
  <2>. SUFFICES ASSUME IndInv, WinInv, [Next]_vars PROVE WinInv'
    OBVIOUS
  <2>1. CASE UNCHANGED kcp
    BY <2>1 DEF WinInv, SndBound, RcvBound
  <2>2. ASSUME NEW p \in End, Within(p) PROVE WinInv'
    <3>1. PICK k : kcp' = [kcp EXCEPT ![p] = k] /\ SndBound(k) /\ RcvBound(k)
      BY <2>2 DEF Within
    <3>2. \A q \in End : kcp'[q] = IF q = p THEN k ELSE kcp[q]
      BY <3>1 DEF IndInv
    <3>. QED BY <3>1, <3>2 DEF WinInv, SndBound, RcvBound
  <2>3. CASE Next
    BY <2>1, <2>2, <2>3, NextWin
  <2>4. CASE UNCHANGED vars
    BY <2>1, <2>4 DEF vars
  <2>. QED BY <2>3, <2>4
<1>. QED BY <1>1, InitWin, WinMeans, Consistent, PTL DEF Spec
=============================================================================
