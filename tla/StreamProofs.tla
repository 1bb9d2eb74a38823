----------------------------- MODULE StreamProofs -----------------------------
(* Proofs about module Stream, for every configuration, interval and bound of   *)
(* the queues: the timer always covers what the stream waits for, batching      *)
(* loses no update, nothing dangles after the end, and the application is told  *)
(* of what it can read.  And about module SendPath, for any vector of fragments *)
(* and any kcp_mss: what a send hands to KCP is what it was given.               *)
EXTENDS Stream, SendPath, TLAPS

USE ZenonT(30)

-----------------------------------------------------------------------------
(* The inductive invariant, as predicates of the stream record                  *)

(* Types, with what they rest on: no timeout is longer than an age can be, and a  *)
(* stream has a close phase exactly while it is closing (or after).               *)
Suited(c) ==
  c \in Config /\ c.ctrl_timeout_ms <= MaxAge /\ c.drain_timeout_ms <= MaxAge
Form(x) ==
  /\ x \in Stream /\ Suited(x.config)
  /\ x.pending <= x.config.batch_threshold
  /\ x.state = "CLOSING" => x.phase # "NONE"
  /\ x.state = "OPEN" => x.phase = "NONE"

(* TimerCovers, BatchAccounting and NothingDangles of one record.                  *)
Covers(x) ==
  conn = "CONNECTED" =>
    /\ x.state = "OPEN" => x.timer \in 0..Interval
    /\ x.state = "CLOSING" =>
         /\ x.phase = "LOCAL_DRAIN" =>
              x.timer \in 0..Earlier(Interval, Left(x.drain, x.config.drain_timeout_ms))
         /\ x.phase = "WAIT_ACK" => x.timer = Left(x.ctrl, x.config.ctrl_timeout_ms)
         /\ x.phase = "REMOTE_DRAIN" => x.timer = Left(x.drain, x.config.drain_timeout_ms)
         /\ x.phase = "FINALIZE" => x.timer = 0
Batched(x) ==
  conn = "CONNECTED" /\ x.state = "OPEN" =>
    /\ x.listed <=> x.pending \in 1..(x.config.batch_threshold - 1)
    /\ x.pending > 0 /\ ~x.listed => x.timer = 0
Clean(x) == x.state \in {"CLOSED", "ERROR"} => x.timer = None /\ ~x.listed

(* ReadNotified, and what it needs: an application that waits to read has the      *)
(* notification armed.                                                             *)
Ready(x, w) ==
  x.state = "OPEN" /\ "read" \in w =>
    x.rblock /\ (x.readable = 0 \/ "read" \in x.missed)

Good(x, w) == Form(x) /\ Covers(x) /\ Batched(x) /\ Clean(x) /\ Ready(x, w)

Inv ==
  /\ conn \in {"CONNECTED", "CLOSING", "CLOSED"} /\ waiting \subseteq {"read", "write"}
  /\ Good(s, waiting)

-----------------------------------------------------------------------------
(* What the helpers return                                                     *)

SameLife(x, y) == y.state = x.state /\ y.phase = x.phase
SameClock(x, y) == y.config = x.config /\ y.ctrl = x.ctrl /\ y.drain = x.drain
SameBatch(x, y) == y.pending = x.pending /\ y.listed = x.listed
SameRead(x, y) ==
  /\ y.rblock = x.rblock /\ y.readable = x.readable /\ y.missed = x.missed
  /\ y.waitsnd = x.waitsnd

(* A stream that has ended.                                                       *)
Ended(y) ==
  Form(y) /\ y.state \in {"CLOSED", "ERROR"} /\ y.timer = None /\ ~y.listed

(* What StreamConstants says of the constants.                                      *)
LEMMA ConstTypes ==
  /\ Interval \in Nat /\ MaxWait \in Nat /\ MaxReadable \in Nat /\ MaxAge \in Nat
  /\ MaxChunks \in Nat /\ Suited(Default)
  /\ \A c \in Configs : Suited(c)
BY StreamConstants DEF Suited

(* The fields of a well-formed record.                                             *)
LEMMA FormTypes ==
  ASSUME NEW x, Form(x)
  PROVE  /\ x.config \in Config /\ x.config.ctrl_timeout_ms \in Nat
         /\ x.config.drain_timeout_ms \in Nat /\ x.config.batch_threshold \in Nat
         /\ x.config.close_retries \in Nat /\ x.config.send_resume_threshold \in Nat
         /\ x.ctrl \in 0..MaxAge /\ x.drain \in 0..MaxAge /\ x.pending \in Nat
         /\ x.listed \in BOOLEAN /\ x.timer \in Nat \cup {None}
         /\ x.rblock \in BOOLEAN /\ x.readable \in 0..MaxReadable /\ x.waitsnd \in 0..MaxWait
         /\ x.missed \subseteq {"read", "write"} /\ x.retry \in Nat /\ x.reason \in Reasons
         /\ x.state \in {"ABSENT", "OPEN", "CLOSING", "CLOSED", "ERROR"}
         /\ x.phase \in {"NONE", "LOCAL_DRAIN", "WAIT_ACK", "REMOTE_DRAIN", "FINALIZE"}
BY DEF Form, Suited, Stream, Config

(* What is left of a timeout.                                                     *)
LEMMA LeftFacts ==
  ASSUME NEW a \in Nat, NEW t \in Nat
  PROVE  /\ Left(a, t) \in Nat
         /\ Left(a, t) = 0 <=> a >= t
         /\ \A c \in 0..Interval : Earlier(c, Left(a, t)) \in 0..Earlier(Interval, Left(a, t))
BY ConstTypes, SMTT(30) DEF Left, Earlier

(* kcpmux_stream_refresh_timer leaves the node where the stream needs it.          *)
LEMMA RefreshFacts ==
  ASSUME NEW x, Form(x), NEW check \in Checks
  PROVE  LET y == Refresh(x, check)
         IN  /\ Form(y) /\ Covers(y)
             /\ SameLife(x, y) /\ SameClock(x, y) /\ SameBatch(x, y) /\ SameRead(x, y)
             /\ y.retry = x.retry /\ y.reason = x.reason
<1> DEFINE t == IF conn = "CONNECTED" /\ x.state \in {"OPEN", "CLOSING"}
                THEN Deadline(x, check) ELSE None
           y == [x EXCEPT !.timer = t]
           d == Left(x.drain, x.config.drain_timeout_ms)
           a == Left(x.ctrl, x.config.ctrl_timeout_ms)
<1>0. /\ Interval \in Nat /\ check \in 0..Interval /\ d \in Nat /\ a \in Nat
      /\ Earlier(check, d) \in 0..Earlier(Interval, d) /\ Earlier(check, d) \in Nat
  <2>1. /\ x.drain \in Nat /\ x.config.drain_timeout_ms \in Nat
        /\ x.ctrl \in Nat /\ x.config.ctrl_timeout_ms \in Nat
        /\ Interval \in Nat /\ check \in 0..Interval
    BY FormTypes, ConstTypes, SMTT(30) DEF Checks
  <2>2. d \in Nat /\ a \in Nat
    BY <2>1, SMTT(30) DEF Left
  <2> HIDE DEF d, a
  <2>3. QED
    BY <2>1, <2>2, SMTT(30) DEF Earlier
<1>1. /\ t \in Nat \cup {None}
      /\ conn = "CONNECTED" =>
           /\ x.state = "OPEN" => t \in 0..Interval
           /\ x.state = "CLOSING" =>
                /\ x.phase = "LOCAL_DRAIN" => t \in 0..Earlier(Interval, d)
                /\ x.phase = "WAIT_ACK" => t = a
                /\ x.phase = "REMOTE_DRAIN" => t = d
                /\ x.phase = "FINALIZE" => t = 0
  <2>1. /\ x.state = "CLOSING" => x.phase # "NONE"
        /\ x.state = "OPEN" => x.phase = "NONE"
        /\ x.phase \in {"NONE", "LOCAL_DRAIN", "WAIT_ACK", "REMOTE_DRAIN", "FINALIZE"}
    BY FormTypes DEF Form
  <2>2. Deadline(x, check) =
          CASE x.state = "OPEN" -> check
            [] x.phase = "LOCAL_DRAIN" -> Earlier(check, d)
            [] x.phase = "WAIT_ACK" -> a
            [] x.phase = "REMOTE_DRAIN" -> d
            [] x.phase = "FINALIZE" -> 0
    BY DEF Deadline
  <2> HIDE DEF d, a
  <2>3. QED
    BY <1>0, <2>1, <2>2, SMTT(30)
<1> HIDE DEF t
<1>2. /\ y.timer = t /\ SameLife(x, y) /\ SameClock(x, y) /\ SameBatch(x, y)
      /\ SameRead(x, y) /\ y.retry = x.retry /\ y.reason = x.reason /\ y \in Stream
  BY <1>1 DEF Form, Stream, SameLife, SameClock, SameBatch, SameRead
<1> HIDE DEF y
<1>3. Form(y)
  BY <1>2 DEF Form, SameLife, SameClock, SameBatch
<1>4. Covers(y)
  BY <1>1, <1>2 DEF Covers, SameLife, SameClock
<1>5. QED
  BY <1>2, <1>3, <1>4 DEF Refresh, y, t

(* kcpmux_engine_schedule_timer_node(now)                                          *)
LEMMA NowFacts ==
  ASSUME NEW x, Form(x)
  PROVE  LET y == Now(x)
         IN  /\ Form(y) /\ y.timer = 0
             /\ SameLife(x, y) /\ SameClock(x, y) /\ SameBatch(x, y) /\ SameRead(x, y)
             /\ y.retry = x.retry /\ y.reason = x.reason
<1>1. /\ Now(x) \in Stream /\ Now(x).timer = 0 /\ SameLife(x, Now(x)) /\ SameClock(x, Now(x))
      /\ SameBatch(x, Now(x)) /\ SameRead(x, Now(x))
      /\ Now(x).retry = x.retry /\ Now(x).reason = x.reason
  BY DEF Form, Stream, Now, SameLife, SameClock, SameBatch, SameRead
<1>2. QED
  BY <1>1 DEF Form, SameLife, SameClock, SameBatch

(* kcpmux_stream_clear_pending                                                    *)
LEMMA ClearFacts ==
  ASSUME NEW x, Form(x)
  PROVE  LET y == ClearPending(x)
         IN  /\ Form(y) /\ y.timer = x.timer /\ y.pending = 0 /\ ~y.listed
             /\ SameLife(x, y) /\ SameClock(x, y) /\ SameRead(x, y)
             /\ y.retry = x.retry /\ y.reason = x.reason
<1> DEFINE y == ClearPending(x)
<1>1. /\ y \in Stream /\ y.timer = x.timer /\ y.pending = 0 /\ y.listed = FALSE
      /\ SameLife(x, y) /\ SameClock(x, y) /\ SameRead(x, y)
      /\ y.retry = x.retry /\ y.reason = x.reason
  BY DEF Form, Stream, ClearPending, SameLife, SameClock, SameRead
<1>2. x.config.batch_threshold \in Nat
  BY FormTypes
<1> HIDE DEF y
<1>3. Form(y)
  BY <1>1, <1>2, SMTT(30) DEF Form, SameLife, SameClock
<1>4. QED
  BY <1>1, <1>3 DEF y

(* kcpmux_stream_close_internal: out of the list, off the timer, ended.            *)
LEMMA CloseFacts ==
  ASSUME NEW x, Form(x), NEW r \in Reasons
  PROVE  Ended(CloseInternal(x, r))
<1> DEFINE c == ClearPending(x)
           y == [c EXCEPT !.timer = None, !.notified = r,
                          !.state = IF @ = "ERROR" THEN @ ELSE "CLOSED"]
<1>1. Form(c) /\ ~c.listed
  BY ClearFacts
<1> HIDE DEF c
<1>2. /\ y \in Stream /\ y.timer = None /\ y.listed = c.listed /\ y.state \in {"CLOSED", "ERROR"}
      /\ y.config = c.config /\ y.pending = c.pending
  BY <1>1 DEF Form, Stream
<1> HIDE DEF y
<1>3. Ended(y)
  BY <1>1, <1>2 DEF Form, Ended
<1>4. QED
  BY <1>3 DEF y, c, CloseInternal

(* A stream that has ended, or is closing with its timer set, has nothing more to *)
(* show.                                                                          *)
LEMMA EndedGood ==
  ASSUME NEW y, NEW w, Ended(y) \/ (Form(y) /\ Covers(y) /\ y.state = "CLOSING")
  PROVE  Good(y, w)
BY DEF Good, Ended, Covers, Batched, Clean, Ready

(* kcpmux_stream_accumulate_update                                                *)
LEMMA AccumulateFacts ==
  ASSUME NEW x, Form(x), KcpActive(x), Covers(x), Batched(x)
  PROVE  LET y == AccumulateUpdate(x)
         IN  /\ Form(y) /\ Covers(y) /\ Batched(y)
             /\ SameLife(x, y) /\ SameClock(x, y) /\ SameRead(x, y)
<1> DEFINE th == x.config.batch_threshold
           n == x.pending + 1
           l == (x.listed \/ n = 1) /\ ~(n = th)
           t == IF n = th THEN 0 ELSE x.timer
           z == [x EXCEPT !.pending = n, !.listed = l, !.timer = t]
<1>0. /\ th \in Nat /\ x.pending \in Nat /\ x.pending <= th /\ x.listed \in BOOLEAN
      /\ x.timer \in Nat \cup {None} /\ Interval \in Nat
      /\ Earlier(Interval, Left(x.drain, x.config.drain_timeout_ms)) \in Nat
  BY FormTypes, ConstTypes, SMTT(30) DEF Form, Earlier, Left
<1>1. ASSUME NEW y, Form(y), SameLife(x, y), SameClock(x, y), y.timer \in {x.timer, 0}
      PROVE  Covers(y)
  BY <1>0, <1>1, SMTT(30) DEF Covers, SameLife, SameClock, KcpActive, Form
<1>2. CASE th <= 1
  <2>1. AccumulateUpdate(x) = Now(x)
    BY <1>2 DEF AccumulateUpdate
  <2>2. /\ Form(Now(x)) /\ Now(x).timer = 0 /\ SameLife(x, Now(x)) /\ SameClock(x, Now(x))
        /\ SameBatch(x, Now(x)) /\ SameRead(x, Now(x))
    BY NowFacts
  <2>3. Batched(Now(x))
    BY <2>2 DEF Batched, SameLife, SameClock, SameBatch
  <2>4. QED
    BY <2>1, <2>2, <2>3, <1>1
<1>3. CASE th > 1 /\ x.pending >= th
  BY <1>3, <1>0, SMTT(30) DEF AccumulateUpdate, SameLife, SameClock, SameRead
<1>4. CASE th > 1 /\ x.pending < th
  <2>1. AccumulateUpdate(x) = z
    BY <1>0, <1>4, SMTT(30) DEF AccumulateUpdate
  <2>2. n \in Nat /\ l \in BOOLEAN /\ t \in Nat \cup {None}
    BY <1>0, SMTT(30)
  <2>3. /\ z \in Stream /\ z.pending = n /\ z.listed = l /\ z.timer = t
        /\ SameLife(x, z) /\ SameClock(x, z) /\ SameRead(x, z)
    <3> HIDE DEF n, l, t
    <3> QED  BY <2>2 DEF Form, Stream, SameLife, SameClock, SameRead
  <2> HIDE DEF z
  <2>4. Form(z)
    BY <2>2, <2>3, <1>0, <1>4, SMTT(30) DEF Form, SameLife, SameClock
  <2>5. Covers(z)
    BY <2>3, <2>4, <1>1
  <2>6. Batched(z)
    <3> SUFFICES ASSUME conn = "CONNECTED", x.state = "OPEN"
                 PROVE  /\ z.listed <=> n \in 1..(th - 1)
                        /\ n > 0 /\ ~z.listed => z.timer = 0
      BY <2>3 DEF Batched, SameLife, SameClock
    <3>1. x.listed <=> x.pending \in 1..(th - 1)
      BY DEF Batched
    <3>2. CASE n = th
      <4>1. n \notin 1..(th - 1) /\ t = 0
        BY <3>2, <1>0, SMTT(30)
      <4>2. ~l
        BY <3>2
      <4> HIDE DEF l, t, n
      <4>3. QED
        BY <2>3, <4>1, <4>2
    <3>3. CASE n # th
      <4>1. n \in 1..(th - 1)
        BY <3>3, <1>0, <1>4, SMTT(30)
      <4>2. x.listed \/ n = 1
        BY <3>1, <1>0, <1>4, SMTT(30)
      <4>3. l
        BY <4>2, <3>3
      <4> HIDE DEF l
      <4>4. QED
        BY <2>3, <4>1, <4>3
    <3>4. QED
      BY <3>2, <3>3
  <2>7. QED
    BY <2>1, <2>3, <2>4, <2>5, <2>6
<1>5. QED
  BY <1>0, <1>2, <1>3, <1>4, SMTT(30)

(* kcpmux_stream_schedule_finalize                                                *)
LEMMA FinalizeFacts ==
  ASSUME NEW x, Form(x), x.state = "CLOSING", NEW r \in Reasons
  PROVE  LET y == ScheduleFinalize(x, r)
         IN  Form(y) /\ Covers(y) /\ y.state = "CLOSING"
<1> DEFINE w == [x EXCEPT !.reason = r, !.phase = "FINALIZE"]
           c == ClearPending(w)
           y == Now(c)
<1>1. /\ w \in Stream /\ w.state = x.state /\ w.phase = "FINALIZE"
      /\ w.config = x.config /\ w.pending = x.pending
  BY DEF Form, Stream
<1> HIDE DEF w
<1>2. Form(w)
  BY <1>1 DEF Form
<1>3. Form(c) /\ SameLife(w, c)
  BY <1>2, ClearFacts
<1> HIDE DEF c
<1>4. Form(y) /\ SameLife(c, y) /\ y.timer = 0
  BY <1>3, NowFacts
<1> HIDE DEF y
<1>5. Covers(y) /\ y.state = "CLOSING"
  BY <1>1, <1>3, <1>4 DEF Covers, SameLife
<1>6. QED
  BY <1>4, <1>5 DEF y, c, w, ScheduleFinalize

(* kcpmux_stream_send_close                                                       *)
LEMMA SendCloseFacts ==
  ASSUME NEW x, Form(x)
  PROVE  LET y == SendClose(x)
         IN  /\ Form(y) /\ Covers(y) /\ SameLife(x, y) /\ y.config = x.config
             /\ y.retry = x.retry /\ y.reason = x.reason
<1> DEFINE w == [x EXCEPT !.ctrl = 0]
<1>1. /\ w \in Stream /\ SameLife(x, w) /\ w.config = x.config /\ w.pending = x.pending
      /\ w.retry = x.retry /\ w.reason = x.reason
  BY ConstTypes, SMTT(30) DEF Form, Stream, SameLife
<1> HIDE DEF w
<1>2. Form(w)
  BY <1>1 DEF Form, SameLife
<1>3. 0 \in Checks
  BY ConstTypes, SMTT(30) DEF Checks
<1>4. LET y == Refresh(w, 0)
      IN  /\ Form(y) /\ Covers(y) /\ SameLife(w, y) /\ SameClock(w, y)
          /\ y.retry = w.retry /\ y.reason = w.reason
  BY <1>2, <1>3, RefreshFacts
<1>5. QED
  BY <1>1, <1>4 DEF SendClose, w, SameLife, SameClock

(* kcpmux_stream_advance_local_close                                              *)
LEMMA AdvanceFacts ==
  ASSUME NEW x, Form(x), x.state = "CLOSING",
         Covers(x) \/ (x.phase = "LOCAL_DRAIN" /\ x.waitsnd = 0)
  PROVE  LET y == AdvanceLocalClose(x)
         IN  Ended(y) \/ (Form(y) /\ Covers(y) /\ y.state = "CLOSING")
<1>1. CASE x.phase # "LOCAL_DRAIN" \/ x.waitsnd # 0
  BY <1>1 DEF AdvanceLocalClose
<1>2. CASE ~(x.phase # "LOCAL_DRAIN" \/ x.waitsnd # 0)
  <2> DEFINE w == [x EXCEPT !.phase = "WAIT_ACK", !.retry = 0]
             y == SendClose(w)
  <2>1. /\ w \in Stream /\ w.state = x.state /\ w.phase = "WAIT_ACK"
        /\ w.config = x.config /\ w.pending = x.pending
    BY DEF Form, Stream
  <2>2. AdvanceLocalClose(x) = IF y.config.close_retries = 0
                               THEN CloseInternal(y, "NORMAL") ELSE y
    BY <1>2 DEF AdvanceLocalClose
  <2> HIDE DEF w
  <2>3. Form(w)
    BY <2>1 DEF Form
  <2>4. Form(y) /\ Covers(y) /\ SameLife(w, y)
    BY <2>3, SendCloseFacts
  <2> HIDE DEF y
  <2>5. Ended(CloseInternal(y, "NORMAL"))
    BY <2>4, CloseFacts DEF Reasons
  <2>6. QED
    BY <2>1, <2>2, <2>4, <2>5 DEF SameLife
<1>3. QED
  BY <1>1, <1>2

(* A record kcpmux_stream_new made.                                               *)
Fresh(y, c, check) == \E b \in BOOLEAN : y = New(b, c, check)

(* kcpmux_stream_new                                                              *)
LEMMA NewFacts ==
  ASSUME NEW n, NEW c, NEW check \in Checks, Suited(c), Fresh(n, c, check)
  PROVE  /\ Form(n) /\ Covers(n) /\ Batched(n) /\ n.state = "OPEN"
         /\ n.rblock /\ n.readable = 0
<1>0. PICK b \in BOOLEAN : n = New(b, c, check)
  BY DEF Fresh
<1> DEFINE x == [state |-> "OPEN", phase |-> "NONE", reason |-> "NORMAL",
           notified |-> "none", initiator |-> b, upsent |-> FALSE,
           retry |-> 0, config |-> c, ctrl |-> MaxAge, drain |-> MaxAge,
           pending |-> 0, listed |-> FALSE, timer |-> None,
           rblock |-> TRUE, wblock |-> FALSE, waitsnd |-> 0, readable |-> 0,
           missed |-> {}]
<1>1. x \in Stream
  BY ConstTypes, SMTT(30) DEF Stream, Suited, Reasons
<1>2. /\ x.state = "OPEN" /\ x.phase = "NONE" /\ x.rblock = TRUE /\ x.readable = 0
      /\ x.waitsnd = 0 /\ x.config = c /\ x.pending = 0 /\ x.listed = FALSE /\ x.missed = {}
  OBVIOUS
<1> HIDE DEF x
<1>3. Form(x)
  BY <1>1, <1>2, SMTT(30) DEF Form, Suited, Config
<1>4. LET y == Refresh(x, check)
      IN  /\ Form(y) /\ Covers(y) /\ SameLife(x, y) /\ SameClock(x, y)
          /\ SameBatch(x, y) /\ SameRead(x, y)
  BY <1>3, RefreshFacts
<1> DEFINE y == Refresh(x, check)
<1> HIDE DEF y
<1>5. Batched(y)
  <2>1. Form(y) /\ SameLife(x, y) /\ SameClock(x, y) /\ SameBatch(x, y)
    BY <1>4 DEF y
  <2>2. QED
    BY <1>2, <2>1, SMTT(30) DEF Batched, SameBatch
<1>6. n = y
  BY <1>0 DEF New, x, y
<1>7. QED
  BY <1>2, <1>4, <1>5, <1>6 DEF SameLife, SameRead, y

(* kcpmux_stream_finish_batch_at                                                  *)
LEMMA FinishFacts ==
  ASSUME NEW x, NEW w, Form(x), Covers(x), Clean(x), Ready(x, w),
         \* the batch as it stands, or with the stream just taken off the list
         \/ Batched(x)
         \/ /\ ~x.listed
            /\ conn = "CONNECTED" /\ x.state = "OPEN" =>
                 x.pending \in 1..(x.config.batch_threshold - 1)
  PROVE  Good(FinishBatchAt(x), w)
<1> DEFINE th == x.config.batch_threshold
           n == IF th > 1 THEN th ELSE 0
           z == [x EXCEPT !.listed = FALSE, !.pending = n]
<1>0. th \in Nat /\ x.pending \in Nat /\ Interval \in Nat /\ x.pending <= th
  BY FormTypes, ConstTypes DEF Form
<1>1. CASE \/ x.pending = 0 \/ x.state # "OPEN" \/ conn # "CONNECTED"
           \/ th > 1 /\ x.pending >= th
  <2>1. FinishBatchAt(x) = x
    BY <1>1 DEF FinishBatchAt
  <2>2. Batched(x)
    BY <1>0, <1>1, SMTT(30) DEF Batched
  <2>3. QED
    BY <2>1, <2>2 DEF Good
<1>2. CASE ~(\/ x.pending = 0 \/ x.state # "OPEN" \/ conn # "CONNECTED"
             \/ th > 1 /\ x.pending >= th)
  <2>1. FinishBatchAt(x) = Now(z)
    BY <1>2 DEF FinishBatchAt
  <2>2. /\ z \in Stream /\ z.listed = FALSE /\ z.pending = n
        /\ SameLife(x, z) /\ SameClock(x, z) /\ SameRead(x, z)
    BY <1>0 DEF Form, Stream, SameLife, SameClock, SameRead
  <2> HIDE DEF z
  <2>3. Form(z)
    BY <1>0, <2>2, SMTT(30) DEF Form, SameLife, SameClock
  <2>4. /\ Form(Now(z)) /\ Now(z).timer = 0 /\ SameLife(z, Now(z)) /\ SameClock(z, Now(z))
        /\ SameBatch(z, Now(z)) /\ SameRead(z, Now(z))
    BY <2>3, NowFacts
  <2> DEFINE y == Now(z)
  <2> HIDE DEF y
  <2>5. /\ Form(y) /\ y.timer = 0 /\ y.state = "OPEN" /\ y.listed = FALSE /\ y.pending = n
        /\ y.config = x.config /\ y.rblock = x.rblock /\ y.readable = x.readable
        /\ y.missed = x.missed
    BY <2>2, <2>4, <1>2 DEF y, SameLife, SameClock, SameBatch, SameRead
  <2>6. Covers(y) /\ Batched(y) /\ Clean(y) /\ Ready(y, w)
    BY <2>5, <1>0, <1>2, SMTT(30) DEF Covers, Batched, Clean, Ready
  <2>7. QED
    BY <2>1, <2>5, <2>6 DEF y, Good
<1>3. QED
  BY <1>1, <1>2

-----------------------------------------------------------------------------
(* One lemma per kind of step.  A step that leaves the connection alone is      *)
(* settled when the new record is good for what the application waits for.       *)

(* A step within a connection state need only leave the record in order.            *)
LEMMA Settle ==
  ASSUME Inv, UNCHANGED conn, waiting' \subseteq {"read", "write"}, Good(s', waiting')
  PROVE  Inv'
BY DEF Inv, Good, Covers, Batched

(* kcpmux_stream_create                                                           *)
LEMMA CreateStep ==
  ASSUME Inv, NEW c \in Configs, NEW check \in Checks, Create(c, check)
  PROVE  Inv'
<1> DEFINE y == New(TRUE, c, check)
<1>1. s' = y /\ waiting' = {"read"} /\ UNCHANGED conn
  BY DEF Create
<1>2. /\ Form(y) /\ Covers(y) /\ Batched(y) /\ y.state = "OPEN"
      /\ y.rblock /\ y.readable = 0
  <2>1. Suited(c)
    BY ConstTypes
  <2>2. Fresh(y, c, check)
    BY Zenon DEF Fresh
  <2> HIDE DEF y
  <2>3. QED
    BY <2>1, <2>2, NewFacts
<1> HIDE DEF y
<1>3. Good(y, {"read"})
  BY <1>2 DEF Good, Clean, Ready
<1>4. QED
  BY <1>1, <1>3, Settle

(* kcpmux_stream_send against a full send buffer                                  *)
LEMMA SendBlockedStep ==
  ASSUME Inv, NEW n, SendBlocked(n)
  PROVE  Inv'
<1> DEFINE y == [s EXCEPT !.wblock = TRUE]
<1>0. Good(s, waiting) /\ Form(s) /\ waiting \subseteq {"read", "write"}
  BY DEF Inv, Good
<1>1. s' = y /\ waiting' = waiting \cup {"write"} /\ UNCHANGED conn
  BY DEF SendBlocked
<1>2. /\ y \in Stream /\ SameLife(s, y) /\ SameClock(s, y) /\ SameBatch(s, y)
      /\ SameRead(s, y) /\ y.timer = s.timer
  BY <1>0 DEF Form, Stream, SameLife, SameClock, SameBatch, SameRead
<1> HIDE DEF y
<1>3. Good(y, waiting \cup {"write"})
  BY <1>0, <1>2 DEF Good, Form, Covers, Batched, Clean, Ready,
                    SameLife, SameClock, SameBatch, SameRead
<1>4. QED
  BY <1>0, <1>1, <1>3, Settle

(* kcpmux_stream_send: a flush updates KCP at once and schedules what check asks    *)
(* for; otherwise the update is counted.                                           *)
LEMMA SendStep ==
  ASSUME Inv, NEW n \in Nat, NEW k \in Nat, NEW flush \in BOOLEAN, NEW check \in Checks,
         Send(n, k, flush, check)
  PROVE  Inv'
<1> DEFINE x == [s EXCEPT !.waitsnd = @ + k, !.upsent = @ \/ k > 0]
           f == [ClearPending(x) EXCEPT !.timer = check, !.missed = @ \cup {"write"}]
<1>0. Good(s, waiting) /\ Form(s) /\ waiting \subseteq {"read", "write"}
  BY DEF Inv, Good
<1>1. /\ s.state = "OPEN" /\ s.waitsnd + k <= MaxWait /\ UNCHANGED <<conn, waiting>>
      /\ s' = IF flush THEN f ELSE AccumulateUpdate(x)
  BY DEF Send, CanSend
<1>2. /\ x \in Stream /\ SameLife(s, x) /\ SameClock(s, x) /\ SameBatch(s, x)
      /\ x.rblock = s.rblock /\ x.readable = s.readable /\ x.missed = s.missed
      /\ x.timer = s.timer
  <2>1. s.waitsnd + k \in 0..MaxWait /\ (s.upsent \/ k > 0) \in BOOLEAN
    BY <1>0, <1>1, FormTypes, ConstTypes, SMTT(30)
  <2>2. QED
    BY <1>0, <2>1 DEF Form, Stream, SameLife, SameClock, SameBatch
<1> HIDE DEF x
<1>3. Form(x) /\ Covers(x) /\ Batched(x) /\ Ready(x, waiting)
  BY <1>0, <1>2 DEF Good, Form, Covers, Batched, Ready, SameLife, SameClock, SameBatch
<1>4. CASE flush
  <2> DEFINE c == ClearPending(x)
  <2>1. /\ Form(c) /\ c.pending = 0 /\ ~c.listed
        /\ SameLife(x, c) /\ SameClock(x, c) /\ SameRead(x, c)
    BY <1>3, ClearFacts
  <2> HIDE DEF c
  <2>2. check \in Nat /\ check \in 0..Interval
    BY ConstTypes, SMTT(30) DEF Checks
  <2>3. /\ f \in Stream /\ SameLife(c, f) /\ SameClock(c, f) /\ SameBatch(c, f)
        /\ f.rblock = c.rblock /\ f.readable = c.readable
        /\ f.missed = c.missed \cup {"write"} /\ f.timer = check
    BY <2>1, <2>2 DEF c, Form, Stream, SameLife, SameClock, SameBatch
  <2> HIDE DEF f
  <2>4. Form(f)
    BY <2>1, <2>3 DEF Form, SameLife, SameClock, SameBatch
  <2>5. f.state = "OPEN" /\ f.phase = "NONE" /\ f.pending = 0 /\ ~f.listed
    BY <1>1, <1>2, <2>1, <2>3, <2>4 DEF SameLife, SameBatch, Form
  <2>6. Covers(f) /\ Batched(f) /\ Clean(f)
    BY <2>2, <2>3, <2>5, SMTT(30) DEF Covers, Batched, Clean
  <2>7. Ready(f, waiting)
    BY <1>1, <1>2, <1>3, <2>1, <2>3 DEF Ready, SameLife, SameRead
  <2>8. QED
    BY <1>0, <1>1, <1>4, <2>4, <2>6, <2>7, Settle DEF Good
<1>5. CASE ~flush
  <2> DEFINE y == AccumulateUpdate(x)
  <2>1. KcpActive(x)
    BY <1>1, <1>2 DEF KcpActive, SameLife
  <2>2. /\ Form(y) /\ Covers(y) /\ Batched(y)
        /\ SameLife(x, y) /\ SameClock(x, y) /\ SameRead(x, y)
    BY <1>3, <2>1, AccumulateFacts
  <2> HIDE DEF y
  <2>3. Good(y, waiting)
    BY <1>1, <1>2, <1>3, <2>2 DEF Good, Clean, Ready, SameLife, SameRead
  <2>4. QED
    BY <1>0, <1>1, <1>5, <2>3, Settle DEF y
<1>6. QED
  BY <1>4, <1>5

(* kcpmux_stream_recv                                                             *)
LEMMA RecvStep ==
  ASSUME Inv, Recv
  PROVE  Inv'
<1> DEFINE n == s.readable - 1
           x == [s EXCEPT !.readable = n]
           z == [x EXCEPT !.rblock = TRUE, !.missed = @ \ {"read"}]
<1>0. Good(s, waiting) /\ Form(s) /\ waiting \subseteq {"read", "write"}
  BY DEF Inv, Good
<1>1. /\ CanRead /\ s.readable > 0 /\ UNCHANGED conn
      /\ s' = IF n > 0 THEN x ELSE IF x.state = "OPEN" THEN z
              ELSE ScheduleFinalize(x, x.reason)
      /\ waiting' = IF s.readable = 1 THEN waiting \cup {"read"} ELSE waiting
  BY <1>0 DEF Recv, Form, Stream
<1>2. n \in 0..MaxReadable /\ s.readable = n + 1
  BY <1>0, <1>1, FormTypes, ConstTypes, SMTT(30)
<1> HIDE DEF n
<1>3. /\ x \in Stream /\ SameLife(s, x) /\ SameClock(s, x) /\ SameBatch(s, x)
      /\ x.rblock = s.rblock /\ x.readable = n /\ x.missed = s.missed
      /\ x.timer = s.timer /\ x.reason = s.reason
  BY <1>0, <1>2 DEF Form, Stream, SameLife, SameClock, SameBatch
<1> HIDE DEF x
<1>4. Form(x) /\ Covers(x) /\ Batched(x) /\ Clean(x)
  BY <1>0, <1>3 DEF Good, Form, Covers, Batched, Clean, SameLife, SameClock, SameBatch
<1>5. CASE n > 0
  <2>1. s' = x /\ waiting' = waiting
    BY <1>1, <1>2, <1>5, SMTT(30)
  <2>2. Ready(x, waiting)
    BY <1>0, <1>2, <1>3, SMTT(30) DEF Good, Ready, SameLife
  <2>3. QED
    BY <1>0, <1>1, <1>4, <2>1, <2>2, Settle DEF Good
<1>6. CASE ~(n > 0) /\ s.state = "OPEN"
  <2>1. s' = z /\ waiting' = waiting \cup {"read"} /\ n = 0
    BY <1>1, <1>2, <1>3, <1>6, SMTT(30) DEF SameLife
  <2>2. /\ z \in Stream /\ SameLife(x, z) /\ SameClock(x, z) /\ SameBatch(x, z)
        /\ z.rblock = TRUE /\ z.readable = x.readable /\ z.timer = x.timer
    BY <1>4 DEF Form, Stream, SameLife, SameClock, SameBatch
  <2> HIDE DEF z
  <2>3. Good(z, waiting \cup {"read"})
    BY <1>3, <1>4, <2>1, <2>2 DEF Good, Form, Covers, Batched, Clean, Ready,
                                  SameLife, SameClock, SameBatch
  <2>4. QED
    BY <1>0, <1>1, <2>1, <2>3, Settle
<1>7. CASE ~(n > 0) /\ s.state # "OPEN"
  <2>1. x.state = "CLOSING" /\ x.reason \in Reasons
    BY <1>0, <1>1, <1>3, <1>7, FormTypes DEF CanRead, SameLife
  <2> DEFINE y == ScheduleFinalize(x, x.reason)
  <2>2. s' = y /\ waiting' \subseteq {"read", "write"}
    BY <1>0, <1>1, <1>7, <2>1
  <2>3. Form(y) /\ Covers(y) /\ y.state = "CLOSING"
    BY <1>4, <2>1, FinalizeFacts
  <2> HIDE DEF y
  <2>4. Good(y, waiting')
    BY <2>3, EndedGood
  <2>5. QED
    BY <1>1, <2>2, <2>4, Settle
<1>8. QED
  BY <1>5, <1>6, <1>7

(* kcpmux_stream_recv that finds nothing arms the notification.                     *)
LEMMA RecvEmptyStep ==
  ASSUME Inv, RecvEmpty
  PROVE  Inv'
<1> DEFINE y == [s EXCEPT !.rblock = TRUE]
<1>0. Good(s, waiting) /\ Form(s) /\ waiting \subseteq {"read", "write"}
  BY DEF Inv, Good
<1>1. s' = y /\ waiting' = waiting \cup {"read"} /\ UNCHANGED conn /\ s.readable = 0
  BY DEF RecvEmpty
<1>2. /\ y \in Stream /\ SameLife(s, y) /\ SameClock(s, y) /\ SameBatch(s, y)
      /\ y.rblock = TRUE /\ y.readable = s.readable /\ y.timer = s.timer
  BY <1>0 DEF Form, Stream, SameLife, SameClock, SameBatch
<1> HIDE DEF y
<1>3. Good(y, waiting \cup {"read"})
  BY <1>0, <1>1, <1>2 DEF Good, Form, Covers, Batched, Clean, Ready,
                          SameLife, SameClock, SameBatch
<1>4. QED
  BY <1>0, <1>1, <1>3, Settle

(* kcpmux_stream_close                                                            *)
LEMMA CloseStep ==
  ASSUME Inv, Close
  PROVE  Inv'
<1> DEFINE w == [s EXCEPT !.ctrl = 0, !.drain = 0, !.reason = "NORMAL", !.retry = 0,
                          !.phase = "LOCAL_DRAIN", !.state = "CLOSING"]
           x == Refresh(w, 0)
           y == IF x.initiator /\ ~x.upsent THEN CloseInternal(x, "NORMAL")
                ELSE AdvanceLocalClose(Now(x))
<1>0. Form(s) /\ waiting \subseteq {"read", "write"}
  BY DEF Inv, Good
<1>1. s' = y /\ UNCHANGED <<conn, waiting>>
  BY DEF Close
<1>2. /\ w \in Stream /\ w.state = "CLOSING" /\ w.phase = "LOCAL_DRAIN"
      /\ w.config = s.config /\ w.pending = s.pending
  <2> DEFINE u == [s EXCEPT !.ctrl = 0, !.drain = 0, !.reason = "NORMAL"]
  <2>1. u \in Stream /\ u.config = s.config /\ u.pending = s.pending
    <3>1. s \in Stream /\ 0 \in 0..MaxAge /\ "NORMAL" \in Reasons
      BY <1>0, ConstTypes, SMTT(30) DEF Form, Reasons
    <3>2. QED
      BY <3>1 DEF Stream
  <2>2. w = [u EXCEPT !.retry = 0, !.phase = "LOCAL_DRAIN", !.state = "CLOSING"]
    OBVIOUS
  <2> HIDE DEF u, w
  <2>3. QED
    BY <2>1, <2>2 DEF Stream
<1> HIDE DEF w
<1>3. Form(w)
  BY <1>0, <1>2 DEF Form
<1>4. Form(x) /\ SameLife(w, x)
  <2>1. 0 \in Checks
    BY ConstTypes, SMTT(30) DEF Checks
  <2>2. QED
    BY <1>3, <2>1, RefreshFacts
<1> HIDE DEF x
<1>5. /\ Form(Now(x)) /\ Now(x).timer = 0 /\ SameLife(x, Now(x))
  BY <1>4, NowFacts
<1> DEFINE v == Now(x)
<1> HIDE DEF v
<1>6. Form(v) /\ v.state = "CLOSING" /\ v.phase = "LOCAL_DRAIN" /\ v.timer = 0
  BY <1>2, <1>4, <1>5 DEF v, SameLife
<1>7. Covers(v)
  <2>1. Earlier(Interval, Left(v.drain, v.config.drain_timeout_ms)) \in Nat
    BY <1>6, FormTypes, ConstTypes, SMTT(30) DEF Earlier, Left
  <2>2. QED
    BY <1>6, <2>1, SMTT(30) DEF Covers
<1>8. Ended(CloseInternal(x, "NORMAL"))
  BY <1>4, CloseFacts DEF Reasons
<1>9. LET a == AdvanceLocalClose(v)
      IN  Ended(a) \/ (Form(a) /\ Covers(a) /\ a.state = "CLOSING")
  BY <1>6, <1>7, AdvanceFacts
<1>10. Ended(y) \/ (Form(y) /\ Covers(y) /\ y.state = "CLOSING")
  BY <1>8, <1>9 DEF v
<1> HIDE DEF y
<1>11. Good(y, waiting)
  BY <1>10, EndedGood
<1>12. QED
  BY <1>0, <1>1, <1>11, Settle

(* A step that ends the stream, or leaves it closing with its timer set.            *)
LEMMA EndStep ==
  ASSUME Inv, UNCHANGED <<conn, waiting>>,
         Ended(s') \/ (Form(s') /\ Covers(s') /\ s'.state = "CLOSING")
  PROVE  Inv'
<1>1. Good(s', waiting)
  BY EndedGood
<1>2. QED
  BY <1>1, Settle DEF Inv

(* kcpmux_stream_close during the receive drain ends it.                            *)
LEMMA CloseGiveUpStep ==
  ASSUME Inv, CloseGiveUp
  PROVE  Inv'
<1> DEFINE y == ScheduleFinalize(s, "NORMAL")
<1>1. Form(s) /\ s.state = "CLOSING" /\ s' = y /\ UNCHANGED <<conn, waiting>>
  BY DEF Inv, Good, CloseGiveUp
<1>2. Form(y) /\ Covers(y) /\ y.state = "CLOSING"
  BY <1>1, FinalizeFacts DEF Reasons
<1> HIDE DEF y
<1>3. QED
  BY <1>1, <1>2, EndStep

(* kcpmux_stream_set_config: the timer is computed anew, the batch starts anew.      *)
LEMMA SetConfigStep ==
  ASSUME Inv, NEW c \in Configs, NEW check \in Checks, SetConfig(c, check)
  PROVE  Inv'
<1> DEFINE l == ClearPending(s)
           w == [s EXCEPT !.config = c, !.missed = @ \cup {"write"}]
           x == ClearPending(w)
           y == Refresh(x, check)
<1>0. Good(s, waiting) /\ Form(s) /\ waiting \subseteq {"read", "write"}
  BY DEF Inv, Good
<1>1. s' = y /\ UNCHANGED <<conn, waiting>> /\ s.state \in {"OPEN", "CLOSING"}
  BY DEF SetConfig, Live
<1>2. /\ x \in Stream /\ x.config = c /\ x.pending = 0 /\ x.listed = FALSE
      /\ x.state = s.state /\ x.phase = s.phase
      /\ x.rblock = s.rblock /\ x.readable = s.readable
      /\ x.missed = s.missed \cup {"write"}
  <2>1. c \in Config
    BY ConstTypes DEF Suited
  <2>2. /\ w \in Stream /\ w.config = c /\ w.state = s.state /\ w.phase = s.phase
        /\ w.rblock = s.rblock /\ w.readable = s.readable
        /\ w.missed = s.missed \cup {"write"}
    BY <1>0, <2>1 DEF Form, Stream
  <2> HIDE DEF w
  <2>3. QED
    BY <2>2 DEF ClearPending, Stream
<1> HIDE DEF x
<1>3. Form(x)
  <2>1. Suited(c) /\ c.batch_threshold \in Nat
    BY ConstTypes DEF Suited, Config
  <2>2. QED
    BY <1>0, <1>2, <2>1, SMTT(30) DEF Form
<1>4. /\ Form(y) /\ Covers(y) /\ SameLife(x, y) /\ SameClock(x, y)
      /\ SameBatch(x, y) /\ SameRead(x, y)
  BY <1>3, RefreshFacts
<1> HIDE DEF y
<1>5. y.state = s.state /\ y.pending = 0 /\ ~y.listed
  BY <1>2, <1>4 DEF SameLife, SameBatch
<1>6. Batched(y) /\ Clean(y)
  BY <1>1, <1>5, SMTT(30) DEF Batched, Clean
<1>7. Ready(y, waiting)
  BY <1>0, <1>2, <1>4 DEF Good, Ready, SameLife, SameRead
<1>8. QED
  BY <1>0, <1>1, <1>4, <1>6, <1>7, Settle DEF Good

(* kcpmux_stream_finish_batch and kcpmux_engine_finish_batch                         *)
LEMMA FinishBatchStep ==
  ASSUME Inv, FinishBatch \/ EngineFinishBatch
  PROVE  Inv'
<1>0. Good(s, waiting) /\ Form(s) /\ waiting \subseteq {"read", "write"}
  BY DEF Inv, Good
<1>1. CASE FinishBatch
  <2>1. Good(FinishBatchAt(s), waiting)
    BY <1>0, FinishFacts DEF Good
  <2>2. QED
    BY <1>0, <1>1, <2>1, Settle DEF FinishBatch
<1>2. CASE EngineFinishBatch
  <2> DEFINE x == [s EXCEPT !.listed = FALSE]
  <2>1. /\ x \in Stream /\ SameLife(s, x) /\ SameClock(s, x) /\ SameRead(s, x)
        /\ x.pending = s.pending /\ x.listed = FALSE /\ x.timer = s.timer
    BY <1>0 DEF Form, Stream, SameLife, SameClock, SameRead
  <2>2. s.listed /\ s' = FinishBatchAt(x) /\ UNCHANGED <<conn, waiting>>
    BY <1>2 DEF EngineFinishBatch
  <2> HIDE DEF x
  <2>3. Form(x) /\ Covers(x) /\ Clean(x) /\ Ready(x, waiting)
    BY <1>0, <2>1 DEF Good, Form, Covers, Clean, Ready, SameLife, SameClock, SameRead
  <2>4. conn = "CONNECTED" /\ x.state = "OPEN" =>
          x.pending \in 1..(x.config.batch_threshold - 1)
    BY <1>0, <2>1, <2>2 DEF Good, Batched, SameLife, SameClock
  <2>5. Good(FinishBatchAt(x), waiting)
    BY <2>1, <2>3, <2>4, FinishFacts
  <2>6. QED
    BY <1>0, <2>2, <2>5, Settle
<1>3. QED
  BY <1>1, <1>2

-----------------------------------------------------------------------------
(* Packets from the peer                                                       *)

(* kcpmux_stream_handle_payload: the update is counted and a waiting reader told.    *)
LEMMA HandlePayloadStep ==
  ASSUME Inv, UNCHANGED conn, NEW x, NEW w \in SUBSET {"read", "write"},
         NEW acked \in Nat, NEW arrived \in Nat,
         Form(x), KcpActive(x), Covers(x), Batched(x), Ready(x, w),
         HandlePayload(x, w, acked, arrived)
  PROVE  Inv'
<1> DEFINE n == x.waitsnd - acked
           q == x.readable + arrived
           i == [x EXCEPT !.waitsnd = n, !.readable = q]
           a == AccumulateUpdate(i)
           y == Notify(a)
<1>1. /\ acked <= x.waitsnd /\ q <= MaxReadable /\ s' = y
      /\ waiting' = IF x.state = "OPEN" /\ q > 0 /\ x.rblock THEN w \ {"read"} ELSE w
  BY DEF HandlePayload, Input
<1>2. n \in 0..MaxWait /\ q \in 0..MaxReadable
  BY <1>1, FormTypes, ConstTypes, SMTT(30)
<1>3. /\ i \in Stream /\ SameLife(x, i) /\ SameClock(x, i) /\ SameBatch(x, i)
      /\ i.rblock = x.rblock /\ i.readable = q /\ i.missed = x.missed /\ i.timer = x.timer
  <2> HIDE DEF n, q
  <2> QED  BY <1>2 DEF Form, Stream, SameLife, SameClock, SameBatch
<1> HIDE DEF i
<1>4. Form(i) /\ KcpActive(i) /\ Covers(i) /\ Batched(i)
  BY <1>3 DEF Form, KcpActive, Covers, Batched, SameLife, SameClock, SameBatch
<1>5. /\ Form(a) /\ Covers(a) /\ Batched(a)
      /\ SameLife(i, a) /\ SameClock(i, a) /\ SameRead(i, a)
  BY <1>4, AccumulateFacts
<1> HIDE DEF a, q
<1>6. a.state = x.state /\ a.rblock = x.rblock /\ a.readable = q /\ a.missed = x.missed
  BY <1>3, <1>5 DEF SameLife, SameRead
<1>7. x.state \in {"OPEN", "CLOSING"}
  BY DEF KcpActive
<1>8. CASE x.state = "OPEN" /\ x.rblock /\ q > 0
  <2> DEFINE z == [a EXCEPT !.rblock = FALSE, !.missed = @ \ {"read"}]
  <2>1. y = z /\ waiting' = w \ {"read"}
    BY <1>1, <1>6, <1>8 DEF Notify
  <2>2. z \in Stream /\ SameLife(a, z) /\ SameClock(a, z) /\ SameBatch(a, z) /\ z.timer = a.timer
    BY <1>5 DEF Form, Stream, SameLife, SameClock, SameBatch
  <2> HIDE DEF z
  <2>3. Good(z, w \ {"read"})
    BY <1>5, <1>6, <1>8, <2>2 DEF Good, Form, Covers, Batched, Clean, Ready,
                                 SameLife, SameClock, SameBatch
  <2>4. QED
    BY <1>1, <2>1, <2>3, Settle
<1>9. CASE ~(x.state = "OPEN" /\ x.rblock /\ q > 0)
  <2>1. y = a /\ waiting' = w
    BY <1>1, <1>6, <1>9 DEF Notify
  <2>2. Ready(a, w)
    BY <1>2, <1>6, <1>9, FormTypes, SMTT(30) DEF Ready, q
  <2>3. Good(a, w)
    BY <1>5, <1>6, <1>7, <2>2 DEF Good, Clean
  <2>4. QED
    BY <1>1, <2>1, <2>3, Settle
<1>10. QED
  BY <1>8, <1>9

(* STREAM_PAYLOAD of a known stream.                                                *)
LEMMA PayloadStep ==
  ASSUME Inv, NEW acked \in Nat, NEW arrived \in Nat, Payload(acked, arrived)
  PROVE  Inv'
<1>1. /\ KcpActive(s) /\ HandlePayload(s, waiting, acked, arrived) /\ UNCHANGED conn
      /\ waiting \in SUBSET {"read", "write"} /\ Good(s, waiting)
  BY DEF Payload, Inv
<1>2. QED
  BY <1>1, HandlePayloadStep DEF Good

(* An input that fails counts the update and leaves the notification owed.           *)
LEMMA PayloadFailsStep ==
  ASSUME Inv, NEW acked \in Nat, NEW arrived \in Nat, PayloadFails(acked, arrived)
  PROVE  Inv'
<1> DEFINE n == s.waitsnd - acked
           q == s.readable + arrived
           m == IF arrived > 0 THEN s.missed \cup {"read"} ELSE s.missed
           j == [s EXCEPT !.waitsnd = n, !.readable = q]
           i == [j EXCEPT !.missed = m]
           y == AccumulateUpdate(i)
<1>0. Good(s, waiting) /\ Form(s) /\ waiting \subseteq {"read", "write"}
  BY DEF Inv, Good
<1>1. /\ KcpActive(s) /\ acked <= s.waitsnd /\ q <= MaxReadable
      /\ UNCHANGED <<conn, waiting>>
      /\ s' = AccumulateUpdate([Input(s, acked, arrived) EXCEPT
               !.missed = IF arrived > 0 THEN @ \cup {"read"} ELSE @])
  BY DEF PayloadFails
<1>2. n \in 0..MaxWait /\ q \in 0..MaxReadable /\ m \subseteq {"read", "write"}
  BY <1>0, <1>1, FormTypes, ConstTypes, SMTT(30)
<1>3. j \in Stream /\ Input(s, acked, arrived) = j /\ j.missed = s.missed
  BY <1>0, <1>2 DEF Form, Stream, Input
<1>4. s' = y
  BY <1>1, <1>3
<1>5. /\ i \in Stream /\ SameLife(s, i) /\ SameClock(s, i) /\ SameBatch(s, i)
      /\ i.rblock = s.rblock /\ i.readable = q /\ i.missed = m /\ i.timer = s.timer
  <2>1. /\ SameLife(s, j) /\ SameClock(s, j) /\ SameBatch(s, j)
        /\ j.rblock = s.rblock /\ j.readable = q /\ j.timer = s.timer
    BY <1>0 DEF Form, Stream, SameLife, SameClock, SameBatch
  <2> HIDE DEF j, m, q
  <2>2. QED
    BY <1>2, <1>3, <2>1 DEF Stream, SameLife, SameClock, SameBatch
<1> HIDE DEF i
<1>6. Form(i) /\ KcpActive(i) /\ Covers(i) /\ Batched(i)
  BY <1>0, <1>1, <1>5 DEF Good, Form, KcpActive, Covers, Batched, SameLife, SameClock, SameBatch
<1>7. /\ Form(y) /\ Covers(y) /\ Batched(y)
      /\ SameLife(i, y) /\ SameClock(i, y) /\ SameRead(i, y)
  BY <1>6, AccumulateFacts
<1> HIDE DEF y
<1>8. /\ y.state = s.state /\ y.rblock = s.rblock /\ y.readable = q /\ y.missed = m
      /\ y.state \in {"OPEN", "CLOSING"}
  BY <1>1, <1>5, <1>7 DEF SameLife, SameRead, KcpActive
<1>9. Ready(y, waiting)
  BY <1>0, <1>8, FormTypes, SMTT(30) DEF Good, Ready
<1>10. Good(y, waiting)
  BY <1>7, <1>8, <1>9 DEF Good, Clean
<1>11. QED
  BY <1>0, <1>1, <1>4, <1>10, Settle

(* A stream the peer opens, accepted.                                                *)
LEMMA AcceptStep ==
  ASSUME Inv, NEW c, Suited(c), NEW arrived \in Nat, NEW check \in Checks,
         Accept(c, arrived, check)
  PROVE  Inv'
<1> DEFINE y == New(FALSE, c, check)
<1>1. /\ Form(y) /\ Covers(y) /\ Batched(y) /\ y.state = "OPEN"
      /\ y.rblock /\ y.readable = 0
  <2>1. Fresh(y, c, check)
    BY Zenon DEF Fresh
  <2> HIDE DEF y
  <2>2. QED
    BY <2>1, NewFacts
<1>2. HandlePayload(y, {"read"}, 0, arrived) /\ UNCHANGED conn
  BY DEF Accept
<1> HIDE DEF y
<1>3. KcpActive(y) /\ Ready(y, {"read"}) /\ 0 \in Nat /\ {"read"} \in SUBSET {"read", "write"}
  BY <1>1 DEF KcpActive, Ready
<1>4. QED
  BY <1>1, <1>2, <1>3, HandlePayloadStep

(* The same, refused by the application: STREAM_CLOSE(REJECTED) is sent.             *)
LEMMA RejectStep ==
  ASSUME Inv, NEW c, Suited(c), Reject(c)
  PROVE  Inv'
<1> DEFINE n == New(FALSE, c, 0)
           w == [n EXCEPT !.state = "CLOSING", !.phase = "WAIT_ACK", !.reason = "REJECTED"]
           x == SendClose(w)
<1>1. /\ UNCHANGED <<conn, waiting>>
      /\ s' = IF x.config.close_retries = 0 THEN CloseInternal(x, "REJECTED") ELSE x
  BY DEF Reject
<1>2. Form(n)
  <2>1. 0 \in Checks
    BY ConstTypes, SMTT(30) DEF Checks
  <2>2. Fresh(n, c, 0)
    BY Zenon DEF Fresh
  <2> HIDE DEF n
  <2>3. QED
    BY <2>1, <2>2, NewFacts
<1> HIDE DEF n
<1>3. Form(w) /\ w.state = "CLOSING"
  <2>1. /\ w \in Stream /\ w.state = "CLOSING" /\ w.phase = "WAIT_ACK"
        /\ w.config = n.config /\ w.pending = n.pending
    BY <1>2 DEF Form, Stream, Reasons
  <2> HIDE DEF w
  <2>2. QED
    BY <1>2, <2>1 DEF Form
<1> HIDE DEF w
<1>4. Form(x) /\ Covers(x) /\ x.state = "CLOSING"
  BY <1>3, SendCloseFacts DEF SameLife
<1> HIDE DEF x
<1>5. Ended(CloseInternal(x, "REJECTED"))
  BY <1>4, CloseFacts DEF Reasons
<1>6. QED
  BY <1>1, <1>4, <1>5, EndStep

(* The same, refused by KCP: the stream goes through ERROR and ends in the call.     *)
LEMMA AcceptFailsStep ==
  ASSUME Inv, AcceptFails
  PROVE  Inv'
<1> DEFINE n == New(FALSE, Default, 0)
           w == [n EXCEPT !.state = "ERROR"]
<1>1. UNCHANGED <<conn, waiting>> /\ s' = CloseInternal(w, "ERROR")
  BY DEF AcceptFails
<1>2. Form(n)
  <2>1. 0 \in Checks /\ Suited(Default)
    BY ConstTypes, SMTT(30) DEF Checks
  <2>2. Fresh(n, Default, 0)
    BY Zenon DEF Fresh
  <2> HIDE DEF n
  <2>3. QED
    BY <2>1, <2>2, NewFacts
<1> HIDE DEF n
<1>3. Form(w)
  <2>1. /\ w \in Stream /\ w.state = "ERROR"
        /\ w.config = n.config /\ w.pending = n.pending
    BY <1>2 DEF Form, Stream
  <2> HIDE DEF w
  <2>2. QED
    BY <1>2, <2>1 DEF Form
<1> HIDE DEF w
<1>4. Ended(CloseInternal(w, "ERROR"))
  BY <1>3, CloseFacts DEF Reasons
<1>5. QED
  BY <1>1, <1>4, EndStep

(* STREAM_CLOSE with an error, STREAM_CLOSE_ACK                                      *)
LEMMA PeerEndsStep ==
  ASSUME Inv, PeerAcks \/ \E r \in Reasons : PeerAborts(r)
  PROVE  Inv'
<1>1. Form(s) /\ s.reason \in Reasons
  BY FormTypes DEF Inv, Good
<1>2. PICK r \in Reasons : s' = CloseInternal(s, r) /\ UNCHANGED <<conn, waiting>>
  BY <1>1 DEF PeerAcks, PeerAborts
<1>3. Ended(CloseInternal(s, r))
  BY <1>1, CloseFacts
<1>4. QED
  BY <1>2, <1>3, EndStep

(* STREAM_CLOSE(NORMAL)                                                              *)
LEMMA PeerClosesStep ==
  ASSUME Inv, PeerCloses
  PROVE  Inv'
<1> DEFINE w == [s EXCEPT !.state = "CLOSING", !.phase = "REMOTE_DRAIN",
                          !.reason = "NORMAL", !.drain = 0]
           x == Refresh(w, 0)
<1>0. Good(s, waiting) /\ Form(s) /\ s.readable \in Nat
  BY FormTypes, ConstTypes, SMTT(30) DEF Inv, Good
<1>1. /\ s.state \in {"OPEN", "CLOSING"} /\ UNCHANGED <<conn, waiting>>
      /\ s' = CASE s.state = "OPEN" /\ s.readable > 0 -> x
                [] s.state = "OPEN" /\ s.readable = 0 -> ScheduleFinalize(x, "NORMAL")
                [] s.phase \in {"LOCAL_DRAIN", "WAIT_ACK"} -> ScheduleFinalize(s, "NORMAL")
                [] OTHER -> s
  BY DEF PeerCloses, Live
<1>2. Form(x) /\ Covers(x) /\ x.state = "CLOSING"
  <2>0. s \in Stream /\ 0 \in 0..MaxAge /\ "NORMAL" \in Reasons /\ 0 \in Checks
    BY <1>0, ConstTypes, SMTT(30) DEF Form, Reasons, Checks
  <2>1. /\ w \in Stream /\ w.state = "CLOSING" /\ w.phase = "REMOTE_DRAIN"
        /\ w.config = s.config /\ w.pending = s.pending
    BY <2>0 DEF Stream
  <2> HIDE DEF w
  <2>2. Form(w)
    BY <1>0, <2>1 DEF Form
  <2>3. QED
    BY <2>0, <2>1, <2>2, RefreshFacts DEF SameLife
<1> HIDE DEF x
<1>3. \/ s' = x \/ s' = ScheduleFinalize(x, "NORMAL")
      \/ s.state = "CLOSING" /\ s' \in {ScheduleFinalize(s, "NORMAL"), s}
  <2>1. CASE s.state = "OPEN"
    <3>1. s.phase = "NONE" /\ (s.readable > 0 \/ s.readable = 0) /\ ~(s.readable > 0 /\ s.readable = 0)
      BY <1>0, <2>1, SMTT(30) DEF Form
    <3>2. QED
      BY <1>1, <2>1, <3>1
  <2>2. CASE s.state = "CLOSING"
    BY <1>1, <2>2
  <2>3. QED
    BY <1>1, <2>1, <2>2
<1>4. /\ LET y == ScheduleFinalize(x, "NORMAL") IN Form(y) /\ Covers(y) /\ y.state = "CLOSING"
      /\ s.state = "CLOSING" =>
           LET y == ScheduleFinalize(s, "NORMAL") IN Form(y) /\ Covers(y) /\ y.state = "CLOSING"
  BY <1>0, <1>2, FinalizeFacts DEF Reasons
<1>5. Form(s') /\ Covers(s') /\ s'.state = "CLOSING"
  BY <1>0, <1>2, <1>3, <1>4 DEF Good
<1>6. QED
  BY <1>1, <1>5, EndStep

-----------------------------------------------------------------------------
(* The connection                                                              *)

(* Once the connection is not CONNECTED, only what outlives the stream counts.      *)
LEMMA ConnStep ==
  ASSUME Inv, ConnCloseStart \/ \E r \in Reasons : ConnEnds(r)
  PROVE  Inv'
<1>0. Good(s, waiting) /\ Form(s) /\ waiting \subseteq {"read", "write"}
  BY DEF Inv, Good
<1>1. ASSUME conn' \in {"CLOSING", "CLOSED"}, UNCHANGED waiting,
             Form(s'), Clean(s'), Ready(s', waiting)
      PROVE  Inv'
  BY <1>0, <1>1 DEF Inv, Good, Covers, Batched
<1>2. CASE s' = s
  BY <1>0, <1>1, <1>2 DEF Good, ConnCloseStart, ConnEnds
<1>3. CASE s' # s
  <2>1. PICK r \in Reasons : /\ s' = CloseInternal(s, r) /\ conn' = "CLOSED"
                             /\ UNCHANGED waiting
    BY <1>3 DEF ConnCloseStart, ConnEnds
  <2>2. Ended(s')
    BY <1>0, <2>1, CloseFacts
  <2>3. QED
    BY <1>1, <2>1, <2>2 DEF Ended, Clean, Ready
<1>4. QED
  BY <1>2, <1>3

-----------------------------------------------------------------------------
(* kcpmux_stream_update, and time                                              *)

(* The record with its timer node taken out of the heap.                             *)
LEMMA FiredFacts ==
  ASSUME Inv
  PROVE  /\ Form(Fired) /\ Fired.timer = None /\ Fired.reason = s.reason
         /\ Fired.retry = s.retry /\ Fired.waitsnd = s.waitsnd
         /\ SameLife(s, Fired) /\ SameClock(s, Fired) /\ SameBatch(s, Fired)
         /\ SameRead(s, Fired)
<1> DEFINE y == [s EXCEPT !.timer = None]
<1>0. Form(s)
  BY DEF Inv, Good
<1>1. /\ y \in Stream /\ y.timer = None /\ y.reason = s.reason
      /\ y.retry = s.retry /\ y.waitsnd = s.waitsnd
      /\ SameLife(s, y) /\ SameClock(s, y) /\ SameBatch(s, y) /\ SameRead(s, y)
  BY <1>0 DEF Form, Stream, SameLife, SameClock, SameBatch, SameRead
<1>2. Fired = y
  BY DEF Fired
<1> HIDE DEF y
<1>3. Form(y)
  BY <1>0, <1>1 DEF Form, SameLife, SameClock, SameBatch
<1>4. QED
  BY <1>1, <1>2, <1>3

(* A stream of a connection that closes is not updated any more.                    *)
LEMMA UpdateIgnoredStep ==
  ASSUME Inv, UpdateIgnored
  PROVE  Inv'
<1>1. /\ s' = Fired /\ conn # "CONNECTED" /\ UNCHANGED <<conn, waiting>>
      /\ s.state \in {"OPEN", "CLOSING"} /\ waiting \subseteq {"read", "write"}
      /\ Ready(s, waiting)
  BY DEF UpdateIgnored, Due, Live, Inv, Good
<1>2. Good(Fired, waiting)
  BY <1>1, FiredFacts DEF Good, Covers, Batched, Clean, Ready, SameLife, SameRead
<1>3. QED
  BY <1>1, <1>2, Settle

(* An open stream: the batch is applied, KCP says when to come back.                 *)
LEMMA UpdateOpenStep ==
  ASSUME Inv, NEW check \in Checks, UpdateOpen(check)
  PROVE  Inv'
<1> DEFINE resume == s.wblock /\ s.waitsnd < s.config.send_resume_threshold
           c == ClearPending(s)
           b == c.wblock /\ ~resume
           y == [c EXCEPT !.timer = check, !.wblock = b, !.missed = @ \ {"write"}]
<1>0. Good(s, waiting) /\ Form(s) /\ waiting \subseteq {"read", "write"}
  BY DEF Inv, Good
<1>1. /\ s' = y /\ s.state = "OPEN" /\ UNCHANGED conn
      /\ waiting' \in {waiting, waiting \ {"write"}}
  BY DEF UpdateOpen
<1>2. b \in BOOLEAN /\ check \in Nat /\ check \in 0..Interval
  <2>1. b \in BOOLEAN
    OBVIOUS
  <2>2. QED
    BY <2>1, ConstTypes, SMTT(30) DEF Checks
<1>3. Form(c) /\ c.pending = 0 /\ ~c.listed /\ SameLife(s, c) /\ SameRead(s, c)
  BY <1>0, ClearFacts
<1> HIDE DEF c, b
<1>4. /\ y \in Stream /\ SameLife(c, y) /\ SameClock(c, y) /\ SameBatch(c, y)
      /\ y.rblock = c.rblock /\ y.readable = c.readable
      /\ y.missed = c.missed \ {"write"} /\ y.timer = check
  BY <1>2, <1>3 DEF Form, Stream, SameLife, SameClock, SameBatch
<1> HIDE DEF y
<1>5. Form(y)
  BY <1>3, <1>4 DEF Form, SameLife, SameClock, SameBatch
<1>6. y.state = "OPEN" /\ y.pending = 0 /\ ~y.listed
  BY <1>1, <1>3, <1>4 DEF SameLife, SameBatch
<1>7. Covers(y) /\ Batched(y) /\ Clean(y)
  BY <1>2, <1>4, <1>6, SMTT(30) DEF Covers, Batched, Clean
<1>8. Ready(y, waiting')
  BY <1>0, <1>1, <1>3, <1>4 DEF Good, Ready, SameLife, SameRead
<1>9. QED
  BY <1>0, <1>1, <1>5, <1>7, <1>8, Settle DEF Good

(* The local drain goes on, is over, or has taken too long.                          *)
LEMMA UpdateLocalDrainStep ==
  ASSUME Inv, NEW check \in Checks, UpdateLocalDrain(check)
  PROVE  Inv'
<1> DEFINE x == ClearPending(Fired)
           w == [x EXCEPT !.reason = "TIMEOUT"]
<1>1. /\ UNCHANGED <<conn, waiting>> /\ s.state = "CLOSING" /\ s.phase = "LOCAL_DRAIN"
      /\ s' = IF x.waitsnd = 0 THEN AdvanceLocalClose(x)
              ELSE IF x.drain >= x.config.drain_timeout_ms
              THEN CloseInternal(SendClose(w), "TIMEOUT") ELSE Refresh(x, check)
  BY DEF UpdateLocalDrain, DuePhase
<1>2. Form(x) /\ x.state = "CLOSING" /\ x.phase = "LOCAL_DRAIN"
  <2>1. Form(Fired) /\ Fired.state = "CLOSING" /\ Fired.phase = "LOCAL_DRAIN"
    BY <1>1, FiredFacts DEF SameLife
  <2>2. QED
    BY <2>1, ClearFacts DEF SameLife
<1> HIDE DEF x
<1>3. Ended(CloseInternal(SendClose(w), "TIMEOUT"))
  <2>1. /\ w \in Stream /\ w.state = x.state /\ w.phase = x.phase
        /\ w.config = x.config /\ w.pending = x.pending
    BY <1>2 DEF Form, Stream, Reasons
  <2> HIDE DEF w
  <2>2. Form(w)
    BY <1>2, <2>1 DEF Form
  <2>3. Form(SendClose(w))
    BY <2>2, SendCloseFacts
  <2>4. QED
    BY <2>3, CloseFacts DEF Reasons
<1>4. LET y == Refresh(x, check) IN Form(y) /\ Covers(y) /\ y.state = "CLOSING"
  BY <1>2, RefreshFacts DEF SameLife
<1>5. x.waitsnd = 0 =>
        LET y == AdvanceLocalClose(x)
        IN  Ended(y) \/ (Form(y) /\ Covers(y) /\ y.state = "CLOSING")
  BY <1>2, AdvanceFacts
<1> HIDE DEF w
<1>6. Ended(s') \/ (Form(s') /\ Covers(s') /\ s'.state = "CLOSING")
  BY <1>1, <1>3, <1>4, <1>5
<1>7. QED
  BY <1>1, <1>6, EndStep

(* The timer of WAIT_ACK is due only when the acknowledgement is overdue.            *)
LEMMA UpdateWaitAckStep ==
  ASSUME Inv, UpdateWaitAck
  PROVE  Inv'
<1> DEFINE w == [Fired EXCEPT !.retry = @ + 1]
           x == SendClose(w)
           max == s.config.close_retries
<1>1. /\ UNCHANGED <<conn, waiting>> /\ s.state = "CLOSING" /\ s.phase = "WAIT_ACK"
      /\ conn = "CONNECTED" /\ s.timer = 0
      /\ s' = IF s.ctrl < s.config.ctrl_timeout_ms THEN Fired
              ELSE IF s.retry < max /\ x.retry # max THEN x
              ELSE IF s.retry < max THEN CloseInternal(x, x.reason)
              ELSE CloseInternal(Fired, s.reason)
  BY DEF UpdateWaitAck, DuePhase, Due
<1>2. ~(s.ctrl < s.config.ctrl_timeout_ms)
  <2>1. Left(s.ctrl, s.config.ctrl_timeout_ms) = 0
    BY <1>1 DEF Inv, Good, Covers
  <2>2. s.ctrl \in Nat /\ s.config.ctrl_timeout_ms \in Nat
    BY FormTypes, ConstTypes, SMTT(30) DEF Inv, Good
  <2>3. QED
    BY <2>1, <2>2, LeftFacts, SMTT(30)
<1>3. Form(Fired) /\ Fired.state = "CLOSING" /\ Fired.phase = "WAIT_ACK" /\ s.reason \in Reasons
  BY <1>1, FiredFacts, FormTypes DEF SameLife, Inv, Good
<1>4. Form(w) /\ w.state = "CLOSING"
  <2> DEFINE f == Fired
             n == f.retry + 1
             v == [f EXCEPT !.retry = n]
  <2>1. Form(f) /\ n \in Nat
    BY <1>3, FormTypes, SMTT(30)
  <2>2. w = v
    OBVIOUS
  <2> HIDE DEF n, w
  <2>3. /\ v \in Stream /\ v.state = f.state /\ v.phase = f.phase
        /\ v.config = f.config /\ v.pending = f.pending
    <3> HIDE DEF f
    <3> QED  BY <2>1 DEF Form, Stream
  <2> HIDE DEF v
  <2>4. QED
    BY <1>3, <2>1, <2>2, <2>3 DEF Form
<1> HIDE DEF w
<1>5. Form(x) /\ Covers(x) /\ x.state = "CLOSING" /\ x.reason \in Reasons
  BY <1>4, SendCloseFacts, FormTypes DEF SameLife
<1> HIDE DEF x
<1>6. Ended(CloseInternal(x, x.reason)) /\ Ended(CloseInternal(Fired, s.reason))
  BY <1>3, <1>5, CloseFacts
<1>7. Ended(s') \/ (Form(s') /\ Covers(s') /\ s'.state = "CLOSING")
  BY <1>1, <1>2, <1>5, <1>6
<1>8. QED
  BY <1>1, <1>7, EndStep

(* The timer of REMOTE_DRAIN is due only when the drain is over; FINALIZE ends.       *)
LEMMA UpdateEndStep ==
  ASSUME Inv, UpdateRemoteDrain \/ UpdateFinalize
  PROVE  Inv'
<1>1. Form(Fired) /\ s.reason \in Reasons
  BY FiredFacts, FormTypes DEF Inv, Good
<1>2. PICK r \in Reasons : s' = CloseInternal(Fired, r) /\ UNCHANGED <<conn, waiting>>
  <2>1. CASE UpdateRemoteDrain
    <3>1. Left(s.drain, s.config.drain_timeout_ms) = 0
      BY <2>1 DEF UpdateRemoteDrain, DuePhase, Due, Inv, Good, Covers
    <3>2. s.drain \in Nat /\ s.config.drain_timeout_ms \in Nat
      BY FormTypes, ConstTypes, SMTT(30) DEF Inv, Good
    <3>3. s.drain >= s.config.drain_timeout_ms
      BY <3>1, <3>2, LeftFacts
    <3>4. QED
      BY <2>1, <3>3 DEF UpdateRemoteDrain, Reasons
  <2>2. CASE UpdateFinalize
    BY <1>1, <2>2 DEF UpdateFinalize
  <2>3. QED
    BY <2>1, <2>2
<1>3. Ended(CloseInternal(Fired, r))
  BY <1>1, CloseFacts
<1>4. QED
  BY <1>2, <1>3, EndStep

(* A millisecond takes the same from what is left as from the timer.                  *)
LEMMA OlderFacts ==
  ASSUME NEW a \in 0..MaxAge, NEW t \in Nat, t <= MaxAge
  PROVE  /\ Older(a) \in 0..MaxAge
         /\ Left(a, t) \in Nat
         /\ Left(Older(a), t) = IF Left(a, t) = 0 THEN 0 ELSE Left(a, t) - 1
BY ConstTypes, SMTT(30) DEF Older, Left

(* Time passes.                                                                     *)
LEMMA TickStep ==
  ASSUME Inv, Tick
  PROVE  Inv'
<1> DEFINE a == Older(s.ctrl)
           d == Older(s.drain)
           t == IF s.timer \in {None, 0} THEN s.timer ELSE s.timer - 1
           y == [s EXCEPT !.ctrl = a, !.drain = d, !.timer = t]
           lc == Left(s.ctrl, s.config.ctrl_timeout_ms)
           ld == Left(s.drain, s.config.drain_timeout_ms)
           nc == Left(a, s.config.ctrl_timeout_ms)
           nd == Left(d, s.config.drain_timeout_ms)
<1>0. Good(s, waiting) /\ Form(s) /\ waiting \subseteq {"read", "write"}
  BY DEF Inv, Good
<1>1. s' = y /\ UNCHANGED <<conn, waiting>> /\ s.state \in {"OPEN", "CLOSING"}
  BY DEF Tick, Live
<1>2. /\ a \in 0..MaxAge /\ lc \in Nat /\ nc = IF lc = 0 THEN 0 ELSE lc - 1
      /\ d \in 0..MaxAge /\ ld \in Nat /\ nd = IF ld = 0 THEN 0 ELSE ld - 1
  BY <1>0, FormTypes, OlderFacts DEF Form, Suited
<1>3. t \in Nat \cup {None} /\ s.timer \in Nat \cup {None} /\ Interval \in Nat
  BY <1>0, FormTypes, ConstTypes, SMTT(30) DEF None
<1>4. /\ t = 0 <=> s.timer \in {0, 1}
      /\ s.timer \in Nat => t = IF s.timer = 0 THEN 0 ELSE s.timer - 1
  BY <1>3, SMTT(30) DEF None
<1>5. /\ y \in Stream /\ SameLife(s, y) /\ y.config = s.config /\ SameBatch(s, y)
      /\ SameRead(s, y) /\ y.timer = t /\ y.ctrl = a /\ y.drain = d
  <2> HIDE DEF a, d, t
  <2> QED  BY <1>0, <1>2, <1>3 DEF Form, Stream, SameLife, SameBatch, SameRead
<1> HIDE DEF y, a, d, t
<1>6. Form(y)
  BY <1>0, <1>5 DEF Form, SameLife, SameBatch
<1>7. Covers(y)
  <2> SUFFICES ASSUME conn = "CONNECTED" PROVE Covers(y)
    BY DEF Covers
  <2>0. y.state = s.state /\ y.phase = s.phase
    BY <1>5 DEF SameLife
  <2>1. y.state = "OPEN" => y.timer \in 0..Interval
    <3>1. s.state = "OPEN" => s.timer \in 0..Interval
      BY <1>0 DEF Good, Covers
    <3>2. QED
      BY <1>3, <1>4, <1>5, <2>0, <3>1, SMTT(30)
  <2>2. y.state = "CLOSING" /\ y.phase = "LOCAL_DRAIN" => t \in 0..Earlier(Interval, nd)
    <3>1. s.state = "CLOSING" /\ s.phase = "LOCAL_DRAIN" => s.timer \in 0..Earlier(Interval, ld)
      BY <1>0 DEF Good, Covers
    <3> HIDE DEF ld, nd
    <3>2. QED
      BY <1>2, <1>3, <1>4, <2>0, <3>1, SMTT(30) DEF Earlier
  <2>3. /\ y.state = "CLOSING" /\ y.phase = "WAIT_ACK" => t = nc
        /\ y.state = "CLOSING" /\ y.phase = "REMOTE_DRAIN" => t = nd
        /\ y.state = "CLOSING" /\ y.phase = "FINALIZE" => t = 0
    <3>1. /\ s.state = "CLOSING" /\ s.phase = "WAIT_ACK" => s.timer = lc
          /\ s.state = "CLOSING" /\ s.phase = "REMOTE_DRAIN" => s.timer = ld
          /\ s.state = "CLOSING" /\ s.phase = "FINALIZE" => s.timer = 0
      BY <1>0 DEF Good, Covers
    <3> HIDE DEF lc, nc, ld, nd
    <3>2. QED
      BY <1>2, <1>4, <2>0, <3>1
  <2>4. QED
    BY <1>5, <2>1, <2>2, <2>3 DEF Covers
<1>8. Batched(y)
  BY <1>0, <1>4, <1>5 DEF Good, Batched, SameLife, SameBatch
<1>9. Clean(y) /\ Ready(y, waiting)
  BY <1>0, <1>1, <1>5 DEF Good, Clean, Ready, SameLife, SameRead
<1>10. QED
  BY <1>0, <1>1, <1>6, <1>7, <1>8, <1>9, Settle DEF Good

-----------------------------------------------------------------------------
(* Every step, and the results                                                 *)

(* The invariant holds at first,                                                    *)
LEMMA InvInit ==
  Init => Inv
<1> SUFFICES ASSUME Init PROVE Inv
  OBVIOUS
<1> DEFINE n == New(FALSE, Default, 0)
           y == [n EXCEPT !.state = "ABSENT", !.timer = None]
<1>1. Form(n)
  <2>1. 0 \in Checks /\ Suited(Default)
    BY ConstTypes, SMTT(30) DEF Checks
  <2>2. Fresh(n, Default, 0)
    BY Zenon DEF Fresh
  <2> HIDE DEF n
  <2>3. QED
    BY <2>1, <2>2, NewFacts
<1>2. s = y /\ conn = "CONNECTED" /\ waiting = {}
  BY DEF Init
<1> HIDE DEF n
<1>3. y \in Stream /\ y.state = "ABSENT" /\ y.config = n.config /\ y.pending = n.pending
  BY <1>1 DEF Form, Stream
<1> HIDE DEF y
<1>4. Good(y, {})
  BY <1>1, <1>3 DEF Good, Form, Covers, Batched, Clean, Ready
<1>5. QED
  BY <1>2, <1>4 DEF Inv

(* and every call of the application,                                               *)
LEMMA ApplicationStep ==
  ASSUME Inv, Application
  PROVE  Inv'
<1>1. CASE \E check \in Checks, c \in Configs : Create(c, check)
  BY <1>1, CreateStep
<1>2. CASE \E check \in Checks, c \in Configs : SetConfig(c, check)
  BY <1>2, SetConfigStep
<1>3. CASE \E n \in 1..MaxChunks : SendBlocked(n)
  BY <1>3, SendBlockedStep
<1>4. CASE \E n \in 1..MaxChunks : \E k \in 1..n : Send(n, k, FALSE, 0)
  <2>1. PICK n \in 1..MaxChunks : \E k \in 1..n : Send(n, k, FALSE, 0)
    BY <1>4
  <2>2. PICK k \in 1..n : Send(n, k, FALSE, 0)
    BY <2>1
  <2>3. n \in Nat /\ k \in Nat /\ 0 \in Checks
    BY ConstTypes, SMTT(30) DEF Checks
  <2>4. QED
    BY <2>2, <2>3, SendStep
<1>5. CASE \E n \in 0..MaxChunks, check \in Checks : \E k \in 0..n : Send(n, k, TRUE, check)
  <2>1. PICK n \in 0..MaxChunks, check \in Checks : \E k \in 0..n : Send(n, k, TRUE, check)
    BY <1>5
  <2>2. PICK k \in 0..n : Send(n, k, TRUE, check)
    BY <2>1
  <2>3. n \in Nat /\ k \in Nat
    BY ConstTypes, SMTT(30)
  <2>4. QED
    BY <2>2, <2>3, SendStep
<1>6. CASE Recv \/ RecvEmpty \/ Close \/ CloseGiveUp \/ FinishBatch \/ EngineFinishBatch
  BY <1>6, RecvStep, RecvEmptyStep, CloseStep, CloseGiveUpStep, FinishBatchStep
<1>7. QED
  BY <1>1, <1>2, <1>3, <1>4, <1>5, <1>6 DEF Application

(* every packet of the peer,                                                        *)
LEMMA PeerStep ==
  ASSUME Inv, Peer
  PROVE  Inv'
<1>1. CASE \E acked \in 0..MaxWait, arrived \in 0..MaxReadable :
             Payload(acked, arrived) \/ PayloadFails(acked, arrived)
  <2>1. PICK acked \in 0..MaxWait, arrived \in 0..MaxReadable :
             Payload(acked, arrived) \/ PayloadFails(acked, arrived)
    BY <1>1
  <2>2. acked \in Nat /\ arrived \in Nat
    BY ConstTypes, SMTT(30)
  <2>3. QED
    BY <2>1, <2>2, PayloadStep, PayloadFailsStep
<1>2. CASE \E c \in {Default} \cup {d \in Configs : Valid(d)} :
             \/ \E arrived \in 0..MaxReadable, check \in Checks : Accept(c, arrived, check)
             \/ Reject(c)
  <2>1. PICK c \in {Default} \cup {d \in Configs : Valid(d)} :
             \/ \E arrived \in 0..MaxReadable, check \in Checks : Accept(c, arrived, check)
             \/ Reject(c)
    BY <1>2
  <2>2. Suited(c)
    BY ConstTypes
  <2>3. CASE Reject(c)
    BY <2>2, <2>3, RejectStep
  <2>4. CASE \E arrived \in 0..MaxReadable, check \in Checks : Accept(c, arrived, check)
    <3>1. PICK arrived \in 0..MaxReadable, check \in Checks : Accept(c, arrived, check)
      BY <2>4
    <3>2. arrived \in Nat
      BY ConstTypes, SMTT(30)
    <3>3. QED
      BY <2>2, <3>1, <3>2, AcceptStep
  <2>5. QED
    BY <2>1, <2>3, <2>4
<1>3. CASE AcceptFails \/ PeerCloses
  BY <1>3, AcceptFailsStep, PeerClosesStep
<1>4. CASE PeerAcks \/ \E r \in Reasons : PeerAborts(r)
  BY <1>4, PeerEndsStep
<1>5. QED
  BY <1>1, <1>2, <1>3, <1>4 DEF Peer

(* and every other step keeps it.                                                   *)
LEMMA InvStep ==
  Inv /\ [Next]_vars => Inv'
<1> SUFFICES ASSUME Inv, [Next]_vars PROVE Inv'
  OBVIOUS
<1>1. CASE Application
  BY <1>1, ApplicationStep
<1>2. CASE Peer
  BY <1>2, PeerStep
<1>3. CASE Update
  BY <1>3, UpdateIgnoredStep, UpdateOpenStep, UpdateLocalDrainStep, UpdateWaitAckStep,
     UpdateEndStep DEF Update
<1>4. CASE Tick
  BY <1>4, TickStep
<1>5. CASE ConnCloseStart \/ \E r \in Reasons : ConnEnds(r)
  BY <1>5, ConnStep
<1>6. CASE UNCHANGED vars
  BY <1>6, Settle DEF vars, Inv
<1>7. QED
  BY <1>1, <1>2, <1>3, <1>4, <1>5, <1>6 DEF Next

(* So it always holds.                                                              *)
LEMMA Invariance ==
  Spec => []Inv
BY InvInit, InvStep, PTL DEF Spec

(* Every record kcpmux_stream_t can be in is well typed, and the count of            *)
(* kcpmux_stream_accumulate_update never passes batch_threshold.                     *)
THEOREM StreamTyped ==
  Spec => []TypeOK
<1>1. Inv => TypeOK
  BY DEF Inv, Good, Form, TypeOK
<1>2. QED
  BY <1>1, Invariance, PTL

(* The timer node always holds the deadline the phase needs, so the early returns of  *)
(* kcpmux_stream_update in WAIT_ACK and REMOTE_DRAIN can never leave a stream without *)
(* a timer; an open or draining stream is updated within KCP's interval.              *)
THEOREM NeverUntimed ==
  Spec => []TimerCovers
<1>1. Inv => TimerCovers
  <2> SUFFICES ASSUME Inv, conn = "CONNECTED", Live PROVE TimerCovers
    BY DEF TimerCovers
  <2>1. Form(s) /\ Covers(s) /\ s.state \in {"OPEN", "CLOSING"}
    BY DEF Inv, Good, Live
  <2>2. CASE s.state = "OPEN"
    <3>1. s.phase = "NONE" /\ s.timer \in 0..Interval
      BY <2>1, <2>2 DEF Form, Covers
    <3>2. QED
      BY <2>2, <3>1 DEF TimerCovers
  <2>3. CASE s.state = "CLOSING"
    <3>1. s.phase \in {"LOCAL_DRAIN", "WAIT_ACK", "REMOTE_DRAIN", "FINALIZE"}
      BY <2>1, <2>3, FormTypes DEF Form
    <3>2. CASE s.phase = "LOCAL_DRAIN"
      BY <2>1, <2>3, <3>2 DEF TimerCovers, Covers
    <3>3. CASE s.phase # "LOCAL_DRAIN"
      <4>1. s.timer = Deadline(s, 0)
        BY <2>1, <2>3, <3>1, <3>3 DEF Covers, Deadline
      <4>2. QED
        BY <2>3, <3>3, <4>1 DEF TimerCovers
    <3>4. QED
      BY <3>2, <3>3
  <2>4. QED
    BY <2>1, <2>2, <2>3
<1>2. QED
  BY <1>1, Invariance, PTL

(* Batching loses no update: what kcpmux_stream_accumulate_update postponed is in the *)
(* list kcpmux_engine_finish_batch walks, or due now, whatever the threshold and      *)
(* however sends, inputs, flushes, updates and new configurations interleave.         *)
THEOREM NoUpdateLost ==
  Spec => []BatchAccounting
<1>1. Inv => BatchAccounting
  BY DEF Inv, Good, Batched, BatchAccounting
<1>2. QED
  BY <1>1, Invariance, PTL

(* On every path to kcpmux_stream_close_internal the timer node and the place in the  *)
(* batch list are given up.                                                           *)
THEOREM EndsClean ==
  Spec => []NothingDangles
<1>1. Inv => NothingDangles
  BY DEF Inv, Good, Clean, NothingDangles
<1>2. QED
  BY <1>1, Invariance, PTL

(* stream_read_notify is owed to no reader except after an input that failed half     *)
(* way, for every number of messages KCP can hold.                                    *)
THEOREM ReaderTold ==
  Spec => []ReadNotified
<1>1. Inv => ReadNotified
  <2>1. Inv => s.readable \in 0..MaxReadable
    BY FormTypes DEF Inv, Good
  <2>2. QED
    BY <2>1, ConstTypes, SMTT(30) DEF Inv, Good, Ready, ReadNotified
<1>2. QED
  BY <1>1, Invariance, PTL

-----------------------------------------------------------------------------
(* What a send hands to KCP: module SendPath                                    *)

(* Types of a cursor into a vector and of a call.                                      *)
Cursors == [index : Nat, offset : Nat]
Phases == {"idle", "skip", "chunks", "copy", "advance", "done"}
CallRecords ==
  [phase : Phases, path : Paths, iov : Seq(Nat), mss : Nat, context : Cursors, remaining : Nat,
   sent : Seq(Seq(Nat)), chunk : Nat, size : Nat, cursor : Cursors, part : Seq(Nat),
   refused : BOOLEAN, result : Int]

(* A cursor of kcpmux_vectored_advance or kcpmux_vectored_copy: in a fragment and not at its  *)
(* end, at an empty one, or behind the last.                                                  *)
Inside(iov, c) ==
  /\ c \in Cursors /\ c.index \in 1..(Len(iov) + 1)
  /\ c.offset # 0 => c.index <= Len(iov) /\ c.offset < FragmentLen(iov, c.index)

(* The messages are the first t bytes, all but the last one full.                       *)
Messages(msgs, mss, t) ==
  LET count == Len(msgs)
  IN  /\ \A k \in 1..(count - 1) : msgs[k] = Bytes((k - 1) * mss, mss)
      /\ IF count = 0 THEN t = 0
         ELSE LET rest == t - (count - 1) * mss
              IN  rest \in 1..mss /\ msgs[count] = Bytes((count - 1) * mss, rest)

(* What the caller counts as sent, and what KCP has.                                    *)
Out(c) == Total(c.iov) - c.remaining
Gone(c) == Out(c) + IF c.phase \in {"advance", "skip"} THEN c.chunk ELSE 0

(* Where fragments begin and end.                                                 *)
LEMMA Fragments ==
  ASSUME NEW iov, IsVector(iov)
  PROVE  /\ Len(iov) \in Nat /\ Total(iov) \in Nat
         /\ \A i \in 1..(Len(iov) + 1) : Start(iov, i) \in Nat /\ Start(iov, i) <= Total(iov)
         /\ \A i \in 1..Len(iov) : /\ FragmentLen(iov, i) \in Nat
                                   /\ Start(iov, i + 1) = Start(iov, i) + FragmentLen(iov, i)
<1>1. Len(iov) \in Nat /\ DOMAIN iov = 1..Len(iov) /\ iov \in Seq(Nat)
  BY SMTT(30) DEF IsVector
<1>2. \A i \in 1..Len(iov) : iov[i] \in Nat
  BY <1>1, SMTT(30)
<1>3. \A i, j \in 1..Len(iov) : i <= j => iov[i] <= iov[j]
  BY <1>1, SMTT(30) DEF IsVector
<1>4. \A i \in 1..(Len(iov) + 1) : Start(iov, i) \in Nat
  BY <1>1, <1>2, SMTT(30) DEF Start
<1>5. \A i \in 1..(Len(iov) + 1) : Start(iov, i) <= Total(iov)
  <2> SUFFICES ASSUME NEW i \in 1..(Len(iov) + 1) PROVE Start(iov, i) <= Total(iov)
      OBVIOUS
  <2>1. CASE i = 1
    BY <2>1, <1>1, <1>4, SMTT(30) DEF Start, Total
  <2>2. CASE i # 1
    <3>1. i - 1 \in 1..Len(iov) /\ Len(iov) \in 1..Len(iov) /\ i - 1 <= Len(iov)
      BY <2>2, <1>1, SMTT(30)
    <3>2. iov[i - 1] <= iov[Len(iov)]
      BY <3>1, <1>3
    <3>3. Start(iov, i) = iov[i - 1] /\ Total(iov) = iov[Len(iov)]
      BY <2>2, <3>1, <1>1, SMTT(30) DEF Start, Total
    <3> QED BY <3>2, <3>3
  <2> QED BY <2>1, <2>2
<1>6. ASSUME NEW i \in 1..Len(iov)
      PROVE FragmentLen(iov, i) \in Nat /\ Start(iov, i + 1) = Start(iov, i) + FragmentLen(iov, i)
  <2>1. iov[i] \in Nat /\ Start(iov, i) \in Nat /\ Start(iov, i + 1) = iov[i]
    BY <1>1, <1>2, <1>4, SMTT(30) DEF Start
  <2>2. Start(iov, i) <= iov[i]
    <3>1. CASE i = 1
      BY <3>1, <2>1, SMTT(30) DEF Start
    <3>2. CASE i # 1
      BY <3>2, <1>1, <1>3, SMTT(30) DEF Start
    <3> QED BY <3>1, <3>2
  <2> QED BY <2>1, <2>2, SMTT(30) DEF FragmentLen
<1> QED BY <1>1, <1>4, <1>5, <1>6, SMTT(30) DEF Total

(* A cursor before the end of the data is in a fragment.                          *)
LEMMA InsideIs ==
  ASSUME NEW iov, IsVector(iov), NEW c, Inside(iov, c)
  PROVE  /\ Position(iov, c) \in Nat
         /\ Position(iov, c) < Total(iov) => c.index \in 1..Len(iov)
         /\ c.index \in 1..Len(iov) => c.offset <= FragmentLen(iov, c.index)
<1>1. c.index \in 1..(Len(iov) + 1) /\ c.offset \in Nat /\ Len(iov) \in Nat
  BY Fragments DEF Inside, Cursors
<1>2. Start(iov, c.index) \in Nat
  BY <1>1, Fragments
<1>3. c.index = Len(iov) + 1 => c.offset = 0
  BY <1>1, SMTT(30) DEF Inside
<1>4. c.index = Len(iov) + 1 => Position(iov, c) = Total(iov)
  BY <1>2, <1>3, SMTT(30) DEF Position, Total
<1>5. Total(iov) \in Nat
  BY Fragments
<1>6. Position(iov, c) < Total(iov) => c.index \in 1..Len(iov)
  BY <1>1, <1>4, <1>5, SMTT(30)
<1>7. c.index \in 1..Len(iov) => c.offset <= FragmentLen(iov, c.index)
  BY <1>1, Fragments, SMTT(30) DEF Inside
<1> QED BY <1>1, <1>2, <1>6, <1>7, SMTT(30) DEF Position

(* One turn of a loop over fragments: the cursor moves on by what was taken.      *)
LEMMA StepMoves ==
  ASSUME NEW iov, IsVector(iov), NEW c, Inside(iov, c), NEW n \in Nat \ {0},
         Position(iov, c) + n <= Total(iov)
  PROVE  /\ Take(iov, c, n) \in 0..n
         /\ Inside(iov, Step(iov, c, Take(iov, c, n)))
         /\ Position(iov, Step(iov, c, Take(iov, c, n))) = Position(iov, c) + Take(iov, c, n)
<1> DEFINE i == c.index
           f == FragmentLen(iov, i)
           take == Take(iov, c, n)
           d == Step(iov, c, take)
<1>1. i \in 1..Len(iov) /\ c.offset \in Nat /\ c.offset <= f /\ Len(iov) \in Nat /\ c \in Cursors
  <2>1. Position(iov, c) \in Nat /\ Total(iov) \in Nat
    BY InsideIs, Fragments
  <2>2. Position(iov, c) < Total(iov)
    BY <2>1, SMTT(30)
  <2> QED BY <2>2, InsideIs, Fragments, SMTT(30) DEF Inside, Cursors
<1>2. f \in Nat /\ Start(iov, i) \in Nat /\ Start(iov, i + 1) = Start(iov, i) + f
  <2>1. i \in 1..(Len(iov) + 1)
    BY <1>1, SMTT(30)
  <2> QED BY <1>1, <2>1, Fragments
<1> HIDE DEF f
<1>3. take = IF f - c.offset < n THEN f - c.offset ELSE n
  BY DEF Take, Lesser, f
<1>4. take \in 0..n /\ take \in Nat /\ c.offset + take <= f
  BY <1>1, <1>2, <1>3, SMTT(30)
<1> HIDE DEF take
<1>5. CASE c.offset + take = f
  <2>1. d = [index |-> i + 1, offset |-> 0]
    BY <1>5 DEF Step, f
  <2>2. d.index = i + 1 /\ d.offset = 0 /\ d \in Cursors
    BY <2>1, <1>1, SMTT(30) DEF Cursors
  <2>3. Inside(iov, d)
    BY <2>2, <1>1, SMTT(30) DEF Inside
  <2>4. Position(iov, d) = Position(iov, c) + take
    BY <2>2, <1>1, <1>2, <1>4, <1>5, SMTT(30) DEF Position
  <2> QED BY <2>3, <2>4, <1>4 DEF take
<1>6. CASE c.offset + take # f
  <2>1. d = [c EXCEPT !.offset = @ + take]
    BY <1>6 DEF Step, f
  <2>2. d.index = i /\ d.offset = c.offset + take /\ d \in Cursors
    BY <2>1, <1>1, <1>4, SMTT(30) DEF Cursors
  <2>3. d.offset < f
    BY <2>2, <1>1, <1>2, <1>4, <1>6, SMTT(30)
  <2>4. Inside(iov, d)
    BY <2>2, <2>3, <1>1, SMTT(30) DEF Inside, f
  <2>5. Position(iov, d) = Position(iov, c) + take
    BY <2>2, <1>1, <1>2, <1>4, SMTT(30) DEF Position
  <2> QED BY <2>4, <2>5, <1>4 DEF take
<1> QED BY <1>5, <1>6

(* Bytes are a sequence.                                                          *)
LEMMA BytesSeq ==
  ASSUME NEW a \in Nat, NEW n \in Nat
  PROVE  Bytes(a, n) \in Seq(Nat) /\ Len(Bytes(a, n)) = n
  BY SMTT(30) DEF Bytes

(* Two adjoining runs of bytes are one.                                           *)
LEMMA BytesJoin ==
  ASSUME NEW a \in Nat, NEW m \in Nat, NEW n \in Nat
  PROVE  Bytes(a, m) \o Bytes(a + m, n) = Bytes(a, m + n)
<1>0. a + m \in Nat /\ m + n \in Nat
  BY SMTT(30)
<1>1. /\ Bytes(a, m) \in Seq(Nat) /\ Len(Bytes(a, m)) = m
      /\ Bytes(a + m, n) \in Seq(Nat) /\ Len(Bytes(a + m, n)) = n
      /\ Bytes(a, m + n) \in Seq(Nat) /\ Len(Bytes(a, m + n)) = m + n
  BY <1>0, BytesSeq, SMTT(30)
<1> DEFINE all == Bytes(a, m) \o Bytes(a + m, n)
<1>2. all \in Seq(Nat) /\ Len(all) = m + n
  <2>1. ASSUME NEW x \in Seq(Nat), NEW y \in Seq(Nat) PROVE x \o y \in Seq(Nat)
    BY SMTT(30)
  <2>2. ASSUME NEW x \in Seq(Nat), NEW y \in Seq(Nat) PROVE Len(x \o y) = Len(x) + Len(y)
    BY SMTT(30)
  <2> QED BY <1>1, <2>1, <2>2
<1>3. ASSUME NEW k \in 1..(m + n) PROVE all[k] = Bytes(a, m + n)[k]
  <2>1. all[k] = IF k <= m THEN Bytes(a, m)[k] ELSE Bytes(a + m, n)[k - m]
    BY <1>1, SMTT(30)
  <2> QED BY <2>1, SMTT(30) DEF Bytes
<1> HIDE DEF all
<1>4. all = Bytes(a, m + n)
  BY <1>1, <1>2, <1>3, SMTT(30)
<1> QED BY <1>4 DEF all

(* A further message, when all before it are full.                                *)
LEMMA MessagesGrow ==
  ASSUME NEW msgs \in Seq(Seq(Nat)), NEW mss \in Nat, Messages(msgs, mss, Len(msgs) * mss),
         NEW n \in 1..mss
  PROVE  /\ Messages(Append(msgs, Bytes(Len(msgs) * mss, n)), mss, Len(msgs) * mss + n)
         /\ Append(msgs, Bytes(Len(msgs) * mss, n)) \in Seq(Seq(Nat))
         /\ Len(Append(msgs, Bytes(Len(msgs) * mss, n))) = Len(msgs) + 1
         /\ (Len(msgs) + 1) * mss = Len(msgs) * mss + mss
<1> DEFINE L == Len(msgs)
           t == L * mss
           b == Bytes(t, n)
           all == Append(msgs, b)
<1>1. L \in Nat /\ t \in Nat
  BY SMTT(30)
<1>2. (L + 1) * mss = t + mss /\ (L - 1) * mss = t - mss
  BY <1>1, SMTT(30)
<1>3. b \in Seq(Nat)
  BY <1>1, BytesSeq, SMTT(30)
<1> HIDE DEF b
<1>4. /\ all \in Seq(Seq(Nat)) /\ Len(all) = L + 1 /\ all[L + 1] = b
      /\ \A k \in 1..L : all[k] = msgs[k]
  BY <1>1, <1>3, SMTT(30)
<1> HIDE DEF all
<1>5. ASSUME NEW k \in 1..L PROVE all[k] = Bytes((k - 1) * mss, mss)
  <2>1. CASE k < L
    <3>1. k \in 1..(L - 1)
      BY <2>1, <1>1, SMTT(30)
    <3> QED BY <3>1, <1>4 DEF Messages
  <2>2. CASE k = L
    <3>1. L # 0
      BY <2>2, <1>1, SMTT(30)
    <3>2. msgs[L] = Bytes((L - 1) * mss, t - (L - 1) * mss)
      BY <3>1 DEF Messages
    <3>3. t - (L - 1) * mss = mss
      BY <1>1, <1>2, SMTT(30)
    <3> QED BY <3>2, <3>3, <2>2, <1>4
  <2> QED BY <2>1, <2>2, <1>1, SMTT(30)
<1>6. /\ Len(all) - 1 = L /\ Len(all) # 0 /\ t + n - L * mss = n
  BY <1>1, <1>4, SMTT(30)
<1>7. Messages(all, mss, t + n)
  BY <1>4, <1>5, <1>6, SMTT(30) DEF Messages, b
<1> QED BY <1>2, <1>4, <1>7 DEF all, b

(* The inductive invariant of a send: besides the messages, where the cursors are in every  *)
(* loop and that nothing but the last message may be short.                                 *)
Sound(c) ==
  /\ c \in CallRecords /\ IsVector(c.iov) /\ c.mss # 0
  /\ c.remaining <= Total(c.iov) /\ c.chunk <= c.remaining /\ c.size <= c.chunk
  /\ Messages(c.sent, c.mss, Gone(c))
  /\ Gone(c) < Total(c.iov) => Gone(c) = Len(c.sent) * c.mss
  /\ c.phase \in {"copy", "advance"} => c.chunk = Lesser(c.remaining, c.mss) /\ c.chunk # 0
  /\ c.phase \in {"idle", "chunks", "done"} => c.chunk = 0
  /\ c.phase = "skip" => c.size = 0
  /\ IF c.phase = "copy"
     THEN /\ Inside(c.iov, c.cursor) /\ Position(c.iov, c.cursor) = Out(c) + (c.chunk - c.size)
          /\ c.part = Bytes(Out(c), c.chunk - c.size)
     ELSE c.part = << >>
  /\ IF c.path = "send"
     THEN /\ c.phase \in {"idle", "chunks", "done"}
          /\ c.context.index = 1 /\ c.context.offset = Out(c)
     ELSE c.phase # "done" =>
            /\ Inside(c.iov, c.context)
            /\ Position(c.iov, c.context) =
                 Out(c) + CASE c.phase = "advance" -> c.chunk - c.size
                            [] c.phase = "skip" -> c.chunk
                            [] OTHER -> 0
  /\ c.phase = "done" => c.result = IF Out(c) = 0 /\ c.refused THEN -1 ELSE Out(c)

PathInv == Sound(call)

(* Types of the fields of a call.                                                 *)
LEMMA Amounts ==
  ASSUME NEW c, Sound(c)
  PROVE  /\ c.mss \in Nat \ {0} /\ c.remaining \in Nat /\ c.chunk \in Nat /\ c.size \in Nat
         /\ Total(c.iov) \in Nat /\ Out(c) \in Nat /\ c.sent \in Seq(Seq(Nat)) /\ Len(c.sent) \in Nat
         /\ Out(c) + c.remaining = Total(c.iov)
         /\ c.context \in Cursors /\ c.cursor \in Cursors /\ c.part \in Seq(Nat)
         /\ c.phase \in Phases /\ c.path \in Paths /\ c.iov \in Seq(Nat)
<1>1. c \in CallRecords /\ IsVector(c.iov) /\ c.mss # 0 /\ c.remaining <= Total(c.iov)
  BY DEF Sound
<1>2. /\ c.mss \in Nat \ {0} /\ c.remaining \in Nat /\ c.chunk \in Nat /\ c.size \in Nat
      /\ c.sent \in Seq(Seq(Nat)) /\ c.context \in Cursors /\ c.cursor \in Cursors /\ c.part \in Seq(Nat)
      /\ c.phase \in Phases /\ c.path \in Paths /\ c.iov \in Seq(Nat)
  BY <1>1 DEF CallRecords
<1>3. Total(c.iov) \in Nat
  BY <1>1, Fragments
<1> QED BY <1>1, <1>2, <1>3, SMTT(30) DEF Out

(* The next chunk is the rest or a full message, and continues what KCP has.      *)
LEMMA NextChunk ==
  ASSUME NEW c, Sound(c), c.phase \in {"chunks", "copy"}, c.remaining > 0
  PROVE  /\ Lesser(c.remaining, c.mss) \in 1..c.mss /\ Lesser(c.remaining, c.mss) <= c.remaining
         /\ Gone(c) = Out(c) /\ Out(c) = Len(c.sent) * c.mss
         /\ Messages(c.sent, c.mss, Len(c.sent) * c.mss)
         /\ LET n == Lesser(c.remaining, c.mss)
                all == Append(c.sent, Bytes(Out(c), n))
            IN  /\ Messages(all, c.mss, Out(c) + n) /\ all \in Seq(Seq(Nat))
                /\ Out(c) + n < Total(c.iov) => Out(c) + n = Len(all) * c.mss
<1> DEFINE n == Lesser(c.remaining, c.mss)
           L == Len(c.sent)
           all == Append(c.sent, Bytes(Out(c), n))
<1>1. /\ c.mss \in Nat \ {0} /\ c.remaining \in Nat /\ Total(c.iov) \in Nat /\ Out(c) \in Nat
      /\ Out(c) + c.remaining = Total(c.iov) /\ c.sent \in Seq(Seq(Nat)) /\ L \in Nat
  BY Amounts
<1>2. n \in 1..c.mss /\ n <= c.remaining /\ (n # c.mss => n = c.remaining)
  BY <1>1, SMTT(30) DEF Lesser
<1>3. Gone(c) = Out(c)
  BY <1>1, SMTT(30) DEF Gone
<1>4. Gone(c) < Total(c.iov)
  BY <1>1, <1>3, SMTT(30)
<1>5. Out(c) = L * c.mss
  BY <1>3, <1>4 DEF Sound
<1>6. Messages(c.sent, c.mss, L * c.mss)
  BY <1>3, <1>5 DEF Sound
<1> HIDE DEF n
<1>7. /\ Messages(all, c.mss, Out(c) + n) /\ all \in Seq(Seq(Nat)) /\ Len(all) = L + 1
      /\ (L + 1) * c.mss = Out(c) + c.mss
  <2> DEFINE w == Append(c.sent, Bytes(L * c.mss, n))
  <2>1. /\ Messages(w, c.mss, L * c.mss + n) /\ w \in Seq(Seq(Nat)) /\ Len(w) = L + 1
        /\ (L + 1) * c.mss = L * c.mss + c.mss
    <3>1. c.mss \in Nat /\ c.sent \in Seq(Seq(Nat))
      BY <1>1
    <3> QED BY <3>1, <1>2, <1>6, MessagesGrow
  <2> QED BY <2>1, <1>5
<1>8. Out(c) + n < Total(c.iov) => n = c.mss
  BY <1>1, <1>2, SMTT(30)
<1>9. Out(c) + n < Total(c.iov) => Out(c) + n = Len(all) * c.mss
  BY <1>7, <1>8
<1> QED BY <1>2, <1>3, <1>5, <1>6, <1>7, <1>9 DEF n

(* kcpmux_stream_send_contiguous_chunk                                            *)
LEMMA SendContiguousSound ==
  ASSUME Sound(call), SendContiguous PROVE Sound(call')
<1> DEFINE n == ChunkSize
<1>1. /\ call.mss \in Nat \ {0} /\ call.remaining \in Nat /\ call.chunk \in Nat /\ call.size \in Nat
      /\ Total(call.iov) \in Nat /\ Out(call) \in Nat /\ Out(call) + call.remaining = Total(call.iov)
      /\ call.sent \in Seq(Seq(Nat)) /\ Len(call.sent) \in Nat
      /\ call.context \in Cursors /\ call.cursor \in Cursors /\ call.part \in Seq(Nat)
      /\ call.phase \in Phases /\ call.path \in Paths /\ call.iov \in Seq(Nat)
      /\ call \in CallRecords /\ IsVector(call.iov)
      /\ call.chunk <= call.remaining /\ call.size <= call.chunk
  BY Amounts DEF Sound
<1>2. /\ call'.phase = call.phase /\ call'.path = call.path /\ call'.iov = call.iov
      /\ call'.mss = call.mss /\ call'.context = [call.context EXCEPT !.offset = @ + n]
      /\ call'.remaining = call.remaining - n
      /\ call'.sent = Append(call.sent, Bytes(call.context.offset, n))
      /\ call'.chunk = call.chunk /\ call'.size = call.size /\ call'.cursor = call.cursor
      /\ call'.part = call.part /\ call'.refused = call.refused /\ call'.result = call.result
  BY <1>1 DEF SendContiguous, CallRecords
<1>3. /\ call.phase = "chunks" /\ call.remaining > 0 /\ call.path = "send"
      /\ call.chunk = 0 /\ call.size = 0 /\ call.part = << >>
      /\ call.context.index = 1 /\ call.context.offset = Out(call)
  BY <1>1, SMTT(30) DEF SendContiguous, Wanted, Sound
<1>4. /\ n \in 1..call.mss /\ n <= call.remaining /\ Gone(call) = Out(call)
      /\ Messages(call'.sent, call.mss, Out(call) + n) /\ call'.sent \in Seq(Seq(Nat))
      /\ Out(call) + n < Total(call.iov) => Out(call) + n = Len(call'.sent) * call.mss
  BY <1>2, <1>3, NextChunk, SMTT(30) DEF ChunkSize
<1> HIDE DEF n
<1>5. n \in Nat /\ call.remaining - n \in Nat
  BY <1>1, <1>4, SMTT(30)
<1>6. /\ call'.context.index = 1 /\ call'.context.offset = Out(call) + n /\ call'.context \in Cursors
  <2>1. /\ call'.context = [call.context EXCEPT !.offset = @ + n] /\ call.context \in Cursors
        /\ n \in Nat /\ Out(call) \in Nat /\ call.context.index = 1 /\ call.context.offset = Out(call)
    BY <1>1, <1>2, <1>3, <1>5
  <2> QED BY <2>1, SMTT(30) DEF Cursors
<1>7. Out(call') = Out(call) + n /\ Gone(call') = Out(call) + n
  BY <1>1, <1>2, <1>3, <1>5, SMTT(30) DEF Out, Gone
<1>8. call' \in CallRecords
  <2>1. call' = [call EXCEPT !.sent = call'.sent, !.context = call'.context, !.remaining = call'.remaining]
    BY <1>1, <1>2 DEF SendContiguous, CallRecords, ChunkSize, n
  <2> QED BY <2>1, <1>1, <1>2, <1>4, <1>5, <1>6 DEF CallRecords
<1> QED BY <1>1, <1>2, <1>3, <1>4, <1>5, <1>6, <1>7, <1>8, SMTT(30) DEF Sound

(* kcpmux_stream_send_vectored_chunk begins.                                      *)
LEMMA SendVectoredSound ==
  ASSUME Sound(call), SendVectored PROVE Sound(call')
<1> DEFINE n == ChunkSize
<1>1. /\ call.mss \in Nat \ {0} /\ call.remaining \in Nat /\ call.chunk \in Nat /\ call.size \in Nat
      /\ Total(call.iov) \in Nat /\ Out(call) \in Nat /\ Out(call) + call.remaining = Total(call.iov)
      /\ call.sent \in Seq(Seq(Nat)) /\ Len(call.sent) \in Nat
      /\ call.context \in Cursors /\ call.cursor \in Cursors /\ call.part \in Seq(Nat)
      /\ call.phase \in Phases /\ call.path \in Paths /\ call.iov \in Seq(Nat)
      /\ call \in CallRecords /\ IsVector(call.iov)
      /\ call.chunk <= call.remaining /\ call.size <= call.chunk
  BY Amounts DEF Sound
<1>2. /\ call'.phase = "copy" /\ call'.path = call.path /\ call'.iov = call.iov
      /\ call'.mss = call.mss /\ call'.context = call.context
      /\ call'.remaining = call.remaining /\ call'.sent = call.sent /\ call'.chunk = n
      /\ call'.size = n /\ call'.cursor = call.context /\ call'.part = << >>
      /\ call'.refused = call.refused /\ call'.result = call.result
  BY <1>1 DEF SendVectored, CallRecords
<1>3. /\ call.phase = "chunks" /\ call.remaining > 0 /\ call.path # "send"
      /\ Inside(call.iov, call.context) /\ Position(call.iov, call.context) = Out(call)
  BY <1>1, SMTT(30) DEF SendVectored, Wanted, Sound
<1>4. n \in 1..call.mss /\ n <= call.remaining /\ Gone(call) = Out(call) /\ n = Lesser(call.remaining, call.mss)
  BY <1>3, NextChunk DEF ChunkSize
<1> HIDE DEF n
<1>5. n \in Nat /\ n # 0 /\ n - n = 0
  BY <1>1, <1>4, SMTT(30)
<1>6. Out(call') = Out(call) /\ Gone(call') = Gone(call)
  BY <1>1, <1>2, <1>3, <1>4 DEF Out, Gone
<1>7. Bytes(Out(call), n - n) = << >>
  BY <1>5, SMTT(30) DEF Bytes
<1>8. call' \in CallRecords
  <2>1. /\ "copy" \in Phases /\ n \in Nat /\ call.context \in Cursors
        /\ << >> \in Seq(Nat) /\ call \in CallRecords
    BY <1>1, <1>5, SMTT(30) DEF Phases
  <2>2. call' = [call EXCEPT !.phase = "copy", !.chunk = n, !.size = n,
                             !.cursor = call.context, !.part = << >>]
    BY DEF SendVectored, n
  <2> QED BY <2>1, <2>2 DEF CallRecords
<1> QED BY <1>1, <1>2, <1>3, <1>4, <1>5, <1>6, <1>7, <1>8, SMTT(30) DEF Sound

(* One turn of kcpmux_vectored_copy or ikcp_iov_copy.                             *)
LEMMA CopyFragmentSound ==
  ASSUME Sound(call), CopyFragment PROVE Sound(call')
<1> DEFINE take == Take(call.iov, call.cursor, call.size)
<1>1. /\ call.mss \in Nat \ {0} /\ call.remaining \in Nat /\ call.chunk \in Nat /\ call.size \in Nat
      /\ Total(call.iov) \in Nat /\ Out(call) \in Nat /\ Out(call) + call.remaining = Total(call.iov)
      /\ call.sent \in Seq(Seq(Nat)) /\ Len(call.sent) \in Nat
      /\ call.context \in Cursors /\ call.cursor \in Cursors /\ call.part \in Seq(Nat)
      /\ call.phase \in Phases /\ call.path \in Paths /\ call.iov \in Seq(Nat)
      /\ call \in CallRecords /\ IsVector(call.iov)
      /\ call.chunk <= call.remaining /\ call.size <= call.chunk
  BY Amounts DEF Sound
<1>2. /\ call'.phase = call.phase /\ call'.path = call.path /\ call'.iov = call.iov
      /\ call'.mss = call.mss /\ call'.context = call.context
      /\ call'.remaining = call.remaining /\ call'.sent = call.sent
      /\ call'.chunk = call.chunk /\ call'.size = call.size - take
      /\ call'.cursor = Step(call.iov, call.cursor, take)
      /\ call'.part = call.part \o Bytes(Position(call.iov, call.cursor), take)
      /\ call'.refused = call.refused /\ call'.result = call.result
  BY <1>1, SMTT(30) DEF CopyFragment, CallRecords
<1>3. /\ call.phase = "copy" /\ call.size > 0 /\ call.path # "send"
      /\ Inside(call.iov, call.cursor)
      /\ Position(call.iov, call.cursor) = Out(call) + (call.chunk - call.size)
      /\ call.part = Bytes(Out(call), call.chunk - call.size)
  BY <1>1 DEF CopyFragment, Copying, Sound
<1>4. /\ take \in 0..call.size
      /\ Inside(call.iov, call'.cursor)
      /\ Position(call.iov, call'.cursor) = Position(call.iov, call.cursor) + take
  <2>1. /\ call.size \in Nat \ {0}
        /\ Position(call.iov, call.cursor) + call.size <= Total(call.iov)
    BY <1>1, <1>3, SMTT(30)
  <2> QED BY <2>1, <1>1, <1>2, <1>3, StepMoves
<1> HIDE DEF take
<1>5. /\ take \in Nat /\ call.size - take \in Nat /\ call.size - take <= call.chunk
      /\ call.chunk - call.size \in Nat
      /\ (call.chunk - call.size) + take = call.chunk - (call.size - take)
  BY <1>1, <1>4, SMTT(30)
<1>6. Out(call') = Out(call) /\ Gone(call') = Gone(call)
  BY <1>1, <1>2, <1>3 DEF Out, Gone
<1>7. Position(call.iov, call'.cursor) = Out(call) + (call.chunk - (call.size - take))
  BY <1>1, <1>3, <1>4, <1>5, SMTT(30)
<1>8. call'.part = Bytes(Out(call), call.chunk - (call.size - take)) /\ call'.part \in Seq(Nat)
  <2>1. call'.part = Bytes(Out(call), (call.chunk - call.size) + take)
    <3> DEFINE o == Out(call)
               m == call.chunk - call.size
    <3>1. Bytes(o, m) \o Bytes(o + m, take) = Bytes(o, m + take)
      <4>1. o \in Nat /\ m \in Nat /\ take \in Nat
        BY <1>1, <1>5
      <4> HIDE DEF o, m
      <4> QED BY <4>1, BytesJoin
    <3> QED BY <3>1, <1>2, <1>3
  <2>2. Bytes(Out(call), (call.chunk - call.size) + take) \in Seq(Nat)
    <3>1. (call.chunk - call.size) + take \in Nat
      BY <1>5, SMTT(30)
    <3> QED BY <3>1, <1>1, BytesSeq
  <2> QED BY <2>1, <2>2, <1>5
<1>9. call' \in CallRecords
  <2>1. call' = [call EXCEPT !.part = call'.part, !.cursor = call'.cursor, !.size = call'.size]
    BY <1>1, <1>2 DEF CopyFragment, CallRecords, take
  <2>2. call'.cursor \in Cursors /\ call'.size \in Nat
    BY <1>2, <1>4, <1>5 DEF Inside
  <2> QED BY <2>1, <2>2, <1>1, <1>8 DEF CallRecords
<1> QED BY <1>1, <1>2, <1>3, <1>4, <1>5, <1>6, <1>7, <1>8, <1>9 DEF Sound

(* KCP takes a message that was copied together.                                  *)
LEMMA TakeMessageSound ==
  ASSUME Sound(call), TakeMessage PROVE Sound(call')
<1>1. /\ call.mss \in Nat \ {0} /\ call.remaining \in Nat /\ call.chunk \in Nat /\ call.size \in Nat
      /\ Total(call.iov) \in Nat /\ Out(call) \in Nat /\ Out(call) + call.remaining = Total(call.iov)
      /\ call.sent \in Seq(Seq(Nat)) /\ Len(call.sent) \in Nat
      /\ call.context \in Cursors /\ call.cursor \in Cursors /\ call.part \in Seq(Nat)
      /\ call.phase \in Phases /\ call.path \in Paths /\ call.iov \in Seq(Nat)
      /\ call \in CallRecords /\ IsVector(call.iov)
      /\ call.chunk <= call.remaining /\ call.size <= call.chunk
  BY Amounts DEF Sound
<1>2. /\ call'.phase = "advance" /\ call'.path = call.path /\ call'.iov = call.iov
      /\ call'.mss = call.mss /\ call'.context = call.context
      /\ call'.remaining = call.remaining /\ call'.sent = Append(call.sent, call.part)
      /\ call'.chunk = call.chunk /\ call'.size = call.chunk /\ call'.cursor = call.cursor
      /\ call'.part = << >> /\ call'.refused = call.refused /\ call'.result = call.result
  BY <1>1 DEF TakeMessage, CallRecords
<1>3. /\ call.phase = "copy" /\ call.size = 0 /\ call.path # "send"
      /\ call.chunk = Lesser(call.remaining, call.mss) /\ call.chunk # 0
      /\ call.part = Bytes(Out(call), call.chunk - call.size)
      /\ Inside(call.iov, call.context) /\ Position(call.iov, call.context) = Out(call)
  BY <1>1, SMTT(30) DEF TakeMessage, Copied, Sound
<1>4. call.remaining > 0 /\ call.chunk - call.size = call.chunk
  BY <1>1, <1>3, SMTT(30)
<1>5. /\ Messages(call'.sent, call.mss, Out(call) + call.chunk) /\ call'.sent \in Seq(Seq(Nat))
      /\ Out(call) + call.chunk < Total(call.iov) =>
           Out(call) + call.chunk = Len(call'.sent) * call.mss
  BY <1>2, <1>3, <1>4, NextChunk
<1>6. Out(call') = Out(call) /\ Gone(call') = Out(call) + call.chunk
  BY <1>1, <1>2, <1>3 DEF Out, Gone
<1>7. call' \in CallRecords
  <2>1. call' = [call EXCEPT !.phase = "advance", !.sent = call'.sent, !.size = call.chunk, !.part = << >>]
    BY <1>1, <1>2 DEF TakeMessage, CallRecords
  <2>2. /\ "advance" \in Phases /\ call'.sent \in Seq(Seq(Nat)) /\ call.chunk \in Nat
        /\ << >> \in Seq(Nat) /\ call \in CallRecords
    BY <1>1, <1>5, SMTT(30) DEF Phases
  <2> QED BY <2>1, <2>2 DEF CallRecords
<1>8. call.chunk - call.chunk = 0
  BY <1>1, SMTT(30)
<1> QED BY <1>1, <1>2, <1>3, <1>4, <1>5, <1>6, <1>7, <1>8, SMTT(30) DEF Sound

(* One turn of kcpmux_vectored_advance.                                           *)
LEMMA AdvanceFragmentSound ==
  ASSUME Sound(call), AdvanceFragment PROVE Sound(call')
<1> DEFINE take == Take(call.iov, call.context, call.size)
<1>1. /\ call.mss \in Nat \ {0} /\ call.remaining \in Nat /\ call.chunk \in Nat /\ call.size \in Nat
      /\ Total(call.iov) \in Nat /\ Out(call) \in Nat /\ Out(call) + call.remaining = Total(call.iov)
      /\ call.sent \in Seq(Seq(Nat)) /\ Len(call.sent) \in Nat
      /\ call.context \in Cursors /\ call.cursor \in Cursors /\ call.part \in Seq(Nat)
      /\ call.phase \in Phases /\ call.path \in Paths /\ call.iov \in Seq(Nat)
      /\ call \in CallRecords /\ IsVector(call.iov)
      /\ call.chunk <= call.remaining /\ call.size <= call.chunk
  BY Amounts DEF Sound
<1>2. /\ call'.phase = call.phase /\ call'.path = call.path /\ call'.iov = call.iov
      /\ call'.mss = call.mss /\ call'.context = Step(call.iov, call.context, take)
      /\ call'.remaining = call.remaining /\ call'.sent = call.sent
      /\ call'.chunk = call.chunk /\ call'.size = call.size - take
      /\ call'.cursor = call.cursor /\ call'.part = call.part /\ call'.refused = call.refused
      /\ call'.result = call.result
  BY <1>1 DEF AdvanceFragment, CallRecords
<1>3. /\ call.phase = "advance" /\ call.size > 0 /\ call.path # "send"
      /\ Inside(call.iov, call.context)
      /\ Position(call.iov, call.context) = Out(call) + (call.chunk - call.size)
  BY <1>1 DEF AdvanceFragment, Advancing, Sound
<1>4. /\ take \in 0..call.size
      /\ Inside(call.iov, call'.context)
      /\ Position(call.iov, call'.context) = Position(call.iov, call.context) + take
  <2>1. /\ call.size \in Nat \ {0}
        /\ Position(call.iov, call.context) + call.size <= Total(call.iov)
    BY <1>1, <1>3, SMTT(30)
  <2> QED BY <2>1, <1>1, <1>2, <1>3, StepMoves
<1> HIDE DEF take
<1>5. /\ take \in Nat /\ call.size - take \in Nat /\ call.size - take <= call.chunk
      /\ Position(call.iov, call'.context) = Out(call) + (call.chunk - (call.size - take))
  BY <1>1, <1>3, <1>4, SMTT(30)
<1>6. Out(call') = Out(call) /\ Gone(call') = Gone(call)
  BY <1>1, <1>2, <1>3 DEF Out, Gone
<1>7. call' \in CallRecords
  <2>1. call' = [call EXCEPT !.context = call'.context, !.size = call'.size]
    BY <1>1, <1>2 DEF AdvanceFragment, CallRecords, take
  <2>2. call'.context \in Cursors /\ call'.size \in Nat
    BY <1>2, <1>4, <1>5 DEF Inside
  <2> QED BY <2>1, <2>2, <1>1 DEF CallRecords
<1> QED BY <1>1, <1>2, <1>3, <1>4, <1>5, <1>6, <1>7 DEF Sound

(* The first loop of kcpmux_vectored_advance ends.                                *)
LEMMA AdvanceEndsSound ==
  ASSUME Sound(call), AdvanceEnds PROVE Sound(call')
<1>1. /\ call.mss \in Nat \ {0} /\ call.remaining \in Nat /\ call.chunk \in Nat /\ call.size \in Nat
      /\ Total(call.iov) \in Nat /\ Out(call) \in Nat /\ Out(call) + call.remaining = Total(call.iov)
      /\ call.sent \in Seq(Seq(Nat)) /\ Len(call.sent) \in Nat
      /\ call.context \in Cursors /\ call.cursor \in Cursors /\ call.part \in Seq(Nat)
      /\ call.phase \in Phases /\ call.path \in Paths /\ call.iov \in Seq(Nat)
      /\ call \in CallRecords /\ IsVector(call.iov)
      /\ call.chunk <= call.remaining /\ call.size <= call.chunk
  BY Amounts DEF Sound
<1>2. /\ call'.phase = "skip" /\ call'.path = call.path /\ call'.iov = call.iov
      /\ call'.mss = call.mss /\ call'.context = call.context
      /\ call'.remaining = call.remaining /\ call'.sent = call.sent
      /\ call'.chunk = call.chunk /\ call'.size = call.size /\ call'.cursor = call.cursor
      /\ call'.part = call.part /\ call'.refused = call.refused /\ call'.result = call.result
  BY <1>1 DEF AdvanceEnds, CallRecords
<1>3. /\ call.phase = "advance" /\ call.size = 0 /\ call.path # "send"
      /\ Inside(call.iov, call.context)
      /\ Position(call.iov, call.context) = Out(call) + (call.chunk - call.size)
  BY <1>1 DEF AdvanceEnds, Sound
<1>4. Out(call') = Out(call) /\ Gone(call') = Gone(call) /\ call.chunk - call.size = call.chunk
  BY <1>1, <1>2, <1>3, SMTT(30) DEF Out, Gone
<1>5. call' \in CallRecords
  BY <1>1 DEF AdvanceEnds, CallRecords, Phases
<1> QED BY <1>1, <1>2, <1>3, <1>4, <1>5 DEF Sound

(* An empty fragment is passed over.                                              *)
LEMMA SkipEmptySound ==
  ASSUME Sound(call), SkipEmpty PROVE Sound(call')
<1> DEFINE i == call.context.index
<1>1. /\ call.mss \in Nat \ {0} /\ call.remaining \in Nat /\ call.chunk \in Nat /\ call.size \in Nat
      /\ Total(call.iov) \in Nat /\ Out(call) \in Nat /\ Out(call) + call.remaining = Total(call.iov)
      /\ call.sent \in Seq(Seq(Nat)) /\ Len(call.sent) \in Nat
      /\ call.context \in Cursors /\ call.cursor \in Cursors /\ call.part \in Seq(Nat)
      /\ call.phase \in Phases /\ call.path \in Paths /\ call.iov \in Seq(Nat)
      /\ call \in CallRecords /\ IsVector(call.iov)
      /\ call.chunk <= call.remaining /\ call.size <= call.chunk
  BY Amounts DEF Sound
<1>2. /\ call'.phase = call.phase /\ call'.path = call.path /\ call'.iov = call.iov
      /\ call'.mss = call.mss /\ call'.context = [call.context EXCEPT !.index = @ + 1]
      /\ call'.remaining = call.remaining /\ call'.sent = call.sent
      /\ call'.chunk = call.chunk /\ call'.size = call.size /\ call'.cursor = call.cursor
      /\ call'.part = call.part /\ call'.refused = call.refused /\ call'.result = call.result
  BY <1>1 DEF SkipEmpty, CallRecords
<1>3. /\ call.phase = "skip" /\ call.path # "send"
      /\ Inside(call.iov, call.context)
      /\ Position(call.iov, call.context) = Out(call) + call.chunk
      /\ i <= Len(call.iov) /\ FragmentLen(call.iov, i) = 0
  BY <1>1 DEF SkipEmpty, AtEmpty, Sound
<1>4. i \in 1..Len(call.iov) /\ call.context.offset \in Nat /\ Len(call.iov) \in Nat
  BY <1>1, <1>3, SMTT(30) DEF Inside, Cursors
<1>5. call.context.offset = 0
  BY <1>3, <1>4, SMTT(30) DEF Inside
<1>6. call'.context.index = i + 1 /\ call'.context.offset = 0 /\ call'.context \in Cursors
  <2>1. call'.context = [call.context EXCEPT !.index = @ + 1] /\ call.context \in Cursors
    BY <1>1, <1>2
  <2> QED BY <2>1, <1>5, SMTT(30) DEF Cursors
<1>7. Inside(call.iov, call'.context)
  BY <1>4, <1>6, SMTT(30) DEF Inside
<1>8. Position(call.iov, call'.context) = Position(call.iov, call.context)
  <2>1. /\ Start(call.iov, i + 1) = Start(call.iov, i) + 0
    BY <1>1, <1>3, <1>4, Fragments
  <2>2. Start(call.iov, i) \in Nat
    <3>1. i \in 1..(Len(call.iov) + 1)
      BY <1>4, SMTT(30)
    <3> QED BY <3>1, <1>1, Fragments
  <2> QED BY <2>1, <2>2, <1>5, <1>6, SMTT(30) DEF Position
<1>9. Out(call') = Out(call) /\ Gone(call') = Gone(call)
  BY <1>1, <1>2, <1>3 DEF Out, Gone
<1>10. call' \in CallRecords
  <2>1. call' = [call EXCEPT !.context = call'.context]
    BY <1>1, <1>2 DEF SkipEmpty, CallRecords
  <2> QED BY <2>1, <1>1, <1>6 DEF CallRecords
<1> QED BY <1>1, <1>2, <1>3, <1>7, <1>8, <1>9, <1>10 DEF Sound

(* The chunk counts, and kcpmux_stream_send_chunks goes on.                       *)
LEMMA SkipEndsSound ==
  ASSUME Sound(call), SkipEnds PROVE Sound(call')
<1>1. /\ call.mss \in Nat \ {0} /\ call.remaining \in Nat /\ call.chunk \in Nat /\ call.size \in Nat
      /\ Total(call.iov) \in Nat /\ Out(call) \in Nat /\ Out(call) + call.remaining = Total(call.iov)
      /\ call.sent \in Seq(Seq(Nat)) /\ Len(call.sent) \in Nat
      /\ call.context \in Cursors /\ call.cursor \in Cursors /\ call.part \in Seq(Nat)
      /\ call.phase \in Phases /\ call.path \in Paths /\ call.iov \in Seq(Nat)
      /\ call \in CallRecords /\ IsVector(call.iov)
      /\ call.chunk <= call.remaining /\ call.size <= call.chunk
  BY Amounts DEF Sound
<1>2. /\ call'.phase = "chunks" /\ call'.path = call.path /\ call'.iov = call.iov
      /\ call'.mss = call.mss /\ call'.context = call.context
      /\ call'.remaining = call.remaining - call.chunk /\ call'.sent = call.sent
      /\ call'.chunk = 0 /\ call'.size = call.size /\ call'.cursor = call.cursor
      /\ call'.part = call.part /\ call'.refused = call.refused /\ call'.result = call.result
  BY <1>1 DEF SkipEnds, CallRecords
<1>3. /\ call.phase = "skip" /\ call.size = 0 /\ call.path # "send" /\ call.part = << >>
      /\ Inside(call.iov, call.context)
      /\ Position(call.iov, call.context) = Out(call) + call.chunk
  BY <1>1 DEF SkipEnds, Sound
<1>4. call.remaining - call.chunk \in Nat /\ call.remaining - call.chunk <= Total(call.iov)
  BY <1>1, SMTT(30)
<1>5. Gone(call') = Gone(call) /\ Out(call') = Out(call) + call.chunk
  BY <1>1, <1>2, <1>3, SMTT(30) DEF Out, Gone
<1>6. call' \in CallRecords
  BY <1>1, <1>4 DEF SkipEnds, CallRecords, Phases
<1> QED BY <1>1, <1>2, <1>3, <1>4, <1>5, <1>6, SMTT(30) DEF Sound

(* kcpmux_stream_send_chunks returns.                                             *)
LEMMA CompleteSound ==
  ASSUME Sound(call), call.phase \in {"chunks", "copy"}, call.size = 0,
         NEW b \in BOOLEAN, Complete(IF Out(call) = 0 /\ b THEN -1 ELSE Out(call), b)
  PROVE  Sound(call')
<1> DEFINE res == IF Out(call) = 0 /\ b THEN -1 ELSE Out(call)
<1>1. /\ call.mss \in Nat \ {0} /\ call.remaining \in Nat /\ call.chunk \in Nat /\ call.size \in Nat
      /\ Total(call.iov) \in Nat /\ Out(call) \in Nat /\ Out(call) + call.remaining = Total(call.iov)
      /\ call.sent \in Seq(Seq(Nat)) /\ Len(call.sent) \in Nat
      /\ call.context \in Cursors /\ call.cursor \in Cursors /\ call.part \in Seq(Nat)
      /\ call.phase \in Phases /\ call.path \in Paths /\ call.iov \in Seq(Nat)
      /\ call \in CallRecords /\ IsVector(call.iov)
      /\ call.chunk <= call.remaining /\ call.size <= call.chunk
  BY Amounts DEF Sound
<1>2. res \in Int
  BY <1>1, SMTT(30)
<1> HIDE DEF res
<1>3. call' = [call EXCEPT !.phase = "done", !.result = res, !.refused = b, !.chunk = 0, !.part = << >>]
  BY DEF Complete, res
<1>4. /\ call'.phase = "done" /\ call'.path = call.path /\ call'.iov = call.iov
      /\ call'.mss = call.mss /\ call'.context = call.context
      /\ call'.remaining = call.remaining /\ call'.sent = call.sent /\ call'.chunk = 0
      /\ call'.size = call.size /\ call'.cursor = call.cursor /\ call'.part = << >>
      /\ call'.refused = b /\ call'.result = res
  BY <1>1, <1>3 DEF CallRecords
<1>5. call' \in CallRecords
  <2>1. /\ "done" \in Phases /\ 0 \in Nat /\ << >> \in Seq(Nat) /\ call \in CallRecords
    BY <1>1, SMTT(30) DEF Phases
  <2> QED BY <2>1, <1>2, <1>3 DEF CallRecords
<1>6. Out(call') = Out(call) /\ Gone(call') = Out(call) /\ Gone(call) = Out(call)
  BY <1>1, <1>4, SMTT(30) DEF Out, Gone
<1>7. call.path = "send" => call.context.index = 1 /\ call.context.offset = Out(call)
  BY DEF Sound
<1>8. /\ call.mss # 0 /\ call.remaining <= Total(call.iov)
      /\ Messages(call.sent, call.mss, Out(call))
      /\ Out(call) < Total(call.iov) => Out(call) = Len(call.sent) * call.mss
  BY <1>6 DEF Sound
<1> QED BY <1>1, <1>4, <1>5, <1>6, <1>7, <1>8, SMTT(30) DEF Sound, res

(* It returns with everything sent.                                               *)
LEMMA SendChunksEndsSound ==
  ASSUME Sound(call), SendChunksEnds PROVE Sound(call')
<1>1. call.phase = "chunks" /\ call.chunk = 0 /\ call.chunk \in Nat /\ call.size \in Nat /\ call.size <= call.chunk
  BY Amounts DEF SendChunksEnds, Sound
<1>2. call.size = 0
  BY <1>1, SMTT(30)
<1>3. Complete(IF Out(call) = 0 /\ FALSE THEN -1 ELSE Out(call), FALSE)
  BY DEF SendChunksEnds, TotalSent, Out
<1> QED BY <1>1, <1>2, <1>3, CompleteSound

(* It returns because KCP refused a chunk.                                        *)
LEMMA RefuseSound ==
  ASSUME Sound(call), Refuse PROVE Sound(call')
<1>1. call.phase \in {"chunks", "copy"} /\ (call.phase = "chunks" => call.chunk = 0)
      /\ (call.phase = "copy" => call.size = 0)
      /\ call.chunk \in Nat /\ call.size \in Nat /\ call.size <= call.chunk
  BY Amounts DEF Refuse, Wanted, Copied, Sound
<1>2. call.size = 0
  BY <1>1, SMTT(30)
<1>3. Complete(IF Out(call) = 0 /\ TRUE THEN -1 ELSE Out(call), TRUE)
  BY DEF Refuse, TotalSent, Out
<1> QED BY <1>1, <1>2, <1>3, CompleteSound

(* No call is in progress.                                                        *)
LEMMA NoCallSound ==
  /\ NoCall \in CallRecords /\ Sound(NoCall)
<1> DEFINE c == NoCall
<1>1. << >> \in Seq(Nat) /\ << >> \in Seq(Seq(Nat)) /\ "idle" \in Phases /\ "send" \in Paths
      /\ [index |-> 1, offset |-> 0] \in Cursors
  BY SMTT(30) DEF Phases, Paths, Cursors
<1>2. NoCall \in CallRecords
  BY <1>1, SMTT(30) DEF NoCall, CallRecords
<1>3. /\ c.phase = "idle" /\ c.path = "send" /\ c.iov = << >> /\ c.mss = 1 /\ c.remaining = 0
      /\ c.context.index = 1 /\ c.context.offset = 0 /\ c.sent = << >> /\ c.chunk = 0 /\ c.size = 0
      /\ c.part = << >>
  BY DEF NoCall
<1>4. IsVector(<< >>) /\ Total(<< >>) = 0
  BY SMTT(30) DEF IsVector, Total, Start
<1> HIDE DEF c
<1>5. Out(c) = 0 /\ Gone(c) = 0
  BY <1>3, <1>4, SMTT(30) DEF Out, Gone
<1>6. Messages(<< >>, 1, 0)
  BY SMTT(30) DEF Messages
<1> QED BY <1>2, <1>3, <1>4, <1>5, <1>6, SMTT(30) DEF Sound, c

(* A call begins.                                                                 *)
LEMMA BeginSound ==
  ASSUME NEW path \in Paths, NEW iov \in Vectors, NEW mss \in 1..MaxMss, Begin(path, iov, mss)
  PROVE  Sound(call')
<1> DEFINE phase == IF path = "send" THEN "chunks" ELSE "skip"
<1>1. /\ IsVector(iov) /\ iov \in Seq(Nat) /\ mss \in Nat \ {0} /\ Total(iov) \in Nat
      /\ (path = "send" => Len(iov) = 1) /\ Len(iov) \in Nat
  <2>1. IsVector(iov) /\ MaxMss \in Nat
    BY PathAssumption
  <2>2. iov \in Seq(Nat) /\ Total(iov) \in Nat /\ Len(iov) \in Nat
    BY <2>1, Fragments DEF IsVector
  <2>3. mss \in Nat \ {0}
    BY <2>1, SMTT(30)
  <2> QED BY <2>1, <2>2, <2>3 DEF Begin
<1>2. phase \in Phases
  BY DEF Phases
<1>3. call' = [phase |-> phase, path |-> path, iov |-> iov, mss |-> mss,
              context |-> [index |-> 1, offset |-> 0], remaining |-> Total(iov), sent |-> << >>,
              chunk |-> 0, size |-> 0, cursor |-> [index |-> 1, offset |-> 0], part |-> << >>,
              refused |-> FALSE, result |-> 0]
  BY DEF Begin, NoCall
<1> HIDE DEF phase
<1>4. /\ call'.phase = phase /\ call'.path = path /\ call'.iov = iov /\ call'.mss = mss
      /\ call'.context = [index |-> 1, offset |-> 0] /\ call'.remaining = Total(iov)
      /\ call'.sent = << >> /\ call'.chunk = 0 /\ call'.size = 0 /\ call'.part = << >>
  BY <1>3
<1>5. << >> \in Seq(Nat) /\ << >> \in Seq(Seq(Nat)) /\ [index |-> 1, offset |-> 0] \in Cursors
  BY SMTT(30) DEF Cursors
<1>6. call' \in CallRecords
  BY <1>1, <1>2, <1>3, <1>5, SMTT(30) DEF CallRecords
<1>7. Out(call') = 0 /\ Gone(call') = 0
  BY <1>1, <1>4, SMTT(30) DEF Out, Gone
<1>8. Messages(<< >>, mss, 0) /\ 0 = Len(<< >>) * mss
  BY <1>1, SMTT(30) DEF Messages
<1>9. Inside(iov, call'.context) /\ Position(iov, call'.context) = 0
  BY <1>1, <1>4, <1>5, SMTT(30) DEF Inside, Position, Start
<1> QED BY <1>1, <1>4, <1>6, <1>7, <1>8, <1>9, SMTT(30) DEF Sound, phase

(* While a loop over fragments wants bytes, its cursor is at a fragment.          *)
LEMMA InReach ==
  ASSUME Sound(call), NEW c, Inside(call.iov, c), call.size > 0,
         Position(call.iov, c) = Out(call) + (call.chunk - call.size)
  PROVE  Readable(call.iov, c) /\ Position(call.iov, c) + call.size <= Total(call.iov)
<1>1. /\ call.mss \in Nat \ {0} /\ call.remaining \in Nat /\ call.chunk \in Nat /\ call.size \in Nat
      /\ Total(call.iov) \in Nat /\ Out(call) \in Nat /\ Out(call) + call.remaining = Total(call.iov)
      /\ call.sent \in Seq(Seq(Nat)) /\ Len(call.sent) \in Nat
      /\ call.context \in Cursors /\ call.cursor \in Cursors /\ call.part \in Seq(Nat)
      /\ call.phase \in Phases /\ call.path \in Paths /\ call.iov \in Seq(Nat)
      /\ call \in CallRecords /\ IsVector(call.iov)
      /\ call.chunk <= call.remaining /\ call.size <= call.chunk
  BY Amounts DEF Sound
<1>2. Position(call.iov, c) < Total(call.iov) /\ Position(call.iov, c) + call.size <= Total(call.iov)
  BY <1>1, SMTT(30)
<1>3. /\ c.index \in 1..Len(call.iov) /\ Len(call.iov) \in Nat
      /\ c.offset <= FragmentLen(call.iov, c.index)
  BY <1>1, <1>2, InsideIs, SMTT(30)
<1>4. c.index <= Len(call.iov)
  BY <1>3, SMTT(30)
<1> QED BY <1>2, <1>3, <1>4 DEF Readable

(* Every step of a send keeps the invariant.                                      *)
LEMMA PathStep ==
  ASSUME Sound(call), PathNext PROVE Sound(call')
<1>1. CASE call = NoCall /\ \E path \in Paths, iov \in Vectors, mss \in 1..MaxMss : Begin(path, iov, mss)
  BY <1>1, BeginSound
<1>2. CASE Finish
  BY <1>2, NoCallSound DEF Finish
<1> QED BY <1>1, <1>2, SendContiguousSound, SendVectoredSound, CopyFragmentSound, TakeMessageSound,
           AdvanceFragmentSound, AdvanceEndsSound, SkipEmptySound, SkipEndsSound,
           SendChunksEndsSound, RefuseSound DEF PathNext

(* The invariant says what is promised.                                           *)
LEMMA SoundIsExact ==
  ASSUME Sound(call) PROVE ChunksExact
<1>1. /\ call.mss \in Nat \ {0} /\ call.remaining \in Nat /\ call.chunk \in Nat /\ call.size \in Nat
      /\ Total(call.iov) \in Nat /\ Out(call) \in Nat /\ Out(call) + call.remaining = Total(call.iov)
      /\ call.sent \in Seq(Seq(Nat)) /\ Len(call.sent) \in Nat
      /\ call.context \in Cursors /\ call.cursor \in Cursors /\ call.part \in Seq(Nat)
      /\ call.phase \in Phases /\ call.path \in Paths /\ call.iov \in Seq(Nat)
      /\ call \in CallRecords /\ IsVector(call.iov)
      /\ call.chunk <= call.remaining /\ call.size <= call.chunk
  BY Amounts DEF Sound
<1>2. Taken = Gone(call) /\ TotalSent = Out(call)
  BY DEF Taken, TotalSent, Gone, Out
<1>3. Messages(call.sent, call.mss, Taken)
  BY <1>2 DEF Sound
<1>4. Len(call.part) <= call.mss
  <2>1. CASE call.phase = "copy"
    <3>1. call.part = Bytes(Out(call), call.chunk - call.size) /\ call.chunk = Lesser(call.remaining, call.mss)
      BY <2>1 DEF Sound
    <3>2. call.chunk - call.size \in Nat /\ call.chunk - call.size <= call.mss
      BY <3>1, <1>1, SMTT(30) DEF Lesser
    <3> HIDE DEF Out
    <3> QED BY <3>1, <3>2, <1>1, BytesSeq, SMTT(30)
  <2>2. CASE call.phase # "copy"
    BY <2>2, <1>1, SMTT(30) DEF Sound
  <2> QED BY <2>1, <2>2
<1>5. ASSUME Wanted
      PROVE  /\ Position(call.iov, call.context) = Taken
             /\ call.path = "sendv" => SendvAccepts(call.iov, call.context, ChunkSize)
  <2>1. call.phase = "chunks" /\ call.remaining > 0 /\ Taken = Out(call)
    BY <1>1, <1>2, <1>5, SMTT(30) DEF Wanted, Gone
  <2>2. CASE call.path = "send"
    <3>1. call.context.index = 1 /\ call.context.offset = Out(call)
      BY <2>2 DEF Sound
    <3> QED BY <3>1, <2>1, <2>2, <1>1, SMTT(30) DEF Position, Start
  <2>3. CASE call.path # "send"
    <3>1. Inside(call.iov, call.context) /\ Position(call.iov, call.context) = Out(call)
      BY <2>1, <2>3, <1>1, SMTT(30) DEF Sound
    <3>2. Position(call.iov, call.context) < Total(call.iov)
      BY <3>1, <2>1, <1>1, SMTT(30)
    <3>3. call.context.index \in 1..Len(call.iov) /\ Len(call.iov) \in Nat
          /\ call.context.offset <= FragmentLen(call.iov, call.context.index)
      BY <3>1, <3>2, <1>1, InsideIs, SMTT(30)
    <3>4. Total(call.iov) - Position(call.iov, call.context) >= ChunkSize
      BY <3>1, <2>1, <1>1, SMTT(30) DEF ChunkSize, Lesser
    <3>5. call.context.index <= Len(call.iov)
      BY <3>3, SMTT(30)
    <3> QED BY <3>1, <3>3, <3>4, <3>5, <2>1 DEF SendvAccepts, Readable
  <2> QED BY <2>2, <2>3
<1>6. call.phase = "done" => call.result = IF Taken = 0 /\ call.refused THEN -1 ELSE Taken
  BY <1>1, <1>2, SMTT(30) DEF Sound, Gone
<1>7. Copying => Readable(call.iov, call.cursor)
  <2> SUFFICES ASSUME Copying PROVE Readable(call.iov, call.cursor)
      OBVIOUS
  <2>1. /\ Inside(call.iov, call.cursor) /\ call.size > 0
        /\ Position(call.iov, call.cursor) = Out(call) + (call.chunk - call.size)
    BY DEF Copying, Sound
  <2> QED BY <2>1, <1>1, InReach
<1>8. Advancing => Readable(call.iov, call.context)
  <2> SUFFICES ASSUME Advancing PROVE Readable(call.iov, call.context)
      OBVIOUS
  <2>1. /\ Inside(call.iov, call.context) /\ call.size > 0
        /\ Position(call.iov, call.context) = Out(call) + (call.chunk - call.size)
    BY DEF Advancing, Sound
  <2> QED BY <2>1, <1>1, InReach
<1> QED BY <1>3, <1>4, <1>5, <1>6, <1>7, <1>8 DEF ChunksExact, Messages

(* kcpmux_stream_send and kcpmux_stream_sendv hand KCP exactly the first bytes of what they  *)
(* were given, in order and in full messages, for any vector and any kcp_mss; they read no    *)
(* fragment behind the last, never overrun scratch, and return what KCP took.                *)
THEOREM SendIsExact == PathSpec => []ChunksExact
<1>1. PathInit => PathInv
  BY NoCallSound DEF PathInit, PathInv
<1>2. PathInv /\ [PathNext]_call => PathInv'
  BY PathStep DEF PathInv
<1>3. PathInv => ChunksExact
  BY SoundIsExact DEF PathInv
<1> QED BY <1>1, <1>2, <1>3, PTL DEF PathSpec

(* How far a cursor has come.                                                            *)
Progress(iov, c) == Position(iov, c) + c.index

(* Every turn of a loop over fragments brings its cursor further, and not beyond the end. *)
LEMMA StepProgress ==
  ASSUME NEW iov, IsVector(iov), NEW c, Inside(iov, c), NEW n \in Nat \ {0},
         Position(iov, c) + n <= Total(iov)
  PROVE  LET d == Step(iov, c, Take(iov, c, n))
         IN  Progress(iov, c) < Progress(iov, d) /\ Progress(iov, d) <= Total(iov) + Len(iov) + 1
<1> DEFINE take == Take(iov, c, n)
           d == Step(iov, c, take)
<1>1. take \in 0..n /\ Inside(iov, d) /\ Position(iov, d) = Position(iov, c) + take
  BY StepMoves
<1>2. c.index \in Nat /\ c.offset \in Nat /\ Position(iov, c) \in Nat /\ Len(iov) \in Nat /\ Total(iov) \in Nat
  BY InsideIs, Fragments DEF Inside, Cursors
<1>3. d.index <= Len(iov) + 1 /\ d.index \in Nat
  BY <1>1, <1>2, SMTT(30) DEF Inside, Cursors
<1>4. d.index = c.index \/ d.index = c.index + 1
  BY <1>2 DEF Step, Inside, Cursors
<1>5. take = 0 => d.index = c.index + 1
  <2> SUFFICES ASSUME take = 0 PROVE d.index = c.index + 1
      OBVIOUS
  <2>1. c.index \in 1..Len(iov)
    <3>1. Position(iov, c) < Total(iov)
      BY <1>2, SMTT(30)
    <3> QED BY <3>1, InsideIs
  <2>2. FragmentLen(iov, c.index) \in Nat
    BY <2>1, Fragments
  <2>3. c.offset + take = FragmentLen(iov, c.index)
    BY <2>2, <1>2, SMTT(30) DEF Take, Lesser
  <2> QED BY <2>3 DEF Step
<1> HIDE DEF d, take
<1>6. Progress(iov, c) < Progress(iov, d)
  BY <1>1, <1>2, <1>3, <1>4, <1>5, SMTT(30) DEF Progress
<1>7. Progress(iov, d) <= Total(iov) + Len(iov) + 1
  BY <1>1, <1>2, <1>3, SMTT(30) DEF Progress
<1> QED BY <1>6, <1>7 DEF d, take

(* Every turn of the loops over fragments of kcpmux_vectored_copy, ikcp_iov_copy and            *)
(* kcpmux_vectored_advance brings the cursor further, also over an empty fragment, and never    *)
(* beyond the end of the vector: none of these loops runs for ever.                            *)
THEOREM LoopsMoveOn ==
  PathSpec => [][/\ CopyFragment =>
                      /\ Progress(call.iov, call.cursor) < Progress(call.iov, call'.cursor)
                      /\ Progress(call.iov, call'.cursor) <= Total(call.iov) + Len(call.iov) + 1
                 /\ AdvanceFragment =>
                      /\ Progress(call.iov, call.context) < Progress(call.iov, call'.context)
                      /\ Progress(call.iov, call'.context) <= Total(call.iov) + Len(call.iov) + 1]_call
<1>1. PathInit => PathInv
  BY NoCallSound DEF PathInit, PathInv
<1>2. PathInv /\ [PathNext]_call => PathInv'
  BY PathStep DEF PathInv
<1>3. ASSUME Sound(call), CopyFragment
      PROVE  /\ Progress(call.iov, call.cursor) < Progress(call.iov, call'.cursor)
             /\ Progress(call.iov, call'.cursor) <= Total(call.iov) + Len(call.iov) + 1
  <2>1. /\ Inside(call.iov, call.cursor) /\ call.size > 0 /\ IsVector(call.iov)
        /\ Position(call.iov, call.cursor) = Out(call) + (call.chunk - call.size)
    BY <1>3 DEF CopyFragment, Copying, Sound
  <2>2. Position(call.iov, call.cursor) + call.size <= Total(call.iov)
    BY <2>1, <1>3, InReach
  <2>3. call.size \in Nat \ {0} /\ call \in CallRecords
    BY <2>1, <1>3, Amounts, SMTT(30) DEF Sound
  <2>4. call'.cursor = Step(call.iov, call.cursor, Take(call.iov, call.cursor, call.size))
    BY <2>3, <1>3 DEF CopyFragment, CallRecords
  <2> QED BY <2>1, <2>2, <2>3, <2>4, StepProgress
<1>4. ASSUME Sound(call), AdvanceFragment
      PROVE  /\ Progress(call.iov, call.context) < Progress(call.iov, call'.context)
             /\ Progress(call.iov, call'.context) <= Total(call.iov) + Len(call.iov) + 1
  <2>1. /\ Inside(call.iov, call.context) /\ call.size > 0 /\ IsVector(call.iov)
        /\ Position(call.iov, call.context) = Out(call) + (call.chunk - call.size)
    BY <1>4 DEF AdvanceFragment, Advancing, Sound
  <2>2. Position(call.iov, call.context) + call.size <= Total(call.iov)
    BY <2>1, <1>4, InReach
  <2>3. call.size \in Nat \ {0} /\ call \in CallRecords
    BY <2>1, <1>4, Amounts, SMTT(30) DEF Sound
  <2>4. call'.context = Step(call.iov, call.context, Take(call.iov, call.context, call.size))
    BY <2>3, <1>4 DEF AdvanceFragment, CallRecords
  <2> QED BY <2>1, <2>2, <2>3, <2>4, StepProgress
<1> QED BY <1>1, <1>2, <1>3, <1>4, PTL DEF PathSpec, PathInv
=============================================================================
