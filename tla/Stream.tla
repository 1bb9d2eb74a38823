-------------------------------- MODULE Stream --------------------------------
(* One end of one stream in full detail: kcpmux_stream.c with its timer node,   *)
(* its batch of postponed KCP updates, its read and write notifications and     *)
(* its close phases.  The peer is open: any payload and any control message     *)
(* may arrive (module StreamPair has both ends).                                *)
(*                                                                              *)
(* KCP is reached through kcp_ops and external: the model keeps waitsnd and the *)
(* number of complete messages, and lets check() ask for any moment within      *)
(* Interval.  Times are kept as in module Connection: the age of an anchor,     *)
(* saturated at MaxAge, and what is left until the deadline of the timer node.  *)
(* The host may call kcpmux_engine_update late.                                 *)
EXTENDS Integers

CONSTANTS Configs,      \* kcpmux_stream_config_t values the host passes
          Default,      \* default_stream_config, used by accepted streams
          HostOps,      \* optional behaviour an instance exercises
          Interval,     \* kcp check() asks for an update within this time
          MaxWait,      \* bound: chunks in KCP's send queues
          MaxReadable,  \* bound: complete messages KCP holds
          MaxChunks,    \* bound: chunks one send call splits into
          MaxAge        \* ages saturate here

Config == [ctrl_timeout_ms : Nat, close_retries : Nat, drain_timeout_ms : Nat,
           send_pause_threshold : Nat, send_resume_threshold : Nat,
           batch_threshold : Nat]

(* kcpmux_stream_config_prepare                                                 *)
Valid(c) ==
  /\ c.ctrl_timeout_ms # 0 /\ c.drain_timeout_ms # 0
  /\ c.send_pause_threshold # 0
  /\ c.send_resume_threshold <= c.send_pause_threshold

ASSUME StreamConstants ==
  /\ Configs \subseteq Config /\ Default \in Config /\ Valid(Default)
  /\ HostOps \subseteq {"flush", "set_config"}
  /\ {Interval, MaxWait, MaxReadable, MaxChunks, MaxAge} \subseteq Nat
  /\ \A c \in Configs \cup {Default} :
       c.ctrl_timeout_ms <= MaxAge /\ c.drain_timeout_ms <= MaxAge

Reasons == {"NORMAL", "REJECTED", "TIMEOUT", "ERROR"}
None == -1

VARIABLES conn,      \* state of the connection
          s,         \* kcpmux_stream_t and its KCP instance
          waiting    \* what the application waits for a notification of

vars == <<conn, s, waiting>>

(* ctrl and drain are the ages of last_ctrl_ts and drain_started_ts; timer is   *)
(* None while the timer node is idle; listed is membership of                   *)
(* engine->pending_batch_streams; notified is the reason the stream ended with. *)
(* missed is history: "read" after a failing input left out the readable check, *)
(* "write" after a flush or a new configuration moved the timer past the update *)
(* that makes the resume check, until the next such check.                      *)
Stream == [state : {"ABSENT", "OPEN", "CLOSING", "CLOSED", "ERROR"},
           phase : {"NONE", "LOCAL_DRAIN", "WAIT_ACK", "REMOTE_DRAIN", "FINALIZE"},
           reason : Reasons, notified : Reasons \cup {"none"},
           initiator : BOOLEAN, upsent : BOOLEAN, retry : Nat,
           config : Config, ctrl : 0..MaxAge, drain : 0..MaxAge,
           pending : Nat, listed : BOOLEAN, timer : Nat \cup {None},
           rblock : BOOLEAN, wblock : BOOLEAN,
           waitsnd : 0..MaxWait, readable : 0..MaxReadable,
           missed : SUBSET {"read", "write"}]

Live == s.state \in {"OPEN", "CLOSING"}

(* kcpmux_stream_kcp_active                                                     *)
KcpActive(x) == x.state = "OPEN" \/ (x.state = "CLOSING" /\ x.phase = "LOCAL_DRAIN")

(* ops->check(kcp, now), relative to now.                                       *)
Checks == 0..Interval

-----------------------------------------------------------------------------
(* Helpers, each from stream to stream                                         *)

Left(age, timeout) == IF age >= timeout THEN 0 ELSE timeout - age
Earlier(a, b) == IF a < b THEN a ELSE b

Now(x) == [x EXCEPT !.timer = 0]

(* The deadline kcpmux_stream_refresh_timer computes, check being ops->check.    *)
Deadline(x, check) ==
  CASE x.state = "OPEN" -> check
    [] x.phase = "LOCAL_DRAIN" -> Earlier(check, Left(x.drain, x.config.drain_timeout_ms))
    [] x.phase = "WAIT_ACK" -> Left(x.ctrl, x.config.ctrl_timeout_ms)
    [] x.phase = "REMOTE_DRAIN" -> Left(x.drain, x.config.drain_timeout_ms)
    [] x.phase = "FINALIZE" -> 0

(* kcpmux_stream_refresh_timer                                                  *)
Refresh(x, check) ==
  [x EXCEPT !.timer = IF conn = "CONNECTED" /\ x.state \in {"OPEN", "CLOSING"}
                      THEN Deadline(x, check) ELSE None]

(* Mutant: the count is reset, the stream stays in the engine's list.           *)
ClearPendingStaysListed(x) == [x EXCEPT !.pending = 0]
(* kcpmux_stream_clear_pending                                                  *)
ClearPending(x) == [x EXCEPT !.pending = 0, !.listed = FALSE]

(* kcpmux_stream_accumulate_update                                              *)
AccumulateUpdate(x) ==
  IF x.config.batch_threshold <= 1 THEN Now(x)
  ELSE IF x.pending >= x.config.batch_threshold THEN x
  ELSE LET n == x.pending + 1
           full == n = x.config.batch_threshold
       IN  [x EXCEPT !.pending = n, !.listed = (@ \/ n = 1) /\ ~full,
                     !.timer = IF full THEN 0 ELSE @]

(* kcpmux_stream_close_internal                                                 *)
CloseInternal(x, r) ==
  [ClearPending(x) EXCEPT !.timer = None, !.notified = r,
     !.state = IF @ = "ERROR" THEN @ ELSE "CLOSED"]

(* kcpmux_stream_schedule_finalize                                              *)
ScheduleFinalize(x, r) ==
  Now(ClearPending([x EXCEPT !.reason = r, !.phase = "FINALIZE"]))

(* Mutant: last_ctrl_ts is stamped, the timer is not moved.                     *)
SendCloseUntimed(x) == [x EXCEPT !.ctrl = 0]
(* kcpmux_stream_send_close; in every phase it is called in, the deadline does  *)
(* not depend on KCP unless the stream ends in the same call.                   *)
SendClose(x) == Refresh([x EXCEPT !.ctrl = 0], 0)

(* kcpmux_stream_advance_local_close                                            *)
AdvanceLocalClose(x) ==
  IF x.phase # "LOCAL_DRAIN" \/ x.waitsnd # 0 THEN x
  ELSE LET y == SendClose([x EXCEPT !.phase = "WAIT_ACK", !.retry = 0])
       IN  IF y.config.close_retries = 0 THEN CloseInternal(y, "NORMAL") ELSE y

(* kcpmux_stream_new; anchors never stamped are older than every timeout.        *)
New(initiator, config, check) ==
  Refresh([state |-> "OPEN", phase |-> "NONE", reason |-> "NORMAL",
           notified |-> "none", initiator |-> initiator, upsent |-> FALSE,
           retry |-> 0, config |-> config, ctrl |-> MaxAge, drain |-> MaxAge,
           pending |-> 0, listed |-> FALSE, timer |-> None,
           rblock |-> TRUE, wblock |-> FALSE, waitsnd |-> 0, readable |-> 0,
           missed |-> {}],
          check)

Init ==
  /\ conn = "CONNECTED"
  /\ s = [New(FALSE, Default, 0) EXCEPT !.state = "ABSENT", !.timer = None]
  /\ waiting = {}

-----------------------------------------------------------------------------
(* Application calls                                                          *)

(* kcpmux_stream_create                                                         *)
Create(config, check) ==
  /\ s.state = "ABSENT" /\ conn = "CONNECTED" /\ Valid(config)
  /\ s' = New(TRUE, config, check)
  /\ waiting' = {"read"}
  /\ UNCHANGED conn

CanSend == s.state = "OPEN" /\ conn = "CONNECTED"

(* Mutant: the caller is turned away and the block is not remembered.           *)
SendBlockedForgotten(n) ==
  /\ CanSend /\ n > 0 /\ s.waitsnd >= s.config.send_pause_threshold
  /\ waiting' = waiting \cup {"write"}
  /\ UNCHANGED <<conn, s>>
(* kcpmux_stream_send/sendv of n chunks against a full send buffer.              *)
SendBlocked(n) ==
  /\ CanSend /\ n > 0 /\ s.waitsnd >= s.config.send_pause_threshold
  /\ s' = [s EXCEPT !.wblock = TRUE]
  /\ waiting' = waiting \cup {"write"}
  /\ UNCHANGED conn

(* kcpmux_stream_send/sendv of n chunks, of which KCP takes the first k; n = 0   *)
(* is a call that only flushes.  Nothing taken is an error and changes nothing.  *)
Send(n, k, flush, check) ==
  /\ CanSend
  /\ n = 0 \/ s.waitsnd < s.config.send_pause_threshold
  /\ k > 0 \/ (n = 0 /\ flush)
  /\ s.waitsnd + k <= MaxWait
  /\ LET x == [s EXCEPT !.waitsnd = @ + k, !.upsent = @ \/ k > 0]
     IN  s' = IF flush
              THEN [ClearPending(x) EXCEPT !.timer = check, !.missed = @ \cup {"write"}]
              ELSE AccumulateUpdate(x)
  /\ UNCHANGED <<conn, waiting>>

CanRead == s.state = "OPEN" \/ (s.state = "CLOSING" /\ s.phase = "REMOTE_DRAIN")

(* Mutant: only a call that finds nothing arms the next notification.           *)
RecvKeepsFlag ==
  /\ CanRead /\ s.readable > 0
  /\ LET x == [s EXCEPT !.readable = @ - 1]
     IN  s' = IF x.readable = 0 /\ x.phase = "REMOTE_DRAIN"
              THEN ScheduleFinalize(x, x.reason) ELSE x
  /\ waiting' = IF s.readable = 1 THEN waiting \cup {"read"} ELSE waiting
  /\ UNCHANGED conn
(* kcpmux_stream_recv of one message; the last one arms the next notification   *)
(* or, after the peer's close, lets the close proceed.                          *)
Recv ==
  /\ CanRead /\ s.readable > 0
  /\ LET x == [s EXCEPT !.readable = @ - 1]
     IN  s' = IF x.readable > 0 THEN x
              ELSE IF x.state = "OPEN"
              THEN [x EXCEPT !.rblock = TRUE, !.missed = @ \ {"read"}]
              ELSE ScheduleFinalize(x, x.reason)
  /\ waiting' = IF s.readable = 1 THEN waiting \cup {"read"} ELSE waiting
  /\ UNCHANGED conn

(* kcpmux_stream_recv that finds nothing.                                       *)
RecvEmpty ==
  /\ CanRead /\ s.readable = 0
  /\ s' = [s EXCEPT !.rblock = TRUE]
  /\ waiting' = waiting \cup {"read"}
  /\ UNCHANGED conn

(* kcpmux_stream_close of an open stream.                                       *)
Close ==
  /\ s.state = "OPEN"
  /\ LET x == Refresh([s EXCEPT !.ctrl = 0, !.drain = 0, !.reason = "NORMAL",
                                !.retry = 0, !.phase = "LOCAL_DRAIN",
                                !.state = "CLOSING"], 0)
     IN  s' = IF x.initiator /\ ~x.upsent THEN CloseInternal(x, "NORMAL")
              ELSE AdvanceLocalClose(Now(x))
  /\ UNCHANGED <<conn, waiting>>

(* kcpmux_stream_close that gives up the unread tail.                           *)
CloseGiveUp ==
  /\ s.state = "CLOSING" /\ s.phase = "REMOTE_DRAIN"
  /\ s' = ScheduleFinalize(s, "NORMAL")
  /\ UNCHANGED <<conn, waiting>>

(* kcpmux_stream_set_config                                                     *)
SetConfig(config, check) ==
  /\ Live /\ Valid(config)
  /\ s' = Refresh(ClearPending([s EXCEPT !.config = config,
                                         !.missed = @ \cup {"write"}]), check)
  /\ UNCHANGED <<conn, waiting>>

(* Mutant: the update is requested, the count goes on.                          *)
FinishBatchAtKeepsCount(x) ==
  IF x.pending = 0 \/ x.state # "OPEN" \/ conn # "CONNECTED" THEN x
  ELSE Now([x EXCEPT !.listed = FALSE])
(* kcpmux_stream_finish_batch_at                                                *)
FinishBatchAt(x) ==
  IF \/ x.pending = 0 \/ x.state # "OPEN" \/ conn # "CONNECTED"
     \/ x.config.batch_threshold > 1 /\ x.pending >= x.config.batch_threshold
  THEN x
  ELSE Now([x EXCEPT !.listed = FALSE,
                     !.pending = IF x.config.batch_threshold > 1
                                 THEN x.config.batch_threshold ELSE 0])

(* kcpmux_stream_finish_batch                                                   *)
FinishBatch ==
  /\ Live
  /\ s' = FinishBatchAt(s)
  /\ UNCHANGED <<conn, waiting>>

(* kcpmux_engine_finish_batch, as far as this stream sees it.                   *)
EngineFinishBatch ==
  /\ s.listed
  /\ s' = FinishBatchAt([s EXCEPT !.listed = FALSE])
  /\ UNCHANGED <<conn, waiting>>

-----------------------------------------------------------------------------
(* Packets from the peer                                                      *)

Notify(x) ==
  IF x.state = "OPEN" /\ x.rblock /\ x.readable > 0
  THEN [x EXCEPT !.rblock = FALSE, !.missed = @ \ {"read"}] ELSE x

(* KCP's input: acknowledgements shrink waitsnd, data completes messages.       *)
Input(x, acked, arrived) ==
  [x EXCEPT !.waitsnd = @ - acked, !.readable = @ + arrived]

(* kcpmux_stream_handle_payload                                                 *)
HandlePayload(x, w, acked, arrived) ==
  /\ acked <= x.waitsnd /\ x.readable + arrived <= MaxReadable
  /\ s' = Notify(AccumulateUpdate(Input(x, acked, arrived)))
  /\ waiting' = IF x.state = "OPEN" /\ x.readable + arrived > 0 /\ x.rblock
                THEN w \ {"read"} ELSE w

(* STREAM_PAYLOAD for a known stream.                                           *)
Payload(acked, arrived) ==
  /\ conn = "CONNECTED" /\ KcpActive(s)
  /\ HandlePayload(s, waiting, acked, arrived)
  /\ UNCHANGED conn

(* The same, ops->input failing: before it changed anything or half way.        *)
PayloadFails(acked, arrived) ==
  /\ conn = "CONNECTED" /\ KcpActive(s)
  /\ acked <= s.waitsnd /\ s.readable + arrived <= MaxReadable
  /\ s' = AccumulateUpdate([Input(s, acked, arrived) EXCEPT
               !.missed = IF arrived > 0 THEN @ \cup {"read"} ELSE @])
  /\ UNCHANGED <<conn, waiting>>

(* STREAM_PAYLOAD of a new peer stream id, stream_create_notify accepting.  The  *)
(* callback may have called kcpmux_stream_set_config.                            *)
Accept(config, arrived, check) ==
  /\ s.state = "ABSENT" /\ conn = "CONNECTED"
  /\ HandlePayload(New(FALSE, config, check), {"read"}, 0, arrived)
  /\ UNCHANGED conn

(* The same, stream_create_notify refusing.                                     *)
Reject(config) ==
  /\ s.state = "ABSENT" /\ conn = "CONNECTED"
  /\ LET x == SendClose([New(FALSE, config, 0) EXCEPT !.state = "CLOSING",
                           !.phase = "WAIT_ACK", !.reason = "REJECTED"])
     IN  s' = IF x.config.close_retries = 0 THEN CloseInternal(x, "REJECTED") ELSE x
  /\ UNCHANGED <<conn, waiting>>

(* The same, KCP refusing its first payload.                                    *)
AcceptFails ==
  /\ s.state = "ABSENT" /\ conn = "CONNECTED"
  /\ s' = CloseInternal([New(FALSE, Default, 0) EXCEPT !.state = "ERROR"], "ERROR")
  /\ UNCHANGED <<conn, waiting>>

(* STREAM_CLOSE with a reason other than NORMAL.                                *)
PeerAborts(r) ==
  /\ Live /\ r # "NORMAL"
  /\ s' = CloseInternal(s, r)
  /\ UNCHANGED <<conn, waiting>>

(* STREAM_CLOSE(NORMAL): what is readable may still be read; a local close      *)
(* under way yields to it.                                                      *)
PeerCloses ==
  /\ Live
  /\ LET x == Refresh([s EXCEPT !.state = "CLOSING", !.phase = "REMOTE_DRAIN",
                                !.reason = "NORMAL", !.drain = 0], 0)
     IN  s' = CASE s.state = "OPEN" /\ s.readable > 0 -> x
                [] s.state = "OPEN" /\ s.readable = 0 -> ScheduleFinalize(x, "NORMAL")
                [] s.phase \in {"LOCAL_DRAIN", "WAIT_ACK"} -> ScheduleFinalize(s, "NORMAL")
                [] OTHER -> s
  /\ UNCHANGED <<conn, waiting>>

(* STREAM_CLOSE_ACK                                                             *)
PeerAcks ==
  /\ s.state = "CLOSING" /\ s.phase = "WAIT_ACK"
  /\ s' = CloseInternal(s, s.reason)
  /\ UNCHANGED <<conn, waiting>>

-----------------------------------------------------------------------------
(* The connection (module Connection): it starts closing, it ends.            *)

ConnCloseStart ==
  /\ conn = "CONNECTED"
  /\ conn' = "CLOSING"
  /\ UNCHANGED <<s, waiting>>

(* kcpmux_conn_close_internal closes its streams with its own reason.           *)
ConnEnds(r) ==
  /\ conn # "CLOSED"
  /\ conn' = "CLOSED"
  /\ s' = IF Live THEN CloseInternal(s, r) ELSE s
  /\ UNCHANGED waiting

-----------------------------------------------------------------------------
(* kcpmux_engine_update finds the timer node due and calls                     *)
(* kcpmux_stream_update; the node is idle unless the callback schedules it.    *)

Due == Live /\ s.timer = 0
Fired == [s EXCEPT !.timer = None]

UpdateIgnored ==
  /\ Due /\ conn # "CONNECTED"
  /\ s' = Fired
  /\ UNCHANGED <<conn, waiting>>

UpdateOpen(check) ==
  /\ Due /\ conn = "CONNECTED" /\ s.state = "OPEN"
  /\ LET resume == s.wblock /\ s.waitsnd < s.config.send_resume_threshold
     IN  /\ s' = [ClearPending(s) EXCEPT !.timer = check, !.wblock = @ /\ ~resume,
                                           !.missed = @ \ {"write"}]
         /\ waiting' = IF resume THEN waiting \ {"write"} ELSE waiting
  /\ UNCHANGED conn

DuePhase(p) == Due /\ conn = "CONNECTED" /\ s.state = "CLOSING" /\ s.phase = p

(* Mutant: the timer is not set again while the drain goes on.                  *)
UpdateLocalDrainOnce(check) ==
  /\ DuePhase("LOCAL_DRAIN")
  /\ LET x == ClearPending(Fired)
     IN  s' = IF x.waitsnd = 0 THEN AdvanceLocalClose(x)
              ELSE IF x.drain >= x.config.drain_timeout_ms
              THEN CloseInternal(SendClose([x EXCEPT !.reason = "TIMEOUT"]), "TIMEOUT")
              ELSE x
  /\ UNCHANGED <<conn, waiting>>
UpdateLocalDrain(check) ==
  /\ DuePhase("LOCAL_DRAIN")
  /\ LET x == ClearPending(Fired)
     IN  s' = IF x.waitsnd = 0 THEN AdvanceLocalClose(x)
              ELSE IF x.drain >= x.config.drain_timeout_ms
              THEN CloseInternal(SendClose([x EXCEPT !.reason = "TIMEOUT"]), "TIMEOUT")
              ELSE Refresh(x, check)
  /\ UNCHANGED <<conn, waiting>>

(* The last retransmission does not wait for an answer.                         *)
UpdateWaitAck ==
  /\ DuePhase("WAIT_ACK")
  /\ LET x == SendClose([Fired EXCEPT !.retry = @ + 1])
         max == s.config.close_retries
     IN  s' = IF s.ctrl < s.config.ctrl_timeout_ms THEN Fired
              ELSE IF s.retry < max /\ x.retry # max THEN x
              ELSE IF s.retry < max THEN CloseInternal(x, x.reason)
              ELSE CloseInternal(Fired, s.reason)
  /\ UNCHANGED <<conn, waiting>>

UpdateRemoteDrain ==
  /\ DuePhase("REMOTE_DRAIN")
  /\ s' = IF s.drain >= s.config.drain_timeout_ms THEN CloseInternal(Fired, "TIMEOUT")
          ELSE Fired
  /\ UNCHANGED <<conn, waiting>>

UpdateFinalize ==
  /\ DuePhase("FINALIZE")
  /\ s' = CloseInternal(Fired, s.reason)
  /\ UNCHANGED <<conn, waiting>>

Update ==
  \/ UpdateIgnored \/ UpdateWaitAck \/ UpdateRemoteDrain \/ UpdateFinalize
  \/ \E check \in Checks : UpdateOpen(check) \/ UpdateLocalDrain(check)

(* monotonic_time_ms advances; a due timer may stay due.                        *)
Older(age) == IF age < MaxAge THEN age + 1 ELSE age
Tick ==
  /\ Live
  /\ s' = [s EXCEPT !.ctrl = Older(@), !.drain = Older(@),
                    !.timer = IF @ \in {None, 0} THEN @ ELSE @ - 1]
  /\ UNCHANGED <<conn, waiting>>

Application ==
  \/ \E check \in Checks, c \in Configs : Create(c, check)
  \/ "set_config" \in HostOps /\ \E check \in Checks, c \in Configs : SetConfig(c, check)
  \/ \E n \in 1..MaxChunks : SendBlocked(n)
  \/ \E n \in 1..MaxChunks : \E k \in 1..n : Send(n, k, FALSE, 0)
  \/ /\ "flush" \in HostOps
     /\ \E n \in 0..MaxChunks, check \in Checks : \E k \in 0..n : Send(n, k, TRUE, check)
  \/ Recv \/ RecvEmpty \/ Close \/ CloseGiveUp \/ FinishBatch \/ EngineFinishBatch

Peer ==
  \/ \E acked \in 0..MaxWait, arrived \in 0..MaxReadable :
       \/ Payload(acked, arrived)
       \/ PayloadFails(acked, arrived)
  \/ \E c \in {Default} \cup {d \in Configs : Valid(d)} :
       \/ \E arrived \in 0..MaxReadable, check \in Checks : Accept(c, arrived, check)
       \/ Reject(c)
  \/ AcceptFails \/ PeerCloses \/ PeerAcks
  \/ \E r \in Reasons : PeerAborts(r)

Next ==
  \/ Application \/ Peer \/ Update \/ Tick
  \/ ConnCloseStart \/ \E r \in Reasons : ConnEnds(r)

Spec == Init /\ [][Next]_vars

(* Time passes, the host answers the one-shot timer, and a closing connection    *)
(* ends (Connection checks that it does).  Nothing is assumed of the             *)
(* application or of the peer.                                                   *)
FairSpec ==
  /\ Spec
  /\ WF_vars(Tick) /\ WF_vars(Update)
  /\ WF_vars(conn = "CLOSING" /\ \E r \in Reasons : ConnEnds(r))

(* A host that never loses a race: the stream's timer is served whenever it is    *)
(* due often enough, not only when it stays due.                                  *)
PromptSpec == Spec /\ SF_vars(Tick) /\ SF_vars(Update)

-----------------------------------------------------------------------------
(* Properties                                                                 *)

(* Types; the count of postponed operations (kcpmux_stream_accumulate_update)     *)
(* never passes batch_threshold, also when set_config changes it.                *)
TypeOK ==
  /\ conn \in {"CONNECTED", "CLOSING", "CLOSED"}
  /\ s \in Stream
  /\ waiting \subseteq {"read", "write"}
  /\ s.pending <= s.config.batch_threshold

(* kcpmux_stream_update leaves WAIT_ACK and REMOTE_DRAIN without scheduling the  *)
(* timer again when it finds the deadline not reached, so a stream would hang    *)
(* unless the node always holds exactly the deadline of the phase.  While the    *)
(* stream runs KCP the node is never further away than KCP's own interval nor,   *)
(* draining, than the end of the drain.                                          *)
TimerCovers ==
  conn = "CONNECTED" /\ Live =>
    CASE s.state = "OPEN" -> s.timer \in 0..Interval
      [] s.phase = "LOCAL_DRAIN" ->
           s.timer \in 0..Earlier(Interval, Left(s.drain, s.config.drain_timeout_ms))
      [] OTHER -> s.timer = Deadline(s, 0)

(* Batching never loses an update: an open stream with postponed operations is   *)
(* either below its threshold and in the list kcpmux_engine_finish_batch walks,  *)
(* or due now; no other open stream is in the list.                              *)
BatchAccounting ==
  conn = "CONNECTED" /\ s.state = "OPEN" =>
    /\ s.listed <=> s.pending \in 1..(s.config.batch_threshold - 1)
    /\ s.pending > 0 /\ ~s.listed => s.timer = 0

(* What the engine could still reach is gone when a stream has ended: its timer   *)
(* node and its place in the batch list (the memory is freed after the call).    *)
NothingDangles ==
  s.state \in {"CLOSED", "ERROR"} => s.timer = None /\ ~s.listed

(* An application that found nothing to read, or read the last message, is told   *)
(* when a message can be read: stream_read_notify is owed only after an input     *)
(* that failed half way, and the next good input or the last read settles it.     *)
ReadNotified ==
  s.state = "OPEN" /\ s.readable > 0 /\ "read" \notin s.missed =>
    "read" \notin waiting

Stuck ==
  /\ conn = "CONNECTED" /\ s.state = "OPEN" /\ "write" \in waiting
  /\ s.waitsnd < s.config.send_resume_threshold

(* An application turned away by a full send buffer is not left waiting for        *)
(* stream_write_notify while waitsnd stays below send_resume_threshold.            *)
WriteUnblocks == ~<>[]Stuck

(* It is not, if it does not itself keep the timer away from kcpmux_stream_update  *)
(* by flushing or setting the configuration again and again.                       *)
WriteUnblocksUnflushed == []<>("write" \notin s.missed) => WriteUnblocks

(* A closing stream ends, whatever the peer and the application do.               *)
CloseEnds == s.state = "CLOSING" ~> s.state = "CLOSED"

=============================================================================
