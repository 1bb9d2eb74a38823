--------------------------------- MODULE Demo ---------------------------------
(* The two demo programs, the repository's example of how a host drives kcpmux: *)
(* demo_client.c sends numbered messages on several streams and waits for their  *)
(* echoes, demo_server.c echoes, and both run the event loop of demo_common.c.   *)
(*                                                                               *)
(* The library is what the other modules show of it.  A stream delivers what one *)
(* end gave it in order and once (KcpContract), so a message is its number and   *)
(* a direction is the number of messages accepted, travelling, arrived and read. *)
(* A connection opens by handshake and ends on both sides (Connection).  A read  *)
(* notification comes when data arrives after the stream was read empty, and an  *)
(* open batch waits for finish_batch (Stream).  The engine has a timer as long    *)
(* as a connection exists and asks for it through set_timer (EngineLoop).         *)
(*                                                                               *)
(* The server also meets clients other than demo_client.c: the client here may    *)
(* close a stream before it has its echoes, which demo_client.c never does.       *)
EXTENDS Integers, FiniteSets, FiniteSetsExt

CONSTANTS StreamCount,  \* --streams
          Messages,     \* --messages
          Batch,        \* --batch-threshold
          Pause,        \* send_pause_threshold of the default configuration
          MaxFaults     \* bound: faults of the surroundings, see Fault

(* DEMO_MAX_MESSAGES is 128 and the default send_pause_threshold 256.             *)
ASSUME DemoAssumption ==
  /\ StreamCount \in Nat \ {0} /\ Batch \in Nat \ {0}
  /\ {Pause, MaxFaults} \subseteq Nat /\ Messages \in 1..Pause

Streams == 1..StreamCount
End == {"client", "server"}
Peer(e) == IF e = "client" THEN "server" ELSE "client"
Nothing == -1

VARIABLES pc,      \* where the loop of main is
          result,  \* "running", or how main ended: "ok", an error of "start" or "echo", or
                   \* "failed" for any other
          conn,    \* state of the connection at each end
          io,      \* io[e][i]: stream i and the program's record of it
          wake,    \* next_wakeup_ms: "none", "later" (which may have come) or "due"
          faults   \* history: the faults so far

vars == <<pc, result, conn, io, wake, faults>>

(* A stream is "open"; "leaving" after the host's close, in LOCAL_DRAIN and then in  *)
(* WAIT_ACK; in REMOTE_DRAIN ("draining") or FINALIZE ("finalize") after the peer's.  *)
(* "closed" is the program's stream == NULL.  fin is the reason of the STREAM_CLOSE   *)
(* the client has sent or the server has acknowledged.  pending counts the calls      *)
(* since the last KCP update up to the batch threshold, with which the stream's timer *)
(* is due; air is how far the datagrams on their way reach; readable is the program's *)
(* flag.                                                                              *)
Fresh == [life |-> "none", fin |-> "no", accepted |-> 0, air |-> Nothing, arrived |-> 0,
          read |-> 0, pending |-> 0, rblock |-> TRUE, readable |-> FALSE]
Alive == {"open", "leaving", "draining", "finalize"}

Init ==
  /\ pc = [e \in End |-> IF e = "client" THEN "connect" ELSE "select"]
  /\ result = [e \in End |-> "running"]
  /\ conn = [e \in End |-> "none"]
  /\ io = [e \in End |-> [i \in Streams |-> Fresh]]
  /\ wake = [e \in End |-> "none"]
  /\ faults = 0

Open(e, i) == io[e][i].life = "open"
(* kcpmux_stream_kcp_active                                                        *)
Active(x) == x.life = "open" \/ (x.life = "leaving" /\ x.fin = "no")
Exists(e) == conn[e] \in {"connecting", "open"}
Goto(e, l) == pc' = [pc EXCEPT ![e] = l]

(* What a run may contain only so often: a lost datagram, a socket error, a lack of  *)
(* memory, a connection that takes its living peer for lost, a stream closed early.   *)
Fault == faults < MaxFaults /\ faults' = faults + 1

(* Closing a connection or the engine closes its streams; the close notifications *)
(* of the programs only note it.  Only the idle timeout tells the peer ("idle").  *)
Shut(x) == [x EXCEPT !.life = IF @ \in Alive THEN "closed" ELSE @, !.pending = 0]
CloseAll(e, how, streams) ==
  /\ conn' = [conn EXCEPT ![e] = IF Exists(e) THEN how ELSE @]
  /\ io' = [io EXCEPT ![e] = [i \in Streams |-> Shut(streams[i])]]

(* demo_endpoint_cleanup and the return from main.  What the last calls did to the  *)
(* streams is lost with the engine unless an update has put it on the wire.         *)
ExitWith(e, how, streams) ==
  /\ result' = [result EXCEPT ![e] = how] /\ Goto(e, "exit")
  /\ wake' = [wake EXCEPT ![e] = "none"]
  /\ CloseAll(e, "closed", streams)
Exit(e, how) == ExitWith(e, how, io[e])

-----------------------------------------------------------------------------
(* Calls on a stream                                                           *)

(* k calls that accumulate, and finish_batch, which is for open streams only.      *)
Added(x, k) == [x EXCEPT !.pending = Min({@ + k, Batch})]
Submit(x) == IF x.life = "open" /\ x.pending > 0 THEN [x EXCEPT !.pending = Batch] ELSE x

(* demo_set_timer: a stream whose batch is full or submitted, or that closes, wants  *)
(* its update now.                                                                  *)
WakeFor(e, streams) ==
  [wake EXCEPT ![e] = IF \E i \in Streams : streams[i].pending = Batch THEN "due" ELSE @]

(* kcpmux_stream_send without flush, k times, then kcpmux_stream_finish_batch.     *)
Sent(x, k) == Submit([Added(x, k) EXCEPT !.accepted = @ + k])

(* Mutant: one message per notification.                                          *)
ReadOne(x) ==
  IF x.arrived = x.read THEN [x EXCEPT !.readable = FALSE]
  ELSE [x EXCEPT !.readable = FALSE, !.read = @ + 1, !.rblock = x.arrived = x.read + 1]
(* The loop of peek_size and recv until the stream is empty.                      *)
ReadAll(x) ==
  IF x.arrived = x.read THEN [x EXCEPT !.readable = FALSE]
  ELSE [x EXCEPT !.readable = FALSE, !.read = x.arrived, !.rblock = TRUE]

(* kcpmux_engine_input of a stream's payload up to message n, and the program's    *)
(* read notification.                                                             *)
Payload(x, n) ==
  LET y == [Added(x, 1) EXCEPT !.arrived = n]
  IN  IF y.life = "open" /\ y.rblock /\ y.arrived > y.read
      THEN [y EXCEPT !.rblock = FALSE, !.readable = TRUE] ELSE y

-----------------------------------------------------------------------------
(* demo_endpoint_poll                                                          *)

(* The socket is readable.                                                        *)
SelectReturns(e) ==
  /\ pc[e] = "select" /\ Goto(e, "input")
  /\ UNCHANGED <<result, conn, io, wake, faults>>

(* EINTR: the call returns without looking at the clock.                           *)
SelectInterrupted(e) ==
  /\ pc[e] = "select" /\ Goto(e, "process")
  /\ UNCHANGED <<result, conn, io, wake, faults>>

(* select or recvfrom fails: main gives up.                                        *)
SocketFails(e) == pc[e] \in {"select", "input"} /\ Exit(e, "failed") /\ Fault

(* The handshake; demo_server_conn_connect_notify accepts.                         *)
ConnectArrives ==
  /\ pc["server"] = "input" /\ conn["server"] = "none" /\ conn["client"] = "connecting"
  /\ conn' = [conn EXCEPT !["server"] = "open"]
  /\ wake' = [wake EXCEPT !["server"] = "later"]
  /\ UNCHANGED <<pc, result, io, faults>>

(* demo_client_conn_state_changed: connected.                                      *)
AckArrives ==
  /\ pc["client"] = "input" /\ conn["client"] = "connecting" /\ conn["server"] # "none"
  /\ conn' = [conn EXCEPT !["client"] = "open"]
  /\ UNCHANGED <<pc, result, io, wake, faults>>

(* demo_server_stream_create_notify: the server's record of a stream.                *)
Created(x) == [x EXCEPT !.life = "open"]

(* kcpmux_conn_is_new_peer_stream_id: the streams' ids ascend.                       *)
Newest(i) == \A j \in Streams : j > i => io["server"][j].life = "none"

(* What is travelling reaches e as far as message n; the first payload of a stream  *)
(* creates it at the server, unless one of a later stream has been there before.      *)
PayloadArrives(e, i, n) ==
  LET p == Peer(e)
      x == IF io[e][i].life = "none" THEN Created(io[e][i]) ELSE io[e][i]
  IN  /\ pc[e] = "input" /\ conn[e] = "open" /\ n \in (io[e][i].arrived + 1)..io[p][i].air
      /\ Active(io[e][i]) \/ (e = "server" /\ io[e][i].life = "none" /\ Newest(i))
      /\ io' = [io EXCEPT ![e][i] = Payload(x, n),
                          ![p][i].air = IF n = @ THEN Nothing ELSE @]
      /\ wake' = WakeFor(e, io'[e])
      /\ UNCHANGED <<pc, result, conn, faults>>

(* calloc fails in demo_server_stream_create_notify: the stream is refused.         *)
StreamRefused(i) ==
  /\ pc["server"] = "input" /\ conn["server"] = "open"
  /\ io["server"][i].life = "none" /\ Newest(i) /\ io["client"][i].air > 0
  /\ io' = [io EXCEPT !["server"][i].life = "refused", !["client"][i].air = Nothing]
  /\ Fault /\ UNCHANGED <<pc, result, conn, wake>>

RefusalArrives(i) ==
  /\ pc["client"] = "input" /\ io["server"][i].life = "refused"
  /\ io["client"][i].life \in Alive
  /\ io' = [io EXCEPT !["client"][i] = Shut(@)]
  /\ UNCHANGED <<pc, result, conn, wake, faults>>

(* kcpmux_stream_handle_close at the server: after a normal close what has arrived     *)
(* can still be read; with nothing to read, and for any other reason, it ends.         *)
PeerClosed(x, reason) ==
  LET y == [x EXCEPT !.fin = reason]
  IN  IF reason = "timeout" THEN Shut(y)
      ELSE IF x.arrived > x.read THEN [y EXCEPT !.life = "draining", !.pending = 0]
      ELSE [y EXCEPT !.life = "finalize", !.pending = Batch]

StreamCloseArrives(i) ==
  LET reason == io["client"][i].fin
  IN  /\ pc["server"] = "input" /\ reason # "no"
      /\ io["server"][i].life \in IF reason = "normal" THEN {"open"} ELSE Alive
      /\ io' = [io EXCEPT !["server"][i] = PeerClosed(@, reason)]
      /\ wake' = WakeFor("server", io'["server"])
      /\ UNCHANGED <<pc, result, conn, faults>>

StreamCloseAcked(i) ==
  /\ pc["client"] = "input" /\ io["server"][i].fin = "normal"
  /\ io["client"][i].life = "leaving" /\ io["client"][i].fin = "normal"
  /\ io' = [io EXCEPT !["client"][i] = Shut(@)]
  /\ UNCHANGED <<pc, result, conn, wake, faults>>

(* CONN_CLOSE of a peer whose idle timeout has ended the connection; a peer that exits *)
(* or loses this end says nothing.                                                  *)
CloseArrives(e) ==
  /\ pc[e] = "input" /\ Exists(e) /\ conn[Peer(e)] = "idle"
  /\ CloseAll(e, "closed", io[e])
  /\ UNCHANGED <<pc, result, wake, faults>>

Lose(e, i) ==
  /\ io[e][i].air # Nothing
  /\ io' = [io EXCEPT ![e][i].air = Nothing]
  /\ Fault /\ UNCHANGED <<pc, result, conn, wake>>

(* The streams when the clock is read: after a recv loop, which has emptied the      *)
(* socket, kcpmux_engine_finish_batch has been called; select may also have timed out. *)
Heard(e) == [i \in Streams |-> IF pc[e] = "input" THEN Submit(io[e][i]) ELSE io[e][i]]
AtClock(e) == pc[e] \in {"select", "input"}

NotYet(e) ==
  /\ AtClock(e) /\ WakeFor(e, Heard(e))[e] # "due" /\ Goto(e, "process")
  /\ io' = [io EXCEPT ![e] = Heard(e)]
  /\ UNCHANGED <<result, conn, wake, faults>>

(* Mutant: the wake-up is cleared after the update has asked for the next one.       *)
WakeClearedLast(e) == "none"
(* next_wakeup_ms after an update: cleared first, then set by the update if the       *)
(* engine has a timer.                                                                *)
WakeAfterUpdate(e) == IF Exists(e) THEN "later" ELSE "none"

(* KCP sends, or sends again, what has not arrived; acknowledgements and duplicates    *)
(* would only count towards the receiver's batch.                                      *)
InAir(e, i) ==
  IF io[e][i].accepted > io[Peer(e)][i].arrived THEN io[e][i].accepted ELSE Nothing

(* What kcpmux_stream_update may find: a stream's timer has not come ("idle"), or KCP  *)
(* runs, or a closing stream has all it sent acknowledged, or its time is up.          *)
Turn == {"idle", "runs", "drained", "over"}
Drained(i) == io["client"][i].accepted = io["server"][i].arrived
May(i, x, turn) ==
  \/ turn = "idle" /\ x.pending < Batch
  \/ turn = "runs" /\ Active(x)
  \/ turn = "drained" /\ Active(x) /\ x.life = "leaving" /\ Drained(i)
  \/ turn = "over" /\ x.life \in Alive \ {"open"}

(* A stream in LOCAL_DRAIN whose time is up says so to its peer.                       *)
Updated(e, i, x, turn) ==
  LET y == IF Active(x) THEN [x EXCEPT !.air = InAir(e, i), !.pending = 0] ELSE x
  IN  CASE turn = "idle" -> x
        [] turn = "runs" -> y
        [] turn = "drained" -> [y EXCEPT !.fin = "normal"]
        [] turn = "over" -> Shut([y EXCEPT !.fin = IF Active(x) THEN "timeout" ELSE @])

(* kcpmux_engine_update runs the streams that asked for it and any whose deadline     *)
(* has come.                                                                          *)
Updates(e, turn) ==
  LET x == Heard(e)
  IN  /\ AtClock(e) /\ WakeFor(e, x)[e] # "none" /\ Goto(e, "process")
      /\ \A i \in Streams : May(i, x[i], turn[i])
      /\ io' = [io EXCEPT ![e] = [i \in Streams |-> Updated(e, i, x[i], turn[i])]]
      /\ wake' = [wake EXCEPT ![e] = WakeAfterUpdate(e)]
      /\ UNCHANGED <<result, conn, faults>>

(* Nothing more comes from the peer: it has ended, or what streams have left to send is *)
(* refused for ever.                                                                   *)
Overtaken(i) == io["server"][i].life = "none" /\ ~Newest(i)
Silent(e) ==
  \/ conn[Peer(e)] \in {"closed", "idle"}
  \/ /\ \E i \in Streams : Overtaken(i)
     /\ \A i \in Streams : \/ Overtaken(i) \/ io["client"][i].life = "closed"
                            \/ io["client"][i].read = Messages

(* The update finds the connection's peer silent for too long, or no payload from it.  *)
LosesPeer(e) ==
  /\ AtClock(e) /\ Exists(e) /\ WakeFor(e, Heard(e))[e] # "none" /\ Goto(e, "process")
  /\ \/ CloseAll(e, "closed", io[e])
     \/ conn[e] = "open" /\ CloseAll(e, "idle", io[e])
  /\ wake' = [wake EXCEPT ![e] = "none"]
  /\ IF Silent(e) THEN UNCHANGED faults ELSE Fault
  /\ UNCHANGED result

-----------------------------------------------------------------------------
(* demo_client.c                                                               *)

(* demo_client_connect                                                            *)
Connect ==
  /\ pc["client"] = "connect" /\ Goto("client", "loop")
  /\ conn' = [conn EXCEPT !["client"] = "connecting"]
  /\ wake' = [wake EXCEPT !["client"] = "later"]
  /\ UNCHANGED <<result, io, faults>>

(* kcpmux_conn_connect returns NULL.                                              *)
ConnectFails == pc["client"] = "connect" /\ Exit("client", "start") /\ Fault

(* streams_started; a client that has started only some of them has ended.           *)
Started == \E i \in Streams : io["client"][i].life # "none"

(* The client's streams when demo_client_start_streams has sent k messages on stream  *)
(* i, which could not be created if k is Nothing, and all those of the streams before.  *)
Begun(i, k) ==
  LET new == [Fresh EXCEPT !.life = "open"]
  IN  [j \in Streams |->
         IF j < i THEN Sent(new, Messages)
         ELSE IF j = i /\ k # Nothing THEN [Added(new, k) EXCEPT !.accepted = k]
         ELSE Fresh]

(* demo_client_start_streams; the send of message n finds n - 1 in KCP.               *)
StartStreams ==
  /\ pc["client"] = "loop" /\ conn["client"] = "open" /\ ~Started /\ Messages <= Pause
  /\ io' = [io EXCEPT !["client"] = Begun(StreamCount + 1, Nothing)]
  /\ wake' = WakeFor("client", io'["client"])
  /\ Goto("client", "select")
  /\ UNCHANGED <<result, conn, faults>>

(* kcpmux_stream_create returns NULL, or a send does not take the whole message.       *)
StartFails(i, k) ==
  /\ pc["client"] = "loop" /\ conn["client"] = "open" /\ ~Started
  /\ ExitWith("client", "start", Begun(i, k)) /\ Fault

(* kcpmux_stream_close by a client that does not wait for its echoes; if all it sent is *)
(* acknowledged already, STREAM_CLOSE goes out at once.                                 *)
CloseStream(i) ==
  /\ pc["client"] = "loop" /\ Open("client", i)
  /\ \/ io' = [io EXCEPT !["client"][i] = [@ EXCEPT !.life = "leaving", !.pending = Batch]]
     \/ /\ Drained(i)
        /\ io' = [io EXCEPT !["client"][i] =
                     [@ EXCEPT !.life = "leaving", !.fin = "normal", !.pending = 0]]
  /\ wake' = WakeFor("client", io'["client"])
  /\ Fault /\ UNCHANGED <<pc, result, conn>>

(* done of one stream: set to 1 by the last echo, to -1 by a close before it.       *)
StreamDone(i) ==
  IF io["client"][i].read = Messages THEN 1
  ELSE IF io["client"][i].life = "closed" THEN -1 ELSE 0

(* demo_client_done: the first stream that is not done decides.                     *)
ClientDone ==
  LET undone == {i \in Streams : StreamDone(i) # 1}
  IN  IF undone = {} THEN 1 ELSE StreamDone(Min(undone))

ClientLoop ==
  /\ pc["client"] = "loop" /\ (conn["client"] # "open" \/ Started)
  /\ LET done == IF Started THEN ClientDone ELSE 0
     IN  CASE done = -1 -> Exit("client", "failed")
           [] done = 1 -> Exit("client", "ok")
           [] done = 0 -> Goto("client", "select") /\ UNCHANGED <<result, conn, io, wake>>
  /\ UNCHANGED faults

Deadline == pc["client"] = "loop" /\ Exit("client", "failed") /\ UNCHANGED faults

(* demo_client_process_reads                                                        *)
ProcessReads ==
  LET ready == {i \in Streams : Open("client", i) /\ io["client"][i].readable}
  IN  /\ pc["client"] = "process"
      /\ IF \E i \in ready : io["client"][i].arrived > Messages THEN Exit("client", "echo")
         ELSE /\ io' = [io EXCEPT !["client"] =
                          [i \in Streams |-> IF i \in ready THEN ReadAll(@[i]) ELSE @[i]]]
              /\ Goto("client", "loop")
              /\ UNCHANGED <<result, conn, wake>>
      /\ UNCHANGED faults

-----------------------------------------------------------------------------
(* demo_server.c                                                               *)

(* Mutant: a stream that was notified and then closed is still used.                *)
ReadyNotClosed(i) ==
  io["server"][i].life \in Alive \cup {"closed"} /\ io["server"][i].readable
(* demo_server_process_streams works on a record that is not closed and readable.    *)
Ready(i) == io["server"][i].life \in Alive /\ io["server"][i].readable

(* A stream that is gone cannot be read; one the peer has closed can, but not sent on; *)
(* and a send finds at most all messages in KCP, at worst none acknowledged.           *)
EchoFails(i) == ~Open("server", i) \/ io["server"][i].arrived > Pause

(* The send of an echo finds no memory for a segment.                                  *)
EchoWithoutMemory ==
  /\ pc["server"] = "process" /\ \E i \in Streams : Ready(i)
  /\ Exit("server", "failed") /\ Fault

Echoed(x) ==
  IF x.life = "closed" THEN [x EXCEPT !.life = "freed", !.readable = FALSE]
  ELSE LET y == ReadAll(x) IN Sent(y, y.read - x.read)

ProcessStreams ==
  LET ready == {i \in Streams : Ready(i)}
      gone == {i \in Streams : io["server"][i].life = "closed"}
  IN  /\ pc["server"] = "process"
      /\ IF \E i \in ready : EchoFails(i) THEN Exit("server", "echo")
         ELSE /\ io' = [io EXCEPT !["server"] =
                          [i \in Streams |-> IF i \in ready \cup gone THEN Echoed(@[i]) ELSE @[i]]]
              /\ wake' = WakeFor("server", io'["server"])
              /\ Goto("server", "select")
              /\ UNCHANGED <<result, conn>>
      /\ UNCHANGED faults

-----------------------------------------------------------------------------
Next ==
  \/ \E e \in End :
       \/ SelectReturns(e) \/ SelectInterrupted(e) \/ SocketFails(e)
       \/ CloseArrives(e) \/ NotYet(e) \/ LosesPeer(e)
       \/ \E turn \in [Streams -> Turn] : Updates(e, turn)
       \/ \E i \in Streams : Lose(e, i) \/ \E n \in 1..Messages : PayloadArrives(e, i, n)
  \/ \E i \in Streams :
       \/ StreamRefused(i) \/ RefusalArrives(i)
       \/ CloseStream(i) \/ StreamCloseArrives(i) \/ StreamCloseAcked(i)
       \/ \E k \in Nothing..(Messages - 1) : StartFails(i, k)
  \/ ConnectArrives \/ AckArrives
  \/ Connect \/ ConnectFails \/ StartStreams \/ ClientLoop \/ Deadline \/ ProcessReads
  \/ ProcessStreams \/ EchoWithoutMemory

Spec == Init /\ [][Next]_vars

(* The programs run.                                                                  *)
Runs(e) ==
  \/ e = "client" /\ (Connect \/ StartStreams \/ ClientLoop \/ ProcessReads)
  \/ e = "server" /\ ProcessStreams
  \/ NotYet(e) \/ \E turn \in [Streams -> Turn] : Updates(e, turn)

(* What the network and the clock cannot put off for ever: data arrives or, if lost,    *)
(* is sent again, a refusal arrives, a stream that closes ends (module Stream,          *)
(* CloseEnds), and a connection over which nothing comes ends (module Connection,       *)
(* HalfOpenEnds, and the idle timeout).                                                 *)
Progresses(e) ==
  \/ pc[e] = "input" /\ \E i \in Streams, n \in 1..Messages : PayloadArrives(e, i, n)
  \/ /\ AtClock(e)
     /\ \E turn \in [Streams -> Turn] :
          /\ \E i \in Streams :
               \/ turn[i] = "runs" /\ io[e][i].air # InAir(e, i)
               \/ turn[i] = "over" /\ io[e][i].life = "leaving"
          /\ Updates(e, turn)
  \/ e = "client" /\ \E i \in Streams : RefusalArrives(i)
  \/ Silent(e) /\ (CloseArrives(e) \/ LosesPeer(e))

(* A readable socket is read at last, however often select is interrupted.             *)
FairSpec ==
  /\ Spec
  /\ \A e \in End : WF_vars(Runs(e)) /\ SF_vars(SelectReturns(e)) /\ SF_vars(Progresses(e))

-----------------------------------------------------------------------------
(* No select of either program sleeps past what its streams wait for.  While a         *)
(* connection exists a wake-up is set: the set_timer call made inside                  *)
(* kcpmux_engine_update is not lost to the clearing of next_wakeup_ms around it, and an *)
(* interrupted select does not consume the deadline.  And no batch is left open: what  *)
(* was received, sent or echoed since a stream's last update is due at once, not at     *)
(* KCP's next interval, whichever of the threshold, finish_batch after the recv loop    *)
(* and finish_batch after the echoes closed the batch.  Nor does a stream wait that its *)
(* host has just closed, or that has nothing left to do after its peer's close.         *)
NeverOversleeps ==
  \A e \in End : pc[e] = "select" =>
    /\ Exists(e) => wake[e] # "none"
    /\ \A i \in Streams :
         \/ Open(e, i) /\ io[e][i].pending > 0
         \/ io[e][i].pending = Batch
         => wake[e] = "due"

(* The client prints OK only when the server echoed every message of every stream, and *)
(* never finds an echo it did not ask for.  A client that fails while it starts its      *)
(* streams has sent nothing: not even a full batch leaves before the next update, so the *)
(* server never sees half of its streams.  Apart from socket errors and lack of memory   *)
(* the server gives up for one reason only, whatever else its clients do: a client        *)
(* closed a stream normally while messages on it were waiting for their echo.  Those can  *)
(* be read but no longer answered (kcpmux_stream_send in REMOTE_DRAIN).  It does not give *)
(* up for a stream that was closed, with its connection or for another reason, after its  *)
(* notification, nor for a send buffer that is full.                                     *)
Outcome ==
  /\ result["client"] = "ok" => \A i \in Streams : io["server"][i].read = Messages
  /\ result["client"] = "start" => \A i \in Streams : io["server"][i].life = "none"
  /\ result["client"] # "echo"
  /\ result["server"] = "echo" =>
       \E i \in Streams : /\ io["server"][i].fin = "normal"
                          /\ io["server"][i].accepted < io["server"][i].arrived

(* Streams once started end the client: with all echoes, or because it learns that a   *)
(* stream or the connection is gone.  No read notification, wake-up or batch gets lost  *)
(* on the way that would leave it to the deadline.  A stream whose first datagram was   *)
(* overtaken by one of a later stream is never opened at the server, and the client     *)
(* ends with the idle connection.                                                       *)
ClientEnds == Started ~> result["client"] # "running"
=============================================================================
