# kcp-mux in TLA+

kcp-mux multiplexes reliable streams over connections over UDP datagrams. This
directory models the library under `src/src/`, the KCP core it ships
(`third_party/kcp`) and the demo programs (`demo/`), checks the models with TLC on
small instances, and proves the main results with TLAPS for every value of the
constants. Paths and line numbers below refer to the repository; the exact lines
behind each definition are in `PROJECT.json` ("map").

## The system

The library is single-threaded. The host calls it in three ways: API calls,
`kcpmux_engine_input` for a datagram, and `kcpmux_engine_update` when the one-shot
timer it was asked to set expires. Callbacks into the host must not re-enter,
except where their declaration allows it. So a call is atomic with respect to
other calls on the same engine. What interleaves is the calls of two engines,
the packets between them, the two clocks, and the applications.

| Part | State | Operations | Source |
|---|---|---|---|
| connection | state, peer id, retry count, time anchors, timer node | connect, close, set_config, update per state, five packet handlers, cascade | `kcpmux_conn.c`, `kcpmux_protocol.c` |
| stream | state, close phase, reason, batch counters, block flags, timer node | create, send(v), recv, close, set_config, finish_batch, update per phase, payload/close/ack handlers | `kcpmux_stream.c`, `kcpmux_protocol.c` |
| stream ids | next own id, highest peer id, ids in use | allocate, recognise as new, release | `kcpmux_conn.c` 545-613 |
| timer heap | array, back indices, node states, due list | schedule, cancel, collect, reserve | `kcpmux_timer.c` |
| engine loop | operation depth, release list, external timer, maps | enter/leave, update, queue_release, rearm, destroy | `kcpmux_engine.c` |
| KCP | send queue and buffer, receive buffer and queue, ack list, window probes | send, recv, input, update | `third_party/kcp/ikcp.c`, `kcpmux_kcp.c` |
| hash table | buckets of doubly linked lists, count | find, find_lru, add, del, flush | `internal/kcpmux_hashtable.c`, `internal/kcpmux_list.h` |
| send path | a cursor over the fragments of a vector | send, sendv | `kcpmux_stream.c` 356-590 |
| demo programs | wake-up time, readable flags, counters | poll, callbacks, the loops of both mains | `demo/*.c` |
| codec, hash function, statistics | | | `kcpmux_protocol.c`, `internal/kcpmux_hash.c` |

What is hard here: packets lost, repeated and reordered during handshake and
close; an identifier reused while old packets travel; deadlines cached in timer
nodes while what they depend on changes; objects closed in the middle of a
dispatch; a host timer that cannot be cancelled; counters that wrap; retry
settings that change during retries; acknowledgements and windows that arrive
late; a receive window that closes and whose opening is not heard; a notification
that comes once. `PROJECT.json` ("hazards") lists them line by
line with the properties that cover them.

## Modules

| Module | Models | Instance | Proofs |
|---|---|---|---|
| `Connection` | connections of several engines and the network | `MCConnection` | `ConnectionProofs` |
| `StreamPair` | both ends of one stream and the network | `MCStreamPair` | `StreamPairProofs` |
| `Stream` | one end of one stream with timers, batches and notifications | `MCStream` | `StreamProofs` |
| `StreamIds` | stream id allocation and recognition at both ends | `MCBlocks` | `EngineProofs` |
| `TimerHeap` | the indexed heap, one step per loop iteration | `MCBlocks` | `TimerHeapProofs` |
| `TimerQueue` | what the heap promises: an ordered queue | (by refinement) | (by refinement) |
| `HashTable` | the chained hash table, pointer by pointer and one step per loop iteration | `MCBlocks` | `HashTableProofs` |
| `HashMap` | what the table promises: a map | (by refinement) | (by refinement) |
| `SendPath` | the cutting of a buffer or vector into KCP messages, one step per loop iteration | `MCBlocks` | `StreamProofs` |
| `EngineLoop` | the event loop around connections and streams | `MCEngineLoop` | `EngineProofs` |
| `Kcp` | two KCP control blocks and the network | `MCKcp` | `KcpProofs` |
| `KcpContract` | what streams rely on when they use KCP | (by refinement) | (by refinement) |
| `Demo` | the demo client and server, as hosts of the library | `Demo` | `DemoProofs` |

Operators whose comment starts with "Mutant" are plausible bugs, used to show that
each property can fail; no specification uses them.

**Connection.** `conn[e][i]` is the `kcpmux_conn_t` that engine `e` made with local
id `i`; `net` holds the packets. One action per API call, packet handler and
state of `kcpmux_conn_update`. Every anchor (`last_ctrl_ts`, ...) is kept as its
age, saturated at `MaxAge`, and the timer node as the time left until its
deadline. No timeout is larger than `MaxAge` (an ASSUME), so saturation cannot be
seen. Engines have independent clocks. A closed connection's record stays as
history and no action reads it.

**StreamPair.** No clock: a timeout may strike at any time, so the results hold
for all timings. KCP appears as its contract: a chunk is acknowledged only after
the peer's KCP stored it, and chunks are read in the order of sending. That
`ikcp.c` keeps this contract is `ImplementsContract` of `Kcp`. `net` only grows, which gives
loss, repetition and reordering. `close_retries` is picked anew at every use,
because `set_config` may change it at any time.

**Stream.** One record for `kcpmux_stream_t` and its KCP instance, reduced to
`waitsnd` and the number of complete messages. The peer is unconstrained: any
message may arrive. `waiting` is what the application waits to be told; `missed` is
history, the notification checks that the last failing input or flush left out.

**StreamIds.** Ids live on a ring of `Modulus` values; `place` and `pos` are history
variables that unwind the ring to a line, to tell two streams of the same id
apart. One assumption, `Fresh`: a payload arrives before its sender has moved on
by more than half the ring (2^30 streams of that end). Without it the comparison
in `kcpmux_conn_is_new_peer_stream_id` cannot work. It also excludes a
high-water mark that stays put while the peer goes half way round.

**TimerHeap.** `kcpmux_timer_sift_up/down` take one step per iteration, because
the heap is out of order in between. It refines `TimerQueue`, in which a collect
takes the earliest node in (deadline, insertion) order.

**EngineLoop.** An operation is a sequence of steps: begin, body steps, one step
per released object, then `kcpmux_engine_rearm_timer`. Body steps create,
schedule, cancel or close any object: this over-approximates what Connection and
Stream do. The timer heap is a set here; nothing depends on its order. The host's
one-shot (`shot`) is separate from what the engine believes about it (`armed`,
`armedFor`).

**Kcp.** `kcp[p]` is the `ikcpcb` of an end, with one action per `ikcp_` function
and, for `ikcp_input` and `ikcp_update`, per branch. A message is one segment: the
send path never hands over more than an mss (`ChunksExact`). RTT estimation,
retransmission timers, fast retransmission and congestion control decide how much
of the window is used and which segments go out again. These are free choices, so
the safety results hold for any such policy. A segment in `net` may be lost, be
delivered again, or be held back (`late`) while newer ones pass it.

**HashTable.** The state is the `next` and `prev` pointers of all nodes and bucket
heads, `ht->num`, and the loop in progress (`scan`) with its cursors: a search moves
by one node per step, forwards or, in `find_lru`, backwards; a flush deletes one
node per step. The mapping to `HashMap` gives each key the linked node that has it,
so that a search which misses a node is a wrong answer. A flush empties the map when
it begins and takes no step of it after that. A node whose key is taken is not
linked, and is deleted like any other later.

**SendPath.** One call of `send` or `sendv` over all vectors up to a bound, each of
the three ways to hand a chunk to KCP, and a refusal at any chunk. The loops of
`kcpmux_vectored_copy` (or `ikcp_iov_copy`) and `kcpmux_vectored_advance` take a step
per fragment. A byte is its position, so a skipped, repeated or swapped byte is seen.

**Demo.** The event loop of `demo_common.c` and both programs, with the library as
the other modules describe it: KCP by its contract, a connection by the results
of Connection, notifications and batches as in Stream, the timer as in EngineLoop.
It composes these promises and asks whether a host that uses them as the
repository shows gets its work done. Every call that can fail may fail: creating the
connection, each stream and each message of `demo_client_start_streams`, the record
of a stream at the server, the send of an echo, the socket. `result` tells these ends
apart: "start", "echo", and "failed" for the rest. The client need not be
demo_client.c: it may close a stream while it waits for echoes, which takes the
stream at both ends through the phases of Stream, reduced to what the peer and the
program can see of them (`life`, `fin`).

The server's answer to such a close is worth knowing. Payload followed by a normal
STREAM_CLOSE in one recv loop leaves the stream in REMOTE_DRAIN, where
`kcpmux_stream_recv` succeeds and `kcpmux_stream_send` does not
(`kcpmux_stream.c:475`), and `demo_server_process_streams` then ends the server
(`demo_server.c:223`), for all its clients. No document promises otherwise. `Outcome`
states that this is the only way a failed echo ends it.

The modules meet at named points: Connection treats stream traffic as
`StreamOutput` and `ReceivePayload`; Stream and StreamPair treat the connection as a
state that may leave CONNECTED at any time; `TransientEnds` of Connection justifies
the fairness of `ConnEnds` in Stream; `HalfOpenEnds` and the idle timeout the
fairness of `LosesPeer` in Demo, and `CloseEnds` of Stream that a closing stream ends
there; TimerHeap justifies the timer set of EngineLoop; EngineLoop's `DueServed`
justifies the weak fairness of the update actions of Connection and Stream, since a
node that stays due is dispatched; HashTable justifies the functions by
which Connection and EngineLoop model the engine's maps; KcpContract stands
between Kcp and the streams, and `Delivers` of Kcp justifies that a stream's data
arrives in Demo.

## Runs

| Run | What it asks | Bounds | Distinct states |
|---|---|---|---|
| `conn_routing` | handshake and close bookkeeping of both ends agree, crossing handshakes stay apart, ids run out | both engines initiate, two ids per engine, first ids 1 or 2, failing creation, one retry, duplication | 461,022 |
| `conn_timers` | no timer node keeps a stale deadline, different builds never connect | three engines, one of another version, every host operation but destroying an engine, two configurations, duplication | 928,368 |
| `conn_live` | CONNECTING and CLOSING end, an end whose peer is gone is closed | three configurations, one invalid, changed at any time; engines destroyed without a word; no duplication | 162,068 |
| `blocks` | four parts that share no state, one per initial state | | 609,650 |
| - stream ids | ids apart, no recreation, exhaustion reported | ring of eight, five and two calls | |
| - timer heap | the heap implements the queue | three nodes, two deadlines, allocation failures | |
| - hash table | the table implements a map | five nodes, two of one key, three keys in one of two buckets | |
| - send path | the messages are the bytes of the call | up to four fragments of 0 to 3 bytes, mss 1 to 4 | |
| `stream_close` | what NORMAL means to the applications | two chunks one way, one the other, 0 or 2 retries | 424,881 |
| `stream_safety` | timers, batches, notifications, dangling references, closing ends, blocked writers are told | three configurations, one invalid, batches of three, inputs that fail half way | 178,055 |
| `engine_loop` | wakeups, stale nodes, release order, destruction, no node stays due | a connection with two streams, three instants and one deadline beyond them | 567,592 |
| `kcp` | KCP keeps its contract and its windows, and delivers | three messages one way, windows of two, two faults, one segment held back | 245,191 |
| `demo` | no wake-up or batch is lost, each error ends what it should and no more, the client ends | two streams of two messages, batches of two, one fault | 139,899 |

Bounds are chosen so that the case happens. Two ids let an old connection have a
successor. Two retries let a retry be the last or not. Three chunks of batch let
a batch be empty, partial and full. Eight ids make both wrap and exhaustion
reachable. Two streams of one connection can both be due when a callback closes
it. Three timer nodes are too few for a removal that sifts its replacement upwards
(that takes six); the theorem `HeapOrder` covers it, for any number of nodes.
Hash tables of the library have at least 11 buckets; two make keys collide. In
`kcp`, three messages against windows of two close the window, and two faults
lose a retransmission and the announcement that the window opened, or let an old
acknowledgement overtake. An end updates only when what it sent has arrived, is
lost or is held back (`InFlight` 0): otherwise retransmissions pile up without
bound. Larger windows and message counts are the theorem's. In `demo`, one fault is a
lost datagram, a failing call or socket, an early close or a peer taken for lost; it
may come at any step, and the client's deadline passes at any time besides. In
`engine_loop` the clock stops one short of the last deadline, so that a due node can
still be put off into the future.
Duplication is off in `conn_live`: a network that repeats an old KEEPALIVE for
ever keeps a connection alive for ever. Deadlock checking is off where the model may stop: closed streams, bounded
calls or clock, destroyed engines.

### Disagreements between code and documentation

Three runs state what a document or comment says and end in a counterexample.

| Run | Statement | What the code does |
|---|---|---|
| `conn_stale_close` | closing affects only that connection (`docs/protocol.md:296`) | CLOSE has no source id; a delayed one of an earlier passive connection closes the successor's initiator (`kcpmux_protocol.c:210`) |
| `conn_wide_result` | any nonzero answer rejects (`kcpmux_types.h:264`) | the answer is cut to a byte; 256 is sent as OK (`kcpmux_protocol.c:141`) |
| `stream_flushing` | a blocked stream becoming writable is notified (`kcpmux_types.h:326`) | flushing sends postpone the only update that notifies (`kcpmux_stream.c:527`) |

Smaller ones, visible in the models without a run of their own:

- An initiator that missed the ACK answers CLOSE with a CLOSE_ACK to destination 0
  (`kcpmux_protocol.c:207`); `docs/protocol.md:20` wants every destination but
  CONNECT's to be nonzero.
- An input that fails half way returns before the readable check
  (`kcpmux_stream.c:947`), so a completed message is not announced until the next
  good input. `ReadNotified` of `Stream` states exactly this exception.
- `kcpmux_engine_finish_batch` takes a draining stream off its list and requests no
  update (`kcpmux_stream.c:603`), although `kcpmux.h:49` says all accumulated
  streams; the stream waits for its timer, at most a KCP interval (`TimerCovers`).

### Fairness

- Connection, `conn_live`: clocks advance and
  `kcpmux_engine_update` runs when the requested one-shot expires. Nothing is
  assumed of the network or of the hosts' calls.
- Stream: the same, and a closing connection ends. `WriteUnblocksUnflushed` holds
  under it for an application that does not flush or set the configuration
  between every two updates; the history field `missed` says when it does. `PromptSpec` uses strong
  fairness, so the counterexample of `stream_flushing` does not come from a slow
  host.
- Kcp: each end updates again and again with its retransmission and probe timers
  due, the application reads, and the network delivers to each end for ever. The
  network's faults are bounded by `MaxFaults`.
- Demo: the programs run; a socket that is readable again and again is read though
  select may be interrupted; data and refusals arrive or are sent again; a stream
  that closes ends; a connection ends over which nothing more can come (`Silent`),
  because the peer has ended, or because all that is left to arrive belongs to
  streams whose first datagram was overtaken by one of a later stream.
- EngineLoop: strong fairness for the host's timer, since other calls compete
  with it in the same event loop, and weak fairness for the engine finishing what
  it began. Even so a due node need not be dispatched: a flush before every
  expiry puts the stream's node off again and again (`kcpmux_timer.c:162`,
  `kcpmux_stream.c:530`). So `DueServed` says that no node stays due, not that it
  is dispatched; what a postponed update means for a writer is the subject of
  `stream_flushing`.

## Proofs

All are for arbitrary constants, under the ASSUMEs of the modules.

- **ConnectionProofs**: `TypeCorrect`, `RoutesAgree`, `OnePassive`,
  `PacketsStayOnRoute`, `CloseAckTruthful`, `HandlesStable`. Agreement alone is not
  inductive, because an ACK in flight can change one end. `IndInv` adds that
  every packet was sent by the connection it names, that ids above the counter are
  unused, and what a CLOSE_ACK in flight says of its sender. On top of it,
  `Verdicts` gives `TimerAlwaysExact`, `VersionsNeverMix` and `VerdictsAgree`: the
  timer and version gate of each connection, and of each packet the version of its
  sender's build, a reason that is no rejection, and OK only from a connection that
  was not rejected. The last holds only if the host's verdicts fit a byte, which
  `VerdictsAgree` has as its hypothesis; `conn_wide_result` shows that it is needed.
- **TimerHeapProofs**: `HeapOrder`, `IndexAgreement`, `Room`, `CollectionComplete`,
  `QueueRefinement`. The core is the loop invariant of the sift functions: every
  edge is in order except those at the moved node, whose children are in order
  with its parent. That the root is first follows from the edges by taking the
  least slot that contradicts it.
- **StreamPairProofs**: `CloseFollowsData`, `NormalIsRead`,
  `NormalIsArrived`, `InOrderOnce`. `IndInv` says that what a packet states stays
  true, that KCP acknowledges only what arrived, and what each close phase implies
  about the data.
- **StreamProofs**: `StreamTyped`, `NeverUntimed`, `NoUpdateLost`, `EndsClean`,
  `ReaderTold`, for every configuration, KCP interval and queue bound. `Inv` states
  the four properties for one record, with the close phases a state can have and
  that an application that waits to read has its notification armed. Each helper of
  the code (refresh, accumulate, submit, finalize, ...) has a lemma that says which
  of them it keeps or restores; an action is the composition of its helpers. What
  `TimerCovers` needs is that every path through a handler ends in a refresh or
  changes nothing the deadline depends on.

  About SendPath: `SendIsExact`, for any vector and any `kcp_mss`, and `LoopsMoveOn`.
  `Sound` adds to the property where the cursors are inside each loop over fragments,
  and that a short message can only be the last one. A fragment's end is a position
  in the whole, so one turn of a loop is arithmetic on positions and needs no sum
  over fragments. `LoopsMoveOn` bounds the loops: position plus fragment index grows
  with every turn and cannot pass the end.
- **HashTableProofs**: `TableIsMap`, `ListsIntact`, for any nodes, keys, hash function
  and number of buckets. That `next` and `prev` are inverse does not exclude a second
  ring away from the bucket's head, on which a search would miss a node. `Ranked`
  excludes it without induction along the list: there is a numbering of the nodes by
  which each leads to the next higher and the head to the lowest. So a
  search knows that the node it looks for is ranked at its cursor or beyond (`Hunt`),
  and one that comes back to the head that there is none. `find_lru` and
  `add` give the moved node a rank above or below all others. For a flush, the
  cursor read ahead is the first node of the list after the deletion (`Purge`).
- **EngineProofs**, about EngineLoop: `WakeupKept`, `DispatchSound`, `DispatchOnce`, `ReleaseSound`,
  `DestroySound`, for any number of connections and streams. `IndInv` adds that an
  armed timer is one the host still holds, that a connection waits in the release
  list behind its streams, and when a due list can exist.

  About StreamIds: `Apart`, `Recreation`, `Recognised`, `Exhausted`, for every
  even ring. `IdsInv` ties ids to positions on the line; ring distance then equals
  line distance below half the ring. For `Exhausted`, the ids tried since the loop
  began are an arc of the ring that grows by one per round and lies in the ids in
  use; an arc with as many members as the end has ids is all of them.
- **KcpProofs**: `Consistent`, `ReliableStream`, `WithinWindows`, for all windows, numbers of messages
  and faults. `IndInv` follows a message through its places: what was accepted is
  in `snd_queue` from `snd_nxt` on; what was read and `rcv_queue` are the messages
  below `rcv_nxt`; what is numbered and no longer in `snd_buf` is at the peer; and
  no `una` or ACK in flight, however old, is ahead of the peer. Each action is
  reduced to an effect on one control block, and only the effects are compared
  with the contract. For `WithinWindows` the bounds are stated per buffered
  segment, which makes them inductive on top of `IndInv`; the step to `snd_una`
  takes the least element of `snd_buf`.
- **DemoProofs**: `SelectSound`, `OutcomeSound`, for any number of streams and
  messages, every batch limit and any faults. A sleeping program has no open batch
  because a batch is open only between the recv loop's inputs, and a closed one has
  made the wake-up due (`Wakeful`). That OK means echoed needs the counts of both
  ends along a stream (`Flows`): read <= arrived <= sent at each end, and the server
  sends what it has read. A client that fails at the start has nothing on its way
  (`Unheard`), which stays so because only an update sends and its engine is gone. For
  the server, `Sane` says that a marked stream has something to read and that one in
  REMOTE_DRAIN or FINALIZE was closed normally; with `Messages` at most `Pause`
  (DEMO_MAX_MESSAGES is 128, the default threshold 256) no send finds the buffer
  full, so an echo that fails leaves a message unanswered on such a stream
  (`CutOff`). A step of one program is reduced to what it does to its own streams
  (`Acts`), once for both ends.

Most leaves are first-order and go to Zenon; those that need arithmetic or sequences
name the SMT backend.

So every safety invariant, action property and refinement of the passing runs is a
theorem. Only model-checked are the liveness properties, which are outside TLAPS'
reach here: `TransientEnds`, `HalfOpenEnds`, `CloseEnds`, `WriteUnblocksUnflushed`,
`DueServed`, `Delivers` and `ClientEnds`.

## Not modelled

- The values KCP computes from time: RTT, RTO, fast retransmission, congestion
  window, `ikcp_check`. They are free choices. Serial numbers do not wrap: a stream
  would need 2^32 messages. KCP's own fragmentation is never used by streams.
- The byte layout and length checks of packets, and the hash function: arithmetic on
  fixed offsets without state. Packets carry the fields, hashes are a parameter.
- `size_t` limits of the heap; statistics and logging; the KCP adapter beyond the
  creation of a control block (it forwards each call).
- Command lines, socket set-up, address conversion and printing of the demos.
- Connection and StreamPair in one state space: the product is beyond TLC, and the
  connection's state is free in the stream modules, which covers it.
- A custom `kcp_ops` or host that breaks its contract (re-entry, a clock that
  goes back).
- Thresholds above INT_MAX, which the code casts to int, and
  `send_resume_threshold` 0, which it accepts although no queue length is below 0.

Left to the models' margins: a final CLOSE that is lost leaves the peer's stream
open until the connection ends; a stream that ends because its connection closed
reports the connection's reason even with unread data (`cascaded` in
`NormalMeansRead`); when both ends close at once the peer's close wins and queued
data is given up; a payload that creates a stream and then fails leaves the peer
uninformed; a first payload overtaken by that of a newer stream is refused
(`docs/adr/0002`).
