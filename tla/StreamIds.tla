------------------------------- MODULE StreamIds -------------------------------
(* Stream ids of one connection: how each end picks ids for the streams it      *)
(* opens (kcpmux_conn_alloc_stream_id) and how the other end decides whether a   *)
(* payload of an unknown id opens a stream (kcpmux_conn_is_new_peer_stream_id    *)
(* and STREAM_PAYLOAD of kcpmux_protocol_input).                                 *)
(*                                                                              *)
(* Ids are unsigned integers of Modulus values (2^32 in the code) that wrap.     *)
(* place[e] and the pos of a packet are history: positions on the line the ring is *)
(* wound from, so that two streams that used the same id can be told apart.      *)
(* Packets stay in sent: they arrive late, repeatedly or never.  The one         *)
(* assumption about them is Fresh: a payload arrives before its sender has moved *)
(* on by more than half the ring.                                                *)
EXTENDS Integers, FiniteSets

CONSTANTS Modulus,      \* number of ids, 2^32 in the code
          FirstIds,     \* values kcpmux_engine_random_u64 may give next_stream_id
          Calls         \* Calls[e]: bound on the streams e asks for

Ends == {"initiator", "acceptor"}
Peer(e) == IF e = "initiator" THEN "acceptor" ELSE "initiator"
Half == Modulus \div 2

ASSUME RingAssumption == Half \in Nat /\ Half > 1 /\ Modulus = 2 * Half

ASSUME BoundsAssumption == FirstIds \subseteq 0..(Modulus - 1) /\ Calls \in [Ends -> Nat]

Ids == 0..(Modulus - 1)
Odd(n) == n % 2 = 1
OwnIds(e) == {i \in Ids : i # 0 /\ (Odd(i) <=> e = "initiator")}

(* uint32_t addition and subtraction of ids.                                    *)
Plus2(i) == IF i + 2 >= Modulus THEN i + 2 - Modulus ELSE i + 2
Minus(i, j) == IF i >= j THEN i - j ELSE i - j + Modulus

VARIABLES next,      \* next_stream_id
          place,     \* position of next on the line
          streams,   \* stream_map: the ids in use, own and the peer's
          attempts,  \* loop counter of kcpmux_conn_alloc_stream_id, Idle outside
          calls,     \* number of kcpmux_stream_create calls so far
          latest,    \* latest_peer_stream_id
          known,     \* peer_stream_id_initialized
          top,       \* position of latest on the peer's line
          sent       \* first payloads of all streams

idVars == <<next, place, streams, attempts, calls, latest, known, top, sent>>

Idle == -1

(* kcpmux_conn_new: a random id of the own parity.                              *)
IdsInit ==
  /\ next \in [Ends -> FirstIds] /\ \A e \in Ends : next[e] \in OwnIds(e)
  /\ place = next
  /\ streams = [e \in Ends |-> {}]
  /\ attempts = [e \in Ends |-> Idle]
  /\ calls = [e \in Ends |-> 0]
  /\ latest = [e \in Ends |-> 0]
  /\ known = [e \in Ends |-> FALSE]
  /\ top = [e \in Ends |-> 0]
  /\ sent = {}

-----------------------------------------------------------------------------
(* kcpmux_stream_create enters kcpmux_conn_alloc_stream_id.                      *)
AllocStart(e) ==
  /\ attempts[e] = Idle /\ calls[e] < Calls[e]
  /\ attempts' = [attempts EXCEPT ![e] = 0]
  /\ calls' = [calls EXCEPT ![e] = calls[e] + 1]
  /\ UNCHANGED <<next, place, streams, latest, known, top, sent>>

(* Mutant: zero is an id like any other.                                        *)
CandidateZero(e) == next[e]
(* The id the loop tries, and its position: zero is skipped.                    *)
Candidate(e) == IF next[e] = 0 THEN (IF e = "initiator" THEN 1 ELSE 2) ELSE next[e]
CandidateAt(e) == IF next[e] = 0 THEN place[e] + Candidate(e) ELSE place[e]

Advance(e) ==
  /\ next' = [next EXCEPT ![e] = Plus2(Candidate(e))]
  /\ place' = [place EXCEPT ![e] = CandidateAt(e) + 2]

(* Mutant: one attempt too few.                                                 *)
LoopingShort(e) == attempts[e] < Cardinality(streams[e])
(* The loop condition, stream_count being the number of streams of both ends.    *)
Looping(e) == attempts[e] <= Cardinality(streams[e])

(* One round of the loop finds the id in use.                                   *)
AllocSkip(e) ==
  /\ attempts[e] # Idle /\ Looping(e)
  /\ Candidate(e) \in streams[e]
  /\ Advance(e)
  /\ attempts' = [attempts EXCEPT ![e] = attempts[e] + 1]
  /\ UNCHANGED <<streams, calls, latest, known, top, sent>>

(* One round of the loop finds a free id: the stream is created and, sooner or  *)
(* later, sends its first payload.                                              *)
AllocTake(e) ==
  /\ attempts[e] # Idle /\ Looping(e)
  /\ Candidate(e) \notin streams[e]
  /\ Advance(e)
  /\ streams' = [streams EXCEPT ![e] = streams[e] \cup {Candidate(e)}]
  /\ sent' = sent \cup {[from |-> e, id |-> Candidate(e), pos |-> CandidateAt(e)]}
  /\ attempts' = [attempts EXCEPT ![e] = Idle]
  /\ UNCHANGED <<calls, latest, known, top>>

(* The loop ends without an id: kcpmux_stream_create returns NULL.              *)
AllocFail(e) ==
  /\ attempts[e] # Idle /\ ~Looping(e)
  /\ attempts' = [attempts EXCEPT ![e] = Idle]
  /\ UNCHANGED <<next, place, streams, calls, latest, known, top, sent>>

Fresh(p) == place[p.from] - p.pos <= Half

(* Mutant: everything but the latest id is new.                                 *)
IsNewPeerStreamIdUnordered(e, i) ==
  /\ i \in OwnIds(Peer(e))
  /\ known[e] => Minus(i, latest[e]) # 0
(* Mutant: ids are compared as plain numbers.                                   *)
IsNewPeerStreamIdPlain(e, i) ==
  /\ i \in OwnIds(Peer(e))
  /\ known[e] => i > latest[e]
(* kcpmux_conn_is_new_peer_stream_id                                            *)
IsNewPeerStreamId(e, i) ==
  /\ i \in OwnIds(Peer(e))
  /\ known[e] => Minus(i, latest[e]) # 0 /\ Minus(i, latest[e]) < Half

(* STREAM_PAYLOAD of an unknown id creates a stream.  The id counts as seen even *)
(* when stream_create_notify refuses it or KCP fails, after which CloseStream    *)
(* follows.                                                                      *)
Accept(e, p) ==
  /\ attempts[e] = Idle
  /\ p.from = Peer(e) /\ Fresh(p)
  /\ p.id \notin streams[e] /\ IsNewPeerStreamId(e, p.id)
  /\ streams' = [streams EXCEPT ![e] = streams[e] \cup {p.id}]
  /\ latest' = [latest EXCEPT ![e] = p.id]
  /\ known' = [known EXCEPT ![e] = TRUE]
  /\ top' = [top EXCEPT ![e] = p.pos]
  /\ UNCHANGED <<next, place, attempts, calls, sent>>

(* kcpmux_conn_remove_stream, whatever closed the stream.                       *)
CloseStream(e, i) ==
  /\ attempts[e] = Idle /\ i \in streams[e]
  /\ streams' = [streams EXCEPT ![e] = streams[e] \ {i}]
  /\ UNCHANGED <<next, place, attempts, calls, latest, known, top, sent>>

IdsNext ==
  \E e \in Ends :
    \/ AllocStart(e) \/ AllocSkip(e) \/ AllocTake(e) \/ AllocFail(e)
    \/ \E p \in sent : Accept(e, p)
    \/ \E i \in streams[e] : CloseStream(e, i)

IdsSpec == IdsInit /\ [][IdsNext]_idVars

-----------------------------------------------------------------------------
(* Properties                                                                 *)

(* Types: next_stream_id and the ids in use are ids, also after the wrap of       *)
(* kcpmux_conn_alloc_stream_id.                                                   *)
IdsTypeOK ==
  /\ next \in [Ends -> Ids] /\ place \in [Ends -> Nat]
  /\ streams \in [Ends -> SUBSET Ids]
  /\ attempts \in [Ends -> Nat \cup {Idle}] /\ calls \in [Ends -> Nat]
  /\ latest \in [Ends -> Ids] /\ known \in [Ends -> BOOLEAN] /\ top \in [Ends -> Nat]
  /\ sent \subseteq [from : Ends, id : Ids, pos : Nat]

(* The two ends never pick the same id, and neither picks 0, also after the       *)
(* allocator of kcpmux_conn_alloc_stream_id wrapped.                              *)
IdsApart == \A p \in sent : p.id \in OwnIds(p.from)

(* kcpmux_conn_alloc_stream_id tries stream_count + 1 ids; that is enough: it      *)
(* fails only when every id of its parity is in use.                              *)
AllocFailsOnlyWhenFull ==
  \A e \in Ends : attempts[e] # Idle /\ ~Looping(e) => OwnIds(e) \subseteq streams[e]

(* A delayed payload never recreates a stream: what kcpmux_protocol_input accepts  *)
(* was opened after everything it accepted before.                                *)
NoRecreation ==
  [][\A e \in Ends, p \in sent : Accept(e, p) /\ known[e] => p.pos > top[e]]_idVars

(* Nor is a new stream mistaken for an old one: the first payload of a stream      *)
(* opened after the latest one accepted passes kcpmux_conn_is_new_peer_stream_id,  *)
(* unless the peer has opened half a ring of streams without any getting through.  *)
NewRecognised ==
  \A e \in Ends, p \in sent :
    p.from = Peer(e) /\ known[e] /\ p.pos > top[e] /\ place[p.from] - top[e] <= Half
      => IsNewPeerStreamId(e, p.id)

(* Inductive invariant: ids keep their parity, and while a position is within      *)
(* half a ring of the allocator, ring distance and line distance are the same.     *)
OnLine(e, i, n) == n < place[e] /\ (place[e] - n <= Half => Minus(next[e], i) = place[e] - n)

(* Own ids of kcpmux_conn_alloc_stream_id keep their parity through the wrap, and  *)
(* every payload in flight and high-water mark lies on its sender's line.          *)
IdsInv ==
  /\ IdsTypeOK
  /\ \A e \in Ends : Odd(next[e]) <=> e = "initiator"
  /\ \A p \in sent : p.id \in OwnIds(p.from) /\ OnLine(p.from, p.id, p.pos)
  /\ \A e \in Ends : known[e] =>
       latest[e] \in OwnIds(Peer(e)) /\ OnLine(Peer(e), latest[e], top[e])
=============================================================================
