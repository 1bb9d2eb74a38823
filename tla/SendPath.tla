------------------------------- MODULE SendPath -------------------------------
(* How kcpmux_stream_send and kcpmux_stream_sendv cut one buffer, or a vector of   *)
(* fragments, into KCP messages of at most kcp_mss bytes.  There are three ways to  *)
(* hand a chunk to KCP: from a contiguous buffer, with ops->sendv from the          *)
(* fragments themselves, and copied together when the KCP in use has no sendv.      *)
(* The loops over fragments take one step per iteration.                            *)
(*                                                                                  *)
(* A byte is its position in the whole, a vector the sequence of the positions its   *)
(* fragments end at, and a KCP message the sequence of its bytes.  kcp's own mss is  *)
(* kcp_mss, so that no message is fragmented again.                                  *)
EXTENDS Integers, Sequences

CONSTANTS Vectors,  \* the vectors handed over
          MaxMss    \* bound: kcp_mss

Paths == {"send", "sendv", "scratch"}

IsVector(iov) ==
  /\ iov \in Seq(Nat)
  /\ \A i, j \in DOMAIN iov : i <= j => iov[i] <= iov[j]

ASSUME PathAssumption == MaxMss \in Nat /\ \A iov \in Vectors : IsVector(iov)

VARIABLE call    \* the call in progress, with the messages KCP has taken

(* Bytes before fragment i, and in it.                                                *)
Start(iov, i) == IF i = 1 THEN 0 ELSE iov[i - 1]
FragmentLen(iov, i) == iov[i] - Start(iov, i)
Total(iov) == Start(iov, Len(iov) + 1)
Position(iov, c) == Start(iov, c.index) + c.offset

Lesser(a, b) == IF a < b THEN a ELSE b
Bytes(from, n) == [k \in 1..n |-> from + k]

(* One turn of the loops over fragments: n bytes are still wanted.                    *)
Take(iov, c, n) == Lesser(FragmentLen(iov, c.index) - c.offset, n)

(* Mutant: the rest of a fragment is passed over when a chunk ends inside it.          *)
StepDropsRest(iov, c, take) == [index |-> c.index + 1, offset |-> 0]
(* The context moves on, to the next fragment when this one is used up.                *)
Step(iov, c, take) ==
  IF c.offset + take = FragmentLen(iov, c.index) THEN [index |-> c.index + 1, offset |-> 0]
  ELSE [c EXCEPT !.offset = @ + take]

(* ikcp_sendv refuses a cursor outside the vector and a vector too short for n bytes.   *)
Readable(iov, c) == c.index <= Len(iov) /\ c.offset <= FragmentLen(iov, c.index)
SendvAccepts(iov, c, n) ==
  /\ Readable(iov, c)
  /\ Total(iov) - Position(iov, c) >= n

-----------------------------------------------------------------------------
(* phase: "idle", in the loop over chunks, in a loop over fragments ("copy",          *)
(* "advance", "skip"), or "done".  chunk is send_size, size what the loop over        *)
(* fragments still wants, cursor and part are the copying loop's.                      *)
NoCall == [phase |-> "idle", path |-> "send", iov |-> << >>, mss |-> 1,
           context |-> [index |-> 1, offset |-> 0], remaining |-> 0, sent |-> << >>,
           chunk |-> 0, size |-> 0, cursor |-> [index |-> 1, offset |-> 0], part |-> << >>,
           refused |-> FALSE, result |-> 0]

PathInit == call = NoCall

(* The entry of kcpmux_stream_send or kcpmux_stream_sendv on an open stream with room.  *)
(* One fragment stands for the buffer of a contiguous send.                             *)
Begin(path, iov, mss) ==
  /\ path = "send" => Len(iov) = 1
  /\ call' = [NoCall EXCEPT !.phase = IF path = "send" THEN "chunks" ELSE "skip",
                            !.path = path, !.iov = iov, !.mss = mss,
                            !.remaining = Total(iov)]

(* while (remaining > 0)                                                                *)
Wanted == call.phase = "chunks" /\ call.remaining > 0
ChunkSize == Lesser(call.remaining, call.mss)

(* kcpmux_stream_send_contiguous_chunk, KCP taking the message.                          *)
SendContiguous ==
  /\ Wanted /\ call.path = "send"
  /\ call' = [call EXCEPT !.sent = Append(@, Bytes(call.context.offset, ChunkSize)),
                          !.context.offset = @ + ChunkSize,
                          !.remaining = @ - ChunkSize]

(* kcpmux_stream_send_vectored_chunk: the copy of kcpmux_vectored_copy or ikcp_iov_copy   *)
(* begins.                                                                               *)
SendVectored ==
  /\ Wanted /\ call.path # "send"
  /\ call.path = "sendv" => SendvAccepts(call.iov, call.context, ChunkSize)
  /\ call' = [call EXCEPT !.phase = "copy", !.chunk = ChunkSize, !.size = ChunkSize,
                          !.cursor = call.context, !.part = << >>]

Copying == call.phase = "copy" /\ call.size > 0
CopyFragment ==
  LET take == Take(call.iov, call.cursor, call.size)
  IN  /\ Copying
      /\ call' = [call EXCEPT
           !.part = @ \o Bytes(Position(call.iov, call.cursor), take),
           !.cursor = Step(call.iov, @, take), !.size = @ - take]

(* KCP takes the message, and kcpmux_vectored_advance begins.                             *)
Copied == call.phase = "copy" /\ call.size = 0
TakeMessage ==
  /\ Copied
  /\ call' = [call EXCEPT !.phase = "advance", !.sent = Append(@, call.part),
                          !.size = call.chunk, !.part = << >>]

Advancing == call.phase = "advance" /\ call.size > 0
AdvanceFragment ==
  LET take == Take(call.iov, call.context, call.size)
  IN  /\ Advancing
      /\ call' = [call EXCEPT !.context = Step(call.iov, @, take), !.size = @ - take]

AdvanceEnds ==
  /\ call.phase = "advance" /\ call.size = 0
  /\ call' = [call EXCEPT !.phase = "skip"]

(* Empty fragments are passed over, at the start and after every chunk.                   *)
AtEmpty ==
  call.context.index <= Len(call.iov) /\ FragmentLen(call.iov, call.context.index) = 0
SkipEmpty ==
  /\ call.phase = "skip" /\ AtEmpty
  /\ call' = [call EXCEPT !.context.index = @ + 1]

SkipEnds ==
  /\ call.phase = "skip" /\ ~AtEmpty
  /\ call' = [call EXCEPT !.phase = "chunks", !.remaining = @ - call.chunk, !.chunk = 0]

-----------------------------------------------------------------------------
(* The end of kcpmux_stream_send_chunks: what was sent counts, also when KCP refused      *)
(* the rest; refusing the first chunk is an error.                                        *)
Complete(result, refused) ==
  call' = [call EXCEPT !.phase = "done", !.result = result, !.refused = refused,
                       !.chunk = 0, !.part = << >>]

TotalSent == Total(call.iov) - call.remaining

SendChunksEnds ==
  /\ call.phase = "chunks" /\ call.remaining = 0
  /\ Complete(TotalSent, FALSE)

(* KCP refuses a chunk; without ops->sendv it has been copied by then.                     *)
Refuse ==
  /\ IF call.path = "scratch" THEN Copied ELSE Wanted
  /\ Complete(IF TotalSent = 0 THEN -1 ELSE TotalSent, TRUE)

(* The caller has the result.                                                             *)
Finish == call.phase = "done" /\ call' = NoCall

PathNext ==
  \/ call = NoCall /\ \E path \in Paths, iov \in Vectors, mss \in 1..MaxMss : Begin(path, iov, mss)
  \/ SendContiguous \/ SendVectored \/ CopyFragment \/ TakeMessage
  \/ AdvanceFragment \/ AdvanceEnds \/ SkipEmpty \/ SkipEnds
  \/ SendChunksEnds \/ Refuse \/ Finish

PathSpec == PathInit /\ [][PathNext]_call

-----------------------------------------------------------------------------
(* The bytes KCP has taken: a chunk counts as sent only when the context has moved on.     *)
Taken == TotalSent + IF call.phase \in {"advance", "skip"} THEN call.chunk ELSE 0

(* KCP has taken exactly the first bytes of the buffer or vector, in order, whichever way  *)
(* they were handed over and wherever empty fragments stand: every message but the last is  *)
(* full, and the last is what is left.  What is copied together fits scratch[kcp_mss], and   *)
(* the loops over fragments read none behind the last.  In the loop over chunks the context   *)
(* is at the first byte not taken, a place ops->sendv accepts; and the result is the number   *)
(* of bytes taken.                                                                           *)
ChunksExact ==
  LET count == Len(call.sent)
      mss == call.mss
  IN  /\ \A k \in 1..(count - 1) : call.sent[k] = Bytes((k - 1) * mss, mss)
      /\ IF count = 0 THEN Taken = 0
         ELSE LET rest == Taken - (count - 1) * mss
              IN  rest \in 1..mss /\ call.sent[count] = Bytes((count - 1) * mss, rest)
      /\ Len(call.part) <= mss
      /\ Copying => Readable(call.iov, call.cursor)
      /\ Advancing => Readable(call.iov, call.context)
      /\ Wanted =>
           /\ Position(call.iov, call.context) = Taken
           /\ call.path = "sendv" => SendvAccepts(call.iov, call.context, ChunkSize)
      /\ call.phase = "done" =>
           call.result = IF Taken = 0 /\ call.refused THEN -1 ELSE Taken
=============================================================================
