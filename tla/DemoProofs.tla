------------------------------ MODULE DemoProofs ------------------------------
(* Proofs about module Demo, for every number of streams and messages, every     *)
(* batch threshold and any faults: no select sleeps past what its streams wait   *)
(* for, and the programs end only as they should.                                *)
EXTENDS Demo, TLAPS, WellFoundedInduction

(* Most leaves are first-order; those that need arithmetic or sequences name SMT.   *)
USE ZenonT(30)

-----------------------------------------------------------------------------
(* The inductive invariant                                                      *)

Life == Alive \cup {"none", "closed", "refused", "freed"}
Record == [life : Life, fin : {"no", "normal", "timeout"},
           accepted : Nat, air : Nat \cup {Nothing}, arrived : Nat, read : Nat,
           pending : 0..Batch, rblock : BOOLEAN, readable : BOOLEAN]

Results(e) == IF e = "client" THEN {"running", "ok", "failed", "start"}
              ELSE {"running", "failed", "echo"}

Typed ==
  /\ pc \in [End -> {"connect", "loop", "select", "input", "process", "exit"}]
  /\ result \in [End -> {"running", "ok", "failed", "start", "echo"}]
  /\ conn \in [End -> {"none", "connecting", "open", "closed", "idle"}]
  /\ io \in [End -> [Streams -> Record]]
  /\ wake \in [End -> {"none", "later", "due"}]

(* One program: x its streams, c its connection, w its wake-up, p where it is.  A   *)
(* full or submitted batch is due wherever the program is; an open stream has an     *)
(* open batch only during the recv loop; and streams live on open connections.       *)
Wakeful(x, c, w, p) ==
  /\ c \in {"connecting", "open"} => w # "none"
  /\ p = "connect" => c = "none"
  /\ \A i \in Streams :
       /\ x[i].life \notin Alive => x[i].pending = 0
       /\ x[i].life \in Alive => c = "open"
       /\ x[i].pending = Batch => w = "due"
       /\ x[i].life = "open" /\ p # "input" => x[i].pending \in {0, Batch}
       /\ p = "connect" => x[i].life = "none"

(* One record of the end e: only the client closes, a stream its peer has closed was  *)
(* closed normally, and the program's flag means that there is something to read.     *)
Sane(e, x) ==
  /\ e = "server" => x.life # "leaving"
  /\ x.life \in {"draining", "finalize"} => x.fin = "normal"
  /\ x.life \in Alive /\ x.readable => x.read < x.arrived

(* One stream, x at the client and y at the server: nobody reads what has not        *)
(* arrived, nothing arrives that was not sent, the server sends what it read, and it  *)
(* knows no stream that the client has not started.                                   *)
Flows(x, y) ==
  /\ x.read <= x.arrived /\ x.arrived <= y.accepted /\ y.accepted = y.read
  /\ y.read <= y.arrived /\ y.arrived <= x.accepted /\ x.accepted <= Messages
  /\ x.air <= x.accepted /\ y.air <= y.accepted
  /\ x.life = "none" => x.accepted = 0 /\ y.life = "none"

(* The three results that say something of the streams.                               *)
AllEchoed == \A i \in Streams : io["server"][i].read = Messages
Unheard == \A i \in Streams : io["server"][i].life = "none" /\ io["client"][i].air <= 0
CutOff(f) == \E i \in Streams : f[i].fin = "normal" /\ f[i].accepted < f[i].arrived

Inv ==
  /\ Typed
  /\ \A e \in End : /\ Wakeful(io[e], conn[e], wake[e], pc[e])
                    /\ result[e] \in Results(e) /\ (result[e] # "running" => pc[e] = "exit")
                    /\ \A i \in Streams : Sane(e, io[e][i])
  /\ \A i \in Streams : Flows(io["client"][i], io["server"][i])
  /\ result["client"] = "ok" => AllEchoed
  /\ result["client"] = "start" => Unheard
  /\ result["server"] = "echo" => CutOff(io["server"])

-----------------------------------------------------------------------------
(* Helpers                                                                     *)

SameFlow(x, y) ==
  y.accepted = x.accepted /\ y.arrived = x.arrived /\ y.read = x.read /\ y.air = x.air
SameRest(x, y) == y.life = x.life /\ y.fin = x.fin /\ y.readable = x.readable

(* What DemoAssumption says of the constants.                                        *)
LEMMA ConstTypes ==
  /\ Batch \in Nat /\ Batch > 0 /\ Messages \in Nat /\ Messages > 0
  /\ Pause \in Nat /\ Messages <= Pause /\ StreamCount \in Nat
BY DemoAssumption, SMTT(30)

(* The fields of a record.                                                           *)
LEMMA RecordTypes ==
  ASSUME NEW x \in Record
  PROVE  /\ x.accepted \in Nat /\ x.arrived \in Nat /\ x.read \in Nat
         /\ x.air \in Nat \cup {Nothing} /\ x.air \in Int /\ x.pending \in 0..Batch
         /\ x.pending \in Nat /\ x.pending <= Batch
         /\ x.rblock \in BOOLEAN /\ x.readable \in BOOLEAN
         /\ x.life \in Life /\ x.fin \in {"no", "normal", "timeout"}
BY ConstTypes, SMTT(30) DEF Record, Nothing

(* The smaller of two numbers.                                                       *)
LEMMA MinOfTwo ==
  ASSUME NEW a \in Int, NEW b \in Int
  PROVE  Min({a, b}) = IF a <= b THEN a ELSE b
<1>1. \E x \in {a, b} : \A y \in {a, b} : x <= y
  BY SMTT(30)
<1> DEFINE m == CHOOSE x \in {a, b} : \A y \in {a, b} : x <= y
<1>2. m \in {a, b} /\ \A y \in {a, b} : m <= y
  BY <1>1
<1> HIDE DEF m
<1>3. QED
  BY <1>2, SMTT(30) DEF Min, m

(* A set of natural numbers has a least member, which Min returns.                    *)
LEMMA MinOfSet ==
  ASSUME NEW T, T \subseteq Nat, T # {}
  PROVE  Min(T) \in T
<1> DEFINE R == {q \in Nat \X Nat : q[1] < q[2]}
<1>1. IsWellFoundedOn(R, Nat)
  BY NatLessThanWellFounded DEF OpToRel
<1> HIDE DEF R
<1>2. PICK u \in T : \A n \in T : <<n, u>> \notin R
  BY <1>1, WFMin
<1>3. ASSUME NEW n \in T PROVE u <= n
  <2>1. n \in Nat /\ u \in Nat
    OBVIOUS
  <2>2. <<n, u>> \in Nat \X Nat /\ ~(<<n, u>>[1] < <<n, u>>[2])
    BY <1>2, <2>1 DEF R
  <2>3. QED
    BY <2>1, <2>2, SMTT(30)
<1>4. \E x \in T : \A y \in T : x <= y
  BY <1>3
<1>5. QED
  BY <1>4 DEF Min

(* Calls that accumulate.                                                            *)
LEMMA AddedFacts ==
  ASSUME NEW x \in Record, NEW k \in Nat
  PROVE  LET y == Added(x, k) IN y \in Record /\ SameFlow(x, y) /\ SameRest(x, y)
<1> DEFINE n == Min({x.pending + k, Batch})
           y == [x EXCEPT !.pending = n]
<1>1. n \in 0..Batch
  <2>1. n = IF x.pending + k <= Batch THEN x.pending + k ELSE Batch
    BY RecordTypes, ConstTypes, MinOfTwo, SMTT(30)
  <2>2. QED
    BY <2>1, RecordTypes, ConstTypes, SMTT(30)
<1>2. Added(x, k) = y
  BY DEF Added
<1> HIDE DEF n
<1>3. QED
  BY <1>1, <1>2 DEF Record, SameFlow, SameRest

(* kcpmux_stream_finish_batch closes the batch if there is one.                       *)
LEMMA SubmitFacts ==
  ASSUME NEW x \in Record
  PROVE  LET y == Submit(x)
         IN  /\ y \in Record /\ SameFlow(x, y) /\ SameRest(x, y)
             /\ x.life = "open" => y.pending \in {0, Batch}
             /\ x.life # "open" => y.pending = x.pending
<1> DEFINE y == [x EXCEPT !.pending = Batch]
<1>1. y \in Record /\ SameFlow(x, y) /\ SameRest(x, y) /\ y.pending = Batch
  <2>1. Batch \in 0..Batch
    BY ConstTypes, SMTT(30)
  <2>2. QED
    BY <2>1 DEF Record, SameFlow, SameRest
<1>2. SameFlow(x, x) /\ SameRest(x, x)
  BY DEF SameFlow, SameRest
<1>3. ~(x.pending > 0) => x.pending = 0
  BY RecordTypes, SMTT(30)
<1>4. Submit(x) = IF x.life = "open" /\ x.pending > 0 THEN y ELSE x
  BY DEF Submit
<1> HIDE DEF y
<1>5. QED
  BY <1>1, <1>2, <1>3, <1>4

(* Sends in one batch.                                                                *)
LEMMA SentFacts ==
  ASSUME NEW x \in Record, NEW k \in Nat, x.life = "open"
  PROVE  LET y == Sent(x, k)
         IN  /\ y \in Record /\ SameRest(x, y) /\ y.pending \in {0, Batch}
             /\ y.accepted = x.accepted + k /\ y.arrived = x.arrived
             /\ y.read = x.read /\ y.air = x.air
<1> DEFINE a == Added(x, k)
           n == a.accepted + k
           y == [a EXCEPT !.accepted = n]
<1>1. a \in Record /\ SameFlow(x, a) /\ SameRest(x, a)
  BY AddedFacts
<1>2. n \in Nat /\ n = x.accepted + k
  BY <1>1, RecordTypes, SMTT(30) DEF SameFlow
<1>3. Sent(x, k) = Submit(y)
  BY DEF Sent
<1> HIDE DEF a, n
<1>4. /\ y \in Record /\ SameRest(x, y) /\ y.accepted = n
      /\ y.arrived = x.arrived /\ y.read = x.read /\ y.air = x.air
  BY <1>1, <1>2 DEF Record, SameFlow, SameRest
<1> HIDE DEF y
<1>5. QED
  BY <1>2, <1>3, <1>4, SubmitFacts DEF SameFlow, SameRest

(* The stream of a connection that ends.                                              *)
LEMMA ShutFacts ==
  ASSUME NEW x \in Record
  PROVE  LET y == Shut(x)
         IN  /\ y \in Record /\ SameFlow(x, y) /\ y.life \notin Alive /\ y.pending = 0
             /\ y.fin = x.fin /\ (y.life = "none" <=> x.life = "none")
             /\ y.life # "leaving"
<1> DEFINE l == IF x.life \in Alive THEN "closed" ELSE x.life
           y == [x EXCEPT !.life = l, !.pending = 0]
<1>1. /\ l \in Life /\ l \notin Alive /\ 0 \in 0..Batch /\ l # "leaving"
      /\ l = "none" <=> x.life = "none"
  BY RecordTypes, ConstTypes, SMTT(30) DEF Life, Alive
<1>2. Shut(x) = y
  BY DEF Shut
<1> HIDE DEF l
<1>3. y \in Record /\ SameFlow(x, y) /\ y.life = l /\ y.pending = 0 /\ y.fin = x.fin
  BY <1>1 DEF Record, SameFlow
<1> HIDE DEF y
<1>4. QED
  BY <1>1, <1>2, <1>3

(* The loop of peek_size and recv.                                                    *)
LEMMA ReadAllFacts ==
  ASSUME NEW x \in Record
  PROVE  LET y == ReadAll(x)
         IN  /\ y \in Record /\ y.life = x.life /\ y.fin = x.fin /\ y.pending = x.pending
             /\ y.accepted = x.accepted /\ y.arrived = x.arrived /\ y.air = x.air
             /\ y.read = x.arrived /\ y.readable = FALSE
<1> DEFINE a == [x EXCEPT !.readable = FALSE]
           b == [x EXCEPT !.readable = FALSE, !.read = x.arrived, !.rblock = TRUE]
<1>1. /\ a \in Record /\ a.life = x.life /\ a.fin = x.fin /\ a.pending = x.pending
      /\ a.accepted = x.accepted /\ a.arrived = x.arrived /\ a.air = x.air
      /\ a.read = x.read /\ a.readable = FALSE
  BY DEF Record
<1>2. /\ b \in Record /\ b.life = x.life /\ b.fin = x.fin /\ b.pending = x.pending
      /\ b.accepted = x.accepted /\ b.arrived = x.arrived /\ b.air = x.air
      /\ b.read = x.arrived /\ b.readable = FALSE
  BY DEF Record
<1>3. ReadAll(x) = IF x.arrived = x.read THEN a ELSE b
  BY DEF ReadAll
<1> HIDE DEF a, b
<1>4. QED
  BY <1>1, <1>2, <1>3

(* kcpmux_engine_input of a payload.                                                  *)
LEMMA PayloadFacts ==
  ASSUME NEW x \in Record, NEW n \in Nat
  PROVE  LET y == Payload(x, n)
         IN  /\ y \in Record /\ y.life = x.life /\ y.fin = x.fin /\ y.arrived = n
             /\ y.accepted = x.accepted /\ y.read = x.read /\ y.air = x.air
             /\ y.readable => x.readable \/ n > x.read
<1> DEFINE a == Added(x, 1)
           y == [a EXCEPT !.arrived = n]
           z == [y EXCEPT !.rblock = FALSE, !.readable = TRUE]
<1>1. a \in Record /\ SameFlow(x, a) /\ SameRest(x, a)
  BY AddedFacts
<1>2. Payload(x, n) =
        IF y.life = "open" /\ y.rblock /\ y.arrived > y.read THEN z ELSE y
  BY DEF Payload
<1> HIDE DEF a
<1>3. /\ y \in Record /\ SameRest(x, y) /\ y.arrived = n
      /\ y.accepted = x.accepted /\ y.read = x.read /\ y.air = x.air
  BY <1>1 DEF Record, SameFlow, SameRest
<1> HIDE DEF y
<1>4. /\ z \in Record /\ z.life = y.life /\ z.fin = y.fin /\ z.arrived = y.arrived
      /\ z.accepted = y.accepted /\ z.read = y.read /\ z.air = y.air
  BY <1>3 DEF Record
<1> HIDE DEF z
<1>5. QED
  BY <1>2, <1>3, <1>4 DEF SameRest

-----------------------------------------------------------------------------
(* A step of one program                                                        *)

(* How the counts of a stream change at the end e that acts, z being the peer's       *)
(* record: more may arrive of what the peer sent; the client reads everything; the     *)
(* server echoes everything; the client starts.  The server learns of a stream from    *)
(* what the client has on its way.                                                     *)
Moved(e, x, y, z) ==
  /\ y.air <= y.accepted
  /\ y.life = "none" => x.life = "none" /\ y.accepted = x.accepted
  /\ e = "server" /\ x.life = "none" => y.life = "none" \/ z.air > 0
  /\ \/ /\ y.accepted = x.accepted /\ y.read = x.read
        /\ x.arrived <= y.arrived /\ y.arrived <= z.accepted
     \/ /\ e = "client" /\ y.accepted = x.accepted /\ y.arrived = x.arrived
        /\ y.read = x.arrived
     \/ /\ e = "server" /\ y.accepted = x.arrived /\ y.arrived = x.arrived
        /\ y.read = x.arrived
     \/ /\ e = "client" /\ x.life = "none" /\ y.accepted <= Messages
        /\ y.arrived = 0 /\ y.read = 0

(* The other end keeps its records; what it sent may be on its way no longer.           *)
Quiet(x, y) ==
  /\ y.accepted = x.accepted /\ y.arrived = x.arrived /\ y.read = x.read
  /\ y.air \in {x.air, Nothing} /\ SameRest(x, y) /\ y.pending = x.pending
Leaves(e, f) ==
  /\ io' \in [End -> [Streams -> Record]] /\ io'[e] = f
  /\ \A d \in End, i \in Streams : d # e => Quiet(io[d][i], io'[d][i])

(* What main of e may end with, its streams left as f.                                *)
Told(e, r, p, f) ==
  /\ r \in Results(e) /\ (r # "running" => p = "exit")
  /\ e = "client" /\ r = "ok" => AllEchoed
  /\ e = "client" /\ r = "start" =>
       \A i \in Streams : io["client"][i].life = "none" /\ f[i].air <= 0
  /\ e = "server" /\ r = "echo" => CutOff(f)

(* The end e acts and leaves its streams as f, its program at p, its connection in c, *)
(* its wake-up at w and its result r.                                                 *)
Acts(e, f, p, c, w, r) ==
  /\ pc[e] # "exit"
  /\ Leaves(e, f) /\ pc' = [pc EXCEPT ![e] = p]
  /\ conn' = [conn EXCEPT ![e] = c] /\ wake' = [wake EXCEPT ![e] = w]
  /\ result' = [result EXCEPT ![e] = r]
  /\ p \in {"connect", "loop", "select", "input", "process", "exit"}
  /\ c \in {"none", "connecting", "open", "closed", "idle"}
  /\ w \in {"none", "later", "due"}
  /\ Wakeful(f, c, w, p) /\ Told(e, r, p, f)
  /\ \A i \in Streams : Sane(e, f[i]) /\ Moved(e, io[e][i], f[i], io[Peer(e)][i])

(* The two ends.                                                                      *)
LEMMA Ends ==
  /\ "client" \in End /\ "server" \in End
  /\ Peer("client") = "server" /\ Peer("server") = "client"
  /\ \A e \in End : /\ Peer(e) \in End /\ Peer(e) # e /\ Peer(Peer(e)) = e
                    /\ \A d \in End : d = e \/ d = Peer(e)
BY DEF End, Peer

(* The counts of a stream stay in order when one end moves.                            *)
LEMMA MovedFlows ==
  ASSUME NEW x \in Record, NEW y \in Record, NEW z \in Record, NEW q \in Record, Flows(x, y)
  PROVE  /\ Moved("client", x, z, y) /\ Quiet(y, q) => Flows(z, q)
         /\ Moved("server", y, z, x) /\ Quiet(x, q) => Flows(q, z) /\ z.read >= y.read
<1>1. Moved("client", x, z, y) /\ Quiet(y, q) => Flows(z, q)
  BY RecordTypes, ConstTypes, SMTT(30) DEF Moved, Flows, Quiet, Nothing, SameRest
<1>2. Moved("server", y, z, x) /\ Quiet(x, q) => Flows(q, z) /\ z.read >= y.read
  BY RecordTypes, ConstTypes, SMTT(30) DEF Moved, Flows, Quiet, Nothing, SameRest
<1>3. QED
  BY <1>1, <1>2

(* What is quiet stays as it should be.                                                *)
LEMMA QuietKeeps ==
  ASSUME NEW e, NEW x \in Record, NEW y \in Record, Quiet(x, y)
  PROVE  /\ Sane(e, x) => Sane(e, y)
         /\ x.air <= 0 => y.air <= 0
<1>1. Sane(e, x) => Sane(e, y)
  BY DEF Quiet, Sane, SameRest
<1>2. x.air <= 0 => y.air <= 0
  BY SMTT(30) DEF Quiet, Nothing
<1>3. QED
  BY <1>1, <1>2

(* A step of one end keeps the invariant.                                              *)
LEMMA ActsStep ==
  ASSUME Inv, NEW e \in End, NEW f, NEW p, NEW c, NEW w, NEW r, Acts(e, f, p, c, w, r)
  PROVE  Inv'
<1>0. /\ Typed /\ \A i \in Streams : Flows(io["client"][i], io["server"][i])
      /\ \A d \in End : io[d] \in [Streams -> Record]
      /\ \A d \in End, i \in Streams : io[d][i] \in Record
      /\ \A d \in End, i \in Streams : io'[d][i] \in Record
      /\ r \in Results(e) /\ r \in {"running", "ok", "failed", "start", "echo"}
  BY DEF Inv, Typed, Acts, Leaves, Told, Results
<1>1. Typed'
  BY <1>0 DEF Typed, Acts, Leaves
<1>2. ASSUME NEW d \in End
      PROVE  /\ Wakeful(io[d], conn[d], wake[d], pc[d])'
             /\ result'[d] \in Results(d) /\ (result'[d] # "running" => pc'[d] = "exit")
             /\ \A i \in Streams : Sane(d, io'[d][i])
  <2>1. CASE d = e
    <3>1. /\ io'[e] = f /\ conn'[e] = c /\ wake'[e] = w /\ pc'[e] = p
          /\ result'[e] = r
      BY <1>0 DEF Acts, Leaves, Typed
    <3>2. QED
      BY <2>1, <3>1 DEF Acts, Wakeful, Told
  <2>2. CASE d # e
    <3>1. /\ conn'[d] = conn[d] /\ wake'[d] = wake[d] /\ pc'[d] = pc[d]
          /\ result'[d] = result[d]
      BY <1>0, <2>2 DEF Acts, Typed
    <3>2. \A i \in Streams : Quiet(io[d][i], io'[d][i])
      BY <2>2 DEF Acts, Leaves
    <3>3. \A i \in Streams : Sane(d, io'[d][i])
      BY <1>0, <3>2, QuietKeeps DEF Inv
    <3>4. Wakeful(io[d], conn[d], wake[d], pc[d])'
      <4>1. Wakeful(io[d], conn[d], wake[d], pc[d])
        BY DEF Inv
      <4>2. \A i \in Streams : /\ io'[d][i].life = io[d][i].life
                               /\ io'[d][i].pending = io[d][i].pending
        BY <3>2 DEF Quiet, SameRest
      <4>3. QED
        BY <3>1, <4>1, <4>2 DEF Wakeful
    <3>5. QED
      BY <3>1, <3>3, <3>4 DEF Inv
  <2>3. QED
    BY <2>1, <2>2
<1>3. ASSUME NEW i \in Streams
      PROVE  /\ Flows(io'["client"][i], io'["server"][i])
             /\ io'["server"][i].read >= io["server"][i].read
  <2>0. /\ io'[e][i] \in Record /\ Moved(e, io[e][i], io'[e][i], io[Peer(e)][i])
        /\ io'[Peer(e)][i] \in Record /\ Quiet(io[Peer(e)][i], io'[Peer(e)][i])
    BY <1>0, Ends DEF Acts, Leaves
  <2>1. CASE e = "client"
    <3>1. Peer(e) = "server"
      BY <2>1 DEF Peer
    <3>2. io["server"][i].read \in Nat /\ io'["server"][i].read = io["server"][i].read
      BY <1>0, <2>0, <3>1, RecordTypes, Ends DEF Quiet
    <3>3. io'["server"][i].read >= io["server"][i].read
      BY <3>2, SMTT(30)
    <3>4. QED
      BY <1>0, <2>0, <2>1, <3>1, <3>3, MovedFlows, Ends
  <2>2. CASE e = "server"
    <3>1. Peer(e) = "client"
      BY <2>2 DEF Peer
    <3>2. QED
      BY <1>0, <2>0, <2>2, <3>1, MovedFlows, Ends
  <2>3. QED
    BY <2>1, <2>2 DEF End
<1>4. AllEchoed => AllEchoed'
  <2> SUFFICES ASSUME AllEchoed, NEW i \in Streams PROVE io'["server"][i].read = Messages
    BY DEF AllEchoed
  <2>1. /\ io["server"][i].read = Messages
        /\ Flows(io'["client"][i], io'["server"][i])
        /\ io'["server"][i].read >= io["server"][i].read
    BY <1>3 DEF AllEchoed
  <2> DEFINE x == io'["client"][i]
             y == io'["server"][i]
  <2>2. x \in Record /\ y \in Record
    BY <1>0, Ends
  <2> HIDE DEF x, y
  <2>3. Flows(x, y) /\ y.read >= Messages
    BY <2>1 DEF x, y
  <2>4. y.read = Messages
    BY <2>2, <2>3, RecordTypes, ConstTypes, SMTT(30) DEF Flows
  <2>5. QED
    BY <2>4 DEF y
<1>5. CASE e = "client"
  <2>1. /\ result'["client"] = r /\ result'["server"] = result["server"]
        /\ Peer(e) = "server" /\ io'["client"] = f
        /\ \A i \in Streams : Quiet(io["server"][i], io'["server"][i])
    BY <1>0, <1>5, Ends DEF Acts, Leaves, Typed
  <2>2. r = "start" => Unheard'
    BY <1>0, <1>5, <2>1 DEF Acts, Told, Unheard, Flows, Quiet, SameRest
  <2>3. CutOff(io["server"]) => CutOff(io'["server"])
    BY <2>1 DEF CutOff, Quiet, SameRest
  <2>4. r = "ok" => AllEchoed'
    BY <1>4, <1>5 DEF Acts, Told
  <2>5. QED
    BY <1>1, <1>2, <1>3, <2>1, <2>2, <2>3, <2>4 DEF Inv
<1>6. CASE e = "server"
  <2>1. /\ result'["server"] = r /\ result'["client"] = result["client"]
        /\ Peer(e) = "client" /\ io'["server"] = f
        /\ \A i \in Streams : Quiet(io["client"][i], io'["client"][i])
    BY <1>0, <1>6, Ends DEF Acts, Leaves, Typed
  <2>2. ASSUME Unheard, NEW i \in Streams
        PROVE  io'["server"][i].life = "none" /\ io'["client"][i].air <= 0
    <3>1. io["server"][i].life = "none" /\ io["client"][i].air <= 0
      BY <2>2 DEF Unheard
    <3>2. io["client"][i].air \in Int
      BY <1>0, RecordTypes, Ends
    <3>3. ~(io["client"][i].air > 0)
      BY <3>1, <3>2, SMTT(30)
    <3>4. io'["server"][i].life = "none"
      BY <1>6, <2>1, <3>1, <3>3 DEF Acts, Moved
    <3>5. QED
      BY <1>0, <2>1, <3>1, <3>4, QuietKeeps, Ends
  <2>3. Unheard => Unheard'
    BY <2>2 DEF Unheard
  <2>4. r = "echo" => CutOff(io'["server"])
    BY <1>6, <2>1 DEF Acts, Told
  <2>5. QED
    BY <1>1, <1>2, <1>3, <1>4, <2>1, <2>3, <2>4 DEF Inv
<1>7. QED
  BY <1>5, <1>6 DEF End

(* What the invariant says of the end that acts.                                       *)
LEMMA Here ==
  ASSUME Inv, NEW e \in End
  PROVE  /\ io[e] \in [Streams -> Record] /\ Wakeful(io[e], conn[e], wake[e], pc[e])
         /\ pc[e] \in {"connect", "loop", "select", "input", "process", "exit"}
         /\ conn[e] \in {"none", "connecting", "open", "closed", "idle"}
         /\ wake[e] \in {"none", "later", "due"}
         /\ pc[e] # "exit" => result[e] = "running"
         /\ \A i \in Streams : /\ io[e][i] \in Record /\ Sane(e, io[e][i])
                               /\ Moved(e, io[e][i], io[e][i], io[Peer(e)][i])
<1>1. \A i \in Streams : io[e][i] \in Record /\ Flows(io["client"][i], io["server"][i])
  BY DEF Inv, Typed
<1>2. ASSUME NEW i \in Streams PROVE Moved(e, io[e][i], io[e][i], io[Peer(e)][i])
  <2>1. io[e][i].arrived <= io[e][i].arrived
    BY <1>1, RecordTypes, SMTT(30)
  <2>2. CASE e = "client"
    BY <1>1, <2>1, <2>2, Ends DEF Moved, Flows
  <2>3. CASE e = "server"
    BY <1>1, <2>1, <2>3, Ends DEF Moved, Flows
  <2>4. QED
    BY <2>2, <2>3 DEF End
<1>3. QED
  BY <1>1, <1>2 DEF Inv, Typed

(* A variable that does not change, written as a change at e.                           *)
LEMMA Kept ==
  ASSUME Inv, NEW e \in End
  PROVE  /\ UNCHANGED pc => pc' = [pc EXCEPT ![e] = pc[e]]
         /\ UNCHANGED conn => conn' = [conn EXCEPT ![e] = conn[e]]
         /\ UNCHANGED wake => wake' = [wake EXCEPT ![e] = wake[e]]
         /\ UNCHANGED io => io' = [io EXCEPT ![e] = io[e]]
         /\ UNCHANGED result /\ pc[e] # "exit" => result' = [result EXCEPT ![e] = "running"]
BY DEF Inv, Typed

(* A program that goes on has told nothing.                                             *)
LEMMA GoesOn ==
  ASSUME NEW e \in End, NEW p, NEW f
  PROVE  Told(e, "running", p, f)
BY DEF Told, Results

(* Only the streams of e change.                                                         *)
LEMMA Alone ==
  ASSUME Inv, NEW e \in End, NEW f \in [Streams -> Record], io' = [io EXCEPT ![e] = f]
  PROVE  Leaves(e, f)
<1>1. io \in [End -> [Streams -> Record]]
  BY DEF Inv, Typed
<1>2. io' \in [End -> [Streams -> Record]] /\ io'[e] = f /\ \A d \in End : d # e => io'[d] = io[d]
  BY <1>1
<1>3. QED
  BY <1>2 DEF Leaves, Quiet, SameRest

(* demo_set_timer: what WakeFor does to the wake-up of e.                               *)
LEMMA WakeForFacts ==
  ASSUME Inv, NEW e \in End, NEW f
  PROVE  LET v == WakeFor(e, f)[e]
         IN  /\ WakeFor(e, f) = [wake EXCEPT ![e] = v]
             /\ v \in {"none", "later", "due"}
             /\ (\E i \in Streams : f[i].pending = Batch) => v = "due"
             /\ v # "due" => v = wake[e]
<1> DEFINE b == \E i \in Streams : f[i].pending = Batch
           v == IF b THEN "due" ELSE wake[e]
<1>1. wake \in [End -> {"none", "later", "due"}]
  BY DEF Inv, Typed
<1>2. WakeFor(e, f) = [wake EXCEPT ![e] = v]
  BY DEF WakeFor
<1>3. v \in {"none", "later", "due"} /\ (b => v = "due") /\ (v # "due" => v = wake[e])
  BY <1>1
<1> HIDE DEF v, b
<1>4. WakeFor(e, f)[e] = v
  BY <1>1, <1>2
<1>5. QED
  BY <1>2, <1>3, <1>4 DEF b

(* A step of e that changes only its streams, its place and its wake-up.                 *)
LEMMA PlainStep ==
  ASSUME Inv, NEW e \in End, pc[e] # "exit", NEW f, Leaves(e, f),
         NEW p \in {"loop", "select", "input", "process"}, NEW w \in {"none", "later", "due"},
         pc' = [pc EXCEPT ![e] = p], wake' = [wake EXCEPT ![e] = w],
         UNCHANGED <<result, conn>>, Wakeful(f, conn[e], w, p),
         \A i \in Streams : Sane(e, f[i]) /\ Moved(e, io[e][i], f[i], io[Peer(e)][i])
  PROVE  Inv'
<1>1. Acts(e, f, p, conn[e], w, "running")
  BY Here, Kept, GoesOn DEF Acts
<1>2. QED
  BY <1>1, ActsStep

(* A step of e after which demo_set_timer has been called for its streams.               *)
LEMMA TimedStep ==
  ASSUME Inv, NEW e \in End, pc[e] # "exit", NEW f, Leaves(e, f),
         NEW p \in {"loop", "select", "input", "process"},
         pc' = [pc EXCEPT ![e] = p], wake' = WakeFor(e, io'[e]),
         UNCHANGED <<result, conn>>,
         \A i \in Streams :
           /\ f[i].life \notin Alive => f[i].pending = 0
           /\ f[i].life \in Alive => conn[e] = "open"
           /\ f[i].life = "open" /\ p # "input" => f[i].pending \in {0, Batch}
           /\ Sane(e, f[i]) /\ Moved(e, io[e][i], f[i], io[Peer(e)][i])
  PROVE  Inv'
<1> DEFINE w == WakeFor(e, f)[e]
<1>1. io'[e] = f
  BY DEF Leaves
<1>2. /\ wake' = [wake EXCEPT ![e] = w] /\ w \in {"none", "later", "due"}
      /\ (\E i \in Streams : f[i].pending = Batch) => w = "due"
      /\ w # "due" => w = wake[e]
  BY <1>1, WakeForFacts
<1> HIDE DEF w
<1>3. Wakeful(f, conn[e], w, p)
  BY <1>2, Here DEF Wakeful
<1>4. QED
  BY <1>2, <1>3, PlainStep

(* One stream of e changes.                                                              *)
LEMMA OneStream ==
  ASSUME Inv, NEW e \in End, NEW i \in Streams, NEW y \in Record
  PROVE  LET f == [io[e] EXCEPT ![i] = y]
         IN  f \in [Streams -> Record] /\ \A j \in Streams : f[j] = IF j = i THEN y ELSE io[e][j]
BY Here

(* Closing every stream of an end.                                                      *)
LEMMA ShutAll ==
  ASSUME Inv, NEW e \in End, NEW g \in [Streams -> Record],
         \A i \in Streams : Moved(e, io[e][i], g[i], io[Peer(e)][i])
  PROVE  LET f == [i \in Streams |-> Shut(g[i])]
         IN  /\ f \in [Streams -> Record]
             /\ \A i \in Streams : /\ SameFlow(g[i], f[i]) /\ f[i].fin = g[i].fin
                                   /\ Sane(e, f[i])
                                   /\ Moved(e, io[e][i], f[i], io[Peer(e)][i])
             /\ \A c, w, p : /\ c \notin {"connecting", "open"}
                             /\ p # "connect"
                             => Wakeful(f, c, w, p)
<1> DEFINE f == [i \in Streams |-> Shut(g[i])]
<1>1. ASSUME NEW i \in Streams
      PROVE  /\ f[i] \in Record /\ SameFlow(g[i], f[i]) /\ f[i].life \notin Alive
             /\ f[i].pending = 0 /\ f[i].fin = g[i].fin /\ f[i].life # "leaving"
             /\ f[i].life = "none" <=> g[i].life = "none"
  BY ShutFacts
<1>2. f \in [Streams -> Record]
  BY <1>1
<1> HIDE DEF f
<1>3. \A i \in Streams : Moved(e, io[e][i], f[i], io[Peer(e)][i])
  BY <1>1 DEF Moved, SameFlow
<1>4. \A i \in Streams : Sane(e, f[i])
  BY <1>1 DEF Sane, Alive
<1>5. Batch # 0
  BY ConstTypes, SMTT(30)
<1>6. ASSUME NEW c, NEW w, NEW p, c \notin {"connecting", "open"}, p # "connect"
      PROVE  Wakeful(f, c, w, p)
  BY <1>1, <1>5, <1>6 DEF Wakeful
<1>7. QED
  BY <1>1, <1>2, <1>3, <1>4, <1>6 DEF f

(* demo_endpoint_cleanup and the return from main, the streams being g before it.         *)
LEMMA ExitStep ==
  ASSUME Inv, NEW e \in End, pc[e] # "exit", NEW g \in [Streams -> Record],
         \A i \in Streams : Moved(e, io[e][i], g[i], io[Peer(e)][i]),
         NEW how \in Results(e),
         how = "ok" => AllEchoed,
         how = "start" => \A i \in Streams : io[e][i].life = "none" /\ g[i].air <= 0,
         how = "echo" => CutOff(g),
         ExitWith(e, how, g)
  PROVE  Inv'
<1> DEFINE f == [i \in Streams |-> Shut(g[i])]
           c == IF Exists(e) THEN "closed" ELSE conn[e]
<1>1. c \notin {"connecting", "open"} /\ c \in {"none", "connecting", "open", "closed", "idle"}
  BY Here DEF Exists
<1>2. /\ io' = [io EXCEPT ![e] = f] /\ conn' = [conn EXCEPT ![e] = c]
      /\ pc' = [pc EXCEPT ![e] = "exit"] /\ wake' = [wake EXCEPT ![e] = "none"]
      /\ result' = [result EXCEPT ![e] = how]
  BY DEF ExitWith, CloseAll, Goto
<1> HIDE DEF c
<1>3. /\ f \in [Streams -> Record]
      /\ \A i \in Streams : /\ SameFlow(g[i], f[i]) /\ f[i].fin = g[i].fin
                            /\ Sane(e, f[i])
                            /\ Moved(e, io[e][i], f[i], io[Peer(e)][i])
      /\ Wakeful(f, c, "none", "exit")
  BY <1>1, ShutAll
<1> HIDE DEF f
<1>4. Told(e, how, "exit", f)
  BY <1>3 DEF Told, CutOff, SameFlow
<1>5. Acts(e, f, "exit", c, "none", how)
  BY <1>1, <1>2, <1>3, <1>4, Alone DEF Acts
<1>6. QED
  BY <1>5, ActsStep

(* A program that gives up.                                                               *)
LEMMA GivesUp ==
  ASSUME Inv, NEW e \in End, pc[e] # "exit", Exit(e, "failed")
  PROVE  Inv'
<1>1. "failed" \in Results(e)
  BY DEF Results
<1>2. QED
  BY <1>1, Here, ExitStep DEF Exit

(* A socket that fails ends the program, and so does a lack of memory or the deadline.    *)
LEMMA FailStep ==
  ASSUME Inv, (\E e \in End : SocketFails(e)) \/ EchoWithoutMemory \/ Deadline
  PROVE  Inv'
<1>1. PICK e \in End : pc[e] # "exit" /\ Exit(e, "failed")
  BY Ends DEF SocketFails, EchoWithoutMemory, Deadline
<1>2. QED
  BY <1>1, GivesUp

(* select returns or is interrupted.                                                      *)
LEMMA SelectStep ==
  ASSUME Inv, NEW e \in End, SelectReturns(e) \/ SelectInterrupted(e)
  PROVE  Inv'
<1>1. PICK p \in {"input", "process"} :
        pc[e] = "select" /\ pc' = [pc EXCEPT ![e] = p] /\ UNCHANGED <<result, conn, io, wake>>
  BY DEF SelectReturns, SelectInterrupted, Goto
<1>2. Wakeful(io[e], conn[e], wake[e], p)
  BY <1>1, Here DEF Wakeful
<1>3. QED
  BY <1>1, <1>2, Here, Kept, Alone, PlainStep

(* CONN_CLOSE of the peer, or the peer is found silent.                                  *)
LEMMA ConnEndsStep ==
  ASSUME Inv, NEW e \in End, CloseArrives(e) \/ LosesPeer(e)
  PROVE  Inv'
<1> DEFINE f == [i \in Streams |-> Shut(io[e][i])]
<1>1. PICK c \in {"closed", "idle"}, p \in {"input", "process"}, w \in {wake[e], "none"} :
        /\ io' = [io EXCEPT ![e] = f] /\ conn' = [conn EXCEPT ![e] = c]
        /\ pc' = [pc EXCEPT ![e] = p] /\ wake' = [wake EXCEPT ![e] = w]
        /\ UNCHANGED result /\ pc[e] # "exit"
  <2>1. CASE CloseArrives(e)
    BY <2>1, Kept DEF CloseArrives, CloseAll
  <2>2. CASE LosesPeer(e)
    BY <2>2 DEF LosesPeer, CloseAll, Goto, AtClock
  <2>3. QED
    BY <2>1, <2>2
<1>2. /\ f \in [Streams -> Record]
      /\ \A i \in Streams : Sane(e, f[i]) /\ Moved(e, io[e][i], f[i], io[Peer(e)][i])
      /\ Wakeful(f, c, w, p)
  BY Here, ShutAll
<1> HIDE DEF f
<1>3. Acts(e, f, p, c, w, "running")
  BY <1>1, <1>2, Here, Kept, Alone, GoesOn DEF Acts
<1>4. QED
  BY <1>3, ActsStep

(* A loss takes what is on its way; the end it comes from may have ended.                 *)
LEMMA LoseStep ==
  ASSUME Inv, NEW e \in End, NEW i \in Streams, Lose(e, i)
  PROVE  Inv'
<1> DEFINE x == [io[e][i] EXCEPT !.air = Nothing]
           f == [io[e] EXCEPT ![i] = x]
<1>0. /\ io \in [End -> [Streams -> Record]] /\ io[e][i] \in Record
      /\ \A d \in End, j \in Streams : io[d][j] \in Record
  BY DEF Inv, Typed
<1>1. x \in Record /\ Quiet(io[e][i], x)
  BY <1>0 DEF Record, Quiet, SameRest
<1>2. io' = [io EXCEPT ![e] = f] /\ UNCHANGED <<pc, result, conn, wake>>
  BY DEF Lose
<1> HIDE DEF x
<1>3. f \in [Streams -> Record] /\ \A j \in Streams : f[j] = IF j = i THEN x ELSE io[e][j]
  BY <1>1, OneStream
<1> HIDE DEF f
<1>4. io' \in [End -> [Streams -> Record]] /\ io'[e] = f /\ \A d \in End : d # e => io'[d] = io[d]
  BY <1>0, <1>2, <1>3
<1>5. ASSUME NEW d \in End, NEW j \in Streams
      PROVE  Quiet(io[d][j], io'[d][j]) /\ io'[d][j] \in Record
  BY <1>1, <1>3, <1>4 DEF Quiet, SameRest
<1>6. Typed'
  BY <1>2, <1>4 DEF Inv, Typed
<1>7. ASSUME NEW d \in End
      PROVE  Wakeful(io'[d], conn[d], wake[d], pc[d]) /\ \A j \in Streams : Sane(d, io'[d][j])
  <2>1. \A j \in Streams : Sane(d, io'[d][j])
    BY <1>0, <1>5, QuietKeeps DEF Inv
  <2>2. \A j \in Streams : io'[d][j].life = io[d][j].life /\ io'[d][j].pending = io[d][j].pending
    BY <1>5 DEF Quiet, SameRest
  <2>3. Wakeful(io[d], conn[d], wake[d], pc[d])
    BY DEF Inv
  <2>4. QED
    BY <2>1, <2>2, <2>3 DEF Wakeful
<1>8. ASSUME NEW j \in Streams PROVE Flows(io'["client"][j], io'["server"][j])
  <2> DEFINE a == io["client"][j]
             b == io["server"][j]
             s == io'["client"][j]
             t == io'["server"][j]
  <2>1. /\ a \in Record /\ b \in Record /\ s \in Record /\ t \in Record
        /\ Flows(a, b) /\ Quiet(a, s) /\ Quiet(b, t)
    BY <1>0, <1>5, Ends DEF Inv
  <2> HIDE DEF a, b, s, t
  <2>2. Flows(s, t)
    BY <2>1, RecordTypes, SMTT(30) DEF Flows, Quiet, SameRest, Nothing
  <2>3. QED
    BY <2>2 DEF s, t
<1>9. AllEchoed => AllEchoed'
  BY <1>5, Ends DEF AllEchoed, Quiet
<1>10. Unheard => Unheard'
  <2>1. ASSUME Unheard, NEW j \in Streams
        PROVE  io'["server"][j].life = "none" /\ io'["client"][j].air <= 0
    <3>1. io["server"][j].life = "none" /\ io["client"][j].air <= 0
      BY <2>1 DEF Unheard
    <3>2. io'["client"][j].air <= 0
      BY <1>0, <1>5, <3>1, Ends, QuietKeeps
    <3>3. io'["server"][j].life = "none"
      BY <1>5, <3>1, Ends DEF Quiet, SameRest
    <3>4. QED
      BY <3>2, <3>3
  <2>2. QED
    BY <2>1 DEF Unheard
<1>11. CutOff(io["server"]) => CutOff(io'["server"])
  BY <1>5, Ends DEF CutOff, Quiet, SameRest
<1>12. QED
  BY <1>2, <1>6, <1>7, <1>8, <1>9, <1>10, <1>11 DEF Inv

-----------------------------------------------------------------------------
(* The clock and kcpmux_engine_update                                           *)

(* After the recv loop no open stream has an open batch.                                 *)
LEMMA HeardFacts ==
  ASSUME Inv, NEW e \in End
  PROVE  /\ Heard(e) \in [Streams -> Record]
         /\ \A i \in Streams : LET x == Heard(e)[i]
              IN  /\ x \in Record /\ SameFlow(io[e][i], x) /\ SameRest(io[e][i], x)
                  /\ x.life = "open" => x.pending \in {0, Batch}
                  /\ x.life \notin Alive => x.pending = 0
                  /\ Sane(e, x) /\ Moved(e, io[e][i], x, io[Peer(e)][i])
<1> DEFINE h(i) == IF pc[e] = "input" THEN Submit(io[e][i]) ELSE io[e][i]
<1>1. ASSUME NEW i \in Streams
      PROVE  /\ h(i) \in Record /\ SameFlow(io[e][i], h(i)) /\ SameRest(io[e][i], h(i))
             /\ h(i).life = "open" => h(i).pending \in {0, Batch}
             /\ h(i).life \notin Alive => h(i).pending = 0
             /\ Sane(e, h(i)) /\ Moved(e, io[e][i], h(i), io[Peer(e)][i])
  <2>1. /\ io[e][i] \in Record /\ (io[e][i].life \notin Alive => io[e][i].pending = 0)
        /\ pc[e] # "input" /\ io[e][i].life = "open" => io[e][i].pending \in {0, Batch}
        /\ Sane(e, io[e][i]) /\ Moved(e, io[e][i], io[e][i], io[Peer(e)][i])
    BY Here DEF Wakeful
  <2>2. /\ h(i) \in Record /\ SameFlow(io[e][i], h(i)) /\ SameRest(io[e][i], h(i))
        /\ h(i).life = "open" => h(i).pending \in {0, Batch}
        /\ h(i).life \notin Alive => h(i).pending = 0
    <3>1. CASE pc[e] = "input"
      <4>1. "open" \in Alive
        BY DEF Alive
      <4>2. QED
        BY <2>1, <3>1, <4>1, SubmitFacts DEF SameRest
    <3>2. CASE pc[e] # "input"
      BY <2>1, <3>2 DEF SameFlow, SameRest
    <3>3. QED
      BY <3>1, <3>2
  <2> HIDE DEF h
  <2>3. Sane(e, h(i))
    BY <2>1, <2>2 DEF Sane, SameFlow, SameRest
  <2>4. Moved(e, io[e][i], h(i), io[Peer(e)][i])
    BY <2>1, <2>2 DEF Moved, SameFlow, SameRest
  <2>5. QED
    BY <2>2, <2>3, <2>4
<1>2. Heard(e) = [i \in Streams |-> h(i)]
  BY DEF Heard
<1> HIDE DEF h
<1>3. QED
  BY <1>1, <1>2

(* kcpmux_engine_update comes too early.                                                  *)
LEMMA NotYetStep ==
  ASSUME Inv, NEW e \in End, NotYet(e)
  PROVE  Inv'
<1> DEFINE f == Heard(e)
<1>1. /\ io' = [io EXCEPT ![e] = f] /\ pc' = [pc EXCEPT ![e] = "process"]
      /\ UNCHANGED <<result, conn, wake>> /\ WakeFor(e, f)[e] # "due" /\ pc[e] # "exit"
      /\ pc[e] # "connect"
  BY DEF NotYet, Goto, AtClock
<1> HIDE DEF f
<1>2. /\ f \in [Streams -> Record]
      /\ \A i \in Streams : /\ f[i].life = io[e][i].life
                            /\ f[i].life = "open" => f[i].pending \in {0, Batch}
                            /\ f[i].life \notin Alive => f[i].pending = 0
                            /\ Sane(e, f[i]) /\ Moved(e, io[e][i], f[i], io[Peer(e)][i])
  BY HeardFacts DEF f, SameRest
<1>3. \A i \in Streams : f[i].pending # Batch
  BY <1>1, WakeForFacts
<1>4. Wakeful(f, conn[e], wake[e], "process")
  BY <1>2, <1>3, Here DEF Wakeful
<1>5. QED
  BY <1>1, <1>2, <1>4, Here, Kept, Alone, PlainStep

(* kcpmux_stream_update of one stream.                                                    *)
LEMMA UpdatedFacts ==
  ASSUME Inv, NEW e \in End, NEW i \in Streams, NEW x \in Record, NEW t \in Turn, May(i, x, t),
         SameFlow(io[e][i], x), SameRest(io[e][i], x),
         x.life \notin Alive => x.pending = 0,
         Sane(e, x), Moved(e, io[e][i], x, io[Peer(e)][i])
  PROVE  LET y == Updated(e, i, x, t)
         IN  /\ y \in Record /\ y.pending \in {0, x.pending} /\ y.pending # Batch
             /\ y.life \in Alive => y.life = x.life
             /\ y.life \notin Alive => y.pending = 0
             /\ Sane(e, y) /\ Moved(e, io[e][i], y, io[Peer(e)][i])
<1> DEFINE a == InAir(e, i)
           s == [x EXCEPT !.air = a, !.pending = 0]
           y == IF Active(x) THEN s ELSE x
           n == [y EXCEPT !.fin = "normal"]
           l == IF Active(x) THEN "timeout" ELSE y.fin
           o == [y EXCEPT !.fin = l]
<1>1. a \in Nat \cup {Nothing} /\ a <= x.accepted /\ 0 \in 0..Batch /\ 0 # Batch
  <2>1. io[e][i] \in Record
    BY Here
  <2>2. a \in {io[e][i].accepted, Nothing}
    BY DEF InAir
  <2>3. QED
    BY <2>1, <2>2, RecordTypes, ConstTypes, SMTT(30) DEF SameFlow, Nothing
<1>2. /\ t = "idle" => Updated(e, i, x, t) = x
      /\ t = "runs" => Updated(e, i, x, t) = y
      /\ t = "drained" => Updated(e, i, x, t) = n
      /\ t = "over" => Updated(e, i, x, t) = Shut(o)
  BY DEF Updated
<1> HIDE DEF a
<1>3. /\ s \in Record /\ SameRest(x, s) /\ s.pending = 0 /\ s.air = a
      /\ s.accepted = x.accepted /\ s.arrived = x.arrived /\ s.read = x.read
  BY <1>1 DEF Record, SameRest
<1> HIDE DEF s
<1>4. /\ y \in Record /\ SameRest(x, y) /\ y.pending \in {0, x.pending}
      /\ y.accepted = x.accepted /\ y.arrived = x.arrived /\ y.read = x.read
      /\ y.air <= y.accepted /\ (Active(x) => y.pending = 0)
  BY <1>1, <1>3 DEF SameRest, Moved
<1> HIDE DEF y
<1>5. Sane(e, y) /\ Moved(e, io[e][i], y, io[Peer(e)][i])
  <2>1. Sane(e, y)
    BY <1>4 DEF Sane, SameRest
  <2>2. Moved(e, io[e][i], y, io[Peer(e)][i])
    BY <1>4 DEF Moved, SameRest
  <2>3. QED
    BY <2>1, <2>2
<1>6. CASE t = "idle"
  <2>1. x.pending # Batch
    BY <1>6, RecordTypes, ConstTypes, SMTT(30) DEF May
  <2>2. QED
    BY <1>2, <1>6, <2>1
<1>7. CASE t = "runs"
  <2>1. Active(x)
    BY <1>7 DEF May
  <2>2. QED
    BY <1>1, <1>2, <1>4, <1>5, <1>7, <2>1 DEF SameRest
<1>8. CASE t = "drained"
  <2>1. Active(x) /\ x.life = "leaving"
    BY <1>8 DEF May
  <2>2. /\ n \in Record /\ n.fin = "normal" /\ n.life = y.life /\ n.readable = y.readable
        /\ n.pending = y.pending /\ SameFlow(y, n)
    BY <1>4 DEF Record, SameFlow
  <2> HIDE DEF n
  <2>3. Sane(e, n)
    BY <1>5, <2>2 DEF Sane, SameFlow
  <2>4. Moved(e, io[e][i], n, io[Peer(e)][i])
    BY <1>5, <2>2 DEF Moved, SameFlow
  <2>5. QED
    BY <1>1, <1>2, <1>4, <1>8, <2>1, <2>2, <2>3, <2>4 DEF SameRest
<1>9. CASE t = "over"
  <2>1. l \in {"no", "normal", "timeout"}
    BY <1>4, RecordTypes
  <2> HIDE DEF l
  <2>2. o \in Record /\ o.life = y.life /\ SameFlow(y, o)
    BY <1>4, <2>1 DEF Record, SameFlow
  <2> HIDE DEF o
  <2> DEFINE z == Shut(o)
  <2>3. /\ z \in Record /\ SameFlow(o, z) /\ z.life \notin Alive /\ z.pending = 0
        /\ z.life # "leaving" /\ (z.life = "none" <=> o.life = "none")
    BY <2>2, ShutFacts
  <2> HIDE DEF z
  <2>4. Sane(e, z)
    BY <2>3 DEF Sane, Alive
  <2>5. Moved(e, io[e][i], z, io[Peer(e)][i])
    BY <1>5, <2>2, <2>3 DEF Moved, SameFlow
  <2>6. Updated(e, i, x, t) = z
    BY <1>2, <1>9 DEF z
  <2>7. QED
    BY <1>1, <2>3, <2>4, <2>5, <2>6
<1>10. QED
  BY <1>6, <1>7, <1>8, <1>9 DEF Turn

(* kcpmux_engine_update, each stream in its turn.                                         *)
LEMMA UpdatesStep ==
  ASSUME Inv, NEW e \in End, NEW turn \in [Streams -> Turn], Updates(e, turn)
  PROVE  Inv'
<1> DEFINE x == Heard(e)
           f == [i \in Streams |-> Updated(e, i, x[i], turn[i])]
           w == WakeAfterUpdate(e)
<1>1. /\ io' = [io EXCEPT ![e] = f] /\ pc' = [pc EXCEPT ![e] = "process"]
      /\ wake' = [wake EXCEPT ![e] = w] /\ UNCHANGED <<result, conn>>
      /\ \A i \in Streams : May(i, x[i], turn[i])
      /\ pc[e] # "exit" /\ pc[e] # "connect"
  BY DEF Updates, Goto, AtClock
<1>2. ASSUME NEW i \in Streams
      PROVE  /\ f[i] \in Record /\ f[i].pending # Batch
             /\ f[i].life \in Alive => f[i].life = io[e][i].life
             /\ f[i].life = "open" => f[i].pending = 0
             /\ f[i].life \notin Alive => f[i].pending = 0
             /\ Sane(e, f[i]) /\ Moved(e, io[e][i], f[i], io[Peer(e)][i])
  <2>1. /\ x[i] \in Record /\ SameFlow(io[e][i], x[i]) /\ SameRest(io[e][i], x[i])
        /\ x[i].life = "open" => x[i].pending \in {0, Batch}
        /\ x[i].life \notin Alive => x[i].pending = 0
        /\ Sane(e, x[i]) /\ Moved(e, io[e][i], x[i], io[Peer(e)][i])
    BY HeardFacts
  <2> HIDE DEF x
  <2> DEFINE y == Updated(e, i, x[i], turn[i])
  <2>2. /\ y \in Record /\ y.pending \in {0, x[i].pending} /\ y.pending # Batch
        /\ y.life \in Alive => y.life = x[i].life
        /\ y.life \notin Alive => y.pending = 0
        /\ Sane(e, y) /\ Moved(e, io[e][i], y, io[Peer(e)][i])
    BY <1>1, <2>1, UpdatedFacts
  <2>3. f[i] = y
    OBVIOUS
  <2> HIDE DEF y, f
  <2>4. "open" \in Alive
    BY DEF Alive
  <2>5. QED
    BY <2>1, <2>2, <2>3, <2>4 DEF SameRest
<1>3. f \in [Streams -> Record]
  BY <1>2
<1> HIDE DEF f
<1>4. w \in {"none", "later", "due"} /\ (Exists(e) => w # "none")
  BY DEF WakeAfterUpdate
<1> HIDE DEF w
<1>5. Wakeful(f, conn[e], w, "process")
  BY <1>2, <1>4, Here DEF Wakeful, Exists
<1>6. QED
  BY <1>1, <1>2, <1>3, <1>4, <1>5, Alone, PlainStep

-----------------------------------------------------------------------------
(* What arrives                                                                 *)

(* The handshake: a connection that opens has no streams yet.                            *)
LEMMA ConnOpensStep ==
  ASSUME Inv, ConnectArrives \/ AckArrives \/ Connect
  PROVE  Inv'
<1>1. PICK e \in End, c \in {"connecting", "open"}, w \in {"none", "later", "due"},
           p \in {"input", "loop"} :
        /\ conn' = [conn EXCEPT ![e] = c] /\ wake' = [wake EXCEPT ![e] = w]
        /\ pc' = [pc EXCEPT ![e] = p] /\ UNCHANGED <<result, io>>
        /\ conn[e] \in {"none", "connecting"} /\ w # "none" /\ pc[e] # "exit"
  <2>1. CASE ConnectArrives
    BY <2>1, Kept, Ends DEF ConnectArrives
  <2>2. CASE AckArrives
    <3>1. wake["client"] # "none" /\ wake["client"] \in {"none", "later", "due"}
      BY <2>2, Here, Ends DEF AckArrives, Wakeful
    <3>2. QED
      BY <2>2, <3>1, Kept, Ends DEF AckArrives
  <2>3. CASE Connect
    <3>1. conn["client"] = "none"
      BY <2>3, Here, Ends DEF Connect, Wakeful
    <3>2. QED
      BY <2>3, <3>1, Ends DEF Connect, Goto
  <2>4. QED
    BY <2>1, <2>2, <2>3
<1>2. Wakeful(io[e], c, w, p)
  <2>1. \A i \in Streams : io[e][i].life \notin Alive /\ io[e][i].pending = 0
    BY <1>1, Here DEF Wakeful
  <2>2. 0 # Batch
    BY ConstTypes, SMTT(30)
  <2>3. QED
    BY <1>1, <2>1, <2>2 DEF Wakeful
<1>3. Acts(e, io[e], p, c, w, "running")
  BY <1>1, <1>2, Here, Kept, Alone, GoesOn DEF Acts
<1>4. QED
  BY <1>3, ActsStep

(* A step that changes stream i at e, and what its peer has on the way in it.              *)
LEMMA Received ==
  ASSUME Inv, NEW e \in End, NEW i \in Streams, NEW y \in Record,
         NEW a \in {io[Peer(e)][i].air, Nothing},
         io' = [io EXCEPT ![e][i] = y, ![Peer(e)][i].air = a]
  PROVE  Leaves(e, [io[e] EXCEPT ![i] = y])
<1> DEFINE p == Peer(e)
           g == io[e]
           h == io[p]
           f == [g EXCEPT ![i] = y]
           z == [h[i] EXCEPT !.air = a]
           k == [h EXCEPT ![i] = z]
<1>0. /\ p \in End /\ p # e /\ io \in [End -> [Streams -> Record]]
      /\ g \in [Streams -> Record] /\ h \in [Streams -> Record]
      /\ g[i] \in Record /\ h[i] \in Record
  BY Ends, Here DEF Inv, Typed
<1>1. io' = [[io EXCEPT ![e] = f] EXCEPT ![p] = k]
  <2> HIDE DEF p
  <2>1. io' = [io EXCEPT ![e][i] = y, ![p][i].air = a]
    BY DEF p
  <2>2. QED
    BY <1>0, <2>1
<1>2. z \in Record /\ Quiet(h[i], z)
  <2>1. a \in Nat \cup {Nothing} /\ a \in {h[i].air, Nothing}
    BY <1>0, RecordTypes
  <2>2. QED
    BY <1>0, <2>1 DEF Record, Quiet, SameRest
<1> HIDE DEF z, p
<1>3. /\ f \in [Streams -> Record]
      /\ k \in [Streams -> Record] /\ \A j \in Streams : k[j] = IF j = i THEN z ELSE h[j]
  BY <1>0, <1>2
<1> HIDE DEF f, k
<1>4. /\ io' \in [End -> [Streams -> Record]] /\ io'[e] = f /\ io'[p] = k
  BY <1>0, <1>1, <1>3
<1>5. ASSUME NEW j \in Streams PROVE Quiet(io[p][j], io'[p][j])
  BY <1>2, <1>3, <1>4 DEF Quiet, SameRest
<1>6. \A d \in End : d # e => d = p
  BY Ends DEF p
<1>7. QED
  BY <1>4, <1>5, <1>6 DEF Leaves, f

(* Input that needs no timer.                                                              *)
LEMMA InputStep ==
  ASSUME Inv, NEW e \in End, NEW f, Leaves(e, f), pc[e] = "input",
         UNCHANGED <<pc, result, conn, wake>>, Wakeful(f, conn[e], wake[e], "input"),
         \A i \in Streams : Sane(e, f[i]) /\ Moved(e, io[e][i], f[i], io[Peer(e)][i])
  PROVE  Inv'
<1>1. /\ pc' = [pc EXCEPT ![e] = "input"] /\ wake' = [wake EXCEPT ![e] = wake[e]]
      /\ wake[e] \in {"none", "later", "due"}
  BY Here, Kept
<1>2. QED
  BY <1>1, PlainStep

(* Payload as far as message n, which the peer has sent; the first creates the stream    *)
(* at the server.                                                                        *)
LEMMA PayloadArrivesStep ==
  ASSUME Inv, NEW e \in End, NEW i \in Streams, NEW n \in Nat, n > 0, PayloadArrives(e, i, n)
  PROVE  Inv'
<1> DEFINE g == io[e][i]
           h == io[Peer(e)][i]
           x == IF g.life = "none" THEN Created(g) ELSE g
           y == Payload(x, n)
           a == IF n = h.air THEN Nothing ELSE h.air
           f == [io[e] EXCEPT ![i] = y]
<1>0. /\ g \in Record /\ h \in Record /\ Sane(e, g) /\ Moved(e, g, g, h)
  BY Ends, Here
<1>1. /\ pc[e] = "input" /\ conn[e] = "open" /\ n > g.arrived /\ n <= h.air
      /\ UNCHANGED <<pc, result, conn>> /\ wake' = WakeFor(e, io'[e])
      /\ Active(g) \/ (e = "server" /\ g.life = "none")
  <2>1. g.arrived \in Nat /\ h.air \in Int
    BY <1>0, RecordTypes
  <2>2. n \in (g.arrived + 1)..h.air
    BY DEF PayloadArrives
  <2>3. n > g.arrived /\ n <= h.air
    BY <2>1, <2>2, SMTT(30)
  <2>4. QED
    BY <2>3 DEF PayloadArrives
<1>2. io' = [io EXCEPT ![e][i] = y, ![Peer(e)][i].air = a]
  BY DEF PayloadArrives
<1>3. /\ y \in Record /\ y.life = x.life /\ y.fin = g.fin /\ y.arrived = n
      /\ y.accepted = g.accepted /\ y.read = g.read /\ y.air = g.air
      /\ y.readable => g.readable \/ n > g.read
      /\ x.life \in {"open", "leaving"}
      /\ x.life = IF g.life = "none" THEN "open" ELSE g.life
  <2>1. /\ x \in Record /\ x.life \in {"open", "leaving"} /\ x.fin = g.fin
        /\ SameFlow(g, x) /\ x.readable = g.readable
        /\ x.life = IF g.life = "none" THEN "open" ELSE g.life
    <3> DEFINE q == [g EXCEPT !.life = "open"]
    <3>1. /\ q \in Record /\ q.life = "open" /\ SameFlow(g, q) /\ q.fin = g.fin
          /\ q.readable = g.readable
      BY <1>0 DEF Record, SameFlow, Life, Alive
    <3>2. x = IF g.life = "none" THEN q ELSE g
      BY DEF Created
    <3> HIDE DEF q, x
    <3>3. SameFlow(g, g)
      BY DEF SameFlow
    <3>4. QED
      BY <1>0, <1>1, <3>1, <3>2, <3>3 DEF Active
  <2> HIDE DEF x
  <2>2. QED
    BY <2>1, PayloadFacts DEF SameFlow
<1>4. n <= h.accepted /\ g.air <= g.accepted /\ h.air > 0 /\ g.read <= g.arrived
  <2>1. Flows(io["client"][i], io["server"][i])
    BY DEF Inv
  <2>2. h.air \in Int /\ h.accepted \in Nat
    BY <1>0, RecordTypes
  <2>3. h.air <= h.accepted /\ g.air <= g.accepted /\ g.read <= g.arrived
    BY <2>1, Ends DEF End, Flows
  <2>4. QED
    BY <1>1, <2>2, <2>3, SMTT(30)
<1>5. n > g.read /\ g.arrived <= n
  BY <1>0, <1>1, <1>4, RecordTypes, SMTT(30)
<1>6. Sane(e, y)
  <2>1. n > g.read => g.read < n
    BY <1>0, RecordTypes, SMTT(30)
  <2>2. e = "server" => y.life # "leaving"
    BY <1>0, <1>1, <1>3 DEF Sane, Active
  <2>3. QED
    BY <1>3, <1>5, <2>1, <2>2 DEF Sane
<1>7. Moved(e, g, y, h)
  BY <1>0, <1>3, <1>4, <1>5 DEF Moved
<1>8. a \in {h.air, Nothing}
  OBVIOUS
<1> HIDE DEF x, y, a
<1>9. Leaves(e, f) /\ \A j \in Streams : f[j] = IF j = i THEN y ELSE io[e][j]
  BY <1>2, <1>3, <1>8, Received, OneStream
<1> HIDE DEF f
<1>10. \A j \in Streams :
           /\ f[j].life \notin Alive => f[j].pending = 0
           /\ f[j].life \in Alive => conn[e] = "open"
           /\ Sane(e, f[j]) /\ Moved(e, io[e][j], f[j], io[Peer(e)][j])
  <2>1. y.life \in Alive
    BY <1>3 DEF Alive
  <2>2. QED
    BY <1>1, <1>6, <1>7, <1>9, <2>1, Here DEF Wakeful
<1>11. pc' = [pc EXCEPT ![e] = "input"]
  BY <1>1, Kept
<1>12. QED
  BY <1>1, <1>9, <1>10, <1>11, TimedStep

(* A stream that is refused never has a batch at the server.                             *)
LEMMA StreamRefusedStep ==
  ASSUME Inv, NEW i \in Streams, StreamRefused(i)
  PROVE  Inv'
<1> DEFINE g == io["server"][i]
           h == io["client"][i]
           y == [g EXCEPT !.life = "refused"]
           f == [io["server"] EXCEPT ![i] = y]
<1>0. /\ g \in Record /\ Moved("server", g, g, h) /\ Peer("server") = "client"
      /\ Wakeful(io["server"], conn["server"], wake["server"], pc["server"])
  BY Ends, Here
<1>1. /\ g.life = "none" /\ h.air > 0 /\ UNCHANGED <<pc, result, conn, wake>>
      /\ pc["server"] = "input"
      /\ io' = [io EXCEPT !["server"][i].life = "refused", !["client"][i].air = Nothing]
  BY DEF StreamRefused
<1>2. io' = [io EXCEPT !["server"][i] = y, !["client"][i].air = Nothing]
  BY <1>1
<1>3. y \in Record /\ y.life = "refused" /\ y.pending = g.pending /\ SameFlow(g, y)
  BY <1>0 DEF Record, SameFlow, Life
<1> HIDE DEF y
<1>4. Leaves("server", f) /\ \A j \in Streams : f[j] = IF j = i THEN y ELSE io["server"][j]
  BY <1>0, <1>2, <1>3, Received, OneStream, Ends
<1> HIDE DEF f
<1>5. Sane("server", y) /\ Moved("server", g, y, h)
  <2>1. Sane("server", y)
    BY <1>3 DEF Sane, Alive
  <2>2. Moved("server", g, y, h)
    BY <1>0, <1>1, <1>3 DEF Moved, SameFlow
  <2>3. QED
    BY <2>1, <2>2
<1>6. Wakeful(f, conn["server"], wake["server"], "input")
  <2>1. g.pending = 0 /\ "none" \notin Alive /\ "refused" \notin Alive
    BY <1>0, <1>1 DEF Wakeful, Alive
  <2>2. QED
    BY <1>0, <1>1, <1>3, <1>4, <2>1 DEF Wakeful
<1>7. \A j \in Streams :
         Sane("server", f[j]) /\ Moved("server", io["server"][j], f[j], io[Peer("server")][j])
  BY <1>0, <1>4, <1>5, Here, Ends
<1>8. QED
  BY <1>1, <1>4, <1>6, <1>7, Ends, InputStep

(* The STREAM_CLOSE of a refused stream reaches the client, or the acknowledgement of the  *)
(* client's own.                                                                           *)
LEMMA ClientStreamEndsStep ==
  ASSUME Inv, NEW i \in Streams, RefusalArrives(i) \/ StreamCloseAcked(i)
  PROVE  Inv'
<1> DEFINE g == io["client"][i]
           y == Shut(g)
           f == [io["client"] EXCEPT ![i] = y]
<1>0. /\ g \in Record /\ Moved("client", g, g, io["server"][i]) /\ Peer("client") = "server"
      /\ Wakeful(io["client"], conn["client"], wake["client"], pc["client"])
  BY Ends, Here
<1>1. /\ io' = [io EXCEPT !["client"] = f] /\ UNCHANGED <<pc, result, conn, wake>>
      /\ pc["client"] = "input"
  BY DEF RefusalArrives, StreamCloseAcked
<1>2. /\ y \in Record /\ SameFlow(g, y) /\ y.life \notin Alive /\ y.pending = 0
      /\ (y.life = "none" <=> g.life = "none")
  BY <1>0, ShutFacts
<1> HIDE DEF y
<1>3. f \in [Streams -> Record] /\ \A j \in Streams : f[j] = IF j = i THEN y ELSE io["client"][j]
  BY <1>2, OneStream, Ends
<1> HIDE DEF f
<1>4. Sane("client", y) /\ Moved("client", g, y, io["server"][i])
  <2>1. Sane("client", y)
    BY <1>2 DEF Sane, Alive
  <2>2. Moved("client", g, y, io["server"][i])
    BY <1>0, <1>2 DEF Moved, SameFlow
  <2>3. QED
    BY <2>1, <2>2
<1>5. Wakeful(f, conn["client"], wake["client"], "input")
  <2>1. 0 # Batch
    BY ConstTypes, SMTT(30)
  <2>2. QED
    BY <1>0, <1>1, <1>2, <1>3, <2>1 DEF Wakeful
<1>6. \A j \in Streams :
         Sane("client", f[j]) /\ Moved("client", io["client"][j], f[j], io[Peer("client")][j])
  BY <1>0, <1>3, <1>4, Here, Ends
<1>7. Leaves("client", f)
  BY <1>1, <1>3, Alone, Ends
<1>8. QED
  BY <1>1, <1>5, <1>6, <1>7, Ends, InputStep

(* The client's STREAM_CLOSE reaches the server.                                           *)
LEMMA StreamCloseArrivesStep ==
  ASSUME Inv, NEW i \in Streams, StreamCloseArrives(i)
  PROVE  Inv'
<1> DEFINE g == io["server"][i]
           reason == io["client"][i].fin
           y == PeerClosed(g, reason)
           f == [io["server"] EXCEPT ![i] = y]
<1>0. /\ g \in Record /\ Moved("server", g, g, io["client"][i]) /\ Peer("server") = "client"
      /\ Sane("server", g) /\ io["client"][i] \in Record
      /\ Wakeful(io["server"], conn["server"], wake["server"], pc["server"])
  BY Ends, Here
<1>1. /\ io' = [io EXCEPT !["server"] = f] /\ UNCHANGED <<pc, result, conn>>
      /\ wake' = WakeFor("server", io'["server"]) /\ pc["server"] = "input"
      /\ reason # "no" /\ g.life \in Alive
  BY DEF StreamCloseArrives, Alive
<1>2. reason \in {"normal", "timeout"}
  BY <1>0, <1>1, RecordTypes
<1>3. /\ y \in Record /\ SameFlow(g, y) /\ y.life # "none" /\ y.life # "leaving"
      /\ y.life \notin Alive => y.pending = 0
      /\ y.life \in Alive => y.life # "open" /\ y.fin = "normal" /\ y.readable = g.readable
  <2> DEFINE b == [g EXCEPT !.fin = reason]
             s == [b EXCEPT !.life = "draining", !.pending = 0]
             t == [b EXCEPT !.life = "finalize", !.pending = Batch]
  <2>0. y = IF reason = "timeout" THEN Shut(b) ELSE IF g.arrived > g.read THEN s ELSE t
    BY DEF PeerClosed
  <2> HIDE DEF reason
  <2>1. /\ b \in Record /\ SameFlow(g, b) /\ b.fin = reason /\ b.life = g.life
        /\ b.readable = g.readable
    BY <1>0, <1>2 DEF Record, SameFlow
  <2> HIDE DEF b
  <2>2. /\ s \in Record /\ s.life = "draining" /\ s.fin = b.fin /\ SameFlow(b, s)
        /\ s.readable = b.readable
    <3>1. 0 \in 0..Batch
      BY ConstTypes, SMTT(30)
    <3>2. QED
      BY <2>1, <3>1 DEF Record, SameFlow, Life, Alive
  <2>3. /\ t \in Record /\ t.life = "finalize" /\ t.fin = b.fin /\ SameFlow(b, t)
        /\ t.readable = b.readable
    <3>1. Batch \in 0..Batch
      BY ConstTypes, SMTT(30)
    <3>2. QED
      BY <2>1, <3>1 DEF Record, SameFlow, Life, Alive
  <2>4. /\ Shut(b) \in Record /\ SameFlow(b, Shut(b)) /\ Shut(b).life \notin Alive
        /\ Shut(b).pending = 0 /\ Shut(b).life # "none" /\ Shut(b).life # "leaving"
    <3>1. "none" \notin Alive
      BY DEF Alive
    <3>2. QED
      BY <1>1, <2>1, <3>1, ShutFacts
  <2> HIDE DEF s, t, y
  <2>5. "draining" \in Alive /\ "finalize" \in Alive
    BY DEF Alive
  <2>6. QED
    BY <1>2, <2>0, <2>1, <2>2, <2>3, <2>4, <2>5 DEF SameFlow
<1> HIDE DEF y
<1>4. f \in [Streams -> Record] /\ \A j \in Streams : f[j] = IF j = i THEN y ELSE io["server"][j]
  BY <1>3, OneStream, Ends
<1> HIDE DEF f
<1>5. Sane("server", y) /\ Moved("server", g, y, io["client"][i])
  <2>1. Sane("server", y)
    BY <1>0, <1>1, <1>3 DEF Sane, SameFlow, Alive
  <2>2. g.life # "none"
    BY <1>1 DEF Alive
  <2>3. Moved("server", g, y, io["client"][i])
    BY <1>0, <1>3, <2>2 DEF Moved, SameFlow
  <2>4. QED
    BY <2>1, <2>3
<1>6. \A j \in Streams :
           /\ f[j].life \notin Alive => f[j].pending = 0
           /\ f[j].life \in Alive => conn["server"] = "open"
           /\ Sane("server", f[j]) /\ Moved("server", io["server"][j], f[j], io[Peer("server")][j])
  <2>1. conn["server"] = "open"
    BY <1>0, <1>1 DEF Wakeful
  <2>2. \A j \in Streams :
           /\ io["server"][j].life \notin Alive => io["server"][j].pending = 0
           /\ Sane("server", io["server"][j])
           /\ Moved("server", io["server"][j], io["server"][j], io[Peer("server")][j])
    BY <1>0, Here, Ends DEF Wakeful
  <2>3. QED
    BY <1>0, <1>3, <1>4, <1>5, <2>1, <2>2
<1>7. Leaves("server", f) /\ pc' = [pc EXCEPT !["server"] = "input"]
  BY <1>1, <1>4, Alone, Kept, Ends
<1>8. QED
  BY <1>1, <1>6, <1>7, Ends, TimedStep

-----------------------------------------------------------------------------
(* The client's program                                                         *)

(* The record of a stream that does not exist yet.                                         *)
LEMMA FreshFacts ==
  /\ Fresh \in Record /\ Fresh.life = "none" /\ Fresh.pending = 0 /\ Fresh.air = Nothing
  /\ Fresh.accepted = 0 /\ Fresh.arrived = 0 /\ Fresh.read = 0 /\ Fresh.readable = FALSE
<1>1. 0 \in 0..Batch
  BY ConstTypes, SMTT(30)
<1>2. QED
  BY <1>1 DEF Fresh, Record, Life

(* What demo_client_start_streams has made of the streams, wherever it stops: nothing is    *)
(* on its way yet.                                                                         *)
LEMMA BegunFacts ==
  ASSUME Inv, ~Started, NEW i \in Nat, NEW k \in Nothing..Messages
  PROVE  /\ Begun(i, k) \in [Streams -> Record]
         /\ \A j \in Streams :
              LET y == Begun(i, k)[j]
              IN  /\ Moved("client", io["client"][j], y, io["server"][j])
                  /\ io["client"][j].life = "none" /\ y.air = Nothing /\ Sane("client", y)
                  /\ j < i => y.life = "open" /\ y.pending \in {0, Batch}
<1> DEFINE n == [Fresh EXCEPT !.life = "open"]
           s == Sent(n, Messages)
           t == [Added(n, k) EXCEPT !.accepted = k]
<1>1. /\ n \in Record /\ n.life = "open" /\ n.accepted = 0 /\ n.arrived = 0 /\ n.read = 0
      /\ n.air = Nothing /\ n.readable = FALSE
  BY FreshFacts DEF Record, Life, Alive
<1>2. /\ Messages \in Nat /\ Nothing <= 0 /\ Nothing <= Messages /\ Messages <= Messages
      /\ 0 <= Messages
      /\ k # Nothing => k \in Nat /\ k <= Messages /\ Nothing <= k
  BY ConstTypes, SMTT(30) DEF Nothing
<1>3. Begun(i, k) = [j \in Streams |-> IF j < i THEN s
                                       ELSE IF j = i /\ k # Nothing THEN t ELSE Fresh]
  BY DEF Begun
<1> HIDE DEF n
<1>4. /\ s \in Record /\ s.life = "open" /\ s.pending \in {0, Batch} /\ s.readable = FALSE
      /\ s.accepted = Messages /\ s.arrived = 0 /\ s.read = 0 /\ s.air = Nothing
  <2>1. /\ s \in Record /\ SameRest(n, s) /\ s.pending \in {0, Batch}
        /\ s.accepted = n.accepted + Messages /\ s.arrived = n.arrived
        /\ s.read = n.read /\ s.air = n.air
    BY <1>1, <1>2, SentFacts
  <2>2. n.accepted + Messages = Messages
    BY <1>1, <1>2, SMTT(30)
  <2>3. QED
    BY <1>1, <2>1, <2>2 DEF SameRest
<1>5. ASSUME k # Nothing
      PROVE  /\ t \in Record /\ t.life = "open" /\ t.readable = FALSE
             /\ t.accepted = k /\ t.arrived = 0 /\ t.read = 0 /\ t.air = Nothing
  <2> DEFINE a == Added(n, k)
  <2>1. a \in Record /\ SameFlow(n, a) /\ SameRest(n, a)
    BY <1>1, <1>2, <1>5, AddedFacts
  <2> HIDE DEF a
  <2>2. k \in Nat /\ t = [a EXCEPT !.accepted = k]
    BY <1>2, <1>5 DEF a
  <2>3. QED
    BY <1>1, <2>1, <2>2 DEF Record, SameFlow, SameRest
<1> HIDE DEF s, t
<1>6. ASSUME NEW j \in Streams
      PROVE  /\ io["client"][j].life = "none" /\ io["client"][j].accepted = 0
             /\ Sane("client", s) /\ Sane("client", Fresh) /\ (k # Nothing => Sane("client", t))
             /\ Moved("client", io["client"][j], s, io["server"][j])
             /\ Moved("client", io["client"][j], Fresh, io["server"][j])
             /\ k # Nothing => Moved("client", io["client"][j], t, io["server"][j])
  <2>1. io["client"][j].life = "none" /\ io["client"][j].accepted = 0
    BY DEF Started, Inv, Flows
  <2>2. Sane("client", s) /\ Sane("client", Fresh) /\ (k # Nothing => Sane("client", t))
    BY <1>4, <1>5, FreshFacts DEF Sane
  <2>3. Moved("client", io["client"][j], s, io["server"][j])
    BY <1>2, <1>4, <2>1 DEF Moved
  <2>4. Moved("client", io["client"][j], Fresh, io["server"][j])
    BY <1>2, FreshFacts, <2>1 DEF Moved
  <2>5. k # Nothing => Moved("client", io["client"][j], t, io["server"][j])
    BY <1>2, <1>5, <2>1 DEF Moved
  <2>6. QED
    BY <2>1, <2>2, <2>3, <2>4, <2>5
<1>7. Begun(i, k) \in [Streams -> Record]
  BY <1>3, <1>4, <1>5, FreshFacts
<1>8. QED
  BY <1>3, <1>4, <1>5, <1>6, <1>7, FreshFacts

(* demo_client_start_streams succeeds: every message has found room.                       *)
LEMMA StartStreamsStep ==
  ASSUME Inv, StartStreams
  PROVE  Inv'
<1> DEFINE f == Begun(StreamCount + 1, Nothing)
<1>1. /\ io' = [io EXCEPT !["client"] = f] /\ pc' = [pc EXCEPT !["client"] = "select"]
      /\ wake' = WakeFor("client", io'["client"]) /\ UNCHANGED <<result, conn>>
      /\ conn["client"] = "open" /\ pc["client"] = "loop" /\ ~Started
  BY DEF StartStreams, Goto
<1>2. /\ StreamCount + 1 \in Nat /\ Nothing \in Nothing..Messages
      /\ \A j \in Streams : j < StreamCount + 1
  BY ConstTypes, SMTT(30) DEF Nothing, Streams
<1>3. /\ f \in [Streams -> Record]
      /\ \A j \in Streams :
           /\ Moved("client", io["client"][j], f[j], io["server"][j]) /\ Sane("client", f[j])
           /\ f[j].life = "open" /\ f[j].pending \in {0, Batch}
  BY <1>1, <1>2, BegunFacts
<1> HIDE DEF f
<1>4. Leaves("client", f) /\ "open" \in Alive
  BY <1>1, <1>3, Alone, Ends DEF Alive
<1>5. QED
  BY <1>1, <1>3, <1>4, Ends, TimedStep

(* It fails: the streams die with the engine before an update has sent anything.           *)
LEMMA StartFailsStep ==
  ASSUME Inv, NEW i \in Streams, NEW k \in Nothing..(Messages - 1), StartFails(i, k)
  PROVE  Inv'
<1> DEFINE g == Begun(i, k)
<1>1. ExitWith("client", "start", g) /\ pc["client"] = "loop" /\ ~Started
  BY DEF StartFails
<1>2. i \in Nat /\ k \in Nothing..Messages /\ Nothing <= 0
  BY ConstTypes, SMTT(30) DEF Nothing, Streams
<1>3. /\ g \in [Streams -> Record]
      /\ \A j \in Streams : /\ Moved("client", io["client"][j], g[j], io["server"][j])
                            /\ io["client"][j].life = "none" /\ g[j].air <= 0
  BY <1>1, <1>2, BegunFacts
<1> HIDE DEF g
<1>4. "start" \in Results("client")
  BY DEF Results
<1>5. QED
  BY <1>1, <1>3, <1>4, Ends, ExitStep

(* kcpmux_conn_connect fails: there is no stream yet.                                      *)
LEMMA ConnectFailsStep ==
  ASSUME Inv, ConnectFails
  PROVE  Inv'
<1> DEFINE g == io["client"]
<1>1. ExitWith("client", "start", g) /\ pc["client"] = "connect"
  BY DEF ConnectFails, Exit
<1>2. /\ g \in [Streams -> Record] /\ Wakeful(g, conn["client"], wake["client"], "connect")
      /\ \A i \in Streams : Moved("client", io["client"][i], g[i], io["server"][i])
      /\ Peer("client") = "server"
  BY <1>1, Here, Ends
<1>3. ASSUME NEW i \in Streams PROVE io["client"][i].life = "none" /\ g[i].air <= 0
  <2>1. io["client"][i].life = "none"
    BY <1>2 DEF Wakeful
  <2>2. g[i].accepted = 0 /\ g[i].air <= g[i].accepted
    BY <2>1 DEF Inv, Flows
  <2>3. QED
    BY <2>1, <2>2
<1>4. "start" \in Results("client")
  BY DEF Results
<1> HIDE DEF g
<1>5. QED
  BY <1>1, <1>2, <1>3, <1>4, Ends, ExitStep

(* A client closes a stream.                                                               *)
LEMMA CloseStreamStep ==
  ASSUME Inv, NEW i \in Streams, CloseStream(i)
  PROVE  Inv'
<1> DEFINE g == io["client"][i]
           a == [g EXCEPT !.life = "leaving", !.pending = Batch]
           b == [g EXCEPT !.life = "leaving", !.fin = "normal", !.pending = 0]
<1>0. /\ g \in Record /\ Moved("client", g, g, io["server"][i]) /\ Peer("client") = "server"
      /\ Sane("client", g) /\ "open" \in Alive
      /\ Wakeful(io["client"], conn["client"], wake["client"], pc["client"])
  BY Ends, Here DEF Alive
<1>1. /\ UNCHANGED <<pc, result, conn>> /\ pc["client"] = "loop" /\ g.life = "open"
      /\ wake' = WakeFor("client", io'["client"])
      /\ \/ io' = [io EXCEPT !["client"] = [io["client"] EXCEPT ![i] = a]]
         \/ io' = [io EXCEPT !["client"] = [io["client"] EXCEPT ![i] = b]]
  BY DEF CloseStream, Open
<1>2. 0 \in 0..Batch /\ Batch \in 0..Batch
  BY ConstTypes, SMTT(30)
<1>3. /\ a \in Record /\ SameFlow(g, a) /\ a.life = "leaving" /\ a.readable = g.readable
      /\ b \in Record /\ SameFlow(g, b) /\ b.life = "leaving" /\ b.readable = g.readable
  BY <1>0, <1>2 DEF Record, SameFlow, Life, Alive
<1> HIDE DEF a, b
<1>4. PICK y \in {a, b} : io' = [io EXCEPT !["client"] = [io["client"] EXCEPT ![i] = y]]
  BY <1>1
<1>5. y \in Record /\ SameFlow(g, y) /\ y.life = "leaving" /\ y.readable = g.readable
  BY <1>3
<1> DEFINE f == [io["client"] EXCEPT ![i] = y]
<1>6. f \in [Streams -> Record] /\ \A j \in Streams : f[j] = IF j = i THEN y ELSE io["client"][j]
  BY <1>5, OneStream, Ends
<1>7. io' = [io EXCEPT !["client"] = f]
  BY <1>4
<1> HIDE DEF f
<1>8. Sane("client", y) /\ Moved("client", g, y, io["server"][i])
  <2>1. Sane("client", y)
    BY <1>0, <1>1, <1>5 DEF Sane, SameFlow
  <2>2. Moved("client", g, y, io["server"][i])
    BY <1>0, <1>5 DEF Moved, SameFlow
  <2>3. QED
    BY <2>1, <2>2
<1>9. \A j \in Streams :
           /\ f[j].life \notin Alive => f[j].pending = 0
           /\ f[j].life \in Alive => conn["client"] = "open"
           /\ f[j].life = "open" => f[j].pending \in {0, Batch}
           /\ Sane("client", f[j]) /\ Moved("client", io["client"][j], f[j], io[Peer("client")][j])
  <2>1. conn["client"] = "open" /\ "leaving" \in Alive
    BY <1>0, <1>1 DEF Wakeful, Alive
  <2>2. \A j \in Streams :
           /\ io["client"][j].life \notin Alive => io["client"][j].pending = 0
           /\ io["client"][j].life = "open" => io["client"][j].pending \in {0, Batch}
           /\ Sane("client", io["client"][j])
           /\ Moved("client", io["client"][j], io["client"][j], io[Peer("client")][j])
    BY <1>0, <1>1, Here, Ends DEF Wakeful
  <2>3. QED
    BY <1>0, <1>5, <1>6, <1>8, <2>1, <2>2
<1>10. Leaves("client", f) /\ pc' = [pc EXCEPT !["client"] = "loop"]
  BY <1>1, <1>6, <1>7, Alone, Kept, Ends
<1>11. QED
  BY <1>1, <1>9, <1>10, Ends, TimedStep

(* demo_client_done says 1 only when every echo of every stream has been read, and an     *)
(* echo that was read is one the server sent.                                             *)
LEMMA DoneMeansEchoed ==
  ASSUME Inv, ClientDone = 1
  PROVE  AllEchoed
<1> DEFINE undone == {i \in Streams : StreamDone(i) # 1}
<1>1. undone = {}
  <2> SUFFICES ASSUME undone # {} PROVE FALSE
    OBVIOUS
  <2>1. undone \subseteq Nat
    BY ConstTypes, SMTT(30) DEF Streams
  <2>2. Min(undone) \in undone
    BY <2>1, MinOfSet
  <2>3. StreamDone(Min(undone)) = 1
    BY DEF ClientDone
  <2>4. QED
    BY <2>2, <2>3
<1>2. ASSUME NEW i \in Streams PROVE io["server"][i].read = Messages
  <2> DEFINE x == io["client"][i]
             y == io["server"][i]
  <2>1. StreamDone(i) = 1
    BY <1>1
  <2>2. x.read = Messages
    BY <2>1, SMTT(30) DEF StreamDone
  <2>3. x \in Record /\ y \in Record /\ Flows(x, y)
    BY DEF Inv, Typed, End
  <2> HIDE DEF x, y
  <2>4. y.read = Messages
    BY <2>2, <2>3, RecordTypes, ConstTypes, SMTT(30) DEF Flows
  <2>5. QED
    BY <2>4 DEF y
<1>3. QED
  BY <1>2 DEF AllEchoed

(* demo_client looks at demo_client_done.                                                 *)
LEMMA ClientLoopStep ==
  ASSUME Inv, ClientLoop
  PROVE  Inv'
<1> DEFINE done == IF Started THEN ClientDone ELSE 0
           lost == Exit("client", "failed")
           won == Exit("client", "ok")
           on == Goto("client", "select") /\ UNCHANGED <<result, conn, io, wake>>
<1>1. /\ pc["client"] = "loop"
      /\ CASE done = -1 -> lost [] done = 1 -> won [] done = 0 -> on
  BY DEF ClientLoop
<1>2. done \in {-1, 0, 1}
  BY DEF ClientDone, StreamDone
<1>3. (done = -1 => lost) /\ (done = 1 => won) /\ (done = 0 => on)
  <2> HIDE DEF done, lost, won, on
  <2>1. -1 # 0 /\ -1 # 1 /\ 0 # 1
    BY SMTT(30)
  <2>2. QED
    BY <1>1, <2>1
<1>4. CASE done = -1
  <2>1. Exit("client", "failed")
    BY <1>3, <1>4
  <2>2. QED
    BY <1>1, <2>1, Ends, GivesUp
<1>5. CASE done = 1
  <2>1. AllEchoed
    BY <1>5, DoneMeansEchoed, SMTT(30)
  <2>2. ExitWith("client", "ok", io["client"])
    BY <1>3, <1>5 DEF Exit
  <2>3. "ok" \in Results("client") /\ io["client"] \in [Streams -> Record]
    BY Here, Ends DEF Results
  <2>4. \A i \in Streams : Moved("client", io["client"][i], io["client"][i], io[Peer("client")][i])
    BY Here, Ends
  <2>5. QED
    BY <1>1, <2>1, <2>2, <2>3, <2>4, Ends, ExitStep
<1>6. CASE done = 0
  <2>1. pc' = [pc EXCEPT !["client"] = "select"] /\ UNCHANGED <<result, conn, io, wake>>
    BY <1>3, <1>6 DEF Goto
  <2>2. Wakeful(io["client"], conn["client"], wake["client"], "select")
    BY <1>1, Ends, Here DEF Wakeful
  <2>3. Leaves("client", io["client"])
    BY <2>1, Ends, Here, Kept, Alone
  <2>4. wake' = [wake EXCEPT !["client"] = wake["client"]] /\ wake["client"] \in {"none", "later", "due"}
    BY <2>1, Ends, Here, Kept
  <2>5. \A i \in Streams :
          /\ Sane("client", io["client"][i])
          /\ Moved("client", io["client"][i], io["client"][i], io[Peer("client")][i])
    BY Here, Ends
  <2>6. QED
    BY <1>1, <2>1, <2>2, <2>3, <2>4, <2>5, Ends, PlainStep
<1>7. QED
  BY <1>2, <1>4, <1>5, <1>6

(* What arrives at either end is never more than Messages.                                *)
LEMMA ArrivedBound ==
  ASSUME Inv, NEW e \in End, NEW i \in Streams
  PROVE  io[e][i].arrived \in Nat /\ io[e][i].arrived <= Messages
<1> DEFINE x == io["client"][i]
           y == io["server"][i]
<1>1. x \in Record /\ y \in Record /\ Flows(x, y)
  BY DEF Inv, Typed, End
<1> HIDE DEF x, y
<1>2. /\ x.arrived \in Nat /\ y.arrived \in Nat
      /\ x.arrived <= Messages /\ y.arrived <= Messages
  BY <1>1, RecordTypes, ConstTypes, SMTT(30) DEF Flows
<1>3. QED
  BY <1>2 DEF End, x, y

(* demo_client_process_reads: every echo that arrived is read.                            *)
LEMMA ProcessReadsStep ==
  ASSUME Inv, ProcessReads
  PROVE  Inv'
<1> DEFINE ready == {i \in Streams : Open("client", i) /\ io["client"][i].readable}
           g == io["client"]
           f == [i \in Streams |-> IF i \in ready THEN ReadAll(g[i]) ELSE g[i]]
<1>0. Peer("client") = "server" /\ "client" \in End
  BY Ends
<1>1. ~\E i \in ready : io["client"][i].arrived > Messages
  BY <1>0, ArrivedBound, ConstTypes, SMTT(30)
<1>2. /\ pc["client"] = "process"
      /\ io' = [io EXCEPT !["client"] = f] /\ pc' = [pc EXCEPT !["client"] = "loop"]
      /\ UNCHANGED <<result, conn, wake>>
  BY <1>1 DEF ProcessReads, Goto
<1>3. ASSUME NEW i \in Streams
      PROVE  /\ f[i] \in Record /\ f[i].life = g[i].life /\ f[i].pending = g[i].pending
             /\ Moved("client", g[i], f[i], io["server"][i]) /\ Sane("client", f[i])
  <2>1. g[i] \in Record /\ Moved("client", g[i], g[i], io["server"][i]) /\ Sane("client", g[i])
    BY <1>0, Here
  <2> DEFINE y == ReadAll(g[i])
  <2>2. /\ y \in Record /\ y.life = g[i].life /\ y.fin = g[i].fin /\ y.pending = g[i].pending
        /\ y.accepted = g[i].accepted /\ y.arrived = g[i].arrived /\ y.air = g[i].air
        /\ y.read = g[i].arrived /\ y.readable = FALSE
    BY <2>1, ReadAllFacts
  <2> HIDE DEF y
  <2>3. Moved("client", g[i], y, io["server"][i]) /\ Sane("client", y)
    BY <2>1, <2>2 DEF Moved, Sane
  <2>4. f[i] = IF i \in ready THEN y ELSE g[i]
    BY DEF y
  <2> HIDE DEF f, ready
  <2>5. QED
    BY <2>1, <2>2, <2>3, <2>4
<1>4. f \in [Streams -> Record]
  BY <1>3
<1> HIDE DEF f, ready
<1>5. Wakeful(f, conn["client"], wake["client"], "loop")
  BY <1>0, <1>2, <1>3, Here DEF Wakeful
<1>6. Leaves("client", f)
  BY <1>0, <1>2, <1>4, Alone
<1>7. wake' = [wake EXCEPT !["client"] = wake["client"]] /\ wake["client"] \in {"none", "later", "due"}
  BY <1>0, <1>2, Here, Kept
<1>8. QED
  BY <1>0, <1>2, <1>3, <1>5, <1>6, <1>7, PlainStep

-----------------------------------------------------------------------------
(* The server's program                                                         *)

(* An echo that fails is one for a stream its client has closed normally, with messages    *)
(* on it to read: none fails for want of room in the send buffer.                          *)
LEMMA FailedEcho ==
  ASSUME Inv, NEW i \in Streams, Ready(i), EchoFails(i)
  PROVE  CutOff(io["server"])
<1> DEFINE x == io["server"][i]
<1>1. /\ x \in Record /\ Sane("server", x) /\ x.life \in Alive /\ x.readable
      /\ x.arrived \in Nat /\ x.arrived <= Messages /\ x.accepted = x.read
  <2>1. x \in Record /\ Sane("server", x)
    BY Here, Ends
  <2>2. x.arrived \in Nat /\ x.arrived <= Messages
    BY ArrivedBound, Ends
  <2>3. x.life \in Alive /\ x.readable /\ x.accepted = x.read
    BY DEF Ready, Inv, Flows
  <2>4. QED
    BY <2>1, <2>2, <2>3
<1>2. ~(x.arrived > Pause)
  BY <1>1, ConstTypes, SMTT(30)
<1>3. x.life # "open"
  BY <1>2 DEF EchoFails, Open
<1> HIDE DEF x
<1>4. x.fin = "normal" /\ x.accepted < x.arrived
  BY <1>1, <1>3 DEF Sane, Alive
<1>5. QED
  BY <1>4 DEF CutOff, x

(* One record that demo_server_process_streams works on.                                   *)
LEMMA EchoedFacts ==
  ASSUME Inv, NEW i \in Streams, io["server"][i].life \in {"open", "closed"}
  PROVE  LET x == io["server"][i]
             y == Echoed(x)
         IN  /\ y \in Record /\ Sane("server", y) /\ Moved("server", x, y, io["client"][i])
             /\ x.life = "open" => y.life = "open" /\ y.pending \in {0, Batch}
             /\ x.life = "closed" => y.life = "freed" /\ y.pending = x.pending
<1> DEFINE x == io["server"][i]
           q == [x EXCEPT !.life = "freed", !.readable = FALSE]
           r == ReadAll(x)
           y == Sent(r, r.read - x.read)
<1>1. /\ x \in Record /\ Moved("server", x, x, io["client"][i])
      /\ x.life = "open" \/ x.life = "closed"
  BY Here, Ends
<1>2. Echoed(x) = IF x.life = "closed" THEN q ELSE y
  BY DEF Echoed
<1>3. x.accepted = x.read /\ x.read <= x.arrived /\ x.air <= x.accepted
  BY DEF Inv, Flows
<1> HIDE DEF x
<1>4. /\ q \in Record /\ q.life = "freed" /\ q.pending = x.pending /\ SameFlow(x, q)
      /\ q.readable = FALSE
  BY <1>1 DEF Record, SameFlow, Life
<1>5. /\ r \in Record /\ r.life = x.life /\ r.accepted = x.accepted
      /\ r.arrived = x.arrived /\ r.air = x.air /\ r.read = x.arrived /\ r.readable = FALSE
  BY <1>1, ReadAllFacts
<1> HIDE DEF r, q
<1>6. r.read - x.read \in Nat /\ r.accepted + (r.read - x.read) = x.arrived
  BY <1>1, <1>3, <1>5, RecordTypes, SMTT(30)
<1>7. CASE x.life = "open"
  <2>1. /\ y \in Record /\ SameRest(r, y) /\ y.pending \in {0, Batch}
        /\ y.accepted = x.arrived /\ y.arrived = x.arrived
        /\ y.read = x.arrived /\ y.air = x.air
    BY <1>5, <1>6, <1>7, SentFacts
  <2>2. Echoed(x) = y
    BY <1>2, <1>7
  <2> HIDE DEF y
  <2>3. y.air <= y.accepted
    BY <1>1, <1>3, <2>1, RecordTypes, SMTT(30)
  <2>4. y.life = "open" /\ y.readable = FALSE
    BY <1>5, <1>7, <2>1 DEF SameRest
  <2>5. Moved("server", x, y, io["client"][i])
    BY <1>7, <2>1, <2>3, <2>4 DEF Moved
  <2>6. Sane("server", y)
    BY <2>4 DEF Sane
  <2>7. QED
    BY <1>7, <2>1, <2>2, <2>4, <2>5, <2>6 DEF x
<1>8. CASE x.life = "closed"
  <2>1. Echoed(x) = q
    BY <1>2, <1>8
  <2>2. Moved("server", x, q, io["client"][i])
    BY <1>1, <1>4, <1>8 DEF Moved, SameFlow
  <2>3. Sane("server", q)
    BY <1>4 DEF Sane
  <2>4. QED
    BY <1>4, <1>8, <2>1, <2>2, <2>3 DEF x
<1>9. QED
  BY <1>1, <1>7, <1>8

(* demo_server_process_streams                                                            *)
LEMMA ProcessStreamsStep ==
  ASSUME Inv, ProcessStreams
  PROVE  Inv'
<1> DEFINE ready == {i \in Streams : Ready(i)}
           gone == {i \in Streams : io["server"][i].life = "closed"}
           g == io["server"]
           f == [i \in Streams |-> IF i \in ready \cup gone THEN Echoed(g[i]) ELSE g[i]]
<1>0. /\ Peer("server") = "client" /\ "server" \in End /\ pc["server"] = "process"
      /\ g \in [Streams -> Record]
      /\ \A i \in Streams : Sane("server", g[i]) /\ Moved("server", g[i], g[i], io["client"][i])
  BY Here, Ends DEF ProcessStreams
<1>1. CASE \E i \in ready : EchoFails(i)
  <2>1. CutOff(g) /\ ExitWith("server", "echo", g) /\ "echo" \in Results("server")
    BY <1>1, FailedEcho DEF ProcessStreams, Exit, Results
  <2> HIDE DEF g, ready
  <2>2. QED
    BY <1>0, <2>1, ExitStep DEF g
<1>2. CASE ~\E i \in ready : EchoFails(i)
  <2>1. /\ io' = [io EXCEPT !["server"] = f] /\ pc' = [pc EXCEPT !["server"] = "select"]
        /\ wake' = WakeFor("server", io'["server"]) /\ UNCHANGED <<result, conn>>
    BY <1>2 DEF ProcessStreams, Goto
  <2>2. ASSUME NEW i \in Streams
        PROVE  /\ f[i] \in Record /\ (f[i].life \in Alive => g[i].life \in Alive)
               /\ f[i].life \notin Alive => f[i].pending = 0
               /\ f[i].life = "open" => f[i].pending \in {0, Batch}
               /\ Sane("server", f[i]) /\ Moved("server", g[i], f[i], io["client"][i])
    <3>1. /\ g[i] \in Record /\ Sane("server", g[i]) /\ Moved("server", g[i], g[i], io["client"][i])
          /\ g[i].life \notin Alive => g[i].pending = 0
          /\ g[i].life = "open" => g[i].pending \in {0, Batch}
      BY <1>0, Here DEF Wakeful
    <3>2. "open" \in Alive /\ "closed" \notin Alive /\ "freed" \notin Alive
      BY DEF Alive
    <3>3. CASE i \in ready \cup gone
      <4>1. g[i].life \in {"open", "closed"} /\ f[i] = Echoed(g[i])
        BY <1>2, <3>3 DEF EchoFails, Open
      <4> HIDE DEF f, ready, gone
      <4>2. QED
        BY <3>1, <3>2, <4>1, EchoedFacts
    <3>4. CASE i \notin ready \cup gone
      <4>1. f[i] = g[i]
        BY <3>4
      <4> HIDE DEF f, ready, gone
      <4>2. QED
        BY <3>1, <4>1
    <3>5. QED
      BY <3>3, <3>4
  <2>3. f \in [Streams -> Record]
    BY <2>2
  <2> HIDE DEF f, ready, gone
  <2>4. Leaves("server", f)
    BY <1>0, <2>1, <2>3, Alone
  <2>5. \A i \in Streams : f[i].life \in Alive => conn["server"] = "open"
    BY <1>0, <2>2, Here DEF Wakeful
  <2>6. QED
    BY <1>0, <2>1, <2>2, <2>4, <2>5, TimedStep
<1>3. QED
  BY <1>1, <1>2

-----------------------------------------------------------------------------
(* Every step, and the results                                                  *)

(* The invariant holds at first,                                                          *)
LEMMA InvInit ==
  Init => Inv
<1> SUFFICES ASSUME Init PROVE Inv
  OBVIOUS
<1>1. \A e \in End, i \in Streams : io[e][i] = Fresh
  BY DEF Init
<1>2. Typed
  BY FreshFacts DEF Init, Typed, End
<1>3. ASSUME NEW e \in End PROVE Wakeful(io[e], conn[e], wake[e], pc[e])
  <2>1. 0 # Batch
    BY ConstTypes, SMTT(30)
  <2>2. conn[e] = "none" /\ "none" \notin Alive
    BY DEF Init, Alive
  <2>3. QED
    BY <1>1, <2>1, <2>2, FreshFacts DEF Wakeful
<1>4. ASSUME NEW e \in End, NEW i \in Streams PROVE Sane(e, io[e][i])
  BY <1>1, FreshFacts DEF Sane
<1>5. ASSUME NEW i \in Streams PROVE Flows(io["client"][i], io["server"][i])
  <2>1. Flows(Fresh, Fresh)
    BY FreshFacts, ConstTypes, SMTT(30) DEF Flows, Nothing
  <2>2. QED
    BY <1>1, <2>1, Ends
<1>6. \A e \in End : result[e] = "running" /\ result[e] \in Results(e)
  BY DEF Init, Results
<1>7. QED
  BY <1>2, <1>3, <1>4, <1>5, <1>6, Ends DEF Inv

(* and every step keeps it.                                                               *)
LEMMA InvStep ==
  Inv /\ [Next]_vars => Inv'
<1> SUFFICES ASSUME Inv, [Next]_vars PROVE Inv'
  OBVIOUS
<1>1. ASSUME NEW e \in End,
             \/ SelectReturns(e) \/ SelectInterrupted(e) \/ SocketFails(e)
             \/ CloseArrives(e) \/ NotYet(e) \/ LosesPeer(e)
             \/ \E turn \in [Streams -> Turn] : Updates(e, turn)
      PROVE  Inv'
  BY <1>1, SelectStep, FailStep, ConnEndsStep, NotYetStep, UpdatesStep
<1>2. ASSUME NEW e \in End, NEW i \in Streams,
             Lose(e, i) \/ \E n \in 1..Messages : PayloadArrives(e, i, n)
      PROVE  Inv'
  <2>1. \A n \in 1..Messages : n \in Nat /\ n > 0
    BY ConstTypes, SMTT(30)
  <2>2. QED
    BY <1>2, <2>1, LoseStep, PayloadArrivesStep
<1>3. ASSUME NEW i \in Streams,
             \/ StreamRefused(i) \/ RefusalArrives(i)
             \/ CloseStream(i) \/ StreamCloseArrives(i) \/ StreamCloseAcked(i)
             \/ \E k \in Nothing..(Messages - 1) : StartFails(i, k)
      PROVE  Inv'
  BY <1>3, StreamRefusedStep, ClientStreamEndsStep, CloseStreamStep, StreamCloseArrivesStep,
     StartFailsStep
<1>4. CASE ConnectArrives \/ AckArrives \/ Connect \/ ConnectFails
  BY <1>4, ConnOpensStep, ConnectFailsStep
<1>5. CASE StartStreams \/ ClientLoop \/ ProcessReads
  BY <1>5, StartStreamsStep, ClientLoopStep, ProcessReadsStep
<1>6. CASE Deadline \/ ProcessStreams \/ EchoWithoutMemory
  BY <1>6, FailStep, ProcessStreamsStep
<1>7. CASE UNCHANGED vars
  BY <1>7 DEF vars, Inv, Typed, AllEchoed, Unheard
<1>8. QED
  BY <1>1, <1>2, <1>3, <1>4, <1>5, <1>6, <1>7 DEF Next

(* So it always holds.                                                                    *)
LEMMA Invariance ==
  Spec => []Inv
BY InvInit, InvStep, PTL DEF Spec

(* Neither program's select sleeps past what its streams wait for: next_wakeup_ms is set  *)
(* while a connection exists, whatever was received, sent or echoed since a stream's last  *)
(* update is due at once, and so is a stream that has just been closed.                    *)
THEOREM SelectSound ==
  Spec => []NeverOversleeps
<1>1. Inv => NeverOversleeps
  <2> SUFFICES ASSUME Inv, NEW e \in End, pc[e] = "select"
               PROVE  /\ Exists(e) => wake[e] # "none"
                      /\ \A i \in Streams :
                           \/ Open(e, i) /\ io[e][i].pending > 0
                           \/ io[e][i].pending = Batch
                           => wake[e] = "due"
    BY DEF NeverOversleeps
  <2>1. Exists(e) => wake[e] # "none"
    BY Here DEF Wakeful, Exists
  <2>2. ASSUME NEW i \in Streams, io[e][i].pending = Batch PROVE wake[e] = "due"
    BY <2>2, Here DEF Wakeful
  <2>3. ASSUME NEW i \in Streams, Open(e, i), io[e][i].pending > 0
        PROVE  io[e][i].pending = Batch
    <3>1. io[e][i].pending \in {0, Batch}
      BY <2>3, Here DEF Wakeful, Open
    <3>2. QED
      BY <2>3, <3>1, SMTT(30)
  <2>4. QED
    BY <2>1, <2>2, <2>3
<1>2. QED
  BY <1>1, Invariance, PTL

(* demo_client prints OK only when the server echoed every message of every stream.  If it *)
(* fails to start its streams, at whichever call of whichever stream, the server has heard *)
(* of none of them, and it never reads an echo too many.  demo_server ends with a failed    *)
(* echo only if a client closed a stream normally while messages on it had no echo yet.    *)
THEOREM OutcomeSound ==
  Spec => []Outcome
<1>1. Inv => Outcome
  <2> SUFFICES ASSUME Inv PROVE Outcome
    OBVIOUS
  <2>1. result["client"] # "echo"
    BY Ends DEF Inv, Results
  <2>2. QED
    BY <2>1 DEF Inv, AllEchoed, Unheard, CutOff, Outcome
<1>2. QED
  BY <1>1, Invariance, PTL
=============================================================================
