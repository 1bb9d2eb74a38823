----------------------------- MODULE EngineProofs -----------------------------
(* Proofs about EngineLoop: for any number of connections and streams the engine  *)
(* never loses a wakeup, never runs or follows a closed object, frees streams      *)
(* before their connection and leaves nothing behind when it is destroyed.         *)
(* And about StreamIds, the ids a connection gives its streams: for every even     *)
(* number of ids, any starting points and any number of streams.                   *)
EXTENDS EngineLoop, StreamIds, FiniteSetTheorems, TLAPS

(* Most leaves are first-order; those that need arithmetic or sequences name SMT.   *)
USE ZenonT(30)

(* The part of IndInv about objects, timers and the release list ...               *)
Objects ==
  /\ life \in [Nodes -> {"unborn", "live", "closed", "freed"}]
  /\ heap \subseteq Nodes /\ deadline \in [Nodes -> Times] /\ due \subseteq Nodes
  /\ queue \in Seq(Nodes)
  /\ NothingStale
  /\ \A n \in Nodes : life[n] = "closed" <=> \E i \in DOMAIN queue : queue[i] = n
  /\ \A i, j \in DOMAIN queue : queue[i] = queue[j] => i = j
  /\ \A s \in Streams : life[s] \in {"live", "closed"} => life[Owner[s]] # "freed"
  /\ \A i, j \in DOMAIN queue :
        queue[i] \in Streams /\ queue[j] = Owner[queue[i]] => i < j

(* ... and the part about the operations and the external timer.                    *)
Loop ==
  /\ now \in Times /\ ran \subseteq Nodes /\ seenAt \in Times
  /\ mode \in {"idle", "call", "update", "destroy", "leaving"}
  /\ armed \in BOOLEAN /\ armedFor \in Times /\ shot \in Times \cup {None}
  /\ gone \in BOOLEAN
  /\ mode = "idle" => queue = << >>
  /\ OncePerUpdate
  /\ armed /\ ~gone => shot # None /\ shot <= Larger(armedFor, now)
  /\ mode = "idle" /\ ~gone => \A n \in heap : armed /\ armedFor <= deadline[n]
  /\ mode # "update" => due = {}
  /\ mode = "destroy" => gone
  /\ gone => mode \in {"destroy", "leaving", "idle"}
  /\ gone /\ mode # "destroy" => Conns \cap Live = {}

\* IndInv, split.
LEMMA Parts == IndInv <=> Objects /\ Loop
BY DEF IndInv, Objects, Loop, TypeOK, ReleaseOrder

\* The same of the next state.
LEMMA PartsNext == Objects' /\ Loop' => IndInv'
BY DEF IndInv, Objects, Loop, TypeOK, ReleaseOrder

\* Times clamped to the present stay within the bound.
LEMMA LargerTime ==
  ASSUME NEW a \in Times, NEW b \in Times
  PROVE  Larger(a, b) \in Times /\ Larger(a, b) >= a /\ Larger(a, b) >= b
BY LoopAssumption, SMTT(30) DEF Larger, Times

\* Scheduling a node of an open object keeps objects and timers in order.
LEMMA PutObjects ==
  ASSUME Objects, NEW n \in Nodes, n \in Live, NEW d \in Times, NEW at \in Times,
         Put(n, d, at), UNCHANGED <<life, queue>>
  PROVE  Objects'
<1>1. Larger(d, at) \in Times
  BY LargerTime
<1>2. heap' \subseteq Nodes /\ deadline' \in [Nodes -> Times] /\ due' \subseteq Nodes
  BY <1>1 DEF Put, Objects
<1>3. NothingStale'
  BY DEF Put, Objects, NothingStale, Live
<1>. QED
  BY <1>2, <1>3 DEF Objects

\* A new object starts open, behind nothing.
LEMMA CreateObjects ==
  ASSUME Objects, NEW n \in Nodes, life[n] = "unborn",
         n \in Streams => life[Owner[n]] = "live",
         NEW d \in Times, NEW at \in Times,
         life' = [life EXCEPT ![n] = "live"], Put(n, d, at), UNCHANGED queue
  PROVE  Objects'
<1>1. Larger(d, at) \in Times
  BY LargerTime
<1>2. heap' \subseteq Nodes /\ deadline' \in [Nodes -> Times] /\ due' \subseteq Nodes
  BY <1>1 DEF Put, Objects
<1>3. life' \in [Nodes -> {"unborn", "live", "closed", "freed"}]
  BY DEF Objects
<1>4. NothingStale'
  <2>1. Live' = Live \cup {n}
    BY SMTT(30) DEF Live, Objects
  <2>2. Owner \in [Streams -> Conns]
    BY LoopAssumption
  <2>3. \A s \in Streams \cap Live' : Owner[s] \in Live'
    BY <2>1, <2>2 DEF Objects, NothingStale, Live, Nodes
  <2>. QED
    BY <2>1, <2>3 DEF Put, Objects, NothingStale
<1>5. \A m \in Nodes : life'[m] = "closed" <=> life[m] = "closed"
  BY DEF Objects
<1>6. \A s \in Streams : life'[s] \in {"live", "closed"} => life'[Owner[s]] # "freed"
  BY LoopAssumption DEF Objects, Nodes
<1>. QED
  BY <1>2, <1>3, <1>4, <1>5, <1>6, SMTT(30) DEF Objects

\* What is closed together is open before, and only its last is a connection.
LEMMA ClosingFacts ==
  ASSUME Objects, NEW n \in Nodes, n \in Live
  PROVE  /\ Closing(n) \subseteq Live /\ n \in Closing(n)
         /\ IsFiniteSet(Closing(n)) /\ Cardinality(Closing(n)) \in Nat
         /\ Cardinality(Closing(n)) # 0
         /\ \A m \in Closing(n) : m = n \/ (m \in Streams /\ Owner[m] = n)
         /\ \A s \in Streams \cap Live : Owner[s] \in Closing(n) => s \in Closing(n)
<1>1. Closing(n) \subseteq Live /\ n \in Closing(n)
  BY DEF Closing, StreamsOf, Live, Nodes
<1>2. IsFiniteSet(Closing(n))
  BY <1>1, FS_Subset, LoopAssumption DEF Live
<1>3. Cardinality(Closing(n)) \in Nat /\ Cardinality(Closing(n)) # 0
  BY <1>1, <1>2, FS_CardinalityType, FS_EmptySet
<1>4. \A m \in Closing(n) : m = n \/ (m \in Streams /\ Owner[m] = n)
  BY DEF Closing, StreamsOf
<1>5. \A s \in Streams \cap Live : Owner[s] \in Closing(n) => s \in Closing(n)
  BY LoopAssumption DEF Closing, StreamsOf, Live
<1>. QED
  BY <1>1, <1>2, <1>3, <1>4, <1>5

\* Appending the objects closed together to the release list.
LEMMA Appended ==
  ASSUME NEW old \in Seq(Nodes), NEW S \in SUBSET Nodes, NEW k \in Nat,
         NEW q \in [1..k -> S]
  PROVE  /\ old \o q \in Seq(Nodes) /\ DOMAIN old = 1..Len(old) /\ Len(old) \in Nat
         /\ DOMAIN (old \o q) = 1..(Len(old) + k)
         /\ \A i \in 1..Len(old) : (old \o q)[i] = old[i]
         /\ \A i \in 1..(Len(old) + k) : i > Len(old) =>
               i - Len(old) \in 1..k /\ (old \o q)[i] = q[i - Len(old)]
         /\ \A i \in 1..k : i + Len(old) \in 1..(Len(old) + k)
                            /\ (old \o q)[i + Len(old)] = q[i]
<1>1. q \in Seq(Nodes) /\ Len(q) = k
  <2>1. q \in [1..k -> Nodes]
    OBVIOUS
  <2>. QED
    BY <2>1, SMTT(30)
<1>2. old \o q \in Seq(Nodes) /\ Len(old \o q) = Len(old) + k
  BY <1>1, SMTT(30)
<1>3. \A i \in 1..(Len(old) + k) :
        (old \o q)[i] = IF i <= Len(old) THEN old[i] ELSE q[i - Len(old)]
  BY <1>1, SMTT(30)
<1>4. DOMAIN old = 1..Len(old) /\ Len(old) \in Nat
  BY SMTT(30)
<1>5. DOMAIN (old \o q) = 1..(Len(old) + k)
  BY <1>2, SMTT(30)
<1>. QED
  BY <1>2, <1>3, <1>4, <1>5, SMTT(30)

\* kcpmux_conn_close_internal and kcpmux_stream_close_internal keep objects, timers
\* and the release list in order.
LEMMA CloseObjects ==
  ASSUME Objects, NEW n \in Nodes, n \in Live, Close(n)
  PROVE  Objects' /\ Live' = Live \ Closing(n) /\ due' = due \ Closing(n)
<1> DEFINE S == Closing(n)
           k == Cardinality(Closing(n))
           l == Len(queue)
<1>1. /\ S \subseteq Live /\ n \in S /\ k \in Nat /\ k # 0
      /\ \A m \in S : m = n \/ (m \in Streams /\ Owner[m] = n)
      /\ \A s \in Streams \cap Live : Owner[s] \in S => s \in S
  BY ClosingFacts
<1>2. S \in SUBSET Nodes
  BY <1>1 DEF Live
<1>3. PICK q \in Orders(S, n) : queue' = queue \o q
  BY SMTT(30) DEF Close
<1>4. /\ q \in [1..k -> S] /\ q[Len(q)] = n
      /\ \A m \in S : \E i \in 1..k : q[i] = m
      /\ \A i, j \in 1..k : q[i] = q[j] => i = j
  BY <1>3 DEF Orders, Queued
<1>5. q[k] = n
  <2>1. q \in Seq(S) /\ Len(q) = k
    BY <1>1, <1>4, SMTT(30)
  <2>. QED
    BY <1>4, <2>1
<1>6. queue \in Seq(Nodes)
  BY DEF Objects
<1>7. life' = [m \in Nodes |-> IF m \in S THEN "closed" ELSE life[m]]
  BY DEF Close
<1>8. heap' = heap \ S /\ due' = due \ S /\ deadline' = deadline
  BY DEF Close, Unregister
<1> HIDE DEF S, k
<1>9. /\ queue' \in Seq(Nodes) /\ DOMAIN queue = 1..l /\ l \in Nat
      /\ DOMAIN queue' = 1..(l + k)
      /\ \A i \in 1..l : queue'[i] = queue[i]
      /\ \A i \in 1..(l + k) : i > l => i - l \in 1..k /\ queue'[i] = q[i - l]
      /\ \A i \in 1..k : i + l \in 1..(l + k) /\ queue'[i + l] = q[i]
  <2> DEFINE Q == queue \o q
  <2>1. k \in Nat /\ q \in [1..k -> S]
    BY <1>1, <1>4
  <2>2. /\ Q \in Seq(Nodes) /\ DOMAIN queue = 1..l /\ l \in Nat
        /\ DOMAIN Q = 1..(l + k)
        /\ \A i \in 1..l : Q[i] = queue[i]
        /\ \A i \in 1..(l + k) : i > l => i - l \in 1..k /\ Q[i] = q[i - l]
        /\ \A i \in 1..k : i + l \in 1..(l + k) /\ Q[i + l] = q[i]
    BY <2>1, <1>2, <1>6, Appended
  <2>3. queue' = Q
    BY <1>3
  <2> HIDE DEF Q
  <2>. QED
    BY <2>2, <2>3
<1> HIDE DEF l
<1>10. life' \in [Nodes -> {"unborn", "live", "closed", "freed"}]
  BY <1>7 DEF Objects
<1>11. heap' \subseteq Nodes /\ deadline' \in [Nodes -> Times] /\ due' \subseteq Nodes
  BY <1>8 DEF Objects
<1>12. Live' = Live \ S
  BY <1>7, <1>2 DEF Live
<1>13. NothingStale'
  BY <1>8, <1>12, <1>1 DEF Objects, NothingStale
<1>14. /\ \A i \in 1..l : queue[i] \in Nodes /\ life[queue[i]] = "closed" /\ queue[i] \notin S
       /\ \A i \in 1..k : q[i] \in S
  <2>1. \A i \in 1..l : queue[i] \in Nodes
    BY <1>6, <1>9, SMTT(30)
  <2>2. \A i \in 1..l : life[queue[i]] = "closed"
    BY <2>1, <1>9 DEF Objects
  <2>. QED
    BY <2>1, <2>2, <1>1, <1>4 DEF Live
<1>15. ASSUME NEW m \in Nodes
       PROVE  life'[m] = "closed" <=> \E i \in DOMAIN queue' : queue'[i] = m
  <2>1. CASE m \in S
    <3>1. PICK i \in 1..k : q[i] = m
      BY <1>4, <2>1
    <3>2. i + l \in DOMAIN queue' /\ queue'[i + l] = m
      BY <1>9, <3>1
    <3>. QED
      BY <1>7, <2>1, <3>2
  <2>2. CASE m \notin S
    <3>1. life'[m] = life[m]
      BY <1>7, <2>2
    <3>2. ASSUME NEW i \in DOMAIN queue', queue'[i] = m
          PROVE  \E j \in DOMAIN queue : queue[j] = m
      <4>1. i \in 1..(l + k)
        BY <1>9, <3>2
      <4>2. CASE i > l
        BY <4>1, <4>2, <1>9, <1>14, <2>2, <3>2
      <4>3. CASE i \in 1..l
        BY <4>3, <1>9, <3>2
      <4>. QED
        BY <4>1, <4>2, <4>3, <1>9, <1>1, SMTT(30)
    <3>3. ASSUME NEW i \in DOMAIN queue, queue[i] = m
          PROVE  \E j \in DOMAIN queue' : queue'[j] = m
      <4>1. i \in 1..l /\ i \in 1..(l + k) /\ queue'[i] = m
        BY <3>3, <1>9, <1>1, SMTT(30)
      <4>. QED
        BY <4>1, <1>9
    <3>4. life[m] = "closed" <=> \E j \in DOMAIN queue : queue[j] = m
      BY DEF Objects
    <3>. QED
      BY <3>1, <3>2, <3>3, <3>4
  <2>. QED
    BY <2>1, <2>2
<1>16. \A i, j \in DOMAIN queue : queue[i] = queue[j] => i = j
  BY DEF Objects
<1>17. ASSUME NEW i \in DOMAIN queue', NEW j \in DOMAIN queue', queue'[i] = queue'[j]
       PROVE  i = j
  <2>1. i \in 1..(l + k) /\ j \in 1..(l + k)
    BY <1>9
  <2>2. CASE i \in 1..l /\ j \in 1..l
    BY <2>2, <1>9, <1>16, <1>17
  <2>3. CASE i > l /\ j > l
    <3>1. i - l \in 1..k /\ j - l \in 1..k /\ q[i - l] = q[j - l]
      BY <2>1, <2>3, <1>9, <1>17
    <3>2. i - l = j - l
      BY <3>1, <1>4
    <3>. QED
      BY <3>2, <2>1, <1>9, <1>1, SMTT(30)
  <2>4. CASE i \in 1..l /\ j > l
    BY <2>1, <2>4, <1>9, <1>14, <1>17, SMTT(30)
  <2>5. CASE i > l /\ j \in 1..l
    BY <2>1, <2>5, <1>9, <1>14, <1>17, SMTT(30)
  <2>. QED
    BY <2>1, <2>2, <2>3, <2>4, <2>5, <1>1, <1>9, SMTT(30)
<1>18. \A s \in Streams : life'[s] \in {"live", "closed"} => life'[Owner[s]] # "freed"
  <2>1. Owner \in [Streams -> Conns] /\ Streams \subseteq Nodes /\ Conns \subseteq Nodes
    BY LoopAssumption DEF Nodes
  <2>2. \A m \in S : life[m] = "live"
    BY <1>1 DEF Live
  <2>3. \A s \in Streams : life[s] \in {"live", "closed"} => life[Owner[s]] # "freed"
    BY DEF Objects
  <2>. QED
    BY <1>7, <2>1, <2>2, <2>3
<1>19. ASSUME NEW i \in DOMAIN queue', NEW j \in DOMAIN queue',
              queue'[i] \in Streams, queue'[j] = Owner[queue'[i]]
       PROVE  i < j
  <2>1. i \in 1..(l + k) /\ j \in 1..(l + k)
    BY <1>9
  <2>2. CASE i \in 1..l /\ j \in 1..l
    <3>1. \A a, b \in DOMAIN queue :
            queue[a] \in Streams /\ queue[b] = Owner[queue[a]] => a < b
      BY DEF Objects
    <3>. QED
      BY <2>2, <3>1, <1>9, <1>19
  <2>3. CASE i \in 1..l /\ j > l
    BY <2>1, <2>3, <1>9, <1>1, SMTT(30)
  <2>4. CASE i > l /\ j \in 1..l
    <3>1. queue'[i] \in S /\ queue'[j] = queue[j] /\ life[queue[j]] = "closed"
      BY <2>1, <2>4, <1>9, <1>14
    <3>2. queue'[i] \in Streams \cap Live
      BY <3>1, <1>1, <1>19
    <3>3. Owner[queue'[i]] \in Live
      BY <3>2 DEF Objects, NothingStale
    <3>. QED
      BY <3>1, <3>3, <1>19 DEF Live
  <2>5. CASE i > l /\ j > l
    <3>1. i - l \in 1..k /\ j - l \in 1..k /\ queue'[i] = q[i - l] /\ queue'[j] = q[j - l]
      BY <2>1, <2>5, <1>9
    <3>2. queue'[i] \in S /\ queue'[j] \in S
      BY <3>1, <1>14
    <3>3. queue'[j] \in Conns /\ queue'[j] \notin Streams
      BY <1>19, LoopAssumption
    <3>4. queue'[j] = n /\ queue'[i] # n
      BY <3>2, <3>3, <1>1, <1>19
    <3>5. j - l = k /\ i - l # k
      <4>1. k \in 1..k
        BY <1>1, SMTT(30)
      <4>2. q[j - l] = q[k] /\ q[i - l] # q[k]
        BY <3>1, <3>4, <1>5
      <4>. QED
        BY <4>1, <4>2, <3>1, <1>4
    <3>. QED
      BY <3>1, <3>5, <2>1, <1>1, <1>9, SMTT(30)
  <2>. QED
    BY <2>1, <2>2, <2>3, <2>4, <2>5, <1>1, <1>9, SMTT(30)
<1>20. \A i, j \in DOMAIN queue' : queue'[i] = queue'[j] => i = j
  BY <1>17
<1>21. \A i, j \in DOMAIN queue' :
         queue'[i] \in Streams /\ queue'[j] = Owner[queue'[i]] => i < j
  BY <1>19
<1>22. Objects'
  BY <1>9, <1>10, <1>11, <1>13, <1>15, <1>18, <1>20, <1>21 DEF Objects
<1>. QED
  BY <1>8, <1>12, <1>22 DEF S

\* Freeing the first object of the release list: nothing open or waiting refers to it.
LEMMA ReleaseObjects ==
  ASSUME Objects, Release
  PROVE  Objects' /\ Live' = Live
<1> DEFINE h == Head(queue)
           l == Len(queue)
<1>1. /\ queue \in Seq(Nodes) /\ queue # << >>
      /\ life' = [life EXCEPT ![h] = "freed"] /\ queue' = Tail(queue)
      /\ heap' = heap /\ deadline' = deadline /\ due' = due
  BY DEF Release, Objects, timerVars
<1>2. /\ l \in Nat /\ l >= 1 /\ DOMAIN queue = 1..l /\ h = queue[1]
      /\ queue' \in Seq(Nodes) /\ DOMAIN queue' = 1..(l - 1)
      /\ \A i \in 1..(l - 1) : i + 1 \in 1..l /\ queue'[i] = queue[i + 1]
  <2>1. l \in Nat /\ l >= 1 /\ DOMAIN queue = 1..l /\ h = queue[1]
    BY <1>1, SMTT(30)
  <2>2. queue' \in Seq(Nodes) /\ Len(queue') = l - 1
    BY <1>1, <2>1, SMTT(30)
  <2>3. \A i \in 1..(l - 1) : queue'[i] = queue[i + 1]
    BY <1>1, <2>1, SMTT(30)
  <2>4. DOMAIN queue' = 1..(l - 1)
    BY <2>2, SMTT(30)
  <2>. QED
    BY <2>1, <2>2, <2>3, <2>4, SMTT(30)
<1> HIDE DEF l
<1>3. h \in Nodes /\ life[h] = "closed" /\ 1 \in 1..l
  <2>1. 1 \in 1..l
    BY <1>2, SMTT(30)
  <2>2. h \in Nodes
    BY <2>1, <1>1, <1>2, SMTT(30)
  <2>. QED
    BY <2>1, <2>2, <1>2 DEF Objects
<1> HIDE DEF h
<1>4. life' \in [Nodes -> {"unborn", "live", "closed", "freed"}]
  BY <1>1, <1>3 DEF Objects
<1>5. Live' = Live
  BY <1>1, <1>3 DEF Objects, Live
<1>6. NothingStale'
  BY <1>1, <1>5 DEF Objects, NothingStale
<1>7. \A i, j \in 1..l : queue[i] = queue[j] => i = j
  BY <1>2 DEF Objects
<1>8. ASSUME NEW m \in Nodes
      PROVE  life'[m] = "closed" <=> \E i \in DOMAIN queue' : queue'[i] = m
  <2>1. life[m] = "closed" <=> \E i \in 1..l : queue[i] = m
    BY <1>2 DEF Objects
  <2>2. life'[m] = IF m = h THEN "freed" ELSE life[m]
    BY <1>1 DEF Objects
  <2>3. CASE m = h
    <3>1. \A i \in 1..(l - 1) : queue'[i] # h
      <4>1. \A i \in 1..(l - 1) : i + 1 # 1
        BY <1>2, SMTT(30)
      <4>. QED
        BY <4>1, <1>2, <1>3, <1>7, SMTT(30)
    <3>. QED
      BY <2>2, <2>3, <3>1, <1>2
  <2>4. CASE m # h
    <3>1. ASSUME NEW i \in 1..l, queue[i] = m
          PROVE  \E j \in 1..(l - 1) : queue'[j] = m
      <4>1. i # 1
        BY <3>1, <2>4, <1>2
      <4>2. i - 1 \in 1..(l - 1) /\ queue'[i - 1] = queue[i]
        BY <4>1, <1>2, SMTT(30)
      <4>. QED
        BY <4>2, <3>1
    <3>2. ASSUME NEW j \in 1..(l - 1), queue'[j] = m
          PROVE  \E i \in 1..l : queue[i] = m
      BY <3>2, <1>2
    <3>. QED
      BY <3>1, <3>2, <2>1, <2>2, <2>4, <1>2
  <2>. QED
    BY <2>3, <2>4
<1>9. \A i, j \in DOMAIN queue' : queue'[i] = queue'[j] => i = j
  BY <1>2, <1>7, SMTT(30)
<1>10. \A i, j \in 1..l : queue[i] \in Streams /\ queue[j] = Owner[queue[i]] => i < j
  BY <1>2 DEF Objects
<1>11. \A i, j \in DOMAIN queue' :
         queue'[i] \in Streams /\ queue'[j] = Owner[queue'[i]] => i < j
  <2> SUFFICES ASSUME NEW i \in 1..(l - 1), NEW j \in 1..(l - 1),
                      queue'[i] \in Streams, queue'[j] = Owner[queue'[i]]
               PROVE  i < j
    BY <1>2
  <2>1. i + 1 \in 1..l /\ j + 1 \in 1..l /\ queue'[i] = queue[i + 1] /\ queue'[j] = queue[j + 1]
    BY <1>2
  <2>2. i + 1 < j + 1
    BY <2>1, <1>10
  <2>. QED
    BY <2>2, <1>2, SMTT(30)
<1>12. ASSUME NEW s \in Streams, life'[s] \in {"live", "closed"}
       PROVE  life'[Owner[s]] # "freed"
  <2>1. s \in Nodes /\ Owner[s] \in Nodes
    BY LoopAssumption DEF Nodes
  <2>2. s # h /\ life'[s] = life[s]
    BY <1>1, <1>12, <2>1, <1>3 DEF Objects
  <2>3. life[Owner[s]] # "freed"
    BY <1>12, <2>2 DEF Objects
  <2>4. Owner[s] # h
    <3>1. CASE life[s] = "live"
      <4>1. Owner[s] \in Live
        BY <3>1, <2>1 DEF Objects, NothingStale, Live
      <4>. QED
        BY <4>1, <1>3 DEF Live
    <3>2. CASE life[s] = "closed"
      <4>1. PICK i \in 1..l : queue[i] = s
        BY <3>2, <2>1, <1>2 DEF Objects
      <4>2. ~ (i < 1)
        BY <1>2, SMTT(30)
      <4>. QED
        BY <4>1, <4>2, <1>2, <1>3, <1>10
    <3>. QED
      BY <3>1, <3>2, <1>12, <2>2
  <2>. QED
    BY <1>1, <2>1, <2>3, <2>4 DEF Objects
<1>13. heap' \subseteq Nodes /\ deadline' \in [Nodes -> Times] /\ due' \subseteq Nodes
  BY <1>1 DEF Objects
<1>. QED
  BY <1>2, <1>4, <1>5, <1>6, <1>8, <1>9, <1>11, <1>12, <1>13 DEF Objects

\* A step that touches no object.
LEMMA SameObjects ==
  ASSUME Objects, UNCHANGED <<life, heap, deadline, due, queue>>
  PROVE  Objects' /\ Live' = Live
BY DEF Objects, NothingStale, Live

\* kcpmux_engine_create establishes the invariant.
LEMMA InitInv == Init => IndInv
<1> SUFFICES ASSUME Init PROVE Objects /\ Loop
  BY Parts
<1>1. queue \in Seq(Nodes) /\ DOMAIN queue = {}
  BY SMTT(30) DEF Init
<1>2. Live = {}
  BY DEF Init, Live
<1>3. 0 \in Times
  BY LoopAssumption, SMTT(30) DEF Times
<1>4. Objects
  BY <1>1, <1>2, <1>3, LoopAssumption DEF Init, Objects, NothingStale, Nodes
<1>5. Loop
  BY <1>2, <1>3 DEF Init, Loop, OncePerUpdate, Times
<1>. QED
  BY <1>4, <1>5

\* The steps inside an operation of the host: they leave the external timer alone.
LEMMA CallSteps ==
  ASSUME Objects, Loop, mode = "call", Keep, Objects', due' = {}
  PROVE  Loop'
BY DEF Loop, Keep, hostVars, OncePerUpdate

\* Every step of the engine, its host and its clock preserves the invariant.
LEMMA StepInv == IndInv /\ [Next]_vars => IndInv'
<1> SUFFICES ASSUME Objects, Loop, [Next]_vars PROVE Objects' /\ Loop'
  BY Parts, PartsNext
<1>1. ASSUME NEW n \in Nodes, NEW d \in Times, Create(n, d) PROVE Objects' /\ Loop'
  <2>1. seenAt \in Times /\ due = {}
    BY <1>1 DEF Loop, Create
  <2>2. Objects'
    BY <1>1, <2>1, CreateObjects DEF Create
  <2>3. due' = {}
    BY <1>1, <2>1 DEF Create, Put
  <2>. QED
    BY <1>1, <2>2, <2>3, CallSteps DEF Create
<1>2. ASSUME NEW n \in Nodes, NEW d \in Times, Schedule(n, d) PROVE Objects' /\ Loop'
  <2>1. seenAt \in Times /\ due = {}
    BY <1>2 DEF Loop, Schedule
  <2>2. Objects'
    BY <1>2, <2>1, PutObjects DEF Schedule
  <2>3. due' = {}
    BY <1>2, <2>1 DEF Schedule, Put
  <2>. QED
    BY <1>2, <2>2, <2>3, CallSteps DEF Schedule
<1>3. ASSUME NEW n \in Nodes, Cancel(n) PROVE Objects' /\ Loop'
  <2>1. due' = {}
    BY <1>3 DEF Loop, Cancel
  <2>2. Objects'
    BY <1>3 DEF Objects, Cancel, NothingStale, Live
  <2>. QED
    BY <1>3, <2>1, <2>2, CallSteps DEF Cancel
<1>4. ASSUME NEW n \in Nodes, CloseCall(n) PROVE Objects' /\ Loop'
  <2>1. Objects' /\ due' = due \ Closing(n)
    BY <1>4, CloseObjects DEF CloseCall
  <2>2. due' = {}
    BY <1>4, <2>1 DEF Loop, CloseCall
  <2>. QED
    BY <1>4, <2>1, <2>2, CallSteps DEF CloseCall
<1>5. ASSUME NEW n \in Nodes, Dispatch(n) PROVE Objects' /\ Loop'
  <2>1. /\ mode = "update" /\ n \in due /\ ran' = ran \cup {n}
        /\ UNCHANGED <<now, seenAt, mode, armed, armedFor, shot, gone>>
    BY <1>5 DEF Dispatch, hostVars
  <2>2. n \in Live /\ seenAt \in Times /\ ~gone
    BY <2>1 DEF Objects, NothingStale, Loop
  <2>3. Objects' /\ due' \subseteq due \ {n}
    <3>1. CASE due' = due \ {n} /\ UNCHANGED <<life, heap, deadline, queue>>
      BY <3>1 DEF Objects, NothingStale, Live
    <3>2. CASE (\E d \in Times : Put(n, d, seenAt)) /\ UNCHANGED <<life, queue>>
      <4>1. PICK d \in Times : Put(n, d, seenAt)
        BY <3>2
      <4>2. Objects'
        BY <4>1, <3>2, <2>2, PutObjects
      <4>. QED
        BY <4>1, <4>2 DEF Put
    <3>3. CASE Close(n)
      <4>1. Objects' /\ due' = due \ Closing(n)
        BY <3>3, <2>2, CloseObjects
      <4>. QED
        BY <4>1 DEF Closing
    <3>. QED
      BY <1>5, <3>1, <3>2, <3>3 DEF Dispatch
  <2>. QED
    BY <2>1, <2>2, <2>3 DEF Loop, OncePerUpdate
<1>6. ASSUME NEW c \in Conns, DestroyNext(c) PROVE Objects' /\ Loop'
  <2>1. c \in Nodes /\ c \in Live /\ Close(c)
    BY <1>6 DEF DestroyNext, Nodes
  <2>2. Objects' /\ due' = due \ Closing(c)
    BY <2>1, CloseObjects
  <2>. QED
    BY <1>6, <2>2 DEF DestroyNext, Keep, hostVars, Loop, OncePerUpdate
<1>7. ASSUME CallBegin PROVE Objects' /\ Loop'
  <2>1. Objects' /\ Live' = Live
    BY <1>7, SameObjects DEF CallBegin, timerVars
  <2>. QED
    BY <1>7, <2>1 DEF CallBegin, Enter, timerVars, hostVars, Loop, OncePerUpdate
<1>8. ASSUME CallEnd PROVE Objects' /\ Loop'
  <2>1. Objects' /\ Live' = Live
    BY <1>8, SameObjects DEF CallEnd, timerVars
  <2>. QED
    BY <1>8, <2>1 DEF CallEnd, timerVars, hostVars, Loop, OncePerUpdate
<1>9. ASSUME DestroyBegin PROVE Objects' /\ Loop'
  <2>1. Objects' /\ Live' = Live
    BY <1>9, SameObjects DEF DestroyBegin, timerVars
  <2>. QED
    BY <1>9, <2>1 DEF DestroyBegin, Enter, timerVars, Loop, OncePerUpdate
<1>10. ASSUME DestroyEnd PROVE Objects' /\ Loop'
  <2>1. Objects' /\ Live' = Live
    BY <1>10, SameObjects DEF DestroyEnd, timerVars
  <2>. QED
    BY <1>10, <2>1 DEF DestroyEnd, timerVars, hostVars, Loop, OncePerUpdate
<1>11. ASSUME UpdateBegin, shot' = None \/ shot' = shot PROVE Objects' /\ Loop'
  <2>1. /\ due' = {n \in heap : deadline[n] <= now} /\ heap' = heap \ due'
        /\ UNCHANGED <<life, deadline, queue>>
    BY <1>11 DEF UpdateBegin
  <2>2. Objects'
    BY <2>1 DEF Objects, NothingStale, Live
  <2>. QED
    BY <1>11, <2>1, <2>2 DEF UpdateBegin, Enter, Loop, OncePerUpdate
<1>12. ASSUME TimerFires \/ ExtraUpdate PROVE Objects' /\ Loop'
  BY <1>11, <1>12 DEF TimerFires, ExtraUpdate
<1>13. ASSUME UpdateEnd PROVE Objects' /\ Loop'
  <2>1. Objects' /\ Live' = Live
    BY <1>13, SameObjects DEF UpdateEnd, timerVars
  <2>. QED
    BY <1>13, <2>1 DEF UpdateEnd, timerVars, hostVars, Loop, OncePerUpdate
<1>14. ASSUME Release PROVE Objects' /\ Loop'
  <2>1. Objects' /\ Live' = Live
    BY <1>14, ReleaseObjects
  <2>. QED
    BY <1>14, <2>1 DEF Release, timerVars, hostVars, Loop, OncePerUpdate
<1>15. ASSUME Left PROVE Objects' /\ Loop'
  <2>1. Objects' /\ Live' = Live
    BY <1>15, SameObjects DEF Left, timerVars
  <2>2. /\ UNCHANGED <<now, life, heap, deadline, due, ran, seenAt, queue, gone>>
        /\ queue = << >> /\ mode = "leaving" /\ mode' = "idle"
    BY <1>15 DEF Left, timerVars
  <2>3. /\ armed' \in BOOLEAN /\ armedFor' \in Times /\ shot' \in Times \cup {None}
        /\ armed' /\ ~gone => shot' # None /\ shot' <= Larger(armedFor', now)
        /\ \A n \in heap : armed' /\ armedFor' <= deadline[n]
    <3>1. CASE heap = {} /\ UNCHANGED hostVars
      BY <3>1 DEF hostVars, Loop
    <3>2. CASE heap # {}
      <4>1. PICK n \in heap :
              /\ IsRoot(n)
              /\ IF armed /\ armedFor = deadline[n] THEN UNCHANGED hostVars
                 ELSE SetTimer(deadline[n])
        BY <1>15, <3>2 DEF Left, Rearm
      <4>2. deadline[n] \in Times /\ \A m \in heap : deadline[n] <= deadline[m]
        BY <4>1 DEF IsRoot, Objects
      <4>3. CASE armed /\ armedFor = deadline[n]
        BY <4>1, <4>2, <4>3 DEF hostVars, Loop
      <4>4. CASE ~ (armed /\ armedFor = deadline[n])
        <5>1. armed' = TRUE /\ armedFor' = deadline[n] /\ shot' = Larger(deadline[n], now)
          BY <4>1, <4>4 DEF SetTimer
        <5>2. Larger(deadline[n], now) \in Times
          BY <4>2, LargerTime DEF Loop
        <5>3. shot' # None /\ shot' <= Larger(armedFor', now)
          BY <5>1, <5>2, LoopAssumption, SMTT(30) DEF Times, None
        <5>. QED
          BY <5>1, <5>2, <5>3, <4>2
      <4>. QED
        BY <4>3, <4>4
    <3>. QED
      BY <1>15, <3>1, <3>2 DEF Left, Rearm
  <2>. QED
    BY <2>1, <2>2, <2>3 DEF Loop, OncePerUpdate
<1>16. ASSUME Tick PROVE Objects' /\ Loop'
  <2>1. Objects' /\ Live' = Live
    BY <1>16, SameObjects DEF Tick, timerVars
  <2>2. now' \in Times /\ now' > now
    BY <1>16, LoopAssumption, SMTT(30) DEF Tick, Times, Loop
  <2>3. armed /\ ~gone => shot <= Larger(armedFor, now')
    BY <2>2, LoopAssumption, SMTT(30) DEF Loop, Larger, Times, None
  <2>. QED
    BY <1>16, <2>1, <2>2, <2>3 DEF Tick, timerVars, hostVars, Loop, OncePerUpdate
<1>17. ASSUME UNCHANGED vars PROVE Objects' /\ Loop'
  <2>1. Objects' /\ Live' = Live
    BY <1>17, SameObjects DEF vars, timerVars
  <2>. QED
    BY <1>17, <2>1 DEF vars, timerVars, hostVars, Loop, OncePerUpdate
<1>. QED
  BY <1>1, <1>2, <1>3, <1>4, <1>5, <1>6, <1>7, <1>8, <1>9, <1>10, <1>12, <1>13, <1>14,
     <1>15, <1>16, <1>17 DEF Next

\* IndInv holds of every engine, whatever its connections and streams.
THEOREM Invariance == Spec => []IndInv
<1>1. Init => IndInv
  BY InitInv
<1>2. IndInv /\ [Next]_vars => IndInv'
  BY StepInv
<1>. QED
  BY <1>1, <1>2, PTL DEF Spec

\* Type correctness.
THEOREM TypeCorrect == Spec => []TypeOK
<1>1. IndInv => TypeOK
  BY DEF IndInv
<1>. QED
  BY <1>1, Invariance, PTL

\* kcpmux_engine_rearm_timer never leaves a deadline without a one-shot that covers it.
THEOREM WakeupKept == Spec => []NoLostWakeup
<1>1. IndInv => NoLostWakeup
  <2> SUFFICES ASSUME IndInv, mode = "idle", ~gone, NEW n \in heap
               PROVE  shot # None /\ shot <= Larger(deadline[n], now)
    BY DEF NoLostWakeup
  <2>1. armed /\ armedFor <= deadline[n] /\ shot # None /\ shot <= Larger(armedFor, now)
    BY DEF IndInv
  <2>2. /\ deadline[n] \in Times /\ armedFor \in Times /\ now \in Times
        /\ shot \in Times
    BY <2>1 DEF IndInv, TypeOK
  <2>3. Larger(armedFor, now) <= Larger(deadline[n], now)
    BY <2>1, <2>2, LoopAssumption, SMTT(30) DEF Larger, Times
  <2>4. shot <= Larger(deadline[n], now)
    BY <2>1, <2>2, <2>3, LoopAssumption, SMTT(30) DEF Larger, Times
  <2>. QED
    BY <2>1, <2>4
<1>. QED
  BY <1>1, Invariance, PTL

\* No timer of a closed object is ever dispatched: what is in the heap or on the due
\* list belongs to an open object, also in the middle of an update.
THEOREM DispatchSound == Spec => []NothingStale
<1>1. IndInv => NothingStale
  BY DEF IndInv
<1>. QED
  BY <1>1, Invariance, PTL

\* kcpmux_engine_update runs each node at most once, so its loop ends, although a
\* callback may schedule its node for the very moment the update works with.
THEOREM DispatchOnce == Spec => []OncePerUpdate
<1>1. IndInv => OncePerUpdate
  BY DEF IndInv
<1>. QED
  BY <1>1, Invariance, PTL

\* Objects are freed once, at the end of the outermost operation, streams first.
THEOREM ReleaseSound == Spec => []ReleaseOrder
<1>1. IndInv => ReleaseOrder
  BY DEF IndInv
<1>. QED
  BY <1>1, Invariance, PTL

\* kcpmux_engine_destroy frees every object.
THEOREM DestroySound == Spec => []DestroyComplete
<1>1. IndInv => DestroyComplete
  <2> SUFFICES ASSUME IndInv, gone, mode = "idle"
               PROVE  heap = {} /\ \A n \in Nodes : life[n] \in {"unborn", "freed"}
    BY DEF DestroyComplete
  <2>1. Conns \cap Live = {} /\ queue = << >>
    BY DEF IndInv, ReleaseOrder
  <2>2. \A n \in Nodes : life[n] # "closed"
    BY <2>1, SMTT(30) DEF IndInv, ReleaseOrder
  <2>3. Live = {}
    <3>1. \A s \in Streams \cap Live : FALSE
      BY <2>1, LoopAssumption DEF IndInv, NothingStale
    <3>. QED
      BY <3>1, <2>1 DEF Live, Nodes
  <2>4. heap = {}
    BY <2>3 DEF IndInv, NothingStale
  <2>5. life \in [Nodes -> {"unborn", "live", "closed", "freed"}]
    BY DEF IndInv, TypeOK
  <2>. QED
    BY <2>2, <2>3, <2>4, <2>5 DEF Live
<1>. QED
  BY <1>1, Invariance, PTL

-----------------------------------------------------------------------------
(* The ids of streams: module StreamIds                                        *)

(* Each end has one peer, and that peer's peer is itself.                        *)
LEMMA Peers == \A e \in Ends : Peer(e) \in Ends /\ Peer(e) # e /\ Peer(Peer(e)) = e
BY DEF Ends, Peer

(* Adding two (kcpmux_conn_alloc_stream_id) stays in the ring and keeps parity.   *)
LEMMA Plus2Props ==
  ASSUME NEW i \in Ids
  PROVE  Plus2(i) \in Ids /\ (Odd(Plus2(i)) <=> Odd(i))
<1>1. Half \in Nat /\ Half > 1 /\ Modulus = 2 * Half
  BY RingAssumption
<1>2. i \in Nat /\ i < 2 * Half
  BY <1>1, SMTT(30) DEF Ids
<1>3. CASE i + 2 >= Modulus
  <2>1. Plus2(i) = i + 2 - 2 * Half
    BY <1>1, <1>3 DEF Plus2
  <2> QED
    BY <1>1, <1>2, <1>3, <2>1, SMTT(30) DEF Ids, Odd
<1>4. CASE ~(i + 2 >= Modulus)
  <2>1. Plus2(i) = i + 2
    BY <1>4 DEF Plus2
  <2> QED
    BY <1>1, <1>2, <1>4, <2>1, SMTT(30) DEF Ids, Odd
<1> QED
  BY <1>3, <1>4

(* The id the allocator tries is one of its own, and not behind next_stream_id.   *)
LEMMA CandidateProps ==
  ASSUME IdsInv, NEW e \in Ends
  PROVE  /\ Candidate(e) \in OwnIds(e)
         /\ CandidateAt(e) \in Nat /\ CandidateAt(e) >= place[e]
         /\ Minus(Candidate(e), next[e]) = CandidateAt(e) - place[e]
         /\ CandidateAt(e) - place[e] <= 2
<1>1. Half \in Nat /\ Half > 1 /\ Modulus = 2 * Half
  BY RingAssumption
<1>2. next[e] \in Ids /\ place[e] \in Nat /\ (Odd(next[e]) <=> e = "initiator")
  BY DEF IdsInv, IdsTypeOK
<1>3. CASE next[e] = 0
  <2>1. e = "acceptor"
    BY <1>2, <1>3, SMTT(30) DEF Odd, Ends
  <2>2. Candidate(e) = 2 /\ CandidateAt(e) = place[e] + 2
    BY <1>3, <2>1 DEF Candidate, CandidateAt
  <2>3. 2 \in OwnIds(e)
    BY <1>1, <2>1, SMTT(30) DEF OwnIds, Ids, Odd
  <2> QED
    BY <1>1, <1>2, <1>3, <2>2, <2>3, SMTT(30) DEF Minus
<1>4. CASE next[e] # 0
  <2>1. Candidate(e) = next[e] /\ CandidateAt(e) = place[e]
    BY <1>4 DEF Candidate, CandidateAt
  <2> QED
    BY <1>1, <1>2, <1>4, <2>1, SMTT(30) DEF Minus, OwnIds, Ids
<1> QED
  BY <1>3, <1>4

(* Moving the allocator on keeps what is known of earlier ids.                    *)
LEMMA AdvanceKeepsLine ==
  ASSUME IdsInv, NEW e \in Ends, Advance(e), NEW f \in Ends,
         NEW i \in OwnIds(f), NEW n \in Nat, OnLine(f, i, n)
  PROVE  OnLine(f, i, n)'
<1>1. Half \in Nat /\ Half > 1 /\ Modulus = 2 * Half
  BY RingAssumption
<1>2. next[f] \in Ids /\ place[f] \in Nat /\ i \in Ids /\ i # 0
  BY DEF IdsInv, IdsTypeOK, OwnIds
<1>3. CASE f # e
  BY <1>3 DEF Advance, OnLine, IdsInv, IdsTypeOK
<1>4. CASE f = e
  <2>1. next'[f] = Plus2(Candidate(f)) /\ place'[f] = CandidateAt(f) + 2
    BY <1>4 DEF Advance, IdsInv, IdsTypeOK
  <2>2. n < place[f] /\ (place[f] - n <= Half => Minus(next[f], i) = place[f] - n)
    BY DEF OnLine
  <2>3. CASE next[f] = 0
    <3>1. Candidate(f) = 2 /\ CandidateAt(f) = place[f] + 2
      <4>1. f = "acceptor"
        BY <2>3, <1>2, SMTT(30) DEF IdsInv, Odd, Ends
      <4> QED
        BY <2>3, <4>1 DEF Candidate, CandidateAt
    <3>2. place'[f] = place[f] + 4 /\ next'[f] = (IF 4 >= Modulus THEN 4 - Modulus ELSE 4)
      <4>1. Plus2(2) = (IF 4 >= Modulus THEN 4 - Modulus ELSE 4)
        BY <1>1, SMTT(30) DEF Plus2
      <4>2. place'[f] = place[f] + 4
        BY <2>1, <3>1, <1>2, SMTT(30)
      <4> QED
        BY <2>1, <3>1, <4>1, <4>2
    <3>3. ASSUME place'[f] - n <= Half
          PROVE  Minus(next'[f], i) = place'[f] - n
      <4>1. Modulus - i = place[f] - n
        BY <1>1, <1>2, <2>2, <2>3, <3>2, <3>3, SMTT(30) DEF Minus, Ids
      <4> QED
        BY <1>1, <1>2, <3>2, <3>3, <4>1, <2>2, SMTT(30) DEF Minus, Ids
    <3> QED
      BY <3>2, <3>3, <2>2, <1>2, SMTT(30) DEF OnLine
  <2>4. CASE next[f] # 0
    <3>1. place'[f] = place[f] + 2 /\ next'[f] = Plus2(next[f])
      BY <2>1, <2>4 DEF Candidate, CandidateAt
    <3>2. ASSUME place'[f] - n <= Half
          PROVE  Minus(next'[f], i) = place'[f] - n
      <4>1. Minus(next[f], i) = place[f] - n /\ place[f] - n + 2 <= Half
        BY <1>1, <1>2, <2>2, <3>1, <3>2, SMTT(30)
      <4>2. CASE next[f] + 2 >= Modulus
        BY <1>1, <1>2, <3>1, <4>1, <4>2, SMTT(30) DEF Minus, Plus2, Ids
      <4>3. CASE ~(next[f] + 2 >= Modulus)
        BY <1>1, <1>2, <3>1, <4>1, <4>3, SMTT(30) DEF Minus, Plus2, Ids
      <4> QED
        BY <4>2, <4>3
    <3> QED
      BY <3>1, <3>2, <2>2, <1>2, SMTT(30) DEF OnLine
  <2> QED
    BY <2>3, <2>4
<1> QED
  BY <1>3, <1>4

(* A freshly taken id is two behind the allocator.                                *)
LEMMA TakenOnLine ==
  ASSUME IdsInv, NEW e \in Ends, Advance(e), NEW c \in Ids, NEW n \in Nat,
         c = Candidate(e), n = CandidateAt(e)
  PROVE  OnLine(e, c, n)'
<1>1. Half \in Nat /\ Half > 1 /\ Modulus = 2 * Half
  BY RingAssumption
<1>2. next'[e] = Plus2(c) /\ place'[e] = n + 2
  BY DEF Advance, IdsInv, IdsTypeOK
<1>3. Minus(Plus2(c), c) = 2
  BY <1>1, SMTT(30) DEF Minus, Plus2, Ids
<1> QED
  BY <1>2, <1>3, SMTT(30) DEF OnLine, Minus

(* What Advance does to the types and to the parity of next_stream_id.            *)
LEMMA AdvanceTypes ==
  ASSUME IdsInv, NEW e \in Ends, Advance(e)
  PROVE  /\ next' \in [Ends -> Ids] /\ place' \in [Ends -> Nat]
         /\ \A f \in Ends : Odd(next'[f]) <=> f = "initiator"
<1>1. PICK c \in Ids, n \in Nat : /\ c = Candidate(e) /\ n = CandidateAt(e)
                                 /\ (Odd(c) <=> e = "initiator")
  BY CandidateProps DEF OwnIds
<1>2. Plus2(c) \in Ids /\ (Odd(Plus2(c)) <=> e = "initiator")
  BY <1>1, Plus2Props
<1>3. next' = [next EXCEPT ![e] = Plus2(c)] /\ place' = [place EXCEPT ![e] = n + 2]
  BY <1>1 DEF Advance
<1>4. next \in [Ends -> Ids] /\ place \in [Ends -> Nat]
      /\ \A f \in Ends : Odd(next[f]) <=> f = "initiator"
  BY DEF IdsInv, IdsTypeOK
<1>5. next' \in [Ends -> Ids] /\ place' \in [Ends -> Nat]
  BY <1>2, <1>3, <1>4, SMTT(30)
<1>6. ASSUME NEW f \in Ends PROVE Odd(next'[f]) <=> f = "initiator"
  <2>1. CASE f = e
    BY <1>2, <1>3, <1>4, <2>1
  <2>2. CASE f # e
    <3>1. next'[f] = next[f]
      BY <1>3, <1>4, <2>2
    <3> QED
      BY <1>4, <3>1
  <2> QED
    BY <2>1, <2>2
<1> QED
  BY <1>5, <1>6

(* The part of the invariant about the latest peer id.                             *)
Marks == \A e \in Ends : known[e] =>
           latest[e] \in OwnIds(Peer(e)) /\ OnLine(Peer(e), latest[e], top[e])

(* Advance keeps both, for the packets already sent and the marks as they were.    *)
LEMMA AdvanceKeeps ==
  ASSUME IdsInv, NEW e \in Ends, Advance(e)
  PROVE  /\ \A p \in sent : p.id \in OwnIds(p.from) /\ OnLine(p.from, p.id, p.pos)'
         /\ UNCHANGED <<latest, known, top>> => Marks'
<1>1. ASSUME NEW p \in sent
      PROVE  p.id \in OwnIds(p.from) /\ OnLine(p.from, p.id, p.pos)'
  <2>1. PICK f \in Ends, i \in Ids, n \in Nat :
           i \in OwnIds(f) /\ f = p.from /\ i = p.id /\ n = p.pos /\ OnLine(f, i, n)
    BY DEF IdsInv, IdsTypeOK
  <2>2. OnLine(f, i, n)'
    BY <2>1, AdvanceKeepsLine
  <2> QED
    BY <2>1, <2>2
<1>2. ASSUME UNCHANGED <<latest, known, top>>, NEW f \in Ends, known[f]
      PROVE  latest[f] \in OwnIds(Peer(f)) /\ OnLine(Peer(f), latest[f], top[f])'
  <2>1. PICK g \in Ends, i \in Ids, n \in Nat :
           i \in OwnIds(g) /\ g = Peer(f) /\ i = latest[f] /\ n = top[f] /\ OnLine(g, i, n)
    BY <1>2, Peers DEF IdsInv, IdsTypeOK
  <2>2. OnLine(g, i, n)'
    BY <2>1, AdvanceKeepsLine
  <2> QED
    BY <1>2, <2>1, <2>2
<1> QED
  BY <1>1, <1>2 DEF Marks

-----------------------------------------------------------------------------
(* The initial state satisfies the invariant.                                     *)
LEMMA IdsInitInv == IdsInit => IdsInv
<1> SUFFICES ASSUME IdsInit PROVE IdsInv
  OBVIOUS
<1>1. Half \in Nat /\ Half > 1 /\ Modulus = 2 * Half
  BY RingAssumption
<1>2. FirstIds \subseteq Ids /\ Ids \subseteq Nat /\ 0 \in Ids
  BY <1>1, BoundsAssumption, SMTT(30) DEF Ids
<1>3. IdsTypeOK
  BY <1>2 DEF IdsInit, IdsTypeOK
<1>4. \A e \in Ends : Odd(next[e]) <=> e = "initiator"
  BY DEF IdsInit, OwnIds
<1> QED
  BY <1>3, <1>4 DEF IdsInit, IdsInv

(* A round of the allocation loop that skips an id in use.                        *)
LEMMA SkipInv ==
  ASSUME IdsInv, NEW e \in Ends, AllocSkip(e)
  PROVE  IdsInv'
<1>1. Advance(e) /\ UNCHANGED <<streams, calls, latest, known, top, sent>>
  BY DEF AllocSkip
<1>2. attempts' \in [Ends -> Nat \cup {Idle}]
  BY SMTT(30) DEF AllocSkip, IdsInv, IdsTypeOK, Idle
<1>3. IdsTypeOK'
  BY <1>1, <1>2, AdvanceTypes DEF IdsInv, IdsTypeOK
<1>4. \A p \in sent' : p.id \in OwnIds(p.from) /\ OnLine(p.from, p.id, p.pos)'
  BY <1>1, AdvanceKeeps
<1>5. Marks'
  BY <1>1, AdvanceKeeps
<1> QED
  BY <1>1, <1>3, <1>4, <1>5, AdvanceTypes DEF IdsInv, Marks

(* The round that takes a free id and sends with it.                              *)
LEMMA TakeInv ==
  ASSUME IdsInv, NEW e \in Ends, AllocTake(e)
  PROVE  IdsInv'
<1>1. Advance(e) /\ UNCHANGED <<calls, latest, known, top>>
  BY DEF AllocTake
<1>2. PICK c \in Ids, n \in Nat :
         c = Candidate(e) /\ n = CandidateAt(e) /\ c \in OwnIds(e)
  BY CandidateProps DEF OwnIds
<1>3. /\ streams' = [streams EXCEPT ![e] = streams[e] \cup {c}]
      /\ sent' = sent \cup {[from |-> e, id |-> c, pos |-> n]}
      /\ attempts' = [attempts EXCEPT ![e] = Idle]
  BY <1>2 DEF AllocTake
<1>4. IdsTypeOK'
  <2>1. streams' \in [Ends -> SUBSET Ids] /\ attempts' \in [Ends -> Nat \cup {Idle}]
    BY <1>3 DEF IdsInv, IdsTypeOK
  <2>2. sent' \subseteq [from : Ends, id : Ids, pos : Nat]
    BY <1>3, SMTT(30) DEF IdsInv, IdsTypeOK
  <2> QED
    BY <1>1, <2>1, <2>2, AdvanceTypes DEF IdsInv, IdsTypeOK
<1>5. ASSUME NEW p \in sent'
      PROVE  p.id \in OwnIds(p.from) /\ OnLine(p.from, p.id, p.pos)'
  <2>1. CASE p \in sent
    BY <1>1, <2>1, AdvanceKeeps
  <2>2. CASE p = [from |-> e, id |-> c, pos |-> n]
    <3>1. OnLine(e, c, n)'
      BY <1>1, <1>2, TakenOnLine
    <3>2. p.from = e /\ p.id = c /\ p.pos = n
      BY <2>2
    <3> QED
      BY <1>2, <3>1, <3>2
  <2> QED
    BY <1>3, <2>1, <2>2
<1>6. Marks'
  BY <1>1, AdvanceKeeps
<1> QED
  BY <1>1, <1>4, <1>5, <1>6, AdvanceTypes DEF IdsInv, Marks

(* A payload of an unknown id that opens a stream moves the mark.                 *)
LEMMA AcceptInv ==
  ASSUME IdsInv, NEW e \in Ends, NEW p \in sent, Accept(e, p)
  PROVE  IdsInv'
<1>1. UNCHANGED <<next, place, attempts, calls, sent>>
  BY DEF Accept
<1>2. /\ p.from = Peer(e) /\ p.id \in OwnIds(Peer(e)) /\ p.id \in Ids /\ p.pos \in Nat
      /\ OnLine(Peer(e), p.id, p.pos)
  BY DEF Accept, IdsInv, IdsTypeOK
<1>3. IdsTypeOK'
  <2>1. streams' \in [Ends -> SUBSET Ids] /\ latest' \in [Ends -> Ids]
    BY <1>2 DEF Accept, IdsInv, IdsTypeOK
  <2>2. known' \in [Ends -> BOOLEAN] /\ top' \in [Ends -> Nat]
    BY <1>2 DEF Accept, IdsInv, IdsTypeOK
  <2> QED
    BY <1>1, <2>1, <2>2 DEF IdsInv, IdsTypeOK
<1>4. ASSUME NEW f \in Ends, known'[f]
      PROVE  latest'[f] \in OwnIds(Peer(f)) /\ OnLine(Peer(f), latest'[f], top'[f])
  <2>1. CASE f = e
    <3>1. latest'[f] = p.id /\ top'[f] = p.pos
      BY <2>1 DEF Accept, IdsInv, IdsTypeOK
    <3> QED
      BY <1>2, <2>1, <3>1
  <2>2. CASE f # e
    <3>1. latest'[f] = latest[f] /\ top'[f] = top[f] /\ known'[f] = known[f]
      BY <2>2 DEF Accept, IdsInv, IdsTypeOK
    <3> QED
      BY <1>4, <3>1 DEF IdsInv
  <2> QED
    BY <2>1, <2>2
<1> QED
  BY <1>1, <1>3, <1>4 DEF IdsInv, OnLine

(* No step leaves the invariant.                                                  *)
LEMMA IdsNextInv == IdsInv /\ [IdsNext]_idVars => IdsInv'
<1> SUFFICES ASSUME IdsInv, [IdsNext]_idVars PROVE IdsInv'
  OBVIOUS
<1>1. ASSUME NEW e \in Ends, AllocStart(e) PROVE IdsInv'
  <2>1. /\ attempts' \in [Ends -> Nat \cup {Idle}] /\ calls' \in [Ends -> Nat]
        /\ UNCHANGED <<next, place, streams, latest, known, top, sent>>
    BY <1>1, SMTT(30) DEF AllocStart, IdsInv, IdsTypeOK
  <2> QED
    BY <2>1 DEF IdsInv, IdsTypeOK, OnLine
<1>2. ASSUME NEW e \in Ends, AllocFail(e) PROVE IdsInv'
  <2>1. /\ attempts' \in [Ends -> Nat \cup {Idle}]
        /\ UNCHANGED <<next, place, streams, calls, latest, known, top, sent>>
    BY <1>2 DEF AllocFail, IdsInv, IdsTypeOK
  <2> QED
    BY <2>1 DEF IdsInv, IdsTypeOK, OnLine
<1>3. ASSUME NEW e \in Ends, NEW i \in streams[e], CloseStream(e, i) PROVE IdsInv'
  <2>1. /\ streams' \in [Ends -> SUBSET Ids]
        /\ UNCHANGED <<next, place, attempts, calls, latest, known, top, sent>>
    BY <1>3 DEF CloseStream, IdsInv, IdsTypeOK
  <2> QED
    BY <2>1 DEF IdsInv, IdsTypeOK, OnLine
<1>4. CASE UNCHANGED idVars
  BY <1>4 DEF idVars, IdsInv, IdsTypeOK, OnLine
<1> QED
  BY <1>1, <1>2, <1>3, <1>4, SkipInv, TakeInv, AcceptInv DEF IdsNext

(* The invariant of the allocators, the packets and the high-water marks.          *)
THEOREM IdsInvariance == IdsSpec => []IdsInv
BY IdsInitInv, IdsNextInv, PTL DEF IdsSpec

(* The ends never pick each other's ids nor 0, however often the allocator of       *)
(* kcpmux_conn_alloc_stream_id wraps.                                               *)
THEOREM Apart == IdsSpec => []IdsApart
<1>1. IdsInv => IdsApart
  BY DEF IdsInv, IdsApart
<1> QED
  BY <1>1, IdsInvariance, PTL

(* Two ids of one end within half a ring of its allocator: what the unsigned        *)
(* difference of kcpmux_conn_is_new_peer_stream_id says about their age.            *)
LEMMA RingOrder ==
  ASSUME IdsInv, NEW f \in Ends, NEW i \in Ids, NEW j \in Ids,
         NEW m \in Nat, NEW n \in Nat, OnLine(f, i, m), OnLine(f, j, n),
         place[f] - m <= Half, place[f] - n <= Half
  PROVE  /\ m > n => Minus(i, j) # 0 /\ Minus(i, j) < Half
         /\ Minus(i, j) # 0 /\ Minus(i, j) < Half => m > n
<1>1. Half \in Nat /\ Half > 1 /\ Modulus = 2 * Half
  BY RingAssumption
<1>2. /\ m < place[f] /\ Minus(next[f], i) = place[f] - m
      /\ n < place[f] /\ Minus(next[f], j) = place[f] - n
  BY DEF OnLine
<1>3. PICK x \in Nat, a \in Nat : x = next[f] /\ a = place[f] /\ x < Modulus
  BY <1>1, SMTT(30) DEF IdsInv, IdsTypeOK, Ids
<1>4. i \in Nat /\ i < Modulus /\ j \in Nat /\ j < Modulus
  BY <1>1, SMTT(30) DEF Ids
<1> QED
  BY <1>1, <1>2, <1>3, <1>4, SMTT(30) DEF Minus

(* A delayed payload never recreates a stream.                                      *)
THEOREM Recreation == IdsSpec => NoRecreation
<1>1. ASSUME IdsInv, NEW e \in Ends, NEW p \in sent, Accept(e, p), known[e]
      PROVE  p.pos > top[e]
  <2>1. PICK f \in Ends, i \in Ids, j \in Ids, m \in Nat, n \in Nat, a \in Nat :
          /\ f = Peer(e) /\ f = p.from /\ i = p.id /\ j = latest[e]
          /\ m = p.pos /\ n = top[e] /\ a = place[f]
    BY <1>1, Peers DEF Accept, IdsInv, IdsTypeOK
  <2>2. OnLine(f, i, m) /\ OnLine(f, j, n) /\ a - m <= Half
    BY <1>1, <2>1 DEF IdsInv, Accept, Fresh
  <2>3. Minus(i, j) # 0 /\ Minus(i, j) < Half
    BY <1>1, <2>1 DEF Accept, IsNewPeerStreamId
  <2>4. CASE a - n <= Half
    BY <1>1, <2>1, <2>2, <2>3, <2>4, RingOrder
  <2>5. CASE ~(a - n <= Half)
    BY <2>1, <2>2, <2>5, RingAssumption, SMTT(30)
  <2> QED
    BY <2>4, <2>5
<1>2. IdsInv /\ [IdsNext]_idVars =>
        [\A e \in Ends, p \in sent : Accept(e, p) /\ known[e] => p.pos > top[e]]_idVars
  BY <1>1
<1> QED
  BY <1>2, IdsInvariance, PTL DEF IdsSpec, NoRecreation

(* A new stream is recognised as new.                                               *)
THEOREM Recognised == IdsSpec => []NewRecognised
<1>1. ASSUME IdsInv, NEW e \in Ends, NEW p \in sent, p.from = Peer(e), known[e],
             p.pos > top[e], place[p.from] - top[e] <= Half
      PROVE  IsNewPeerStreamId(e, p.id)
  <2>1. PICK f \in Ends, i \in Ids, j \in Ids, m \in Nat, n \in Nat, a \in Nat :
          /\ f = Peer(e) /\ f = p.from /\ i = p.id /\ j = latest[e]
          /\ m = p.pos /\ n = top[e] /\ a = place[f]
    BY <1>1, Peers DEF IdsInv, IdsTypeOK
  <2>2. OnLine(f, i, m) /\ OnLine(f, j, n) /\ a - n <= Half /\ m > n
    BY <1>1, <2>1 DEF IdsInv
  <2>3. a - m <= Half
    BY <2>1, <2>2, RingAssumption, SMTT(30)
  <2>4. Minus(i, j) # 0 /\ Minus(i, j) < Half
    BY <1>1, <2>1, <2>2, <2>3, RingOrder
  <2>5. i \in OwnIds(Peer(e))
    BY <1>1, <2>1 DEF IdsInv
  <2> QED
    BY <2>1, <2>4, <2>5 DEF IsNewPeerStreamId
<1>2. IdsInv => NewRecognised
  BY <1>1 DEF NewRecognised
<1> QED
  BY <1>2, IdsInvariance, PTL

-----------------------------------------------------------------------------
(* The allocator gives up only when nothing is left.  While its loop runs, the    *)
(* ids it has tried are the own ids from where it started, s, up to the one it    *)
(* tries next, c: an interval of the ring.  They are all in use, and there are as *)
(* many as attempts, until the loop has come round to s and tried every own id.   *)

Span(e, s, c) ==
  {i \in OwnIds(e) : IF s <= c THEN s <= i /\ i < c ELSE s <= i \/ i < c}

Tried(e) ==
  attempts[e] # Idle =>
    \/ OwnIds(e) \subseteq streams[e]
    \/ \E s \in OwnIds(e) :
         /\ Span(e, s, Candidate(e)) \subseteq streams[e]
         /\ Cardinality(Span(e, s, Candidate(e))) = attempts[e]

LoopInv == \A e \in Ends : Tried(e)

(* The own id after c, round the ring.                                            *)
After(e, c) == IF c + 2 >= Modulus THEN (IF e = "initiator" THEN 1 ELSE 2) ELSE c + 2

(* The round after the one that tried c tries the own id after it.                *)
LEMMA CandidateMoves ==
  ASSUME IdsInv, NEW e \in Ends, Advance(e)
  PROVE  /\ Candidate(e)' = After(e, Candidate(e))
         /\ After(e, Candidate(e)) \in OwnIds(e)
<1>1. Half \in Nat /\ Half > 1 /\ Modulus = 2 * Half
  BY RingAssumption
<1>2. PICK c \in Nat : c = Candidate(e) /\ c \in OwnIds(e) /\ c < Modulus /\ c # 0
                       /\ (Odd(c) <=> e = "initiator")
  BY <1>1, CandidateProps, SMTT(30) DEF OwnIds, Ids
<1>3. next'[e] = Plus2(c)
  BY <1>2 DEF Advance, IdsInv, IdsTypeOK
<1>4. CASE c + 2 >= Modulus
  <2>1. CASE e = "initiator"
    <3>1. c = 2 * Half - 1
      BY <1>1, <1>2, <1>4, <2>1, SMTT(30) DEF Odd
    <3>2. Plus2(c) = 1
      BY <1>1, <3>1, SMTT(30) DEF Plus2
    <3>3. 1 \in OwnIds(e)
      BY <1>1, <2>1, SMTT(30) DEF OwnIds, Ids, Odd
    <3> QED
      BY <1>2, <1>3, <1>4, <2>1, <3>2, <3>3 DEF Candidate, After
  <2>2. CASE e # "initiator"
    <3>1. c = 2 * Half - 2
      BY <1>1, <1>2, <1>4, <2>2, SMTT(30) DEF Odd
    <3>2. Plus2(c) = 0
      BY <1>1, <3>1, SMTT(30) DEF Plus2
    <3>3. 2 \in OwnIds(e)
      BY <1>1, <2>2, SMTT(30) DEF OwnIds, Ids, Odd
    <3> QED
      BY <1>2, <1>3, <1>4, <2>2, <3>2, <3>3 DEF Candidate, After
  <2> QED
    BY <2>1, <2>2
<1>5. CASE ~(c + 2 >= Modulus)
  <2>1. Plus2(c) = c + 2 /\ c + 2 # 0 /\ c + 2 \in Ids
    BY <1>1, <1>2, <1>5, SMTT(30) DEF Plus2, Ids
  <2>2. Odd(c + 2) <=> Odd(c)
    BY <1>2, SMTT(30) DEF Odd
  <2> QED
    BY <1>2, <1>3, <1>5, <2>1, <2>2 DEF Candidate, After, OwnIds
<1> QED
  BY <1>4, <1>5

(* One round makes the interval longer by the id it tried, or closes the ring.     *)
LEMMA SpanGrows ==
  ASSUME NEW e \in Ends, NEW s \in OwnIds(e), NEW c \in OwnIds(e)
  PROVE  \/ OwnIds(e) \subseteq Span(e, s, c) \cup {c}
         \/ Span(e, s, After(e, c)) = Span(e, s, c) \cup {c} /\ c \notin Span(e, s, c)
<1>1. Half \in Nat /\ Half > 1 /\ Modulus = 2 * Half
  BY RingAssumption
<1>2. \A i \in OwnIds(e) : /\ i \in Nat /\ 0 < i /\ i < Modulus
                           /\ e = "initiator" => i % 2 = 1
                           /\ e # "initiator" => i % 2 = 0
  BY <1>1, SMTT(30) DEF OwnIds, Ids, Odd
<1> DEFINE d == After(e, c)
<1>3. d \in Nat /\ 0 < d
  BY <1>1, <1>2, SMTT(30) DEF After
<1>4. c \notin Span(e, s, c)
  BY <1>2, SMTT(30) DEF Span
<1>5. CASE c + 2 >= Modulus
  <2>1. \A i \in OwnIds(e) : i <= c /\ d <= i
    BY <1>1, <1>2, <1>5, SMTT(30) DEF After
  <2>2. s <= c /\ d <= s
    BY <2>1
  <2>3. CASE d = s
    BY <1>2, <1>3, <2>1, <2>2, <2>3, SMTT(30) DEF Span
  <2>4. CASE d # s
    <3>1. ~(s <= d)
      BY <1>2, <1>3, <2>2, <2>4, SMTT(30)
    <3>2. Span(e, s, d) = Span(e, s, c) \cup {c}
      <4> HIDE DEF d
      <4> QED BY <1>2, <1>3, <2>1, <2>2, <3>1, SMTT(30) DEF Span
    <3> QED
      BY <1>4, <3>2
  <2> QED
    BY <2>3, <2>4
<1>6. CASE ~(c + 2 >= Modulus)
  <2>1. d = c + 2
    BY <1>6 DEF After
  <2>2. \A i \in OwnIds(e) : i < d => i <= c
    BY <1>2, <2>1, SMTT(30)
  <2>3. CASE s <= c
    <3>1. s <= d
      BY <1>2, <2>1, <2>3, SMTT(30)
    <3>2. Span(e, s, d) = Span(e, s, c) \cup {c}
      <4> HIDE DEF d
      <4> QED BY <1>2, <1>3, <2>1, <2>2, <2>3, <3>1, SMTT(30) DEF Span
    <3> QED
      BY <1>4, <3>2
  <2>4. CASE c < s /\ d = s
    <3>1. \A i \in OwnIds(e) : i < c \/ i = c \/ s <= i
      BY <1>2, <2>2, <2>4, SMTT(30)
    <3> QED
      BY <1>2, <2>4, <3>1, SMTT(30) DEF Span
  <2>5. CASE c < s /\ d # s
    <3>1. ~(s <= d)
      BY <1>2, <1>3, <2>2, <2>5, SMTT(30)
    <3>2. Span(e, s, d) = Span(e, s, c) \cup {c}
      <4> HIDE DEF d
      <4> QED BY <1>2, <1>3, <2>1, <2>2, <2>5, <3>1, SMTT(30) DEF Span
    <3> QED
      BY <1>4, <3>2
  <2> QED
    BY <1>2, <2>3, <2>4, <2>5, SMTT(30)
<1> QED
  BY <1>5, <1>6

(* There are finitely many ids.                                                    *)
LEMMA OwnFinite ==
  ASSUME NEW T \in SUBSET Ids
  PROVE  IsFiniteSet(T) /\ Cardinality(T) \in Nat
<1>1. Modulus - 1 \in Int
  BY RingAssumption, SMTT(30)
<1>2. IsFiniteSet(Ids)
  BY <1>1, FS_Interval, SMTT(30) DEF Ids
<1>3. IsFiniteSet(T)
  BY <1>2, FS_Subset
<1> QED
  BY <1>3, FS_CardinalityType

(* The loop starts with nothing tried.                                             *)
LEMMA StartLoop ==
  ASSUME IdsInv, LoopInv, NEW e \in Ends, AllocStart(e)
  PROVE  LoopInv'
<1>1. /\ attempts' = [attempts EXCEPT ![e] = 0] /\ UNCHANGED <<next, streams>>
      /\ attempts \in [Ends -> Nat \cup {Idle}]
  BY DEF AllocStart, IdsInv, IdsTypeOK
<1>2. \A f \in Ends : Candidate(f)' = Candidate(f)
  BY <1>1 DEF Candidate
<1>3. ASSUME NEW f \in Ends PROVE Tried(f)'
  <2>1. CASE f # e
    BY <1>1, <1>2, <2>1 DEF LoopInv, Tried
  <2>2. CASE f = e
    <3>1. PICK s \in OwnIds(e) : s = Candidate(e)
      BY CandidateProps
    <3>2. Span(e, s, s) = {}
      <4>1. \A i \in OwnIds(e) : i \in Nat
        BY RingAssumption, SMTT(30) DEF OwnIds, Ids
      <4> QED BY <4>1, SMTT(30) DEF Span
    <3>3. Cardinality(Span(e, s, Candidate(e))) = 0 /\ attempts'[e] = 0
      BY <1>1, <3>1, <3>2, FS_EmptySet
    <3> QED
      BY <1>1, <1>2, <2>2, <3>1, <3>2, <3>3 DEF Tried
  <2> QED
    BY <2>1, <2>2
<1> QED
  BY <1>3 DEF LoopInv

(* A round that finds its id in use has tried one more.                             *)
LEMMA SkipLoop ==
  ASSUME IdsInv, LoopInv, NEW e \in Ends, AllocSkip(e)
  PROVE  LoopInv'
<1>1. /\ attempts' = [attempts EXCEPT ![e] = attempts[e] + 1] /\ attempts[e] # Idle
      /\ streams' = streams /\ Candidate(e) \in streams[e] /\ Advance(e)
      /\ attempts \in [Ends -> Nat \cup {Idle}] /\ next \in [Ends -> Ids]
  BY DEF AllocSkip, IdsInv, IdsTypeOK
<1>2. ASSUME NEW f \in Ends PROVE Tried(f)'
  <2>1. CASE f # e
    <3>1. Candidate(f)' = Candidate(f)
      BY <1>1, <2>1 DEF Candidate, Advance
    <3> QED
      BY <1>1, <2>1, <3>1 DEF LoopInv, Tried
  <2>2. CASE f = e
    <3>1. CASE OwnIds(e) \subseteq streams[e]
      BY <1>1, <2>2, <3>1 DEF Tried
    <3>2. CASE ~(OwnIds(e) \subseteq streams[e])
      <4>1. PICK s \in OwnIds(e) :
              /\ Span(e, s, Candidate(e)) \subseteq streams[e]
              /\ Cardinality(Span(e, s, Candidate(e))) = attempts[e]
        BY <1>1, <3>2 DEF LoopInv, Tried
      <4>2. PICK c \in OwnIds(e) : c = Candidate(e)
        BY CandidateProps
      <4>3. Span(e, s, After(e, c)) = Span(e, s, c) \cup {c} /\ c \notin Span(e, s, c)
        BY <1>1, <3>2, <4>1, <4>2, SpanGrows
      <4>4. IsFiniteSet(Span(e, s, c))
        BY OwnFinite DEF Span, OwnIds
      <4>5. Cardinality(Span(e, s, c) \cup {c}) = Cardinality(Span(e, s, c)) + 1
        BY <4>3, <4>4, FS_AddElement
      <4>6. Candidate(e)' = After(e, c) /\ attempts'[e] = attempts[e] + 1
        BY <1>1, <4>2, CandidateMoves
      <4>7. /\ Span(e, s, Candidate(e)') \subseteq streams'[e]
            /\ Cardinality(Span(e, s, Candidate(e)')) = attempts'[e]
        BY <1>1, <4>1, <4>2, <4>3, <4>5, <4>6
      <4> QED
        BY <2>2, <4>7 DEF Tried, Span
    <3> QED
      BY <3>1, <3>2
  <2> QED
    BY <2>1, <2>2
<1> QED
  BY <1>2 DEF LoopInv

(* Nothing else changes the ids in use while a loop runs.                           *)
LEMMA LoopStep == IdsInv /\ LoopInv /\ [IdsNext]_idVars => LoopInv'
<1> SUFFICES ASSUME IdsInv, LoopInv, [IdsNext]_idVars PROVE LoopInv'
  OBVIOUS
<1>1. /\ attempts \in [Ends -> Nat \cup {Idle}] /\ next \in [Ends -> Ids]
      /\ streams \in [Ends -> SUBSET Ids]
  BY DEF IdsInv, IdsTypeOK
<1>2. ASSUME NEW e \in Ends, attempts'[e] = Idle,
             \A f \in Ends : f # e => /\ next'[f] = next[f] /\ streams'[f] = streams[f]
                                      /\ attempts'[f] = attempts[f]
      PROVE  LoopInv'
  <2>1. ASSUME NEW f \in Ends PROVE Tried(f)'
    <3>1. CASE f = e
      BY <1>2, <3>1 DEF Tried
    <3>2. CASE f # e
      <4>1. Candidate(f)' = Candidate(f)
        BY <1>2, <3>2 DEF Candidate
      <4> QED
        BY <1>2, <3>2, <4>1 DEF LoopInv, Tried
    <3> QED
      BY <3>1, <3>2
  <2> QED
    BY <2>1 DEF LoopInv
<1>3. ASSUME NEW e \in Ends, AllocTake(e) PROVE LoopInv'
  BY <1>1, <1>2, <1>3 DEF AllocTake, Advance
<1>4. ASSUME NEW e \in Ends, AllocFail(e) PROVE LoopInv'
  BY <1>1, <1>2, <1>4 DEF AllocFail
<1>5. ASSUME NEW e \in Ends, NEW p \in sent, Accept(e, p) PROVE LoopInv'
  BY <1>1, <1>2, <1>5 DEF Accept
<1>6. ASSUME NEW e \in Ends, NEW i \in streams[e], CloseStream(e, i) PROVE LoopInv'
  BY <1>1, <1>2, <1>6 DEF CloseStream
<1>7. CASE UNCHANGED idVars
  BY <1>7 DEF idVars, LoopInv, Tried, Candidate
<1> QED
  BY <1>3, <1>4, <1>5, <1>6, <1>7, StartLoop, SkipLoop DEF IdsNext

(* kcpmux_conn_alloc_stream_id fails only when every own id is in use, for every    *)
(* number of ids and however many streams both ends have open: the ids it has       *)
(* tried, all in use and more than there are streams, cannot all be different.      *)
THEOREM Exhausted == IdsSpec => []AllocFailsOnlyWhenFull
<1>1. IdsInit => LoopInv
  BY DEF IdsInit, LoopInv, Tried
<1>2. ASSUME IdsInv, LoopInv, NEW e \in Ends, attempts[e] # Idle, ~Looping(e)
      PROVE  OwnIds(e) \subseteq streams[e]
  <2>1. SUFFICES ASSUME NEW s \in OwnIds(e),
                        Span(e, s, Candidate(e)) \subseteq streams[e],
                        Cardinality(Span(e, s, Candidate(e))) = attempts[e]
                 PROVE  FALSE
    BY <1>2 DEF LoopInv, Tried
  <2>2. streams[e] \in SUBSET Ids /\ attempts[e] \in Nat
    BY <1>2 DEF IdsInv, IdsTypeOK
  <2>3. IsFiniteSet(streams[e]) /\ Cardinality(streams[e]) \in Nat
    BY <2>2, OwnFinite
  <2>4. Cardinality(Span(e, s, Candidate(e))) <= Cardinality(streams[e])
    BY <2>1, <2>3, FS_Subset
  <2> QED
    BY <1>2, <2>1, <2>2, <2>3, <2>4 DEF Looping
<1>3. IdsInv /\ LoopInv => AllocFailsOnlyWhenFull
  BY <1>2 DEF AllocFailsOnlyWhenFull
<1> QED
  BY <1>1, <1>3, LoopStep, IdsInvariance, PTL DEF IdsSpec
=============================================================================
