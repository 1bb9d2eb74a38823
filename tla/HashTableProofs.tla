------------------------------ MODULE HashTableProofs ------------------------------
(* Proofs about HashTable, for any nodes, keys, hash function and number of buckets:     *)
(* the lists stay intact in the middle of every operation, and the table is a map.       *)
EXTENDS HashTable, TLAPS, FiniteSetTheorems

(* Most leaves are first-order; those that need arithmetic or sequences name SMT.   *)
USE ZenonT(30)

(* The bucket of a node, and of a cell; whether a node is in the table.               *)
Home(n) == Bucket(KeyOf[n])
HeadOf(c) == IF c \in Heads THEN c ELSE Home(c)
In(l, n) == l.next[n] # n
Pointers == [next : [Cells -> Cells], prev : [Cells -> Cells]]

(* The cells of a bucket are one ring: next and prev are inverse to each other and stay  *)
(* in the bucket, and a node outside the table points to itself.                         *)
Rings(l) ==
  /\ l \in Pointers
  /\ \A c \in Cells :
       IF c \in Heads \/ In(l, c)
       THEN /\ l.next[c] \in Heads \/ In(l, l.next[c])
            /\ l.prev[c] \in Heads \/ In(l, l.prev[c])
            /\ HeadOf(l.next[c]) = HeadOf(c) /\ HeadOf(l.prev[c]) = HeadOf(c)
            /\ l.prev[l.next[c]] = c /\ l.next[l.prev[c]] = c
       ELSE l.next[c] = c /\ l.prev[c] = c

(* and it is the only one: the nodes of a bucket can be ranked in the order they are      *)
(* linked in, so that the head leads to the lowest and each node to the next higher.      *)
Mates(l, a, b) == In(l, a) /\ In(l, b) /\ Home(a) = Home(b)
Ranked(l, r) ==
  /\ r \in [HashNodes -> Int]
  /\ \A a \in HashNodes : In(l, a) => l.next[Home(a)] \notin Heads /\ l.prev[Home(a)] \notin Heads
  /\ \A a, b \in HashNodes : Mates(l, a, b) =>
       /\ r[a] = r[b] => a = b
       /\ r[l.next[Home(a)]] <= r[b]
       /\ r[b] <= r[l.prev[Home(a)]]
       /\ IF l.next[a] \in Heads THEN r[b] <= r[a]
          ELSE r[a] < r[l.next[a]] /\ (r[b] <= r[a] \/ r[l.next[a]] <= r[b])

(* No two nodes of the table have one key.                                            *)
UniqueKeys(l) ==
  \A a, b \in HashNodes : In(l, a) /\ In(l, b) /\ KeyOf[a] = KeyOf[b] => a = b

Lists(l, r) == Rings(l) /\ Ranked(l, r) /\ UniqueKeys(l)

(* Every key has a bucket: hash % ht->size.                                       *)
LEMMA HomeIsHead == \A n \in HashNodes : Home(n) \in Heads
<1> SUFFICES ASSUME NEW n \in HashNodes PROVE Home(n) \in Heads
    OBVIOUS
<1> DEFINE h == Hash[KeyOf[n]]
<1>1. h \in Nat /\ Size \in Nat \ {0}
  BY HashAssumption
<1>2. h % Size \in 0..(Size - 1)
  BY <1>1, SMTT(30)
<1> QED BY <1>2 DEF Home, Bucket, Heads

(* A list_head is a node or the head of a bucket, never both.                     *)
LEMMA CellsApart ==
  /\ \A n \in HashNodes : n \notin Heads /\ HeadOf(n) = Home(n)
  /\ \A h \in Heads : HeadOf(h) = h
  /\ Cells = HashNodes \cup Heads
  BY HashAssumption DEF HeadOf, Cells

(* __list_add of a node outside the table behind a cell of its bucket keeps the rings and *)
(* adds that node.                                                                        *)
LEMMA AddRings ==
  ASSUME NEW l, Rings(l), NEW n \in HashNodes, ~In(l, n),
         NEW p \in Cells, p \in Heads \/ In(l, p), HeadOf(p) = Home(n)
  PROVE  /\ Rings(ListAdd(l, n, p, l.next[p]))
         /\ \A m \in HashNodes : In(ListAdd(l, n, p, l.next[p]), m) <=> m = n \/ In(l, m)
<1> DEFINE q == l.next[p]
           k == ListAdd(l, n, p, q)
<1>1. /\ l.next \in [Cells -> Cells] /\ l.prev \in [Cells -> Cells]
      /\ n \in Cells /\ q \in Cells /\ n \notin Heads
      /\ l.next[n] = n /\ l.prev[n] = n
  BY CellsApart DEF Rings, Pointers, In
<1>2. /\ q \in Heads \/ In(l, q)
      /\ HeadOf(q) = Home(n) /\ l.prev[q] = p
      /\ p # n /\ q # n
  BY <1>1, CellsApart, SMTT(30) DEF Rings, In
<1>3. /\ \A c \in Cells : k.next[c] = IF c = p THEN n ELSE IF c = n THEN q ELSE l.next[c]
      /\ \A c \in Cells : k.prev[c] = IF c = n THEN p ELSE IF c = q THEN n ELSE l.prev[c]
      /\ k \in Pointers
  BY <1>1, <1>2 DEF ListAdd, Pointers
<1> HIDE DEF k, q
<1>4. \A m \in HashNodes : In(k, m) <=> m = n \/ In(l, m)
  BY <1>1, <1>2, <1>3, CellsApart DEF In
<1>5. ASSUME NEW c \in Cells
      PROVE  IF c \in Heads \/ In(k, c)
       THEN /\ k.next[c] \in Heads \/ In(k, k.next[c])
            /\ k.prev[c] \in Heads \/ In(k, k.prev[c])
            /\ HeadOf(k.next[c]) = HeadOf(c) /\ HeadOf(k.prev[c]) = HeadOf(c)
            /\ k.prev[k.next[c]] = c /\ k.next[k.prev[c]] = c
       ELSE k.next[c] = c /\ k.prev[c] = c
  <2>1. CASE c = n
    BY <2>1, <1>1, <1>2, <1>3, <1>4, CellsApart
  <2>2. CASE c # n /\ ~(c \in Heads \/ In(l, c))
    BY <2>2, <1>1, <1>2, <1>3, <1>4, CellsApart DEF Rings, In
  <2>3. CASE c # n /\ (c \in Heads \/ In(l, c))
    <3>1. /\ l.next[c] \in Cells /\ l.prev[c] \in Cells
          /\ l.next[c] \in Heads \/ In(l, l.next[c])
          /\ l.prev[c] \in Heads \/ In(l, l.prev[c])
          /\ HeadOf(l.next[c]) = HeadOf(c) /\ HeadOf(l.prev[c]) = HeadOf(c)
          /\ l.prev[l.next[c]] = c /\ l.next[l.prev[c]] = c
          /\ l.next[c] # n /\ l.prev[c] # n
      BY <2>3, <1>1 DEF Rings, In
    <3>2. /\ k.next[c] \in Heads \/ In(k, k.next[c])
          /\ HeadOf(k.next[c]) = HeadOf(c)
          /\ k.prev[k.next[c]] = c
      <4>1. CASE c = p BY <4>1, <3>1, <2>3, <1>1, <1>2, <1>3, <1>4, CellsApart, SMTT(30)
      <4>2. CASE c # p
        <5>1. l.next[c] # q
          BY <4>2, <3>1, <1>2
        <5> QED BY <5>1, <4>2, <3>1, <2>3, <1>1, <1>2, <1>3, <1>4, CellsApart
      <4> QED BY <4>1, <4>2
    <3>3. /\ k.prev[c] \in Heads \/ In(k, k.prev[c])
          /\ HeadOf(k.prev[c]) = HeadOf(c)
          /\ k.next[k.prev[c]] = c
      <4>1. CASE c = q BY <4>1, <3>1, <2>3, <1>1, <1>2, <1>3, <1>4, CellsApart, SMTT(30)
      <4>2. CASE c # q
        <5>1. l.prev[c] # p
          BY <4>2, <3>1 DEF q
        <5> QED BY <5>1, <4>2, <3>1, <2>3, <1>1, <1>2, <1>3, <1>4, CellsApart
      <4> QED BY <4>1, <4>2
    <3> QED BY <3>2, <3>3, <2>3, <1>4, CellsApart
  <2> QED BY <2>1, <2>2, <2>3
<1>6. Rings(k)
  BY <1>3, <1>5 DEF Rings
<1> QED BY <1>4, <1>6 DEF k, q

(* list_del of a node of the table keeps the rings and takes out that node.       *)
LEMMA DelRings ==
  ASSUME NEW l, Rings(l), NEW r, Ranked(l, r), NEW n \in HashNodes, In(l, n)
  PROVE  /\ Rings(ListDel(l, n))
         /\ \A m \in HashNodes : In(ListDel(l, n), m) <=> m # n /\ In(l, m)
<1> DEFINE p == l.prev[n]
           q == l.next[n]
           k == ListDel(l, n)
<1>1. /\ l.next \in [Cells -> Cells] /\ l.prev \in [Cells -> Cells]
      /\ n \in Cells /\ q \in Cells /\ p \in Cells /\ n \notin Heads
  BY CellsApart DEF Rings, Pointers
<1>2. /\ q \in Heads \/ In(l, q)
      /\ p \in Heads \/ In(l, p)
      /\ HeadOf(q) = Home(n) /\ HeadOf(p) = Home(n)
      /\ l.prev[q] = n /\ l.next[p] = n
      /\ p # n /\ q # n
  BY <1>1, CellsApart DEF Rings, In
<1>3. /\ \A c \in Cells : k.next[c] = IF c = n THEN n ELSE IF c = p THEN q ELSE l.next[c]
      /\ \A c \in Cells : k.prev[c] = IF c = n THEN n ELSE IF c = q THEN p ELSE l.prev[c]
      /\ k \in Pointers
  BY <1>1, <1>2 DEF ListDel, Pointers
<1>4. \A m \in HashNodes : In(k, m) <=> m # n /\ In(l, m)
  <2> SUFFICES ASSUME NEW m \in HashNodes PROVE In(k, m) <=> m # n /\ In(l, m)
      OBVIOUS
  <2>1. CASE m = n BY <2>1, <1>1, <1>3 DEF In
  <2>2. CASE m = p
    <3>1. q # p
      <4> SUFFICES ASSUME q = p PROVE FALSE
          OBVIOUS
      <4>1. Mates(l, n, p) /\ Mates(l, p, n) /\ p \in HashNodes /\ p \notin Heads
        BY <2>2, <1>2, CellsApart DEF Mates
      <4>2. r[n] < r[p] /\ r[p] < r[n] /\ r[n] \in Int /\ r[p] \in Int
        BY <4>1, <1>1, <1>2 DEF Ranked
      <4> QED BY <4>2, SMTT(30)
    <3> QED BY <3>1, <2>2, <1>1, <1>2, <1>3 DEF In
  <2>3. CASE m # n /\ m # p BY <2>3, <1>1, <1>3, CellsApart DEF In
  <2> QED BY <2>1, <2>2, <2>3
<1> HIDE DEF k, p, q
<1>5. ASSUME NEW c \in Cells
      PROVE  IF c \in Heads \/ In(k, c)
       THEN /\ k.next[c] \in Heads \/ In(k, k.next[c])
            /\ k.prev[c] \in Heads \/ In(k, k.prev[c])
            /\ HeadOf(k.next[c]) = HeadOf(c) /\ HeadOf(k.prev[c]) = HeadOf(c)
            /\ k.prev[k.next[c]] = c /\ k.next[k.prev[c]] = c
       ELSE k.next[c] = c /\ k.prev[c] = c
  <2>1. CASE c = n
    BY <2>1, <1>1, <1>2, <1>3, <1>4, CellsApart
  <2>2. CASE c # n /\ ~(c \in Heads \/ In(l, c))
    BY <2>2, <1>1, <1>2, <1>3, <1>4, CellsApart DEF Rings, In
  <2>3. CASE c # n /\ (c \in Heads \/ In(l, c))
    <3>1. /\ l.next[c] \in Cells /\ l.prev[c] \in Cells
          /\ l.next[c] \in Heads \/ In(l, l.next[c])
          /\ l.prev[c] \in Heads \/ In(l, l.prev[c])
          /\ HeadOf(l.next[c]) = HeadOf(c) /\ HeadOf(l.prev[c]) = HeadOf(c)
          /\ l.prev[l.next[c]] = c /\ l.next[l.prev[c]] = c
      BY <2>3, <1>1, SMTT(30) DEF Rings
    <3>2. /\ k.next[c] \in Heads \/ In(k, k.next[c])
          /\ HeadOf(k.next[c]) = HeadOf(c)
          /\ k.prev[k.next[c]] = c
      <4>1. CASE c = p BY <4>1, <3>1, <2>3, <1>1, <1>2, <1>3, <1>4, CellsApart
      <4>2. CASE c # p
        <5>1. l.next[c] # n /\ l.next[c] # q
          BY <4>2, <3>1, <2>3, <1>2 DEF p
        <5> QED BY <5>1, <4>2, <3>1, <2>3, <1>1, <1>2, <1>3, <1>4, CellsApart, SMTT(30)
      <4> QED BY <4>1, <4>2
    <3>3. /\ k.prev[c] \in Heads \/ In(k, k.prev[c])
          /\ HeadOf(k.prev[c]) = HeadOf(c)
          /\ k.next[k.prev[c]] = c
      <4>1. CASE c = q BY <4>1, <3>1, <2>3, <1>1, <1>2, <1>3, <1>4, CellsApart
      <4>2. CASE c # q
        <5>1. l.prev[c] # p /\ l.prev[c] # n
          BY <4>2, <3>1, <2>3, <1>2 DEF q
        <5> QED BY <5>1, <4>2, <3>1, <2>3, <1>1, <1>2, <1>3, <1>4, CellsApart, SMTT(30)
      <4> QED BY <4>1, <4>2
    <3> QED BY <3>2, <3>3, <2>3, <1>4, CellsApart
  <2> QED BY <2>1, <2>2, <2>3
<1>6. Rings(k)
  BY <1>3, <1>5 DEF Rings
<1> QED BY <1>4, <1>6 DEF k

(* list_del keeps the order of the others.                                        *)
LEMMA DelRanked ==
  ASSUME NEW l, Rings(l), NEW r, Ranked(l, r), NEW n \in HashNodes, In(l, n)
  PROVE  Ranked(ListDel(l, n), r)
<1> DEFINE p == l.prev[n]
           q == l.next[n]
           k == ListDel(l, n)
<1>1. /\ l.next \in [Cells -> Cells] /\ l.prev \in [Cells -> Cells]
      /\ n \in Cells /\ q \in Cells /\ p \in Cells /\ n \notin Heads
  BY CellsApart DEF Rings, Pointers
<1>2. /\ q \in Heads \/ In(l, q)
      /\ p \in Heads \/ In(l, p)
      /\ HeadOf(q) = Home(n) /\ HeadOf(p) = Home(n)
      /\ l.prev[q] = n /\ l.next[p] = n
      /\ p # n /\ q # n
  BY <1>1, CellsApart DEF Rings, In
<1>3. /\ \A c \in Cells : k.next[c] = IF c = n THEN n ELSE IF c = p THEN q ELSE l.next[c]
      /\ \A c \in Cells : k.prev[c] = IF c = n THEN n ELSE IF c = q THEN p ELSE l.prev[c]
  BY <1>1, <1>2 DEF ListDel
<1>4. \A m \in HashNodes : In(k, m) <=> m # n /\ In(l, m)
  BY DelRings
<1> HIDE DEF k
<1>5. r \in [HashNodes -> Int]
  BY DEF Ranked
<1>6. ASSUME NEW a \in HashNodes, In(k, a)
      PROVE  k.next[Home(a)] \notin Heads /\ k.prev[Home(a)] \notin Heads
  <2>1. In(l, a) /\ a # n /\ Home(a) \in Cells /\ Home(a) # n
    BY <1>4, <1>6, <1>1, HomeIsHead, CellsApart
  <2>2. /\ l.next[Home(a)] \notin Heads /\ l.prev[Home(a)] \notin Heads
        /\ l.next[Home(a)] \in Cells /\ l.prev[Home(a)] \in Cells
    BY <2>1, <1>1 DEF Ranked
  <2>3. CASE Home(a) # Home(n)
    <3>1. Home(a) # p /\ Home(a) # q
      BY <2>3, <2>1, <1>2, CellsApart, HomeIsHead
    <3> QED BY <3>1, <2>1, <2>2, <1>3
  <2>4. CASE Home(a) = Home(n)
    <3>1. p \in Heads => q \notin Heads
      <4> SUFFICES ASSUME p \in Heads, q \in Heads PROVE FALSE
          OBVIOUS
      <4>1. p = Home(n) /\ q = Home(n)
        BY <1>2, CellsApart
      <4>2. Mates(l, n, a) /\ Mates(l, a, n) /\ l.next[Home(n)] = n /\ l.next[n] \in Heads
        BY <4>1, <2>4, <2>1, <1>2 DEF Mates
      <4>3. r[n] <= r[a] /\ r[a] <= r[n]
        BY <4>2 DEF Ranked
      <4>4. r[n] = r[a]
        BY <4>3, <1>5, SMTT(30)
      <4> QED BY <4>4, <4>2, <2>1 DEF Ranked
    <3>2. p = Home(a) => q \notin Heads
      BY <3>1, <2>4, HomeIsHead
    <3>3. q = Home(a) => p \notin Heads
      BY <3>1, <2>4, HomeIsHead
    <3> QED BY <3>2, <3>3, <2>1, <2>2, <1>3
  <2> QED BY <2>3, <2>4
<1>7. ASSUME NEW a \in HashNodes, NEW b \in HashNodes, Mates(k, a, b)
      PROVE  /\ r[a] = r[b] => a = b
             /\ r[k.next[Home(a)]] <= r[b]
             /\ r[b] <= r[k.prev[Home(a)]]
             /\ IF k.next[a] \in Heads THEN r[b] <= r[a]
                ELSE r[a] < r[k.next[a]] /\ (r[b] <= r[a] \/ r[k.next[a]] <= r[b])
  <2>1. /\ Mates(l, a, b) /\ a # n /\ b # n /\ Home(a) \in Cells /\ Home(a) # n
        /\ a \in Cells /\ b \in Cells /\ a \notin Heads /\ b \notin Heads /\ Home(a) \in Heads
    BY <1>4, <1>7, <1>1, HomeIsHead, CellsApart DEF Mates
  <2>2. /\ r[a] = r[b] => a = b
        /\ r[l.next[Home(a)]] <= r[b]
        /\ r[b] <= r[l.prev[Home(a)]]
        /\ IF l.next[a] \in Heads THEN r[b] <= r[a]
           ELSE r[a] < r[l.next[a]] /\ (r[b] <= r[a] \/ r[l.next[a]] <= r[b])
    BY <2>1 DEF Ranked
  <2>3. /\ r[a] \in Int /\ r[b] \in Int /\ r[n] \in Int
        /\ p \notin Heads => p \in HashNodes /\ r[p] \in Int
        /\ q \notin Heads => q \in HashNodes /\ r[q] \in Int
    BY <1>1, <1>5, CellsApart
  <2>4. CASE Home(a) # Home(n)
    <3>1. Home(a) # p /\ Home(a) # q /\ a # p /\ a # q
      BY <2>4, <2>1, <1>2, CellsApart
    <3> QED BY <3>1, <2>1, <2>2, <1>3
  <2>5. CASE Home(a) = Home(n)
    <3>1. /\ Mates(l, n, b) /\ Mates(l, b, n) /\ Mates(l, a, n) /\ Mates(l, n, a)
      BY <2>5, <2>1 DEF Mates
    <3>2. r[b] # r[n]
      BY <3>1, <2>1 DEF Ranked
    <3>3. IF q \in Heads THEN r[b] <= r[n]
          ELSE r[n] < r[q] /\ (r[b] <= r[n] \/ r[q] <= r[b])
      BY <3>1 DEF Ranked
    <3>4. p \notin Heads => Mates(l, p, b) /\ Mates(l, p, n) /\ l.next[p] = n
      BY <3>1, <2>3, <1>2, CellsApart DEF Mates
    <3>5. p \notin Heads => r[p] < r[n] /\ (r[b] <= r[p] \/ r[n] <= r[b])
      BY <3>4, <2>3, <1>1 DEF Ranked
    <3>6. r[k.next[Home(a)]] <= r[b]
      <4>1. CASE p = Home(a)
        <5>1. k.next[Home(a)] = q
          BY <4>1, <2>1, <1>3
        <5>2. q \notin Heads
          BY <5>1, <1>6, <1>7 DEF Mates
        <5>3. r[n] <= r[b]
          BY <4>1, <2>2, <1>2
        <5> QED BY <5>1, <5>2, <5>3, <3>2, <3>3, <2>3, SMTT(30)
      <4>2. CASE p # Home(a)
        BY <4>2, <2>1, <2>2, <1>3
      <4> QED BY <4>1, <4>2
    <3>7. r[b] <= r[k.prev[Home(a)]]
      <4>1. CASE q = Home(a)
        <5>1. k.prev[Home(a)] = p
          BY <4>1, <2>1, <1>3
        <5>2. p \notin Heads
          BY <5>1, <1>6, <1>7 DEF Mates
        <5>3. r[b] <= r[n]
          BY <4>1, <2>1, <3>3
        <5> QED BY <5>1, <5>2, <5>3, <3>2, <3>5, <2>3, SMTT(30)
      <4>2. CASE q # Home(a)
        BY <4>2, <2>1, <2>2, <1>3
      <4> QED BY <4>1, <4>2
    <3>8. IF k.next[a] \in Heads THEN r[b] <= r[a]
          ELSE r[a] < r[k.next[a]] /\ (r[b] <= r[a] \/ r[k.next[a]] <= r[b])
      <4>1. CASE a = p
        <5>1. k.next[a] = q /\ p \notin Heads
          BY <4>1, <2>1, <1>3
        <5> QED BY <5>1, <4>1, <3>2, <3>3, <3>5, <2>3, SMTT(30)
      <4>2. CASE a # p
        BY <4>2, <2>1, <2>2, <1>3
      <4> QED BY <4>1, <4>2
    <3> QED BY <3>6, <3>7, <3>8, <2>2
  <2> QED BY <2>4, <2>5
<1> QED BY <1>5, <1>6, <1>7 DEF Ranked, k

(* list_del keeps all that is known of the lists.                                 *)
LEMMA DelLists ==
  ASSUME NEW l, NEW r, Lists(l, r), NEW n \in HashNodes, In(l, n)
  PROVE  /\ Lists(ListDel(l, n), r)
         /\ \A m \in HashNodes : In(ListDel(l, n), m) <=> m # n /\ In(l, m)
<1>1. /\ Rings(ListDel(l, n)) /\ Ranked(ListDel(l, n), r)
      /\ \A m \in HashNodes : In(ListDel(l, n), m) <=> m # n /\ In(l, m)
  BY DelRings, DelRanked DEF Lists
<1>2. UniqueKeys(ListDel(l, n))
  BY <1>1 DEF Lists, UniqueKeys
<1> QED BY <1>1, <1>2 DEF Lists

(* list_add_head: the node becomes the lowest of its bucket.                      *)
LEMMA AddHeadRanked ==
  ASSUME NEW l, Rings(l), NEW r, Ranked(l, r), NEW n \in HashNodes, ~In(l, n)
  PROVE  \E s \in [HashNodes -> Int] : Ranked(ListAddHead(l, n, Home(n)), s)
<1> DEFINE h == Home(n)
           q == l.next[h]
           k == ListAdd(l, n, h, q)
           s == [r EXCEPT ![n] = IF q \in Heads THEN 0 ELSE r[q] - 1]
<1>1. /\ l.next \in [Cells -> Cells] /\ l.prev \in [Cells -> Cells]
      /\ h \in Heads /\ h \in Cells /\ n \in Cells /\ q \in Cells /\ n \notin Heads
      /\ l.next[n] = n /\ l.prev[n] = n /\ HeadOf(h) = h
  BY CellsApart, HomeIsHead DEF Rings, Pointers, In
<1>2. /\ q \in Heads \/ In(l, q)
      /\ HeadOf(q) = h /\ l.prev[q] = h
      /\ h # n /\ q # n
  BY <1>1, CellsApart, SMTT(30) DEF Rings, In
<1>3. /\ \A c \in Cells : k.next[c] = IF c = h THEN n ELSE IF c = n THEN q ELSE l.next[c]
      /\ \A c \in Cells : k.prev[c] = IF c = n THEN h ELSE IF c = q THEN n ELSE l.prev[c]
  BY <1>1, <1>2 DEF ListAdd
<1>4. \A m \in HashNodes : In(k, m) <=> m = n \/ In(l, m)
  BY <1>1, AddRings
<1>5. r \in [HashNodes -> Int]
  BY DEF Ranked
<1>6. q \notin Heads => q \in HashNodes /\ r[q] \in Int /\ Home(q) = h
  BY <1>1, <1>2, <1>5, CellsApart
<1>7. /\ s \in [HashNodes -> Int]
      /\ s[n] = IF q \in Heads THEN 0 ELSE r[q] - 1
      /\ \A m \in HashNodes \ {n} : s[m] = r[m]
  BY <1>5, <1>6, SMTT(30)
<1> HIDE DEF k, s
<1>8. ASSUME NEW a \in HashNodes, In(k, a)
      PROVE  k.next[Home(a)] \notin Heads /\ k.prev[Home(a)] \notin Heads
  <2>1. Home(a) \in Heads /\ Home(a) \in Cells /\ Home(a) # n
    BY HomeIsHead, CellsApart, <1>1
  <2>2. CASE Home(a) = h
    <3>1. k.next[h] = n
      BY <1>1, <1>3
    <3>2. CASE q = h
      BY <3>1, <3>2, <2>2, <1>1, <1>2, <1>3
    <3>3. CASE q # h
      <4>1. q \notin Heads
        BY <3>3, <1>2, CellsApart
      <4>2. l.prev[h] \notin Heads
        BY <4>1, <1>6, <1>2 DEF Ranked
      <4> QED BY <4>2, <3>1, <3>3, <2>2, <1>1, <1>2, <1>3
    <3> QED BY <3>2, <3>3
  <2>3. CASE Home(a) # h
    <3>1. a # n /\ In(l, a) /\ Home(a) # q
      BY <2>1, <2>3, <1>2, <1>4, <1>8, CellsApart
    <3> QED BY <3>1, <2>1, <2>3, <1>3 DEF Ranked
  <2> QED BY <2>2, <2>3
<1>9. ASSUME NEW a \in HashNodes, NEW b \in HashNodes, Mates(k, a, b)
      PROVE  /\ s[a] = s[b] => a = b
             /\ s[k.next[Home(a)]] <= s[b]
             /\ s[b] <= s[k.prev[Home(a)]]
             /\ IF k.next[a] \in Heads THEN s[b] <= s[a]
                ELSE s[a] < s[k.next[a]] /\ (s[b] <= s[a] \/ s[k.next[a]] <= s[b])
  <2>1. /\ a \in Cells /\ b \in Cells /\ a \notin Heads /\ b \notin Heads
        /\ Home(a) \in Heads /\ Home(a) \in Cells /\ Home(a) # n /\ Home(b) = Home(a)
        /\ a = n \/ In(l, a)
        /\ b = n \/ In(l, b)
    BY <1>4, <1>9, <1>1, HomeIsHead, CellsApart DEF Mates
  <2>2. a # n /\ b # n =>
        /\ r[a] = r[b] => a = b
        /\ r[l.next[Home(a)]] <= r[b]
        /\ r[b] <= r[l.prev[Home(a)]]
        /\ IF l.next[a] \in Heads THEN r[b] <= r[a]
           ELSE r[a] < r[l.next[a]] /\ (r[b] <= r[a] \/ r[l.next[a]] <= r[b])
    BY <2>1 DEF Ranked, Mates
  <2>3. \A m \in HashNodes : m # n /\ In(l, m) => l.next[m] # n /\ l.prev[m] # n /\ l.prev[Home(m)] # n /\ l.next[Home(m)] # n
    BY <1>1, HomeIsHead, CellsApart, SMTT(30) DEF Rings, In
  <2>4. CASE Home(a) # h
    <3>1. a # n /\ b # n /\ Home(a) # q /\ a # h
      BY <2>1, <2>4, <1>1, <1>2, CellsApart
    <3>2. /\ k.next[Home(a)] = l.next[Home(a)] /\ k.prev[Home(a)] = l.prev[Home(a)]
          /\ k.next[a] = l.next[a]
      BY <3>1, <2>1, <2>4, <1>3
    <3>3. l.next[Home(a)] \in HashNodes \ {n} /\ l.prev[Home(a)] \in HashNodes \ {n}
      BY <3>1, <2>1, <2>3, <1>1, CellsApart DEF Ranked
    <3>4. l.next[a] \notin Heads => l.next[a] \in HashNodes \ {n}
      BY <3>1, <2>1, <2>3, <1>1, CellsApart
    <3> QED BY <3>1, <3>2, <3>3, <3>4, <2>2, <1>7
  <2>5. CASE Home(a) = h
    <3>1. k.next[h] = n
      BY <1>1, <1>3
    <3>2. b # n => q \notin Heads /\ r[q] <= r[b] /\ s[b] = r[b] /\ r[b] \in Int /\ s[n] < s[b]
      <4> SUFFICES ASSUME b # n PROVE q \notin Heads /\ r[q] <= r[b] /\ s[b] = r[b] /\ r[b] \in Int /\ s[n] < s[b]
          OBVIOUS
      <4>1. Mates(l, b, b) /\ Home(b) = h
        BY <2>1, <2>5 DEF Mates
      <4>2. q \notin Heads /\ r[q] <= r[b]
        BY <4>1, <2>1 DEF Ranked
      <4> QED BY <4>2, <1>5, <1>6, <1>7, SMTT(30)
    <3>3. a # n => q \notin Heads /\ r[q] <= r[a] /\ s[a] = r[a] /\ r[a] \in Int /\ s[n] < s[a]
      <4> SUFFICES ASSUME a # n PROVE q \notin Heads /\ r[q] <= r[a] /\ s[a] = r[a] /\ r[a] \in Int /\ s[n] < s[a]
          OBVIOUS
      <4>1. Mates(l, a, a) /\ Home(a) = h
        BY <2>1, <2>5 DEF Mates
      <4>2. q \notin Heads /\ r[q] <= r[a]
        BY <4>1, <2>1 DEF Ranked
      <4> QED BY <4>2, <1>5, <1>6, <1>7, SMTT(30)
    <3>4. s[n] \in Int /\ s[a] \in Int /\ s[b] \in Int
      BY <1>7
    <3>5. s[a] = s[b] => a = b
      BY <3>2, <3>3, <3>4, <2>2, SMTT(30)
    <3>6. s[k.next[Home(a)]] <= s[b]
      BY <3>1, <3>2, <3>4, <2>5, SMTT(30)
    <3>7. s[b] <= s[k.prev[Home(a)]]
      <4>1. CASE q = h
        <5>1. k.prev[h] = n
          BY <4>1, <1>1, <1>2, <1>3
        <5>2. b = n
          BY <4>1, <3>2, <1>1
        <5> QED BY <5>1, <5>2, <3>4, <2>5, SMTT(30)
      <4>2. CASE q # h
        <5>1. q \notin Heads /\ q \in HashNodes /\ In(l, q) /\ Home(q) = h
          BY <4>2, <1>2, <1>6, CellsApart
        <5>2. k.prev[h] = l.prev[h]
          BY <4>2, <1>1, <1>2, <1>3
        <5>3. l.prev[h] \in HashNodes \ {n}
          BY <5>1, <2>3, <1>1, <1>2, CellsApart DEF Ranked
        <5>4. CASE b = n
          <6>1. r[q] <= r[l.prev[h]]
            BY <5>1 DEF Ranked, Mates
          <6> QED BY <6>1, <5>1, <5>2, <5>3, <5>4, <2>5, <1>5, <1>6, <1>7, SMTT(30)
        <5>5. CASE b # n
          <6>1. r[b] <= r[l.prev[h]]
            BY <5>5, <2>1, <2>5 DEF Ranked, Mates
          <6> QED BY <6>1, <5>2, <5>3, <5>5, <2>5, <1>7
        <5> QED BY <5>4, <5>5
      <4> QED BY <4>1, <4>2
    <3>8. IF k.next[a] \in Heads THEN s[b] <= s[a]
          ELSE s[a] < s[k.next[a]] /\ (s[b] <= s[a] \/ s[k.next[a]] <= s[b])
      <4>1. CASE a = n
        <5>1. k.next[a] = q
          BY <4>1, <1>1, <1>2, <1>3
        <5>2. CASE q \in Heads
          BY <5>1, <5>2, <4>1, <3>2, <3>4, SMTT(30)
        <5>3. CASE q \notin Heads
          <6>1. s[q] = r[q] /\ s[n] < s[q]
            BY <5>3, <1>2, <1>6, <1>7, SMTT(30)
          <6> QED BY <6>1, <5>1, <5>3, <4>1, <3>2, <3>4, SMTT(30)
        <5> QED BY <5>2, <5>3
      <4>2. CASE a # n
        <5>1. k.next[a] = l.next[a] /\ (l.next[a] \notin Heads => l.next[a] \in HashNodes \ {n})
          BY <4>2, <2>1, <2>3, <1>1, <1>3, CellsApart
        <5>2. CASE b # n
          BY <5>1, <5>2, <4>2, <2>2, <1>7
        <5>3. CASE b = n
          <6>1. l.next[a] \notin Heads => r[a] < r[l.next[a]]
            BY <4>2, <2>1 DEF Ranked, Mates
          <6> QED BY <6>1, <5>1, <5>3, <4>2, <3>3, <3>4, <1>7, SMTT(30)
        <5> QED BY <5>2, <5>3
      <4> QED BY <4>1, <4>2
    <3> QED BY <3>5, <3>6, <3>7, <3>8
  <2> QED BY <2>4, <2>5
<1>10. Ranked(k, s)
  BY <1>7, <1>8, <1>9 DEF Ranked
<1> QED BY <1>7, <1>10 DEF ListAddHead, k

(* list_add_head of a node with a new key keeps all that is known of the lists.   *)
LEMMA AddHeadLists ==
  ASSUME NEW l, NEW r, Lists(l, r), NEW n \in HashNodes, ~In(l, n),
         \A m \in HashNodes : In(l, m) => KeyOf[m] # KeyOf[n]
  PROVE  /\ \E s \in [HashNodes -> Int] : Lists(ListAddHead(l, n, Home(n)), s)
         /\ \A m \in HashNodes : In(ListAddHead(l, n, Home(n)), m) <=> m = n \/ In(l, m)
<1> DEFINE k == ListAddHead(l, n, Home(n))
<1>1. Home(n) \in Heads /\ Home(n) \in Cells /\ HeadOf(Home(n)) = Home(n)
  BY HomeIsHead, CellsApart
<1>2. Rings(k) /\ \A m \in HashNodes : In(k, m) <=> m = n \/ In(l, m)
  BY <1>1, AddRings DEF Lists, ListAddHead
<1>3. \E s \in [HashNodes -> Int] : Ranked(k, s)
  BY AddHeadRanked DEF Lists
<1> HIDE DEF k
<1>4. UniqueKeys(k)
  BY <1>2 DEF Lists, UniqueKeys
<1>5. \E s \in [HashNodes -> Int] : Lists(k, s)
  BY <1>2, <1>3, <1>4 DEF Lists
<1> QED BY <1>2, <1>5 DEF k

(* list_add_tail, for list_move_tail: the node becomes the highest of its bucket. *)
LEMMA AddTailLists ==
  ASSUME NEW l, NEW r, Lists(l, r), NEW n \in HashNodes, ~In(l, n),
         \A m \in HashNodes : In(l, m) => KeyOf[m] # KeyOf[n]
  PROVE  /\ \E s \in [HashNodes -> Int] : Lists(ListAddTail(l, n, Home(n)), s)
         /\ \A m \in HashNodes : In(ListAddTail(l, n, Home(n)), m) <=> m = n \/ In(l, m)
<1> DEFINE h == Home(n)
           p == l.prev[h]
           k == ListAdd(l, n, p, h)
           s == [r EXCEPT ![n] = IF p \in Heads THEN 0 ELSE r[p] + 1]
<1>1. /\ l.next \in [Cells -> Cells] /\ l.prev \in [Cells -> Cells]
      /\ h \in Heads /\ h \in Cells /\ n \in Cells /\ p \in Cells /\ n \notin Heads
      /\ l.next[n] = n /\ l.prev[n] = n /\ HeadOf(h) = h
  BY CellsApart, HomeIsHead DEF Lists, Rings, Pointers, In
<1>2. /\ p \in Heads \/ In(l, p)
      /\ HeadOf(p) = h /\ l.next[p] = h
      /\ h # n /\ p # n
  BY <1>1, CellsApart, SMTT(30) DEF Lists, Rings, In
<1>3. /\ \A c \in Cells : k.next[c] = IF c = p THEN n ELSE IF c = n THEN h ELSE l.next[c]
      /\ \A c \in Cells : k.prev[c] = IF c = n THEN p ELSE IF c = h THEN n ELSE l.prev[c]
  BY <1>1, <1>2 DEF ListAdd
<1>4. Rings(k) /\ \A m \in HashNodes : In(k, m) <=> m = n \/ In(l, m)
  <2>1. Rings(l)
    BY DEF Lists
  <2> QED BY <1>1, <1>2, <2>1, AddRings, SMTT(30)
<1>5. r \in [HashNodes -> Int]
  BY DEF Lists, Ranked
<1>6. p \notin Heads => p \in HashNodes /\ r[p] \in Int /\ Home(p) = h
  BY <1>1, <1>2, <1>5, CellsApart
<1>7. /\ s \in [HashNodes -> Int]
      /\ s[n] = IF p \in Heads THEN 0 ELSE r[p] + 1
      /\ \A m \in HashNodes \ {n} : s[m] = r[m]
  BY <1>5, <1>6, SMTT(30)
<1> HIDE DEF k, s
<1>8. ASSUME NEW a \in HashNodes, In(k, a)
      PROVE  k.next[Home(a)] \notin Heads /\ k.prev[Home(a)] \notin Heads
  <2>1. Home(a) \in Heads /\ Home(a) \in Cells /\ Home(a) # n
    BY HomeIsHead, CellsApart, <1>1
  <2>2. CASE Home(a) = h
    <3>1. k.prev[h] = n
      BY <1>1, <1>3
    <3>2. CASE p = h
      BY <3>1, <3>2, <2>2, <1>1, <1>2, <1>3
    <3>3. CASE p # h
      <4>1. p \notin Heads
        BY <3>3, <1>2, CellsApart
      <4>2. l.next[h] \notin Heads
        BY <4>1, <1>6, <1>2 DEF Lists, Ranked
      <4> QED BY <4>2, <3>1, <3>3, <2>2, <1>1, <1>2, <1>3
    <3> QED BY <3>2, <3>3
  <2>3. CASE Home(a) # h
    <3>1. a # n /\ In(l, a) /\ Home(a) # p
      BY <2>1, <2>3, <1>2, <1>4, <1>8, CellsApart
    <3> QED BY <3>1, <2>1, <2>3, <1>3 DEF Lists, Ranked
  <2> QED BY <2>2, <2>3
<1>9. ASSUME NEW a \in HashNodes, NEW b \in HashNodes, Mates(k, a, b)
      PROVE  /\ s[a] = s[b] => a = b
             /\ s[k.next[Home(a)]] <= s[b]
             /\ s[b] <= s[k.prev[Home(a)]]
             /\ IF k.next[a] \in Heads THEN s[b] <= s[a]
                ELSE s[a] < s[k.next[a]] /\ (s[b] <= s[a] \/ s[k.next[a]] <= s[b])
  <2>1. /\ a \in Cells /\ b \in Cells /\ a \notin Heads /\ b \notin Heads
        /\ Home(a) \in Heads /\ Home(a) \in Cells /\ Home(a) # n /\ Home(b) = Home(a)
        /\ a = n \/ In(l, a)
        /\ b = n \/ In(l, b)
    BY <1>4, <1>9, <1>1, HomeIsHead, CellsApart DEF Mates
  <2>2. a # n /\ b # n =>
        /\ r[a] = r[b] => a = b
        /\ r[l.next[Home(a)]] <= r[b]
        /\ r[b] <= r[l.prev[Home(a)]]
        /\ IF l.next[a] \in Heads THEN r[b] <= r[a]
           ELSE r[a] < r[l.next[a]] /\ (r[b] <= r[a] \/ r[l.next[a]] <= r[b])
    BY <2>1 DEF Lists, Ranked, Mates
  <2>3. \A m \in HashNodes : m # n /\ In(l, m) =>
          l.next[m] # n /\ l.prev[m] # n /\ l.prev[Home(m)] # n /\ l.next[Home(m)] # n
    BY <1>1, HomeIsHead, CellsApart, SMTT(30) DEF Lists, Rings, In
  <2>4. CASE Home(a) # h
    <3>1. a # n /\ b # n /\ Home(a) # p /\ a # h /\ a # p
      BY <2>1, <2>4, <1>1, <1>2, CellsApart
    <3>2. /\ k.next[Home(a)] = l.next[Home(a)] /\ k.prev[Home(a)] = l.prev[Home(a)]
          /\ k.next[a] = l.next[a]
      BY <3>1, <2>1, <2>4, <1>3
    <3>3. l.next[Home(a)] \in HashNodes \ {n} /\ l.prev[Home(a)] \in HashNodes \ {n}
      BY <3>1, <2>1, <2>3, <1>1, CellsApart DEF Lists, Ranked
    <3>4. l.next[a] \notin Heads => l.next[a] \in HashNodes \ {n}
      BY <3>1, <2>1, <2>3, <1>1, CellsApart
    <3> QED BY <3>1, <3>2, <3>3, <3>4, <2>2, <1>7
  <2>5. CASE Home(a) = h
    <3>1. k.prev[h] = n
      BY <1>1, <1>3
    <3>2. ASSUME NEW x \in HashNodes, x # n, In(l, x), Home(x) = h
          PROVE  p \notin Heads /\ r[x] <= r[p] /\ s[x] = r[x] /\ r[x] \in Int /\ s[x] < s[n]
      <4>1. Mates(l, x, x)
        BY <3>2 DEF Mates
      <4>2. p \notin Heads /\ r[x] <= r[p]
        BY <4>1, <3>2 DEF Lists, Ranked
      <4> QED BY <4>2, <3>2, <1>5, <1>6, <1>7, SMTT(30)
    <3>3. /\ a # n => p \notin Heads /\ r[a] <= r[p] /\ s[a] = r[a] /\ r[a] \in Int /\ s[a] < s[n]
          /\ b # n => p \notin Heads /\ r[b] <= r[p] /\ s[b] = r[b] /\ r[b] \in Int /\ s[b] < s[n]
      BY <3>2, <2>1, <2>5
    <3>4. s[n] \in Int /\ s[a] \in Int /\ s[b] \in Int
      BY <1>7
    <3>5. s[a] = s[b] => a = b
      BY <3>3, <3>4, <2>2, SMTT(30)
    <3>6. s[b] <= s[k.prev[Home(a)]]
      BY <3>1, <3>3, <3>4, <2>5, SMTT(30)
    <3>7. s[k.next[Home(a)]] <= s[b]
      <4>1. CASE p = h
        <5>1. k.next[h] = n
          BY <4>1, <1>1, <1>2, <1>3
        <5>2. b = n
          BY <4>1, <3>3, <1>1
        <5> QED BY <5>1, <5>2, <3>4, <2>5, SMTT(30)
      <4>2. CASE p # h
        <5>1. p \notin Heads /\ p \in HashNodes /\ In(l, p) /\ Home(p) = h
          BY <4>2, <1>2, <1>6, CellsApart
        <5>2. k.next[h] = l.next[h]
          BY <4>2, <1>1, <1>2, <1>3
        <5>3. l.next[h] \in HashNodes \ {n}
          BY <5>1, <2>3, <1>1, <1>2, CellsApart DEF Lists, Ranked
        <5>4. CASE b = n
          <6>1. r[l.next[h]] <= r[p]
            BY <5>1 DEF Lists, Ranked, Mates
          <6> QED BY <6>1, <5>1, <5>2, <5>3, <5>4, <2>5, <1>5, <1>6, <1>7, SMTT(30)
        <5>5. CASE b # n
          <6>1. r[l.next[h]] <= r[b]
            BY <5>5, <2>1, <2>5 DEF Lists, Ranked, Mates
          <6> QED BY <6>1, <5>2, <5>3, <5>5, <2>5, <1>7
        <5> QED BY <5>4, <5>5
      <4> QED BY <4>1, <4>2
    <3>8. IF k.next[a] \in Heads THEN s[b] <= s[a]
          ELSE s[a] < s[k.next[a]] /\ (s[b] <= s[a] \/ s[k.next[a]] <= s[b])
      <4>1. CASE a = n
        <5>1. k.next[a] = h
          BY <4>1, <1>1, <1>2, <1>3
        <5> QED BY <5>1, <4>1, <3>3, <3>4, <1>1, SMTT(30)
      <4>2. CASE a # n /\ a = p
        <5>1. k.next[a] = n
          BY <4>2, <1>1, <1>3
        <5>2. s[a] < s[n]
          BY <4>2, <3>3
        <5>3. b # n => s[b] <= s[a]
          BY <4>2, <3>3
        <5> QED BY <5>1, <5>2, <5>3, <3>4, <1>1, SMTT(30)
      <4>3. CASE a # n /\ a # p
        <5>1. k.next[a] = l.next[a] /\ (l.next[a] \notin Heads => l.next[a] \in HashNodes \ {n})
          BY <4>3, <2>1, <2>3, <1>1, <1>3, CellsApart
        <5>2. CASE b # n
          BY <5>1, <5>2, <4>3, <2>2, <1>7
        <5>3. CASE b = n
          <6>1. In(l, a) /\ In(l, p) /\ p \in HashNodes /\ Home(p) = h /\ p \notin Heads
            BY <4>3, <3>3, <2>1, <1>2, <1>6
          <6>2. l.next[a] \notin Heads
            <7> SUFFICES ASSUME l.next[a] \in Heads PROVE FALSE
                OBVIOUS
            <7>1. l.next[a] = h /\ l.prev[l.next[a]] = a
              BY <6>1, <2>1, <2>5, <1>1, CellsApart, SMTT(30) DEF Lists, Rings
            <7> QED BY <7>1, <4>3
          <6>3. r[a] < r[l.next[a]] /\ In(l, l.next[a]) /\ Home(l.next[a]) = h
            BY <6>1, <6>2, <2>1, <2>5, <1>1, CellsApart, SMTT(30) DEF Lists, Ranked, Mates, Rings
          <6>4. s[l.next[a]] < s[n] /\ s[a] = r[a] /\ s[l.next[a]] = r[l.next[a]]
            BY <6>2, <6>3, <5>1, <4>3, <3>2, <3>3
          <6>5. s[l.next[a]] \in Int
            BY <6>2, <5>1, <1>7
          <6> QED BY <6>2, <6>3, <6>4, <6>5, <5>1, <5>3, <3>4, SMTT(30)
        <5> QED BY <5>2, <5>3
      <4> QED BY <4>1, <4>2, <4>3
    <3> QED BY <3>5, <3>6, <3>7, <3>8
  <2> QED BY <2>4, <2>5
<1>10. Ranked(k, s)
  BY <1>7, <1>8, <1>9 DEF Ranked
<1>11. UniqueKeys(k)
  BY <1>4 DEF Lists, UniqueKeys
<1>12. Lists(k, s)
  BY <1>4, <1>10, <1>11 DEF Lists
<1> QED BY <1>4, <1>7, <1>12 DEF ListAddTail, k

(* What the table holds, as a map, and its keys. *)
Content(l) == [k \in Keys |-> Holder(l, k)]
LinkedKeys(l) == {k \in Keys : \E n \in HashNodes : In(l, n) /\ KeyOf[n] = k}

(* The node under a key is the one in the table with that key, if there is one.   *)
LEMMA HolderIs ==
  ASSUME NEW l, UniqueKeys(l), NEW k
  PROVE  /\ \A n \in HashNodes : In(l, n) /\ KeyOf[n] = k => Holder(l, k) = n
         /\ (\A n \in HashNodes : In(l, n) => KeyOf[n] # k) => Holder(l, k) = None
         /\ Holder(l, k) # None => \E n \in HashNodes : In(l, n) /\ KeyOf[n] = k
<1>1. Holders(l, k) = {n \in HashNodes : In(l, n) /\ KeyOf[n] = k}
  BY DEF Holders, ListEmpty, In
<1>2. ASSUME NEW n \in HashNodes, In(l, n), KeyOf[n] = k PROVE Holder(l, k) = n
  <2>1. Holders(l, k) = {n}
    BY <1>1, <1>2 DEF UniqueKeys
  <2>2. (CHOOSE x \in Holders(l, k) : TRUE) = n
    BY <2>1
  <2> QED BY <2>1, <2>2 DEF Holder
<1>3. ASSUME \A n \in HashNodes : In(l, n) => KeyOf[n] # k PROVE Holder(l, k) = None
  BY <1>1, <1>3 DEF Holder
<1>4. ASSUME Holder(l, k) # None PROVE \E n \in HashNodes : In(l, n) /\ KeyOf[n] = k
  BY <1>1, <1>4 DEF Holder
<1> QED BY <1>2, <1>3, <1>4

(* Moving nodes (kcpmux_htb_find_lru) leaves the map as it is.                    *)
LEMMA ContentSame ==
  ASSUME NEW l, NEW k, UniqueKeys(l), \A m \in HashNodes : In(k, m) <=> In(l, m)
  PROVE  Content(k) = Content(l) /\ LinkedKeys(k) = LinkedKeys(l)
<1>1. UniqueKeys(k)
  BY DEF UniqueKeys
<1>2. ASSUME NEW x \in Keys PROVE Holder(k, x) = Holder(l, x)
  <2>1. CASE \E m \in HashNodes : In(l, m) /\ KeyOf[m] = x
    <3>1. PICK m \in HashNodes : In(l, m) /\ KeyOf[m] = x
      BY <2>1
    <3>2. Holder(l, x) = m /\ Holder(k, x) = m
      BY <3>1, <1>1, HolderIs
    <3> QED BY <3>2
  <2>2. CASE \A m \in HashNodes : In(l, m) => KeyOf[m] # x
    BY <2>2, <1>1, HolderIs
  <2> QED BY <2>1, <2>2
<1> QED BY <1>2 DEF Content, LinkedKeys

(* Adding a node with a new key adds it to the map.                               *)
LEMMA ContentAdd ==
  ASSUME NEW l, NEW k, UniqueKeys(l), UniqueKeys(k), NEW n \in HashNodes, ~In(l, n),
         \A m \in HashNodes : In(l, m) => KeyOf[m] # KeyOf[n],
         \A m \in HashNodes : In(k, m) <=> m = n \/ In(l, m)
  PROVE  /\ Content(l)[KeyOf[n]] = None
         /\ Content(k) = [Content(l) EXCEPT ![KeyOf[n]] = n]
         /\ LinkedKeys(k) = LinkedKeys(l) \cup {KeyOf[n]} /\ KeyOf[n] \notin LinkedKeys(l)
<1>1. KeyOf[n] \in Keys
  BY DEF Keys
<1>2. Holder(l, KeyOf[n]) = None /\ Holder(k, KeyOf[n]) = n
  BY HolderIs
<1>3. ASSUME NEW x \in Keys, x # KeyOf[n] PROVE Holder(k, x) = Holder(l, x)
  <2>1. CASE \E m \in HashNodes : In(l, m) /\ KeyOf[m] = x
    <3>1. PICK m \in HashNodes : In(l, m) /\ KeyOf[m] = x
      BY <2>1
    <3>2. Holder(l, x) = m
      BY <3>1, HolderIs
    <3>3. Holder(k, x) = m
      BY <3>1, HolderIs
    <3> QED BY <3>2, <3>3
  <2>2. CASE \A m \in HashNodes : In(l, m) => KeyOf[m] # x
    <3>1. \A m \in HashNodes : In(k, m) => KeyOf[m] # x
      BY <2>2, <1>3
    <3>2. Holder(l, x) = None
      BY <2>2, HolderIs
    <3>3. Holder(k, x) = None
      BY <3>1, HolderIs
    <3> QED BY <3>2, <3>3
  <2> QED BY <2>1, <2>2
<1>4. Content(k) = [Content(l) EXCEPT ![KeyOf[n]] = n]
  BY <1>1, <1>2, <1>3 DEF Content
<1> QED BY <1>1, <1>2, <1>4 DEF Content, LinkedKeys

(* Deleting a node takes its key out of the map.                                  *)
LEMMA ContentDel ==
  ASSUME NEW l, NEW k, UniqueKeys(l), UniqueKeys(k), NEW n \in HashNodes, In(l, n),
         \A m \in HashNodes : In(k, m) <=> m # n /\ In(l, m)
  PROVE  /\ Content(l)[KeyOf[n]] = n
         /\ Content(k) = [Content(l) EXCEPT ![KeyOf[n]] = None]
         /\ LinkedKeys(k) = LinkedKeys(l) \ {KeyOf[n]} /\ KeyOf[n] \in LinkedKeys(l)
<1>1. KeyOf[n] \in Keys
  BY DEF Keys
<1>2. \A m \in HashNodes : In(k, m) => KeyOf[m] # KeyOf[n]
  BY DEF UniqueKeys
<1>3. Holder(l, KeyOf[n]) = n
  BY HolderIs
<1>4. Holder(k, KeyOf[n]) = None
  BY <1>2, HolderIs
<1>5. ASSUME NEW x \in Keys, x # KeyOf[n] PROVE Holder(k, x) = Holder(l, x)
  <2>1. CASE \E m \in HashNodes : In(l, m) /\ KeyOf[m] = x
    <3>1. PICK m \in HashNodes : In(l, m) /\ KeyOf[m] = x
      BY <2>1
    <3>2. Holder(l, x) = m
      BY <3>1, HolderIs
    <3>3. Holder(k, x) = m
      BY <3>1, <1>5, HolderIs
    <3> QED BY <3>2, <3>3
  <2>2. CASE \A m \in HashNodes : In(l, m) => KeyOf[m] # x
    <3>1. \A m \in HashNodes : In(k, m) => KeyOf[m] # x
      BY <2>2
    <3>2. Holder(l, x) = None
      BY <2>2, HolderIs
    <3>3. Holder(k, x) = None
      BY <3>1, HolderIs
    <3> QED BY <3>2, <3>3
  <2> QED BY <2>1, <2>2
<1>6. Content(k) = [Content(l) EXCEPT ![KeyOf[n]] = None]
  BY <1>1, <1>4, <1>5 DEF Content
<1>7. LinkedKeys(k) = LinkedKeys(l) \ {KeyOf[n]}
  BY <1>2 DEF LinkedKeys
<1>8. KeyOf[n] \in LinkedKeys(l)
  BY <1>1 DEF LinkedKeys
<1> QED BY <1>1, <1>3, <1>6, <1>7, <1>8 DEF Content

(* The number of nodes, ht->num. *)
Counted(l, c) == IsFiniteSet(LinkedKeys(l)) /\ c = Cardinality(LinkedKeys(l))

(* The keys counted by ht->num are those of the map.                              *)
LEMMA CountedKeys ==
  ASSUME NEW l, UniqueKeys(l), NEW c, Counted(l, c)
  PROVE  c = Cardinality({k \in Keys : Content(l)[k] # None})
<1>1. ASSUME NEW k \in Keys PROVE (Content(l)[k] # None) <=> k \in LinkedKeys(l)
  <2>1. Content(l)[k] = Holder(l, k)
    BY DEF Content
  <2>2. ASSUME k \in LinkedKeys(l) PROVE Holder(l, k) # None
    <3>1. PICK n \in HashNodes : In(l, n) /\ KeyOf[n] = k
      BY <2>2 DEF LinkedKeys
    <3>2. Holder(l, k) = n
      BY <3>1, HolderIs
    <3> QED BY <3>2, HashAssumption
  <2>3. ASSUME Holder(l, k) # None PROVE k \in LinkedKeys(l)
    BY <2>3, HolderIs DEF LinkedKeys
  <2> QED BY <2>1, <2>2, <2>3
<1>2. {k \in Keys : Content(l)[k] # None} = LinkedKeys(l)
  BY <1>1 DEF LinkedKeys
<1> QED BY <1>2 DEF Counted

(* The functions that search a bucket.                                                *)
Searches == {"find", "find_lru", "add", "del_by_key"}

(* A search has not passed the node it looks for. *)
Hunt(l, r, sc) ==
  /\ sc \in [fn : Searches, key : Keys, node : HashNodes \cup {None}, i : {0}, p : Cells, t : {None}]
  /\ sc.p \in Heads \/ In(l, sc.p)
  /\ HeadOf(sc.p) = Bucket(sc.key)
  /\ sc.fn = "add" => sc.node \in HashNodes /\ KeyOf[sc.node] = sc.key /\ ~In(l, sc.node)
  /\ \A m \in HashNodes : In(l, m) /\ KeyOf[m] = sc.key =>
       /\ sc.p \notin Heads
       /\ IF sc.fn = "find_lru" THEN r[m] <= r[sc.p] ELSE r[sc.p] <= r[m]

(* A flush has emptied the buckets before i, and its cursors are fresh. *)
Purge(l, sc) ==
  /\ sc \in [fn : {"flush"}, key : {None}, node : {None}, i : Heads, p : Cells, t : Cells]
  /\ sc.p = l.next[sc.i] /\ sc.t = l.next[sc.p]
  /\ \A m \in HashNodes : In(l, m) => Home(m) >= sc.i

Scanning(l, r, sc) == sc = NoScan \/ Hunt(l, r, sc) \/ Purge(l, sc)

(* The inductive invariant: the lists are in order, the loop in progress has what it    *)
(* needs, and ht->num is right unless a flush is under way.                            *)
TableInv ==
  /\ \E r \in [HashNodes -> Int] : Lists(links, r) /\ Scanning(links, r, scan)
  /\ scan.fn # "flush" => Counted(links, num)

(* A step of the map, or none.                                                         *)
Refines == Map!Next \/ UNCHANGED <<Held, answer>>

(* The bucket of a key that is looked for exists.                                 *)
LEMMA KeyBucket == \A k \in Keys : Bucket(k) \in Heads
  BY HomeIsHead DEF Home, Keys

(* What the map holds while no flush runs, and while one does.                    *)
LEMMA HeldIs ==
  /\ scan.fn # "flush" => Held = Content(links)
  /\ scan.fn = "flush" => Held = [k \in Keys |-> None]
  BY DEF Held, Content

(* The same after a step.                                                         *)
LEMMA HeldIsNext ==
  /\ scan'.fn # "flush" => Held' = Content(links')
  /\ scan'.fn = "flush" => Held' = [k \in Keys |-> None]
  BY DEF Held, Content

(* Between two calls the lists and the count are in order.                        *)
LEMMA AtRest ==
  ASSUME TableInv, scan = NoScan
  PROVE  /\ Counted(links, num) /\ Held = Content(links)
         /\ UniqueKeys(links) /\ links \in Pointers
         /\ \E r \in [HashNodes -> Int] : Lists(links, r)
<1>1. scan.fn # "flush"
  BY DEF NoScan
<1> QED BY <1>1, HeldIs DEF TableInv, Lists, Rings

(* At the end of a loop of kcpmux_htb_find, find_lru, add or del_by_key the head means *)
(* that the key is absent, and a node is the one that has it.                          *)
LEMMA SearchEnds ==
  ASSUME TableInv, NEW fn \in Searches, LoopEnds(fn)
  PROVE  /\ scan.fn = fn /\ scan.key \in Keys /\ scan' = NoScan
         /\ Counted(links, num) /\ Held = Content(links)
         /\ UniqueKeys(links) /\ links \in Pointers
         /\ \E r \in [HashNodes -> Int] : Lists(links, r)
         /\ AtHead => \A m \in HashNodes : In(links, m) => KeyOf[m] # scan.key
         /\ ~AtHead => scan.p \in HashNodes /\ In(links, scan.p) /\ KeyOf[scan.p] = scan.key
         /\ fn = "add" => scan.node \in HashNodes /\ KeyOf[scan.node] = scan.key /\ ~In(links, scan.node)
<1>1. PICK r \in [HashNodes -> Int] : Lists(links, r) /\ Scanning(links, r, scan)
  BY DEF TableInv
<1>2. scan.fn = fn /\ scan.fn # "flush" /\ scan.fn # "none" /\ scan' = NoScan /\ (AtHead \/ Hit)
  BY DEF LoopEnds, Searches
<1>3. Hunt(links, r, scan)
  BY <1>1, <1>2, SMTT(30) DEF Scanning, Purge, NoScan
<1>4. scan.key \in Keys /\ scan.p \in Cells /\ Bucket(scan.key) \in Heads
  BY <1>3, KeyBucket DEF Hunt
<1>5. AtHead => \A m \in HashNodes : In(links, m) => KeyOf[m] # scan.key
  BY <1>3, <1>4 DEF AtHead, Hunt
<1>6. ~AtHead => scan.p \in HashNodes /\ In(links, scan.p) /\ KeyOf[scan.p] = scan.key
  <2> SUFFICES ASSUME ~AtHead
               PROVE scan.p \in HashNodes /\ In(links, scan.p) /\ KeyOf[scan.p] = scan.key
      OBVIOUS
  <2>1. scan.p \notin Heads
    BY <1>3, CellsApart DEF AtHead, Hunt
  <2> QED BY <2>1, <1>2, <1>3, <1>4, CellsApart DEF Hit, Hunt
<1>7. fn = "add" => scan.node \in HashNodes /\ KeyOf[scan.node] = scan.key /\ ~In(links, scan.node)
  BY <1>2, <1>3 DEF Hunt
<1> QED BY <1>1, <1>2, <1>4, <1>5, <1>6, <1>7, HeldIs DEF TableInv, Lists, Rings

(* A call that returns with the lists and the count in order.                     *)
LEMMA Rests ==
  ASSUME scan' = NoScan, \E r \in [HashNodes -> Int] : Lists(links', r), Counted(links', num')
  PROVE  TableInv' /\ Held' = Content(links')
<1>1. scan'.fn # "flush"
  BY DEF NoScan
<1> QED BY <1>1, HeldIsNext DEF TableInv, Scanning

(* kcpmux_htb_add and kcpmux_htb_add_direct of a key that is absent.              *)
LEMMA AddStep ==
  ASSUME NEW n \in HashNodes, ~In(links, n), links \in Pointers,
         \A m \in HashNodes : In(links, m) => KeyOf[m] # KeyOf[n],
         \E r \in [HashNodes -> Int] : Lists(links, r), UniqueKeys(links),
         Counted(links, num), Held = Content(links),
         links' = ListAddHead(links, n, Home(n)), num' = num + 1, answer' = None, scan' = NoScan
  PROVE  TableInv' /\ Map!Add(n)
<1>1. PICK r \in [HashNodes -> Int] : Lists(links, r)
  OBVIOUS
<1>2. /\ \E s \in [HashNodes -> Int] : Lists(links', s)
      /\ \A m \in HashNodes : In(links', m) <=> m = n \/ In(links, m)
  BY <1>1, AddHeadLists
<1>3. UniqueKeys(links')
  BY <1>2 DEF Lists
<1>4. /\ Content(links)[KeyOf[n]] = None
      /\ Content(links') = [Content(links) EXCEPT ![KeyOf[n]] = n]
      /\ LinkedKeys(links') = LinkedKeys(links) \cup {KeyOf[n]} /\ KeyOf[n] \notin LinkedKeys(links)
  BY <1>2, <1>3, ContentAdd
<1>5. Counted(links', num')
  BY <1>4, FS_AddElement DEF Counted
<1>6. TableInv' /\ Held' = Content(links')
  BY <1>2, <1>5, Rests
<1> QED BY <1>4, <1>6 DEF Map!Add

(* kcpmux_htb_del of a node in the table and of one outside.                      *)
LEMMA RemovalStep ==
  ASSUME NEW n \in HashNodes, links \in Pointers,
         \E r \in [HashNodes -> Int] : Lists(links, r), UniqueKeys(links),
         Counted(links, num), Held = Content(links), Removal(n), scan' = NoScan
  PROVE  TableInv' /\ Map!Del(n)
<1>1. CASE In(links, n)
  <2>1. PICK r \in [HashNodes -> Int] : Lists(links, r)
    OBVIOUS
  <2>2. links' = ListDel(links, n) /\ num' = num - 1 /\ answer' = None
    BY <1>1 DEF Removal, ListEmpty, In
  <2>3. /\ \E s \in [HashNodes -> Int] : Lists(links', s)
        /\ \A m \in HashNodes : In(links', m) <=> m # n /\ In(links, m)
    BY <1>1, <2>1, <2>2, DelLists
  <2>4. UniqueKeys(links')
    BY <2>3 DEF Lists
  <2>5. /\ Content(links)[KeyOf[n]] = n
        /\ Content(links') = [Content(links) EXCEPT ![KeyOf[n]] = None]
        /\ LinkedKeys(links') = LinkedKeys(links) \ {KeyOf[n]} /\ KeyOf[n] \in LinkedKeys(links)
    BY <1>1, <2>3, <2>4, ContentDel
  <2>6. Counted(links', num')
    BY <2>2, <2>5, FS_RemoveElement DEF Counted
  <2>7. TableInv' /\ Held' = Content(links')
    BY <2>3, <2>6, Rests
  <2> QED BY <2>2, <2>5, <2>7 DEF Map!Del
<1>2. CASE ~In(links, n)
  <2>1. links' = links /\ num' = num /\ answer' = None
    BY <1>2 DEF Removal, ListEmpty, In
  <2>2. TableInv' /\ Held' = Held
    BY <2>1, Rests
  <2>3. Holder(links, KeyOf[n]) # n
    <3> SUFFICES ASSUME Holder(links, KeyOf[n]) = n PROVE FALSE
        OBVIOUS
    <3>1. PICK m \in HashNodes : In(links, m) /\ KeyOf[m] = KeyOf[n]
      BY HolderIs, HashAssumption
    <3>2. Holder(links, KeyOf[n]) = m
      BY <3>1, HolderIs
    <3> QED BY <3>1, <3>2, <1>2
  <2>4. KeyOf[n] \in Keys
    BY DEF Keys
  <2>5. Held[KeyOf[n]] # n
    BY <2>3, <2>4 DEF Content
  <2>6. Held = [Held EXCEPT ![KeyOf[n]] = IF @ = n THEN None ELSE @]
    BY <2>5 DEF Content
  <2> QED BY <2>1, <2>2, <2>6 DEF Map!Del
<1> QED BY <1>1, <1>2

(* kcpmux_htb_find answers as the map does.                                       *)
LEMMA FindStep ==
  ASSUME TableInv, Find PROVE TableInv' /\ Refines
<1>1. LoopEnds("find") /\ "find" \in Searches
  BY DEF Find, Searches
<1>2. TableInv' /\ Held' = Held
  BY <1>1, SearchEnds, Rests DEF Find
<1>3. answer' = Held[scan.key] /\ scan.key \in Keys
  BY <1>1, SearchEnds, HolderIs, SMTT(30) DEF Find, Found, Content
<1> QED BY <1>2, <1>3 DEF Refines, Map!Next, Map!Find, Keys, Map!Keys

(* So does kcpmux_htb_find_lru, and the map stays while the list is reordered.    *)
LEMMA FindLruStep ==
  ASSUME TableInv, FindLru PROVE TableInv' /\ Refines
<1>1. LoopEnds("find_lru") /\ "find_lru" \in Searches
  BY DEF FindLru, Searches
<1>2. answer' = Held[scan.key] /\ scan.key \in Keys
  BY <1>1, SearchEnds, HolderIs, SMTT(30) DEF FindLru, Found, Content
<1>3. TableInv' /\ Held' = Held
  <2>1. CASE AtHead
    BY <2>1, <1>1, SearchEnds, Rests DEF FindLru
  <2>2. CASE ~AtHead
    <3> DEFINE n == scan.p
               l == ListDel(links, n)
    <3>1. n \in HashNodes /\ In(links, n) /\ KeyOf[n] = scan.key
      BY <2>2, <1>1, SearchEnds
    <3>2. PICK r \in [HashNodes -> Int] : Lists(links, r)
      BY <1>1, SearchEnds
    <3>3. Lists(l, r) /\ \A m \in HashNodes : In(l, m) <=> m # n /\ In(links, m)
      BY <3>1, <3>2, DelLists
    <3>4. \A m \in HashNodes : In(l, m) => KeyOf[m] # KeyOf[n]
      BY <3>1, <3>2, <3>3 DEF Lists, UniqueKeys
    <3>5. links' = ListAddTail(l, n, Home(n))
      BY <2>2, <3>1 DEF FindLru, ListMoveTail, Home
    <3> HIDE DEF l, n
    <3>6. /\ \E s \in [HashNodes -> Int] : Lists(links', s)
          /\ \A m \in HashNodes : In(links', m) <=> m = n \/ In(l, m)
      BY <3>1, <3>3, <3>4, <3>5, AddTailLists
    <3>7. \A m \in HashNodes : In(links', m) <=> In(links, m)
      BY <3>1, <3>3, <3>6
    <3>8. Content(links') = Content(links) /\ LinkedKeys(links') = LinkedKeys(links)
      BY <3>7, <1>1, SearchEnds, ContentSame
    <3>9. Counted(links', num')
      BY <3>8, <1>1, SearchEnds DEF FindLru, Counted
    <3>10. scan' = NoScan /\ Held = Content(links)
      BY <1>1, SearchEnds
    <3> QED BY <3>6, <3>8, <3>9, <3>10, Rests
  <2> QED BY <2>1, <2>2
<1> QED BY <1>2, <1>3 DEF Refines, Map!Next, Map!Find, Keys, Map!Keys

(* The end of kcpmux_htb_add, with the key absent and with it there.              *)
LEMMA AddsStep ==
  ASSUME TableInv, Add PROVE TableInv' /\ Refines
<1>1. LoopEnds("add") /\ "add" \in Searches /\ answer' = None
  BY DEF Add, Searches
<1>2. CASE AtHead
  <2>1. scan.node \in HashNodes /\ KeyOf[scan.node] = scan.key /\ scan' = NoScan
    BY <1>1, SearchEnds
  <2>2. links' = ListAddHead(links, scan.node, Home(scan.node)) /\ num' = num + 1
    BY <1>2, <2>1 DEF Add, Home
  <2>3. TableInv' /\ Map!Add(scan.node)
    BY <1>1, <1>2, <2>1, <2>2, SearchEnds, AddStep
  <2> QED BY <2>1, <2>3 DEF Refines, Map!Next
<1>3. CASE ~AtHead
  <2>1. scan.node \in HashNodes /\ KeyOf[scan.node] = scan.key /\ scan.key \in Keys
    BY <1>1, SearchEnds
  <2>2. TableInv' /\ Held' = Held
    BY <1>1, <1>3, SearchEnds, Rests DEF Add
  <2>3. Held[scan.key] = scan.p /\ scan.p # None
    BY <1>1, <1>3, SearchEnds, HolderIs, HashAssumption, SMTT(30) DEF Content
  <2>4. Held = [Held EXCEPT ![KeyOf[scan.node]] = IF @ = None THEN scan.node ELSE @]
    BY <2>1, <2>3 DEF Held
  <2>5. Map!Add(scan.node)
    BY <1>1, <2>2, <2>4 DEF Map!Add
  <2> QED BY <2>1, <2>2, <2>5 DEF Refines, Map!Next
<1> QED BY <1>2, <1>3

(* kcpmux_htb_add_direct is an add of the map.                                    *)
LEMMA AddDirectStep ==
  ASSUME TableInv, NEW n \in HashNodes, AddDirect(n) PROVE TableInv' /\ Refines
<1>1. /\ scan = NoScan /\ scan' = NoScan /\ ~In(links, n)
      /\ \A m \in HashNodes : In(links, m) => KeyOf[m] # KeyOf[n]
      /\ links' = ListAddHead(links, n, Home(n)) /\ num' = num + 1 /\ answer' = None
  BY DEF AddDirect, Linked, ListEmpty, In, Home
<1>2. TableInv' /\ Map!Add(n)
  BY <1>1, AtRest, AddStep
<1> QED BY <1>2 DEF Refines, Map!Next

(* kcpmux_htb_del is a deletion of the map.                                       *)
LEMMA DelStep ==
  ASSUME TableInv, NEW n \in HashNodes, Del(n) PROVE TableInv' /\ Refines
<1>1. scan = NoScan /\ scan' = NoScan /\ Removal(n)
  BY DEF Del
<1>2. TableInv' /\ Map!Del(n)
  BY <1>1, AtRest, RemovalStep
<1> QED BY <1>2 DEF Refines, Map!Next

(* The end of kcpmux_htb_del_by_key, with the key absent and with it there.       *)
LEMMA DelByKeyStep ==
  ASSUME TableInv, DelByKey PROVE TableInv' /\ Refines
<1>1. LoopEnds("del_by_key") /\ "del_by_key" \in Searches
  BY DEF DelByKey, Searches
<1>2. CASE AtHead
  <2>1. TableInv' /\ Held' = Held /\ answer' = None
    BY <1>1, <1>2, SearchEnds, Rests DEF DelByKey
  <2>2. Held[scan.key] = None /\ scan.key \in Keys
    BY <1>1, <1>2, SearchEnds, HolderIs, SMTT(30) DEF Content
  <2>3. Held = [Held EXCEPT ![scan.key] = None]
    BY <2>2 DEF Held
  <2> QED BY <2>1, <2>2, <2>3 DEF Refines, Map!Next, Map!DelByKey, Keys, Map!Keys
<1>3. CASE ~AtHead
  <2>1. scan.p \in HashNodes /\ Removal(scan.p)
    BY <1>1, <1>3, SearchEnds DEF DelByKey
  <2>2. TableInv' /\ Map!Del(scan.p)
    BY <1>1, <2>1, SearchEnds, RemovalStep
  <2> QED BY <2>1, <2>2 DEF Refines, Map!Next
<1> QED BY <1>2, <1>3

(* kcpmux_htb_num is the number of keys of the map.                               *)
LEMMA NumStep ==
  ASSUME TableInv, Num PROVE TableInv' /\ Refines
<1>1. scan = NoScan /\ scan' = NoScan /\ links' = links /\ num' = num /\ answer' = num
  BY DEF Num
<1>2. TableInv' /\ Held' = Held
  BY <1>1, AtRest, Rests
<1>3. answer' = Cardinality({k \in Keys : Held[k] # None})
  BY <1>1, AtRest, CountedKeys
<1>4. ASSUME NEW S PROVE Map!Cardinality(S) = Cardinality(S)
  BY DEF Map!Cardinality, Cardinality, Map!IsFiniteSet, IsFiniteSet
<1> QED BY <1>2, <1>3, <1>4 DEF Refines, Map!Next, Map!Num, Keys, Map!Keys

(* A turn of a loop that leaves the table alone is no step of the map.            *)
LEMMA Stutters ==
  ASSUME TableInv, links' = links, num' = num, answer' = answer,
         scan.fn # "flush", scan'.fn # "flush",
         \E r \in [HashNodes -> Int] : Lists(links, r) /\ Scanning(links, r, scan')
  PROVE  TableInv' /\ Refines
<1>1. Held = Content(links) /\ Held' = Content(links')
  BY HeldIs, HeldIsNext
<1>2. TableInv'
  BY DEF TableInv
<1> QED BY <1>1, <1>2 DEF Refines

(* A search begins at the head of the bucket, with all its nodes ahead.           *)
LEMMA SearchStep ==
  ASSUME TableInv, NEW fn \in Searches, NEW k \in Keys, NEW n \in HashNodes \cup {None},
         fn = "add" => n \in HashNodes /\ KeyOf[n] = k /\ ~In(links, n), Search(fn, k, n)
  PROVE  TableInv' /\ Refines
<1> DEFINE h == Bucket(k)
<1>1. PICK r \in [HashNodes -> Int] : Lists(links, r)
  BY DEF TableInv
<1>2. /\ links.next \in [Cells -> Cells] /\ links.prev \in [Cells -> Cells]
      /\ h \in Heads /\ h \in Cells /\ HeadOf(h) = h
  BY <1>1, KeyBucket, CellsApart DEF Lists, Rings, Pointers
<1>3. /\ scan.fn = "none" /\ links' = links /\ num' = num /\ answer' = answer
      /\ scan' = [fn |-> fn, key |-> k, node |-> n, i |-> 0, p |-> Toward(fn)[h], t |-> None]
  BY DEF Search, NoScan
<1>4. /\ scan'.fn = fn /\ scan'.key = k /\ scan'.node = n /\ scan'.p = Toward(fn)[h]
      /\ scan' \in [fn : Searches, key : Keys, node : HashNodes \cup {None}, i : {0}, p : Cells, t : {None}]
  BY <1>2, <1>3 DEF Toward
<1>5. /\ Toward(fn)[h] \in Heads \/ In(links, Toward(fn)[h])
      /\ HeadOf(Toward(fn)[h]) = h
  BY <1>1, <1>2 DEF Toward, Lists, Rings
<1>6. ASSUME NEW m \in HashNodes, In(links, m), KeyOf[m] = k
      PROVE  /\ Toward(fn)[h] \notin Heads
             /\ IF fn = "find_lru" THEN r[m] <= r[Toward(fn)[h]] ELSE r[Toward(fn)[h]] <= r[m]
  <2>1. Home(m) = h /\ Mates(links, m, m)
    BY <1>6 DEF Home, Mates
  <2> QED BY <2>1, <1>1 DEF Toward, Lists, Ranked, Mates
<1>7. Hunt(links, r, scan')
  BY <1>4, <1>5, <1>6 DEF Hunt
<1>8. scan.fn # "flush" /\ scan'.fn # "flush"
  BY <1>3, <1>4 DEF Searches
<1> QED BY <1>1, <1>3, <1>7, <1>8, Stutters DEF Scanning

(* A search that goes on, forwards or backwards, passes only a node of another key. *)
LEMMA NextEntryStep ==
  ASSUME TableInv, NextEntry PROVE TableInv' /\ Refines
<1> DEFINE p == scan.p
           q == Toward(scan.fn)[p]
<1>1. PICK r \in [HashNodes -> Int] : Lists(links, r) /\ Scanning(links, r, scan)
  BY DEF TableInv
<1>2. scan.fn \in Searches /\ ~AtHead /\ ~Hit
  BY DEF NextEntry, Searching, Searches
<1>3. Hunt(links, r, scan)
  BY <1>1, <1>2, SMTT(30) DEF Scanning, Purge, NoScan, Searches
<1>4. /\ links.next \in [Cells -> Cells] /\ links.prev \in [Cells -> Cells]
      /\ scan.key \in Keys /\ Bucket(scan.key) \in Heads /\ Bucket(scan.key) \in Cells
  BY <1>1, <1>3, KeyBucket, CellsApart DEF Lists, Rings, Pointers, Hunt
<1>5. /\ p \in HashNodes /\ p \in Cells /\ In(links, p) /\ p \notin Heads
      /\ Home(p) = Bucket(scan.key) /\ KeyOf[p] # scan.key
  BY <1>2, <1>3, CellsApart DEF AtHead, Hit, Hunt
<1>6. /\ links' = links /\ num' = num /\ answer' = answer
      /\ scan' = [scan EXCEPT !.p = q]
  BY DEF NextEntry
<1>7. q \in Cells /\ (q \in Heads \/ In(links, q)) /\ HeadOf(q) = Home(p)
  BY <1>1, <1>4, <1>5, CellsApart DEF Toward, Lists, Rings
<1>8. /\ scan'.fn = scan.fn /\ scan'.key = scan.key /\ scan'.node = scan.node /\ scan'.p = q
      /\ scan' \in [fn : Searches, key : Keys, node : HashNodes \cup {None}, i : {0}, p : Cells, t : {None}]
  BY <1>3, <1>6, <1>7 DEF Hunt
<1> HIDE DEF q
<1>9. ASSUME NEW m \in HashNodes, In(links, m), KeyOf[m] = scan.key
      PROVE  /\ q \notin Heads
             /\ IF scan.fn = "find_lru" THEN r[m] <= r[q] ELSE r[q] <= r[m]
  <2>1. Home(m) = Home(p) /\ Mates(links, p, m) /\ Mates(links, m, p) /\ m # p
    BY <1>5, <1>9 DEF Home, Mates
  <2>2. r[m] \in Int /\ r[p] \in Int /\ r[m] # r[p]
    BY <1>1, <1>5, <2>1 DEF Lists, Ranked
  <2>3. CASE scan.fn # "find_lru"
    <3>1. r[p] <= r[m] /\ q = links.next[p]
      BY <1>3, <1>9, <2>3 DEF Hunt, q, Toward
    <3>2. IF q \in Heads THEN r[m] <= r[p]
          ELSE r[p] < r[q] /\ (r[m] <= r[p] \/ r[q] <= r[m])
      BY <3>1, <2>1, <1>1, <1>5 DEF Lists, Ranked
    <3> QED BY <3>1, <3>2, <2>2, <2>3, SMTT(30)
  <2>4. CASE scan.fn = "find_lru"
    <3>1. r[m] <= r[p] /\ q = links.prev[p]
      BY <1>3, <1>9, <2>4 DEF Hunt, q, Toward
    <3>2. links.next[q] = p
      BY <3>1, <1>1, <1>5 DEF Lists, Rings
    <3>3. CASE q \in Heads
      <4>1. q = Home(p)
        BY <3>3, <1>7, CellsApart
      <4>2. r[p] <= r[m]
        BY <4>1, <3>2, <2>1, <1>1, <1>5 DEF Lists, Ranked
      <4> QED BY <4>2, <3>1, <2>2, SMTT(30)
    <3>4. CASE q \notin Heads
      <4>1. q \in HashNodes /\ Mates(links, q, m) /\ r[q] \in Int
        BY <3>4, <2>1, <1>1, <1>7, CellsApart DEF Mates
      <4>2. r[m] <= r[q] \/ r[p] <= r[m]
        BY <4>1, <3>2, <1>1, <1>5 DEF Lists, Ranked
      <4> QED BY <4>2, <3>1, <3>4, <2>2, <2>4, SMTT(30)
    <3> QED BY <3>3, <3>4
  <2> QED BY <2>3, <2>4
<1>10. Hunt(links, r, scan')
  BY <1>3, <1>5, <1>7, <1>8, <1>9 DEF Hunt
<1>11. scan.fn # "flush" /\ scan'.fn # "flush"
  BY <1>2, <1>8 DEF Searches
<1> QED BY <1>1, <1>6, <1>10, <1>11, Stutters DEF Scanning

(* kcpmux_htb_flush enters bucket i with the buckets before it empty.             *)
LEMMA FlushAtIs ==
  ASSUME NEW l \in Pointers, NEW i \in Heads, \A m \in HashNodes : In(l, m) => Home(m) >= i
  PROVE  Purge(l, FlushAt(l, i)) /\ FlushAt(l, i).fn = "flush"
<1>1. i \in Cells /\ l.next[i] \in Cells /\ l.next[l.next[i]] \in Cells
  BY DEF Pointers, Cells
<1>2. FlushAt(l, i) = [fn |-> "flush", key |-> None, node |-> None, i |-> i,
                      p |-> l.next[i], t |-> l.next[l.next[i]]]
  BY DEF FlushAt
<1> QED BY <1>1, <1>2, SMTT(30) DEF Purge

(* The beginning of kcpmux_htb_flush, where the map is emptied.                   *)
LEMMA FlushStep ==
  ASSUME TableInv, Flush PROVE TableInv' /\ Refines
<1>1. scan = NoScan /\ scan' = FlushAt(links, 0) /\ links' = links /\ answer' = None
  BY DEF Flush
<1>2. 0 \in Heads /\ Heads \subseteq Nat
  BY HashAssumption, SMTT(30) DEF Heads
<1>3. \A m \in HashNodes : Home(m) >= 0
  <2>1. ASSUME NEW m \in HashNodes PROVE Home(m) >= 0
    <3>1. Home(m) \in Nat
      BY <1>2, HomeIsHead
    <3> QED BY <3>1, SMTT(30)
  <2> QED BY <2>1
<1>4. Purge(links, scan') /\ scan'.fn = "flush"
  BY <1>1, <1>2, <1>3, AtRest, FlushAtIs
<1>5. TableInv'
  BY <1>1, <1>4, AtRest DEF TableInv, Scanning
<1>6. Held' = [k \in Keys |-> None]
  BY <1>4, HeldIsNext
<1> QED BY <1>1, <1>5, <1>6 DEF Refines, Map!Next, Map!Flush, Keys, Map!Keys

(* What is known during a flush.                                                  *)
LEMMA Purging ==
  ASSUME TableInv, scan.fn = "flush"
  PROVE  /\ \E r \in [HashNodes -> Int] : Lists(links, r)
         /\ Purge(links, scan) /\ Held = [k \in Keys |-> None]
<1>1. PICK r \in [HashNodes -> Int] : Lists(links, r) /\ Scanning(links, r, scan)
  BY DEF TableInv
<1>2. Purge(links, scan)
  BY <1>1, SMTT(30) DEF Scanning, Hunt, NoScan, Searches
<1> QED BY <1>1, <1>2, HeldIs

(* One turn of list_for_each_safe: the cursor read before list_del is still the first *)
(* node of the bucket after it.                                                       *)
LEMMA FlushEntryStep ==
  ASSUME TableInv, FlushEntry PROVE TableInv' /\ Refines
<1> DEFINE p == scan.p
           i == scan.i
           t == scan.t
<1>1. /\ scan.fn = "flush" /\ p # i /\ links' = ListDel(links, p) /\ answer' = answer
      /\ scan' = [scan EXCEPT !.p = t, !.t = links'.next[t]]
  BY DEF FlushEntry
<1>2. PICK r \in [HashNodes -> Int] : Lists(links, r)
  BY <1>1, Purging
<1>3. Purge(links, scan) /\ Held = [k \in Keys |-> None]
  BY <1>1, Purging
<1>4. /\ i \in Heads /\ i \in Cells /\ p \in Cells /\ t \in Cells
      /\ p = links.next[i] /\ t = links.next[p] /\ HeadOf(i) = i
      /\ links.next \in [Cells -> Cells] /\ links.prev \in [Cells -> Cells]
  BY <1>2, <1>3, CellsApart DEF Purge, Lists, Rings, Pointers
<1>5. /\ HeadOf(p) = i /\ links.prev[p] = i /\ (p \in Heads \/ In(links, p))
  BY <1>2, <1>4 DEF Lists, Rings
<1>6. p \in HashNodes /\ In(links, p) /\ p \notin Heads
  BY <1>1, <1>4, <1>5, CellsApart
<1>7. Lists(links', r) /\ \A m \in HashNodes : In(links', m) <=> m # p /\ In(links, m)
  BY <1>1, <1>2, <1>6, DelLists
<1>8. links'.next[i] = t
  BY <1>1, <1>4, <1>5, <1>6 DEF ListDel
<1>9. links' \in Pointers /\ links'.next[t] \in Cells
  BY <1>4, <1>7 DEF Lists, Rings, Pointers
<1>10. /\ scan'.fn = "flush" /\ scan'.i = i /\ scan'.p = t /\ scan'.t = links'.next[t]
       /\ scan' \in [fn : {"flush"}, key : {None}, node : {None}, i : Heads, p : Cells, t : Cells]
  BY <1>1, <1>3, <1>4, <1>9 DEF Purge
<1>11. Purge(links', scan')
  BY <1>3, <1>7, <1>8, <1>10 DEF Purge
<1>12. TableInv'
  BY <1>7, <1>10, <1>11 DEF TableInv, Scanning
<1>13. Held' = [k \in Keys |-> None]
  BY <1>10, HeldIsNext
<1> QED BY <1>1, <1>3, <1>12, <1>13 DEF Refines

(* The end of a bucket, and of the last one: nothing is left, and ht->num is 0.   *)
LEMMA FlushBucketStep ==
  ASSUME TableInv, FlushBucket PROVE TableInv' /\ Refines
<1> DEFINE i == scan.i
<1>1. scan.fn = "flush" /\ scan.p = i /\ links' = links /\ answer' = answer
  BY DEF FlushBucket
<1>2. PICK r \in [HashNodes -> Int] : Lists(links, r)
  BY <1>1, Purging
<1>3. Purge(links, scan) /\ Held = [k \in Keys |-> None] /\ links \in Pointers
  BY <1>1, <1>2, Purging DEF Lists, Rings
<1>4. i \in Heads /\ links.next[i] = i /\ Heads = 0..(Size - 1) /\ Size \in Nat
  BY <1>1, <1>3, HashAssumption DEF Purge, Heads
<1>5. \A m \in HashNodes : In(links, m) => Home(m) # i /\ Home(m) >= i /\ Home(m) \in Heads
  BY <1>2, <1>3, <1>4, HomeIsHead DEF Purge, Lists, Ranked
<1>6. \A m \in HashNodes : In(links, m) => Home(m) >= i + 1 /\ Home(m) < Size
  BY <1>4, <1>5, SMTT(30)
<1>7. CASE i + 1 < Size
  <2>1. scan' = FlushAt(links, i + 1) /\ i + 1 \in Heads
    BY <1>4, <1>7, SMTT(30) DEF FlushBucket
  <2>2. Purge(links, scan') /\ scan'.fn = "flush"
    BY <2>1, <1>3, <1>6, FlushAtIs
  <2>3. TableInv'
    BY <2>2, <1>1, <1>2 DEF TableInv, Scanning
  <2>4. Held' = Held
    BY <2>2, <1>3, HeldIsNext
  <2> QED BY <2>3, <2>4, <1>1 DEF Refines
<1>8. CASE ~(i + 1 < Size)
  <2>1. scan' = NoScan /\ num' = 0
    BY <1>8 DEF FlushBucket
  <2>2. \A m \in HashNodes : ~In(links, m)
    BY <1>4, <1>5, <1>6, <1>8, SMTT(30)
  <2>3. LinkedKeys(links') = {}
    BY <2>2, <1>1 DEF LinkedKeys
  <2>4. Counted(links', num')
    BY <2>1, <2>3, FS_EmptySet DEF Counted
  <2>5. TableInv' /\ Held' = Content(links')
    BY <2>1, <2>4, <1>1, <1>2, Rests
  <2>6. \A k \in Keys : Holder(links, k) = None
    BY <2>2, <1>2, HolderIs DEF Lists
  <2>7. Held' = Held
    BY <2>5, <2>6, <1>1, <1>3 DEF Content
  <2> QED BY <2>5, <2>7, <1>1 DEF Refines
<1> QED BY <1>7, <1>8

(* Every step of the table keeps the invariant and is a step of the map or none.  *)
LEMMA TableStep ==
  ASSUME TableInv, HtbNext PROVE TableInv' /\ Refines
<1>1. ASSUME NEW n \in HashNodes, ~Linked(n), Search("add", KeyOf[n], n)
      PROVE  TableInv' /\ Refines
  <2>1. KeyOf[n] \in Keys /\ "add" \in Searches /\ ~In(links, n)
    BY <1>1 DEF Keys, Searches, Linked, ListEmpty, In
  <2> QED BY <2>1, <1>1, SearchStep
<1>2. ASSUME NEW k \in Keys, NEW fn \in {"find", "find_lru", "del_by_key"}, Search(fn, k, None)
      PROVE  TableInv' /\ Refines
  BY <1>2, SearchStep DEF Searches
<1> QED BY <1>1, <1>2, AddDirectStep, DelStep, NextEntryStep, FindStep, FindLruStep, AddsStep,
           DelByKeyStep, NumStep, FlushStep, FlushEntryStep, FlushBucketStep DEF HtbNext

(* kcpmux_htb_new is an empty map.                                                *)
LEMMA TableStart ==
  ASSUME HtbInit PROVE TableInv /\ Map!Init
<1> DEFINE r == [n \in HashNodes |-> 0]
<1>1. /\ links = [next |-> ListInit, prev |-> ListInit]
      /\ num = 0 /\ answer = None /\ scan = NoScan
  BY DEF HtbInit
<1>2. links.next = [c \in Cells |-> c] /\ links.prev = [c \in Cells |-> c] /\ links \in Pointers
  BY <1>1 DEF ListInit, Pointers
<1>3. \A n \in HashNodes : ~In(links, n)
  BY <1>2, CellsApart DEF In
<1>4. Lists(links, r) /\ r \in [HashNodes -> Int]
  BY <1>2, <1>3, CellsApart, SMTT(30) DEF Lists, Rings, Ranked, UniqueKeys, Mates
<1>5. LinkedKeys(links) = {}
  BY <1>3 DEF LinkedKeys
<1>6. Counted(links, num)
  BY <1>1, <1>5, FS_EmptySet DEF Counted
<1>7. TableInv
  BY <1>1, <1>4, <1>6 DEF TableInv, Scanning
<1>8. \A k \in Keys : Holder(links, k) = None
  BY <1>3, <1>4, HolderIs DEF Lists
<1>9. Held = [k \in Keys |-> None]
  BY <1>1, <1>8 DEF Held
<1> QED BY <1>1, <1>7, <1>9 DEF Map!Init, Keys, Map!Keys

(* The hash table of kcpmux_hashtable.c implements a map, for any hash function, number  *)
(* of buckets and nodes: no search misses a node, whatever the order kcpmux_htb_find_lru  *)
(* left it in, no flush leaves one, and kcpmux_htb_num counts what is there.              *)
THEOREM TableIsMap == HtbSpec => ImplementsMap
<1>1. HtbInit => TableInv /\ Map!Init
  BY TableStart
<1>2. TableInv /\ [HtbNext]_htbVars => TableInv' /\ [Map!Next]_<<Held, answer>>
  <2> SUFFICES ASSUME TableInv, [HtbNext]_htbVars
               PROVE  TableInv' /\ [Map!Next]_<<Held, answer>>
      OBVIOUS
  <2>1. CASE HtbNext
    BY <2>1, TableStep DEF Refines
  <2>2. CASE UNCHANGED htbVars
    BY <2>2 DEF htbVars, TableInv, Held
  <2> QED BY <2>1, <2>2
<1> QED BY <1>1, <1>2, PTL DEF HtbSpec, ImplementsMap, Map!Spec

(* The lists of kcpmux_list.h stay intact, in the middle of a search or a flush too: next  *)
(* and prev are inverse to each other, every node of the table is on the one ring through   *)
(* its bucket's head, and no two have one key.                                             *)
THEOREM ListsIntact == HtbSpec => [](\E r \in [HashNodes -> Int] : Lists(links, r))
<1>1. HtbInit => TableInv
  BY TableStart
<1>2. TableInv /\ [HtbNext]_htbVars => TableInv'
  <2> SUFFICES ASSUME TableInv, [HtbNext]_htbVars PROVE TableInv'
      OBVIOUS
  <2>1. CASE HtbNext
    BY <2>1, TableStep
  <2>2. CASE UNCHANGED htbVars
    BY <2>2 DEF htbVars, TableInv
  <2> QED BY <2>1, <2>2
<1>3. TableInv => \E r \in [HashNodes -> Int] : Lists(links, r)
  BY DEF TableInv
<1> QED BY <1>1, <1>2, <1>3, PTL DEF HtbSpec
=============================================================================
