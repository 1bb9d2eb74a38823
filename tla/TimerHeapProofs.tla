-------------------------- MODULE TimerHeapProofs --------------------------
(***************************************************************************)
(* Proofs about the timer heap, for any number of nodes and any deadlines. *)
(*                                                                         *)
(* IndInv is inductive.  Its core is SiftOrdered, the loop invariant of    *)
(* the two sift functions: every edge is in order except those at the node *)
(* being moved, and the children of that node are in order with its        *)
(* parent.  That the root is the first node (RootFirst) then follows from  *)
(* the order of the single edges, taking the least slot that contradicts   *)
(* it.                                                                     *)
(***************************************************************************)
EXTENDS TimerHeap, TLAPS, FiniteSetTheorems, WellFoundedInduction

(* Most leaves are first-order; those that need arithmetic or sequences name SMT.   *)
USE ZenonT(30)

\* Index arithmetic of the array: (index - 1) / 2 and 2 * index + 1.
LEMMA ParentFacts ==
  /\ \A i \in Nat \ {0} :
       /\ Parent(i) \in Nat /\ Parent(i) < i
       /\ i = 2 * Parent(i) + 1 \/ i = 2 * Parent(i) + 2
  /\ \A i \in Nat : Parent(2 * i + 1) = i /\ Parent(2 * i + 2) = i
BY SMTT(30) DEF Parent

LEMMA ChildIndex ==
  ASSUME NEW a \in Nat, NEW i \in Nat \ {0}
  PROVE  Parent(i) = a <=> i = 2 * a + 1 \/ i = 2 * a + 2
BY SMTT(30) DEF Parent

LEMMA ParentInside ==
  ASSUME NEW s \in Nat, NEW i \in 1 .. s - 1
  PROVE  Parent(i) \in 0 .. s - 1 /\ Parent(i) < i
<1>1. i \in Nat \ {0} /\ i < s
  BY SMTT(30)
<1>2. Parent(i) \in Nat /\ Parent(i) < i
  BY <1>1, ParentFacts
<1>. QED
  BY <1>1, <1>2, SMTT(30)

\* kcpmux_timer_less is a strict order in which incomparability is transitive.
LEMMA LessFacts ==
  ASSUME deadline \in [Nodes -> Int], order \in [Nodes -> Nat]
  PROVE  /\ \A m, n \in Nodes : Less(m, n) => ~ Less(n, m)
         /\ \A k, m, n \in Nodes : ~ Less(k, m) /\ ~ Less(m, n) => ~ Less(k, n)
         /\ \A n \in Nodes : ~ Less(n, n)
BY SMTT(30) DEF Less

\* A successful kcpmux_timer_manager_reserve leaves room for c nodes.
LEMMA ReserveFacts ==
  ASSUME capacity \in Nat, NEW c \in Nat, NEW r \in Reserve(c), r # OutOfMemory
  PROVE  r \in Nat /\ r >= c /\ r >= capacity
BY ConstantsAssumption, SMTT(30) DEF Reserve

LEMMA InitInv == Init => IndInv
<1> SUFFICES ASSUME Init PROVE IndInv
  OBVIOUS
<1>1. TypeOK
  <2>1. heap \in [0 .. size - 1 -> Nodes]
    BY SMTT(30) DEF Init
  <2>2. due \in Seq(Nodes)
    BY SMTT(30) DEF Init
  <2>3. index \in [Nodes -> Nat \union {NoIndex}]
    BY DEF Init
  <2>4. sink \in BOOLEAN /\ collecting \in BOOLEAN
    BY Zenon DEF Init
  <2>5. /\ deadline \in [Nodes -> Int] /\ order \in [Nodes -> Nat]
        /\ state \in [Nodes -> {"IDLE", "HEAP", "DUE", "RUNNING"}]
    BY SMTT(30) DEF Init
  <2>6. /\ registered \subseteq Nodes /\ cur \in Nodes \union {NoNode}
        /\ running \in Nodes \union {NoNode}
    BY DEF Init
  <2>. QED
    BY <2>1, <2>2, <2>3, <2>4, <2>5, <2>6, ConstantsAssumption DEF Init, TypeOK
<1>2. SlotsAgree /\ SiftOrdered
  BY SMTT(30) DEF Init, SlotsAgree, SiftOrdered, Settled, Moving
<1>3. DueAgrees
  BY SMTT(30) DEF Init, DueAgrees
<1>4. CountsAgree
  BY FS_EmptySet, SMTT(30) DEF Init, CountsAgree
<1>. QED
  BY <1>1, <1>2, <1>3, <1>4 DEF IndInv

\* A node moves up one level.
LEMMA SiftUpMoves ==
  ASSUME IndInv, SiftUp, at > 0, Less(cur, heap[Parent(at)])
  PROVE  IndInv'
<1> DEFINE p == Parent(at)
<1>1. /\ heap' = [heap EXCEPT ![at] = heap[p]]
      /\ index' = [index EXCEPT ![heap[p]] = at]
      /\ at' = p
      /\ UNCHANGED <<sift, cur, sink, size, nodevars, ownvars, duevars, next_sequence>>
  BY DEF SiftUp
<1>2. /\ TypeOK /\ SlotsAgree /\ SiftOrdered /\ DueAgrees /\ CountsAgree
      /\ sift = "up"
  BY DEF IndInv, SiftUp
<1>3. /\ cur \in Nodes /\ at \in 0 .. size - 1 /\ at \in Nat \ {0}
      /\ p \in Nat /\ p < at /\ p \in 0 .. size - 1 /\ heap[p] \in Nodes
  <2>1. cur \in Nodes /\ at \in 0 .. size - 1 /\ at \in Nat \ {0}
    BY <1>2, SMTT(30) DEF SlotsAgree, Moving, TypeOK
  <2>2. p \in Nat /\ p < at
    BY <2>1, ParentFacts
  <2>3. p \in 0 .. size - 1
    BY <2>1, <2>2, <1>2, SMTT(30) DEF TypeOK
  <2>. QED
    BY <2>1, <2>2, <2>3, <1>2 DEF TypeOK
<1> HIDE DEF p
<1>4. TypeOK'
  BY <1>1, <1>2, <1>3, SMTT(30) DEF TypeOK, nodevars, ownvars, duevars
<1>5. SlotsAgree'
  <2>1. \A i \in 0 .. size - 1 : i # at => heap[i] # cur /\ state[heap[i]] = "HEAP" /\ index[heap[i]] = i
    BY <1>2 DEF SlotsAgree, Settled
  <2>2. \A i \in 0 .. size - 1 : i # p =>
          heap'[i] # cur /\ state[heap'[i]] = "HEAP" /\ index'[heap'[i]] = i
    BY <1>1, <1>2, <1>3, <2>1, SMTT(30) DEF TypeOK
  <2>3. \A n \in Nodes : state[n] = "HEAP" /\ n # cur =>
          index'[n] \in 0 .. size - 1 /\ index'[n] # p /\ heap'[index'[n]] = n
    <3> SUFFICES ASSUME NEW n \in Nodes, state[n] = "HEAP", n # cur
                 PROVE  index'[n] \in 0 .. size - 1 /\ index'[n] # p /\ heap'[index'[n]] = n
      OBVIOUS
    <3>1. index[n] \in 0 .. size - 1 /\ index[n] # at /\ heap[index[n]] = n
      BY <1>2 DEF SlotsAgree, Settled, Moving
    <3>2. CASE n = heap[p]
      BY <1>1, <1>2, <1>3, <3>2, SMTT(30) DEF TypeOK
    <3>3. CASE n # heap[p]
      BY <1>1, <1>2, <1>3, <3>1, <3>3 DEF TypeOK
    <3>. QED
      BY <3>2, <3>3
  <2>. QED
    BY <1>1, <1>2, <1>3, <2>2, <2>3 DEF SlotsAgree, Settled, Moving, nodevars, ownvars
<1>6. SiftOrdered'
  <2> DEFINE V(i) == IF i = p THEN cur ELSE IF i = at THEN heap[p] ELSE heap[i]
  <2>1. \A i \in 0 .. size - 1 : Val(i)' = V(i) /\ V(i) \in Nodes
    BY <1>1, <1>2, <1>3 DEF Val, Moving, TypeOK
  <2>2. \A m, n : Less(m, n)' <=> Less(m, n)
    BY <1>1 DEF Less, nodevars
  <2>3. /\ \A m, n \in Nodes : Less(m, n) => ~ Less(n, m)
        /\ \A k, m, n \in Nodes : ~ Less(k, m) /\ ~ Less(m, n) => ~ Less(k, n)
        /\ \A n \in Nodes : ~ Less(n, n)
    BY <1>2, LessFacts DEF TypeOK
  <2>4. \A i \in 1 .. size - 1 : Parent(i) \in 0 .. size - 1 /\ Parent(i) < i
    BY <1>2, ParentInside DEF TypeOK
  <2>5. \A i \in 1 .. size - 1 : i # at /\ Parent(i) # at => ~ Less(heap[i], heap[Parent(i)])
    BY <1>2, <2>4 DEF SiftOrdered, EdgeOK, Val, Moving
  <2>6. \A i \in 1 .. size - 1 : Parent(i) = at => ~ Less(heap[i], heap[p])
    BY <1>2, <1>3 DEF SiftOrdered, Moving, p
  <2>7. \A i \in 1 .. size - 1 : i # p /\ Parent(i) # p => ~ Less(V(i), V(Parent(i)))
    BY <1>3, <2>4, <2>5, <2>6 DEF p
  <2>8. \A i \in 1 .. size - 1 : Parent(i) = p /\ i # at => ~ Less(heap[i], heap[p]) /\ i # p
    BY <1>3, <2>4, <2>5, SMTT(30)
  <2>9. \A i \in 1 .. size - 1 : Parent(i) = p => ~ Less(V(i), cur)
    BY <1>2, <1>3, <2>3, <2>8, Less(cur, heap[p]), SMTT(30) DEF p, TypeOK
  <2>10. \A i \in 1 .. size - 1 : Parent(i) = p /\ p > 0 => ~ Less(heap'[i], heap'[Parent(p)])
    <3> SUFFICES ASSUME NEW i \in 1 .. size - 1, Parent(i) = p, p > 0
                 PROVE  ~ Less(heap'[i], heap'[Parent(p)])
      OBVIOUS
    <3>1. /\ p \in 1 .. size - 1 /\ p # at /\ Parent(p) \in 0 .. size - 1
          /\ Parent(p) < p /\ Parent(p) # at
      BY <1>3, <2>4, SMTT(30)
    <3>2. ~ Less(heap[p], heap[Parent(p)])
      BY <2>5, <3>1
    <3>3. heap'[Parent(p)] = heap[Parent(p)] /\ heap[Parent(p)] \in Nodes
      BY <1>1, <1>2, <3>1 DEF TypeOK
    <3>4. heap'[i] \in Nodes /\ ~ Less(heap'[i], heap[p])
      BY <1>1, <1>2, <1>3, <2>3, <2>8, SMTT(30) DEF TypeOK
    <3>. QED
      BY <1>3, <2>3, <3>2, <3>3, <3>4
  <2>11. /\ sift' = "up" /\ at' = p /\ size' = size /\ sink' = sink
         /\ \A i \in 1 .. size - 1 : EdgeOK(i)' <=> ~ Less(V(i), V(Parent(i)))
    BY <1>1, <1>2, <2>1, <2>2, <2>4, SMTT(30) DEF EdgeOK
  <2> HIDE DEF V
  <2>12. V(p) = cur
    BY DEF V
  <2>. QED
    BY <1>1, <2>2, <2>7, <2>9, <2>10, <2>11, <2>12 DEF SiftOrdered, Moving
<1>7. DueAgrees' /\ CountsAgree'
  BY <1>1, <1>2 DEF DueAgrees, CountsAgree, nodevars, ownvars, duevars
<1>. QED
  BY <1>4, <1>5, <1>6, <1>7 DEF IndInv

\* The end of a sift: the moved node is written to the slot it has reached.
LEMMA SiftEnds ==
  ASSUME IndInv, Moving, SiftDone,
         heap' = [heap EXCEPT ![at] = cur],
         index' = [index EXCEPT ![cur] = at],
         \A i \in 1 .. size - 1 : EdgeOK(i),
         UNCHANGED <<size, nodevars, ownvars, duevars, next_sequence>>
  PROVE  IndInv'
<1>1. TypeOK /\ SlotsAgree /\ SiftOrdered /\ DueAgrees /\ CountsAgree
  BY DEF IndInv
<1>2. cur \in Nodes /\ at \in 0 .. size - 1 /\ size \in Nat
  BY <1>1 DEF SlotsAgree, TypeOK
<1>3. TypeOK'
  <2>1. /\ heap' \in [0 .. size' - 1 -> Nodes]
        /\ index' \in [Nodes -> Nat \union {NoIndex}]
        /\ sink' \in BOOLEAN /\ at' \in Nat /\ cur' \in Nodes \union {NoNode}
        /\ sift' \in {"none", "up", "down"}
    BY <1>1, <1>2 DEF TypeOK, SiftDone
  <2>. QED
    BY <1>1, <2>1 DEF TypeOK, nodevars, ownvars, duevars
<1>4. SlotsAgree'
  <2>1. \A i \in 0 .. size - 1 : i # at => heap[i] # cur /\ state[heap[i]] = "HEAP" /\ index[heap[i]] = i
    BY <1>1 DEF SlotsAgree, Settled
  <2>2. \A i \in 0 .. size - 1 : heap'[i] \in Nodes /\ state[heap'[i]] = "HEAP" /\ index'[heap'[i]] = i
    BY <1>1, <1>2, <2>1 DEF TypeOK, SlotsAgree
  <2>3. \A n \in Nodes : state[n] = "HEAP" => index'[n] \in 0 .. size - 1 /\ heap'[index'[n]] = n
    <3> SUFFICES ASSUME NEW n \in Nodes, state[n] = "HEAP"
                 PROVE  index'[n] \in 0 .. size - 1 /\ heap'[index'[n]] = n
      OBVIOUS
    <3>1. CASE n = cur
      BY <1>1, <1>2, <3>1 DEF TypeOK
    <3>2. CASE n # cur
      <4>1. index[n] \in 0 .. size - 1 /\ index[n] # at /\ heap[index[n]] = n
        BY <1>1, <3>2 DEF SlotsAgree, Settled
      <4>. QED
        BY <1>1, <1>2, <3>2, <4>1 DEF TypeOK
    <3>. QED
      BY <3>1, <3>2
  <2>4. ~ Moving' /\ cur' = NoNode /\ size' = size /\ state' = state /\ order' = order
        /\ registered' = registered /\ next_sequence' = next_sequence
    BY DEF SiftDone, Moving, nodevars, ownvars
  <2>5. \A n \in Nodes : state[n] = "HEAP" => n \in registered /\ order[n] < next_sequence
    BY <1>1 DEF SlotsAgree
  <2>6. \A n \in Nodes \ registered : state[n] = "IDLE"
    BY <1>1 DEF SlotsAgree
  <2>. QED
    BY <2>2, <2>3, <2>4, <2>5, <2>6, ConstantsAssumption, SMTT(30) DEF SlotsAgree, Settled
<1>5. SiftOrdered'
  <2>1. \A i \in 0 .. size - 1 : Val(i)' = Val(i)
    BY <1>1, <1>2 DEF Val, Moving, SiftDone, TypeOK
  <2>2. \A m, n : Less(m, n)' <=> Less(m, n)
    BY DEF Less, nodevars
  <2>3. \A i \in 1 .. size - 1 : Parent(i) \in 0 .. size - 1
    BY <1>2, ParentInside
  <2>4. \A i \in 1 .. size - 1 : EdgeOK(i)'
    BY <2>1, <2>2, <2>3, SMTT(30) DEF EdgeOK
  <2>. QED
    BY <2>4 DEF SiftOrdered, SiftDone, Moving
<1>6. DueAgrees' /\ CountsAgree'
  BY <1>1 DEF DueAgrees, CountsAgree, nodevars, ownvars, duevars
<1>. QED
  BY <1>3, <1>4, <1>5, <1>6 DEF IndInv

\* sift_up stops: either the operation ends or sift_down takes over.
LEMMA SiftUpStops ==
  ASSUME IndInv, SiftUp, ~ (at > 0 /\ Less(cur, heap[Parent(at)]))
  PROVE  IndInv'
<1>1. /\ TypeOK /\ SlotsAgree /\ SiftOrdered /\ DueAgrees /\ CountsAgree
      /\ sift = "up" /\ Moving
  BY DEF IndInv, SiftUp, Moving
<1>2. /\ heap' = [heap EXCEPT ![at] = cur]
      /\ index' = [index EXCEPT ![cur] = at]
      /\ UNCHANGED <<size, nodevars, ownvars, duevars, next_sequence>>
      /\ IF sink THEN sift' = "down" /\ UNCHANGED <<at, cur, sink>> ELSE SiftDone
  BY DEF SiftUp
<1>3. cur \in Nodes /\ at \in 0 .. size - 1 /\ size \in Nat
  BY <1>1 DEF SlotsAgree, TypeOK
<1>4. \A i \in 1 .. size - 1 : Parent(i) \in 0 .. size - 1 /\ Parent(i) < i
  BY <1>3, ParentInside
<1>5. \A i \in 1 .. size - 1 : Parent(i) # at => EdgeOK(i)
  BY <1>1, <1>3, <1>4, SMTT(30) DEF SiftOrdered, EdgeOK, Val
<1>6. CASE ~ sink
  <2>1. \A i \in 1 .. size - 1 : EdgeOK(i)
    BY <1>1, <1>5, <1>6 DEF SiftOrdered
  <2>. QED
    BY <1>1, <1>2, <1>6, <2>1, SiftEnds
<1>7. CASE sink
  <2>1. sift' = "down" /\ UNCHANGED <<at, cur, sink>>
    BY <1>2, <1>7
  <2>2. TypeOK'
    BY <1>1, <1>2, <1>3, <2>1 DEF TypeOK, nodevars, ownvars, duevars
  <2>3. SlotsAgree'
    <3>1. \A i \in 0 .. size - 1 : i # at => heap[i] # cur /\ state[heap[i]] = "HEAP" /\ index[heap[i]] = i
      BY <1>1 DEF SlotsAgree, Settled
    <3>2. \A i \in 0 .. size - 1 : i # at =>
            heap'[i] # cur /\ state[heap'[i]] = "HEAP" /\ index'[heap'[i]] = i
      BY <1>1, <1>2, <1>3, <3>1 DEF TypeOK
    <3>3. \A n \in Nodes : state[n] = "HEAP" /\ n # cur =>
            index'[n] \in 0 .. size - 1 /\ index'[n] # at /\ heap'[index'[n]] = n
      BY <1>1, <1>2, <1>3, SMTT(30) DEF TypeOK, SlotsAgree, Settled
    <3>. QED
      BY <1>1, <1>2, <1>3, <2>1, <3>2, <3>3 DEF SlotsAgree, Settled, Moving, nodevars, ownvars
  <2>4. SiftOrdered'
    <3>1. \A i \in 0 .. size - 1 : Val(i)' = Val(i) /\ (i # at => heap'[i] = heap[i])
      BY <1>1, <1>2, <1>3, <2>1 DEF Val, Moving, TypeOK
    <3>2. \A m, n : Less(m, n)' <=> Less(m, n)
      BY <1>2 DEF Less, nodevars
    <3>3. \A i \in 1 .. size - 1 : Parent(i) # at => EdgeOK(i)'
      BY <1>4, <1>5, <3>1, <3>2, SMTT(30) DEF EdgeOK
    <3>4. \A i \in 1 .. size - 1 : Parent(i) = at /\ at > 0 => ~ Less(heap'[i], heap'[Parent(at)])
      BY <1>1, <1>3, <1>4, <3>1, SMTT(30) DEF SiftOrdered
    <3>. QED
      BY <1>2, <2>1, <3>2, <3>3, <3>4 DEF SiftOrdered, Moving
  <2>5. DueAgrees' /\ CountsAgree'
    BY <1>1, <1>2 DEF DueAgrees, CountsAgree, nodevars, ownvars, duevars
  <2>. QED
    BY <2>2, <2>3, <2>4, <2>5 DEF IndInv
<1>. QED
  BY <1>6, <1>7

\* The child sift_down looks at: it exists, and no child is before it.
LEMMA ChildFacts ==
  ASSUME TypeOK, at \in 0 .. size - 1, 2 * at + 1 < size
  PROVE  /\ Child \in 1 .. size - 1 /\ Child > at /\ Parent(Child) = at
         /\ \A i \in 1 .. size - 1 : Parent(i) = at => ~ Less(heap[i], heap[Child])
<1>1. size \in Nat /\ at \in Nat /\ heap \in [0 .. size - 1 -> Nodes]
  BY DEF TypeOK
<1>2. Child \in 1 .. size - 1 /\ Child > at
  BY <1>1, SMTT(30) DEF Child
<1>3. Parent(Child) = at
  <2>1. Child \in Nat \ {0} /\ (Child = 2 * at + 1 \/ Child = 2 * at + 2)
    BY <1>1, SMTT(30) DEF Child
  <2>. QED
    BY <1>1, <2>1, ChildIndex
<1>4. ASSUME NEW i \in 1 .. size - 1, Parent(i) = at
      PROVE  ~ Less(heap[i], heap[Child])
  <2>1. i \in Nat \ {0} /\ (i = 2 * at + 1 \/ i = 2 * at + 2)
    BY <1>1, <1>4, ChildIndex, SMTT(30)
  <2>2. /\ \A m, n \in Nodes : Less(m, n) => ~ Less(n, m)
        /\ \A n \in Nodes : ~ Less(n, n)
    BY LessFacts DEF TypeOK
  <2>3. heap[i] \in Nodes
    BY <1>1, SMTT(30)
  <2>. QED
    BY <1>1, <2>1, <2>2, <2>3, SMTT(30) DEF Child
<1>. QED
  BY <1>2, <1>3, <1>4

\* A node moves down one level.
LEMMA SiftDownMoves ==
  ASSUME IndInv, SiftDown, 2 * at + 1 < size, Less(heap[Child], cur)
  PROVE  IndInv'
<1>1. PICK c : c = Child
  OBVIOUS
<1>2. /\ heap' = [heap EXCEPT ![at] = heap[c]]
      /\ index' = [index EXCEPT ![heap[c]] = at]
      /\ at' = c
      /\ UNCHANGED <<sift, cur, sink, size, nodevars, ownvars, duevars, next_sequence>>
  BY <1>1 DEF SiftDown
<1>3. /\ TypeOK /\ SlotsAgree /\ SiftOrdered /\ DueAgrees /\ CountsAgree
      /\ sift = "down" /\ Moving
  BY DEF IndInv, SiftDown, Moving
<1>4. /\ cur \in Nodes /\ at \in 0 .. size - 1 /\ size \in Nat
      /\ heap \in [0 .. size - 1 -> Nodes]
  BY <1>3 DEF SlotsAgree, TypeOK
<1>5. /\ c \in 1 .. size - 1 /\ c > at /\ Parent(c) = at
      /\ \A i \in 1 .. size - 1 : Parent(i) = at => ~ Less(heap[i], heap[c])
  BY <1>1, <1>3, <1>4, ChildFacts
<1>6. Less(heap[c], cur) /\ heap[c] \in Nodes
  BY <1>1, <1>4, <1>5, SMTT(30)
<1>7. TypeOK'
  BY <1>2, <1>3, <1>4, <1>5, <1>6, SMTT(30) DEF TypeOK, nodevars, ownvars, duevars
<1>8. SlotsAgree'
  <2>1. \A i \in 0 .. size - 1 : i # at => heap[i] # cur /\ state[heap[i]] = "HEAP" /\ index[heap[i]] = i
    BY <1>3 DEF SlotsAgree, Settled
  <2>2. \A i \in 0 .. size - 1 : i # c =>
          heap'[i] # cur /\ state[heap'[i]] = "HEAP" /\ index'[heap'[i]] = i
    BY <1>2, <1>3, <1>4, <1>5, <2>1, SMTT(30) DEF TypeOK
  <2>3. \A n \in Nodes : state[n] = "HEAP" /\ n # cur =>
          index'[n] \in 0 .. size - 1 /\ index'[n] # c /\ heap'[index'[n]] = n
    <3> SUFFICES ASSUME NEW n \in Nodes, state[n] = "HEAP", n # cur
                 PROVE  index'[n] \in 0 .. size - 1 /\ index'[n] # c /\ heap'[index'[n]] = n
      OBVIOUS
    <3>1. index[n] \in 0 .. size - 1 /\ index[n] # at /\ heap[index[n]] = n
      BY <1>3 DEF SlotsAgree, Settled
    <3>2. CASE n = heap[c]
      BY <1>2, <1>3, <1>4, <1>5, <3>2, SMTT(30) DEF TypeOK
    <3>3. CASE n # heap[c]
      BY <1>2, <1>3, <1>4, <3>1, <3>3 DEF TypeOK
    <3>. QED
      BY <3>2, <3>3
  <2>. QED
    BY <1>2, <1>3, <1>4, <1>5, <2>2, <2>3, SMTT(30) DEF SlotsAgree, Settled, Moving, nodevars, ownvars
<1>9. SiftOrdered'
  <2> DEFINE V(i) == IF i = c THEN cur ELSE IF i = at THEN heap[c] ELSE heap[i]
  <2>1. \A i \in 0 .. size - 1 : Val(i)' = V(i) /\ V(i) \in Nodes
    BY <1>2, <1>3, <1>4, <1>5, SMTT(30) DEF Val, Moving
  <2>2. \A m, n : Less(m, n)' <=> Less(m, n)
    BY <1>2 DEF Less, nodevars
  <2>3. \A m, n \in Nodes : Less(m, n) => ~ Less(n, m)
    BY <1>3, LessFacts DEF TypeOK
  <2>4. \A i \in 1 .. size - 1 : Parent(i) \in 0 .. size - 1 /\ Parent(i) < i
    BY <1>4, ParentInside
  <2>5. \A i \in 1 .. size - 1 : i # at /\ Parent(i) # at => ~ Less(heap[i], heap[Parent(i)])
    BY <1>3, <2>4 DEF SiftOrdered, EdgeOK, Val
  <2>6. at > 0 => ~ Less(heap[c], heap[Parent(at)])
    BY <1>3, <1>5 DEF SiftOrdered
  <2>7. \A i \in 1 .. size - 1 : Parent(i) # c => ~ Less(V(i), V(Parent(i)))
    <3> SUFFICES ASSUME NEW i \in 1 .. size - 1, Parent(i) # c
                 PROVE  ~ Less(V(i), V(Parent(i)))
      OBVIOUS
    <3>1. CASE i = c
      BY <1>4, <1>5, <1>6, <2>3, <3>1
    <3>2. CASE i = at
      BY <1>4, <1>5, <2>4, <2>6, <3>2, SMTT(30)
    <3>3. CASE i # c /\ i # at /\ Parent(i) = at
      BY <1>4, <1>5, <3>3
    <3>4. CASE i # c /\ i # at /\ Parent(i) # at
      BY <2>5, <3>4
    <3>. QED
      BY <3>1, <3>2, <3>3, <3>4
  <2>8. \A i \in 1 .. size - 1 : Parent(i) = c => ~ Less(heap'[i], heap'[Parent(c)])
    <3> SUFFICES ASSUME NEW i \in 1 .. size - 1, Parent(i) = c
                 PROVE  ~ Less(heap'[i], heap'[at])
      BY <1>5
    <3>1. i # at /\ i # c /\ Parent(i) # at
      BY <1>4, <1>5, <2>4, SMTT(30)
    <3>2. heap'[i] = heap[i] /\ heap'[at] = heap[c]
      BY <1>2, <1>4, <3>1, SMTT(30)
    <3>. QED
      BY <2>5, <3>1, <3>2
  <2>9. /\ sift' = "down" /\ at' = c /\ size' = size
        /\ \A i \in 1 .. size - 1 : EdgeOK(i)' <=> ~ Less(V(i), V(Parent(i)))
    BY <1>2, <1>3, <2>1, <2>2, <2>4, SMTT(30) DEF EdgeOK
  <2> HIDE DEF V
  <2>. QED
    BY <2>2, <2>7, <2>8, <2>9 DEF SiftOrdered, Moving
<1>10. DueAgrees' /\ CountsAgree'
  BY <1>2, <1>3 DEF DueAgrees, CountsAgree, nodevars, ownvars, duevars
<1>. QED
  BY <1>7, <1>8, <1>9, <1>10 DEF IndInv

LEMMA SiftDownStops ==
  ASSUME IndInv, SiftDown, ~ (2 * at + 1 < size /\ Less(heap[Child], cur))
  PROVE  IndInv'
<1>1. /\ TypeOK /\ SlotsAgree /\ SiftOrdered /\ sift = "down" /\ Moving
  BY DEF IndInv, SiftDown, Moving
<1>2. /\ heap' = [heap EXCEPT ![at] = cur]
      /\ index' = [index EXCEPT ![cur] = at]
      /\ SiftDone
      /\ UNCHANGED <<size, nodevars, ownvars, duevars, next_sequence>>
  BY DEF SiftDown
<1>3. /\ cur \in Nodes /\ at \in 0 .. size - 1 /\ size \in Nat
      /\ heap \in [0 .. size - 1 -> Nodes]
  BY <1>1 DEF SlotsAgree, TypeOK
<1>4. ASSUME NEW i \in 1 .. size - 1, Parent(i) = at
      PROVE  EdgeOK(i)
  <2>1. i \in Nat \ {0} /\ at \in Nat /\ (i = 2 * at + 1 \/ i = 2 * at + 2)
    BY <1>3, <1>4, ChildIndex, SMTT(30)
  <2>2. 2 * at + 1 < size /\ i # at
    BY <1>3, <2>1, SMTT(30)
  <2>3. ~ Less(heap[i], heap[Child]) /\ Child \in 1 .. size - 1
    BY <1>1, <1>3, <1>4, <2>2, ChildFacts
  <2>4. ~ Less(heap[Child], cur)
    BY <2>2
  <2>5. \A k, m, n \in Nodes : ~ Less(k, m) /\ ~ Less(m, n) => ~ Less(k, n)
    BY <1>1, LessFacts DEF TypeOK
  <2>6. heap[i] \in Nodes /\ heap[Child] \in Nodes
    BY <1>3, <2>3, SMTT(30)
  <2>7. ~ Less(heap[i], cur)
    BY <1>3, <2>3, <2>4, <2>5, <2>6
  <2>. QED
    BY <1>1, <1>4, <2>2, <2>7 DEF EdgeOK, Val
<1>5. \A i \in 1 .. size - 1 : EdgeOK(i)
  BY <1>1, <1>4 DEF SiftOrdered
<1>. QED
  BY <1>1, <1>2, <1>5, SiftEnds

\* kcpmux_timer_remove_at takes a node out and starts to move the last one.
LEMMA RemoveStarts ==
  ASSUME IndInv, ~ Moving,
         NEW n \in Nodes, state[n] = "HEAP",
         RemoveAt(index[n]),
         NEW v \in {"IDLE", "DUE"},
         state' = [state EXCEPT ![n] = v],
         \/ registered' = registered
         \/ registered' = registered \ {n} /\ v = "IDLE",
         UNCHANGED <<deadline, order, next_sequence>>
  PROVE  /\ size' \in Nat /\ heap' \in [0 .. size' - 1 -> Nodes]
         /\ index' \in [Nodes -> Nat \union {NoIndex}]
         /\ sift' \in {"none", "up", "down"} /\ at' \in Nat
         /\ cur' \in Nodes \union {NoNode} /\ sink' \in BOOLEAN
         /\ SlotsAgree' /\ SiftOrdered'
<1>1. /\ TypeOK /\ SlotsAgree /\ SiftOrdered /\ sift = "none" /\ cur = NoNode
  BY DEF IndInv, Moving, SlotsAgree
<1>2. PICK i : i = index[n]
  OBVIOUS
<1>3. /\ i \in 0 .. size - 1 /\ heap[i] = n /\ size \in Nat /\ size > 0
      /\ heap \in [0 .. size - 1 -> Nodes] /\ n # NoNode
  BY <1>1, <1>2, ConstantsAssumption, SMTT(30) DEF SlotsAgree, Settled, TypeOK
<1>4. PICK last : last = heap[size - 1]
  OBVIOUS
<1>5. last \in Nodes
  BY <1>3, <1>4, SMTT(30)
<1>6. /\ size' = size - 1
      /\ heap' = [j \in 0 .. size - 2 |-> IF j = i THEN last ELSE heap[j]]
  BY <1>2, <1>4 DEF RemoveAt
<1>7. size' \in Nat /\ heap' \in [0 .. size' - 1 -> Nodes]
  BY <1>3, <1>5, <1>6, SMTT(30)
<1>8. \A j \in 0 .. size - 1 : heap[j] \in Nodes /\ state[heap[j]] = "HEAP" /\ index[heap[j]] = j
  BY <1>1, <1>3 DEF SlotsAgree, Settled, Moving
<1>9. \A m \in Nodes : state[m] = "HEAP" =>
        m \in registered /\ order[m] < next_sequence /\ index[m] \in 0 .. size - 1 /\ heap[index[m]] = m
  BY <1>1, ConstantsAssumption, SMTT(30) DEF SlotsAgree, Settled, Moving
<1>10. \A j \in 1 .. size - 1 : /\ Parent(j) \in 0 .. size - 1 /\ Parent(j) < j
                                /\ ~ Less(heap[j], heap[Parent(j)])
  BY <1>1, <1>3, ParentInside DEF SiftOrdered, EdgeOK, Val, Moving
<1>11. \A k, m : Less(k, m)' <=> Less(k, m)
  BY DEF Less
<1>12. \A m \in Nodes : state'[m] = IF m = n THEN v ELSE state[m]
  BY <1>1 DEF TypeOK
<1>13. \A m \in Nodes : state'[m] = "HEAP" =>
         m # n /\ state[m] = "HEAP" /\ m \in registered' /\ order'[m] < next_sequence'
  BY <1>9, <1>12
<1>14. \A m \in Nodes \ registered' : state'[m] = "IDLE"
  BY <1>1, <1>9, <1>12, SMTT(30) DEF SlotsAgree
<1>15. 1 .. size' - 1 = 1 .. size - 2 /\ i \in Nat
  BY <1>3, <1>6, SMTT(30)
<1>16. CASE i < size - 1
  <2>1. /\ index' = [index EXCEPT ![n] = NoIndex, ![last] = i]
        /\ sift' = "up" /\ at' = i /\ cur' = last /\ sink' = TRUE
    BY <1>2, <1>3, <1>4, <1>16 DEF RemoveAt, Swim
  <2>2. last # n /\ index[last] = size - 1 /\ state[last] = "HEAP"
    BY <1>3, <1>4, <1>8, <1>16, SMTT(30)
  <2>3. index' \in [Nodes -> Nat \union {NoIndex}]
    <3>1. [index EXCEPT ![n] = NoIndex] \in [Nodes -> Nat \union {NoIndex}]
      BY <1>1 DEF TypeOK
    <3>. QED
      BY <1>15, <2>1, <3>1
  <2>4. \A m \in Nodes : m # n /\ m # last => index'[m] = index[m]
    BY <1>1, <2>1 DEF TypeOK
  <2>5. SlotsAgree'
    <3>1. Moving' /\ (\A j : Settled(j)' <=> j \in 0 .. size - 2 /\ j # i)
      BY <1>3, <1>6, <2>1, SMTT(30) DEF Moving, Settled
    <3>2. ASSUME NEW j \in 0 .. size - 2, j # i
          PROVE  heap'[j] # last /\ state'[heap'[j]] = "HEAP" /\ index'[heap'[j]] = j
      <4>1. heap'[j] = heap[j] /\ j \in 0 .. size - 1 /\ j # size - 1
        BY <1>3, <1>6, <3>2, SMTT(30)
      <4>2. heap[j] # n /\ heap[j] # last
        BY <1>3, <1>8, <2>2, <3>2, <4>1
      <4>. QED
        BY <1>8, <1>12, <2>4, <4>1, <4>2, SMTT(30)
    <3>3. ASSUME NEW m \in Nodes, state'[m] = "HEAP", m # last
          PROVE  index'[m] \in 0 .. size - 2 /\ index'[m] # i /\ heap'[index'[m]] = m
      <4>1. m # n /\ index[m] \in 0 .. size - 1 /\ heap[index[m]] = m
        BY <1>9, <1>13, <3>3
      <4>2. index[m] # size - 1 /\ index[m] # i
        BY <1>3, <1>4, <3>3, <4>1
      <4>. QED
        BY <1>3, <1>6, <2>4, <3>3, <4>1, <4>2, SMTT(30)
    <3>4. at' \in 0 .. size' - 1 /\ cur' \in Nodes /\ state'[cur'] = "HEAP"
      BY <1>3, <1>5, <1>6, <1>12, <1>16, <2>1, <2>2, SMTT(30)
    <3>. QED
      BY <1>6, <1>13, <1>14, <2>1, <3>1, <3>2, <3>3, <3>4 DEF SlotsAgree
  <2>6. SiftOrdered'
    <3>1. \A j \in 1 .. size - 2 : /\ j \in 1 .. size - 1 /\ Parent(j) \in 0 .. size - 2
                                   /\ j \in 0 .. size - 2
      BY <1>3, <1>10, SMTT(30)
    <3>2. \A j \in 1 .. size - 2 : j # i /\ Parent(j) # i => EdgeOK(j)'
      BY <1>6, <1>10, <1>11, <2>1, <3>1 DEF EdgeOK, Val, Moving
    <3>3. ASSUME NEW j \in 1 .. size - 2, Parent(j) = i, i > 0
          PROVE  ~ Less(heap'[j], heap'[Parent(i)])
      <4>1. j # i /\ i \in 1 .. size - 1 /\ Parent(i) \in 0 .. size - 2 /\ Parent(i) # i
        BY <1>3, <1>10, <1>16, <3>1, <3>3, SMTT(30)
      <4>2. heap'[j] = heap[j] /\ heap'[Parent(i)] = heap[Parent(i)]
        BY <1>6, <3>1, <4>1
      <4>3. \A k, l, m \in Nodes : ~ Less(k, l) /\ ~ Less(l, m) => ~ Less(k, m)
        BY <1>1, LessFacts DEF TypeOK
      <4>4. /\ heap[j] \in Nodes /\ heap[i] \in Nodes /\ heap[Parent(i)] \in Nodes
            /\ ~ Less(heap[j], heap[i]) /\ ~ Less(heap[i], heap[Parent(i)])
        BY <1>3, <1>8, <1>10, <3>1, <3>3, <4>1, SMTT(30)
      <4>. QED
        BY <4>2, <4>3, <4>4
    <3>. QED
      BY <1>15, <1>11, <2>1, <3>2, <3>3 DEF SiftOrdered, Moving
  <2>7. sink' \in BOOLEAN
    BY <2>1
  <2>. QED
    BY <1>15, <1>5, <1>7, <2>1, <2>3, <2>5, <2>6, <2>7
<1>17. CASE ~ (i < size - 1)
  <2>1. index' = [index EXCEPT ![n] = NoIndex] /\ UNCHANGED siftvars
    BY <1>2, <1>3, <1>4, <1>17 DEF RemoveAt
  <2>2. i = size - 1 /\ sift' = "none" /\ cur' = NoNode /\ sink' = sink /\ at' = at
    BY <1>1, <1>3, <1>17, <2>1, SMTT(30) DEF siftvars
  <2>3. index' \in [Nodes -> Nat \union {NoIndex}]
    BY <1>1, <2>1 DEF TypeOK
  <2>4. \A m \in Nodes : m # n => index'[m] = index[m]
    BY <1>1, <2>1 DEF TypeOK
  <2>5. \A j \in 0 .. size - 2 : j \in 0 .. size - 1 /\ heap'[j] = heap[j] /\ heap[j] # n
    BY <1>3, <1>6, <1>8, <2>2, SMTT(30)
  <2>6. SlotsAgree'
    <3>1. ~ Moving' /\ (\A j : Settled(j)' <=> j \in 0 .. size - 2)
      BY <1>6, <1>3, <2>2, SMTT(30) DEF Moving, Settled
    <3>2. \A j \in 0 .. size - 2 : heap'[j] # NoNode /\ state'[heap'[j]] = "HEAP" /\ index'[heap'[j]] = j
      BY <1>8, <1>12, <2>4, <2>5, ConstantsAssumption, SMTT(30)
    <3>3. ASSUME NEW m \in Nodes, state'[m] = "HEAP"
          PROVE  index'[m] \in 0 .. size - 2 /\ heap'[index'[m]] = m
      <4>1. m # n /\ index[m] \in 0 .. size - 1 /\ heap[index[m]] = m
        BY <1>9, <1>13, <3>3
      <4>2. index[m] # size - 1
        BY <1>3, <2>2, <4>1
      <4>. QED
        BY <1>3, <1>6, <2>2, <2>4, <4>1, <4>2, SMTT(30)
    <3>. QED
      BY <1>6, <1>13, <1>14, <2>2, <3>1, <3>2, <3>3 DEF SlotsAgree
  <2>7. SiftOrdered'
    <3>1. \A j \in 1 .. size - 2 : /\ j \in 1 .. size - 1 /\ Parent(j) \in 0 .. size - 2
                                   /\ j \in 0 .. size - 2
      BY <1>3, <1>10, SMTT(30)
    <3>2. \A j \in 1 .. size - 2 : EdgeOK(j)'
      BY <1>10, <1>11, <2>2, <2>5, <3>1 DEF EdgeOK, Val, Moving
    <3>. QED
      BY <1>15, <2>2, <3>2 DEF SiftOrdered, Moving
  <2>8. sink' \in BOOLEAN /\ at' \in Nat
    BY <1>1, <2>2 DEF TypeOK
  <2>. QED
    BY <1>7, <2>2, <2>3, <2>6, <2>7, <2>8
<1>. QED
  BY <1>16, <1>17

\* Deleting a node from the due list.
LEMMA WithoutFacts ==
  ASSUME NEW s \in Seq(Nodes), NEW n,
         \A j, k \in 1 .. Len(s) : s[j] = s[k] => j = k
  PROVE  /\ Without(s, n) \in Seq(Nodes)
         /\ \A k \in 1 .. Len(Without(s, n)) :
              Without(s, n)[k] # n /\ \E j \in 1 .. Len(s) : Without(s, n)[k] = s[j]
         /\ \A m : m # n /\ (\E k \in 1 .. Len(s) : s[k] = m) =>
              \E k \in 1 .. Len(Without(s, n)) : Without(s, n)[k] = m
         /\ \A j, k \in 1 .. Len(Without(s, n)) :
              Without(s, n)[j] = Without(s, n)[k] => j = k
<1>1. DOMAIN s = 1 .. Len(s) /\ Len(s) \in Nat /\ \A k \in 1 .. Len(s) : s[k] \in Nodes
  BY SMTT(30)
<1>2. CASE ~ \E k \in DOMAIN s : s[k] = n
  BY <1>1, <1>2 DEF Without
<1>3. CASE \E k \in DOMAIN s : s[k] = n
  <2>1. PICK i : i = CHOOSE k \in DOMAIN s : s[k] = n
    OBVIOUS
  <2>2. i \in 1 .. Len(s) /\ s[i] = n
    BY <1>1, <1>3, <2>1
  <2>3. PICK w : w = Without(s, n)
    OBVIOUS
  <2>4. w = [k \in 1 .. Len(s) - 1 |-> IF k < i THEN s[k] ELSE s[k + 1]]
    BY <1>3, <2>1, <2>3 DEF Without
  <2>5. Len(s) - 1 \in Nat /\ \A k \in 1 .. Len(s) - 1 : k \in 1 .. Len(s) /\ k + 1 \in 1 .. Len(s)
    BY <1>1, <2>2, SMTT(30)
  <2>6. w \in Seq(Nodes) /\ Len(w) = Len(s) - 1
    BY <1>1, <2>4, <2>5, SMTT(30)
  <2>7. \A k \in 1 .. Len(w) : w[k] = IF k < i THEN s[k] ELSE s[k + 1]
    BY <2>4, <2>6
  <2>8. \A k \in 1 .. Len(w) : w[k] # n /\ \E j \in 1 .. Len(s) : w[k] = s[j]
    BY <2>2, <2>5, <2>6, <2>7, SMTT(30)
  <2>9. ASSUME NEW m, m # n, NEW k \in 1 .. Len(s), s[k] = m
        PROVE  \E j \in 1 .. Len(w) : w[j] = m
    <3>1. CASE k < i
      BY <1>1, <2>2, <2>6, <2>7, <2>9, <3>1, SMTT(30)
    <3>2. CASE k > i
      <4>1. k - 1 \in 1 .. Len(w) /\ w[k - 1] = m
        BY <1>1, <2>2, <2>6, <2>7, <2>9, <3>2, SMTT(30)
      <4>. QED
        BY <4>1
    <3>. QED
      BY <1>1, <2>2, <2>9, <3>1, <3>2, SMTT(30)
  <2>10. \A j, k \in 1 .. Len(w) : w[j] = w[k] => j = k
    BY <1>1, <2>2, <2>5, <2>6, <2>7, SMTT(30)
  <2>. QED
    BY <2>3, <2>6, <2>8, <2>9, <2>10
<1>. QED
  BY <1>2, <1>3

\* Rescheduling a node that is in the heap.
LEMMA RescheduleStep ==
  ASSUME IndInv, NEW n \in Nodes, NEW d \in Int, ~ Moving, state[n] = "HEAP",
         deadline' = [deadline EXCEPT ![n] = d],
         Swim(n, index[n], TRUE),
         UNCHANGED <<heapvars, order, state, ownvars, duevars, next_sequence>>
  PROVE  IndInv'
<1>1. /\ TypeOK /\ SlotsAgree /\ SiftOrdered /\ DueAgrees /\ CountsAgree
      /\ sift = "none" /\ cur = NoNode
  BY DEF IndInv, Moving, SlotsAgree
<1>2. PICK i : i = index[n]
  OBVIOUS
<1>3. /\ i \in 0 .. size - 1 /\ i \in Nat /\ heap[i] = n /\ size \in Nat
      /\ heap \in [0 .. size - 1 -> Nodes] /\ n # NoNode
  BY <1>1, <1>2, ConstantsAssumption, SMTT(30) DEF SlotsAgree, Settled, TypeOK
<1>4. /\ sift' = "up" /\ at' = i /\ cur' = n /\ sink' = TRUE
      /\ heap' = heap /\ size' = size /\ index' = index
      /\ order' = order /\ state' = state /\ registered' = registered
      /\ next_sequence' = next_sequence
  BY <1>2 DEF Swim, heapvars, ownvars
<1>5. TypeOK'
  <2>1. sink' \in BOOLEAN /\ deadline' \in [Nodes -> Int]
    BY <1>1, <1>4 DEF TypeOK
  <2>. QED
    BY <1>1, <1>3, <1>4, <2>1 DEF TypeOK, ownvars, duevars
<1>6. \A j \in 0 .. size - 1 : heap[j] \in Nodes /\ state[heap[j]] = "HEAP" /\ index[heap[j]] = j
  BY <1>1, <1>3 DEF SlotsAgree, Settled, Moving
<1>7. SlotsAgree'
  <2>1. \A j \in 0 .. size - 1 : j # i => heap[j] # n
    BY <1>2, <1>3, <1>6
  <2>2. \A m \in Nodes : state[m] = "HEAP" => index[m] \in 0 .. size - 1 /\ heap[index[m]] = m
    BY <1>1, ConstantsAssumption, SMTT(30) DEF SlotsAgree, Settled
  <2>3. \A m \in Nodes : state[m] = "HEAP" /\ m # n => index[m] # i
    BY <1>3, <2>2
  <2>. QED
    BY <1>1, <1>3, <1>4, <1>6, <2>1, <2>2, <2>3, SMTT(30) DEF SlotsAgree, Settled, Moving
<1>8. SiftOrdered'
  <2>1. \A j \in 1 .. size - 1 : /\ Parent(j) \in 0 .. size - 1 /\ Parent(j) < j
                                 /\ ~ Less(heap[j], heap[Parent(j)])
    BY <1>1, <1>3, ParentInside DEF SiftOrdered, EdgeOK, Val, Moving
  <2>2. \A l, m \in Nodes : l # n /\ m # n => (Less(l, m)' <=> Less(l, m))
    BY <1>1, <1>4 DEF Less, TypeOK
  <2>3. \A j \in 0 .. size - 1 : j # i => heap[j] # n
    BY <1>2, <1>3, <1>6
  <2>4. \A j \in 1 .. size - 1 : j # i /\ Parent(j) # i => EdgeOK(j)'
    <3> SUFFICES ASSUME NEW j \in 1 .. size - 1, j # i, Parent(j) # i
                 PROVE  ~ Less(heap[j], heap[Parent(j)])'
      BY <1>4 DEF EdgeOK, Val, Moving
    <3>1. heap[j] \in Nodes /\ heap[Parent(j)] \in Nodes /\ heap[j] # n /\ heap[Parent(j)] # n
      BY <1>3, <1>6, <2>1, <2>3, SMTT(30)
    <3>. QED
      BY <1>4, <2>1, <2>2, <3>1, SMTT(30) DEF Less
  <2>5. ASSUME NEW j \in 1 .. size - 1, Parent(j) = i, i > 0
        PROVE  ~ Less(heap[j], heap[Parent(i)])'
    <3>1. i \in 1 .. size - 1 /\ j # i /\ Parent(i) # i /\ Parent(i) \in 0 .. size - 1 /\ j \in 0 .. size - 1
      BY <1>3, <2>1, <2>5, SMTT(30)
    <3>2. /\ heap[j] \in Nodes /\ heap[Parent(i)] \in Nodes /\ heap[i] \in Nodes
          /\ heap[j] # n /\ heap[Parent(i)] # n
      BY <1>3, <1>6, <2>3, <3>1
    <3>3. ~ Less(heap[j], heap[i]) /\ ~ Less(heap[i], heap[Parent(i)])
      BY <2>1, <2>5, <3>1
    <3>4. ~ Less(heap[j], heap[Parent(i)])
      BY <1>1, <3>2, <3>3, LessFacts DEF TypeOK
    <3>. QED
      BY <1>4, <2>2, <3>2, <3>4, SMTT(30) DEF Less
  <2>. QED
    BY <1>3, <1>4, <2>4, <2>5 DEF SiftOrdered, Moving
<1>9. DueAgrees' /\ CountsAgree'
  BY <1>1, <1>4 DEF DueAgrees, CountsAgree, ownvars, duevars
<1>. QED
  BY <1>5, <1>7, <1>8, <1>9 DEF IndInv

\* The due list after a node left it, or was never on it.
LEMMA DueStep ==
  ASSUME TypeOK, DueAgrees, NEW n \in Nodes, NEW v \in {"IDLE", "HEAP"},
         state' = [state EXCEPT ![n] = v],
         due' = IF state[n] = "DUE" THEN Without(due, n) ELSE due
  PROVE  due' \in Seq(Nodes) /\ DueAgrees'
<1>1. /\ due \in Seq(Nodes) /\ state \in [Nodes -> {"IDLE", "HEAP", "DUE", "RUNNING"}]
      /\ \A k \in 1 .. Len(due) : due[k] \in Nodes /\ state[due[k]] = "DUE"
  BY SMTT(30) DEF TypeOK, DueAgrees
<1>2. CASE state[n] # "DUE"
  BY <1>1, <1>2 DEF DueAgrees
<1>3. CASE state[n] = "DUE"
  <2>1. PICK w : w = Without(due, n)
    OBVIOUS
  <2>2. due' = w
    BY <1>3, <2>1
  <2>3. /\ w \in Seq(Nodes)
        /\ \A k \in 1 .. Len(w) : w[k] # n /\ \E j \in 1 .. Len(due) : w[k] = due[j]
        /\ \A m : m # n /\ (\E k \in 1 .. Len(due) : due[k] = m) => \E k \in 1 .. Len(w) : w[k] = m
        /\ \A j, k \in 1 .. Len(w) : w[j] = w[k] => j = k
    <3>1. \A j, k \in 1 .. Len(due) : due[j] = due[k] => j = k
      BY DEF DueAgrees
    <3>2. /\ Without(due, n) \in Seq(Nodes)
          /\ \A k \in 1 .. Len(Without(due, n)) :
               Without(due, n)[k] # n /\ \E j \in 1 .. Len(due) : Without(due, n)[k] = due[j]
          /\ \A m : m # n /\ (\E k \in 1 .. Len(due) : due[k] = m) =>
               \E k \in 1 .. Len(Without(due, n)) : Without(due, n)[k] = m
          /\ \A j, k \in 1 .. Len(Without(due, n)) :
               Without(due, n)[j] = Without(due, n)[k] => j = k
      BY <1>1, <3>1, WithoutFacts
    <3>. QED
      BY <2>1, <3>2
  <2>4. \A k \in 1 .. Len(w) : state'[w[k]] = "DUE"
    BY <1>1, <2>3, SMTT(30)
  <2>5. \A m \in Nodes : state'[m] = "DUE" => \E k \in 1 .. Len(w) : w[k] = m
    BY <1>1, <2>3 DEF DueAgrees
  <2>. QED
    BY <2>2, <2>3, <2>4, <2>5, SMTT(30) DEF DueAgrees
<1>. QED
  BY <1>2, <1>3

\* Scheduling a node that is not in the heap.
LEMMA InsertStep ==
  ASSUME IndInv, NEW n \in registered, NEW d \in Int, NEW r \in Nat,
         ~ Moving, state[n] # "HEAP", r >= capacity,
         capacity' = r,
         due' = IF state[n] = "DUE" THEN Without(due, n) ELSE due,
         deadline' = [deadline EXCEPT ![n] = d],
         order' = [order EXCEPT ![n] = next_sequence],
         next_sequence' = next_sequence + 1,
         state' = [state EXCEPT ![n] = "HEAP"],
         size' = size + 1,
         heap' = [j \in 0 .. size |-> IF j = size THEN n ELSE heap[j]],
         index' = [index EXCEPT ![n] = size],
         Swim(n, size, FALSE),
         UNCHANGED <<registered, timer_node_count, collecting, now, running>>
  PROVE  IndInv'
<1>1. /\ TypeOK /\ SlotsAgree /\ SiftOrdered /\ DueAgrees /\ CountsAgree
      /\ sift = "none" /\ cur = NoNode
  BY DEF IndInv, Moving, SlotsAgree
<1>2. /\ n \in Nodes /\ size \in Nat /\ heap \in [0 .. size - 1 -> Nodes]
      /\ next_sequence \in Nat /\ capacity \in Nat
  BY <1>1 DEF TypeOK
<1>3. sift' = "up" /\ at' = size /\ cur' = n /\ sink' = FALSE
  BY DEF Swim
<1>4. due' \in Seq(Nodes) /\ DueAgrees'
  BY <1>1, <1>2, DueStep
<1>5. TypeOK'
  <2>1. sink' \in BOOLEAN /\ cur' \in Nodes \union {NoNode} /\ sift' \in {"none", "up", "down"}
    BY <1>2, <1>3
  <2>2. heap' \in [0 .. size' - 1 -> Nodes] /\ size' \in Nat
    BY <1>2, SMTT(30)
  <2>3. /\ deadline' \in [Nodes -> Int] /\ order' \in [Nodes -> Nat]
        /\ state' \in [Nodes -> {"IDLE", "HEAP", "DUE", "RUNNING"}]
        /\ index' \in [Nodes -> Nat \union {NoIndex}]
    BY <1>1, <1>2 DEF TypeOK
  <2>. QED
    BY <1>1, <1>2, <1>3, <1>4, <2>1, <2>2, <2>3, SMTT(30) DEF TypeOK
<1>6. \A j \in 0 .. size - 1 : heap[j] \in Nodes /\ state[heap[j]] = "HEAP" /\ index[heap[j]] = j /\ heap[j] # n
  BY <1>1, <1>2, SMTT(30) DEF SlotsAgree, Settled, Moving
<1>7. /\ \A m \in Nodes : /\ state'[m] = IF m = n THEN "HEAP" ELSE state[m]
                          /\ order'[m] = IF m = n THEN next_sequence ELSE order[m]
                          /\ index'[m] = IF m = n THEN size ELSE index[m]
      /\ \A j \in 0 .. size - 1 : heap'[j] = heap[j]
  BY <1>1, <1>2, SMTT(30) DEF TypeOK
<1>8. SlotsAgree'
  <2>1. Moving' /\ (\A j : Settled(j)' <=> j \in 0 .. size - 1)
    BY <1>2, <1>3, SMTT(30) DEF Moving, Settled
  <2>2. \A j \in 0 .. size - 1 : heap'[j] # n /\ state'[heap'[j]] = "HEAP" /\ index'[heap'[j]] = j
    BY <1>6, <1>7, SMTT(30)
  <2>3. \A m \in Nodes : state'[m] = "HEAP" /\ m # n =>
          index'[m] \in 0 .. size - 1 /\ heap'[index'[m]] = m
    BY <1>1, <1>7, ConstantsAssumption, SMTT(30) DEF SlotsAgree, Settled
  <2>4. \A m \in Nodes : state'[m] = "HEAP" => m \in registered' /\ order'[m] < next_sequence'
    BY <1>1, <1>2, <1>7, SMTT(30) DEF SlotsAgree, TypeOK
  <2>5. \A m \in Nodes \ registered' : state'[m] = "IDLE"
    BY <1>1, <1>7, SMTT(30) DEF SlotsAgree
  <2>6. at' \in 0 .. size' - 1 /\ cur' \in Nodes /\ state'[cur'] = "HEAP"
    BY <1>2, <1>3, <1>7, SMTT(30)
  <2>7. 0 .. size' - 1 = 0 .. size
    BY <1>2, SMTT(30)
  <2>. QED
    BY <1>3, <2>1, <2>2, <2>3, <2>4, <2>5, <2>6 DEF SlotsAgree
<1>9. SiftOrdered'
  <2>1. ASSUME NEW j \in 1 .. size
        PROVE  Parent(j) \in 0 .. size - 1
    <3>1. size + 1 \in Nat /\ j \in 1 .. (size + 1) - 1
      BY <1>2, <2>1, SMTT(30)
    <3>2. Parent(j) \in 0 .. (size + 1) - 1 /\ Parent(j) < j
      BY <3>1, ParentInside
    <3>. QED
      BY <1>2, <2>1, <3>2, SMTT(30)
  <2>2. \A j \in 1 .. size - 1 : Parent(j) \in 0 .. size - 1 /\ ~ Less(heap[j], heap[Parent(j)])
    BY <1>1, <1>2, ParentInside DEF SiftOrdered, EdgeOK, Val, Moving
  <2>3. \A l, m \in Nodes : l # n /\ m # n => (Less(l, m)' <=> Less(l, m))
    BY <1>1, <1>7 DEF Less, TypeOK
  <2>4. ASSUME NEW j \in 1 .. size, j # size
        PROVE  EdgeOK(j)'
    <3>1. j \in 1 .. size - 1 /\ j \in 0 .. size - 1 /\ Parent(j) \in 0 .. size - 1
      BY <1>2, <2>2, <2>4, SMTT(30)
    <3>2. /\ Val(j)' = heap[j] /\ Val(Parent(j))' = heap[Parent(j)]
      BY <1>2, <1>3, <1>7, <3>1, SMTT(30) DEF Val, Moving
    <3>3. /\ heap[j] \in Nodes /\ heap[j] # n
          /\ heap[Parent(j)] \in Nodes /\ heap[Parent(j)] # n
      BY <1>6, <3>1
    <3>4. ~ Less(heap[j], heap[Parent(j)])
      BY <2>2, <3>1
    <3>5. Less(heap[j], heap[Parent(j)]) <=>
            \/ deadline'[heap[j]] < deadline'[heap[Parent(j)]]
            \/ /\ deadline'[heap[j]] = deadline'[heap[Parent(j)]]
               /\ order'[heap[j]] < order'[heap[Parent(j)]]
      BY <1>1, <1>7, <3>3 DEF Less, TypeOK
    <3>. QED
      BY <3>2, <3>4, <3>5 DEF EdgeOK, Less
  <2>5. 1 .. size' - 1 = 1 .. size /\ \A j \in 1 .. size : Parent(j) # size
    BY <1>2, <2>1, SMTT(30)
  <2>. QED
    BY <1>3, <2>4, <2>5 DEF SiftOrdered, Moving
<1>10. CountsAgree'
  BY <1>1, <1>2, SMTT(30) DEF CountsAgree, TypeOK
<1>. QED
  BY <1>4, <1>5, <1>8, <1>9, <1>10 DEF IndInv

\* kcpmux_timer_cancel, the owner keeping the node or giving it up.
LEMMA UnlinkStep ==
  ASSUME IndInv, ~ Moving, NEW n \in registered, Unlink(n),
         \/ UNCHANGED <<registered, timer_node_count>>
         \/ registered' = registered \ {n} /\ timer_node_count' = timer_node_count - 1
  PROVE  IndInv'
<1>1. /\ TypeOK /\ SlotsAgree /\ SiftOrdered /\ DueAgrees /\ CountsAgree
      /\ sift = "none" /\ cur = NoNode
  BY DEF IndInv, Moving, SlotsAgree
<1>2. /\ n \in Nodes /\ registered \subseteq Nodes /\ IsFiniteSet(registered)
  BY <1>1, FS_Subset, ConstantsAssumption DEF TypeOK
<1>3. /\ state' = [state EXCEPT ![n] = "IDLE"]
      /\ due' = IF state[n] = "DUE" THEN Without(due, n) ELSE due
      /\ UNCHANGED <<deadline, order, capacity, collecting, now, running, next_sequence>>
  BY DEF Unlink
<1>4. due' \in Seq(Nodes) /\ DueAgrees'
  BY <1>1, <1>2, <1>3, DueStep
<1>5. CountsAgree' /\ timer_node_count' \in Nat /\ registered' \subseteq Nodes
  <2>1. CASE UNCHANGED <<registered, timer_node_count>>
    BY <1>1, <1>3, <2>1 DEF CountsAgree, TypeOK
  <2>2. CASE registered' = registered \ {n} /\ timer_node_count' = timer_node_count - 1
    <3>1. Cardinality(registered \ {n}) = Cardinality(registered) - 1
      BY <1>2, FS_RemoveElement
    <3>2. Cardinality(registered) \in Nat /\ Cardinality(registered \ {n}) \in Nat
      BY <1>2, FS_CardinalityType, FS_Subset
    <3>. QED
      BY <1>1, <1>3, <2>2, <3>1, <3>2, SMTT(30) DEF CountsAgree, TypeOK
  <2>. QED
    BY <2>1, <2>2
<1>6. /\ size' \in Nat /\ heap' \in [0 .. size' - 1 -> Nodes]
      /\ index' \in [Nodes -> Nat \union {NoIndex}]
      /\ sift' \in {"none", "up", "down"} /\ at' \in Nat
      /\ cur' \in Nodes \union {NoNode} /\ sink' \in BOOLEAN
      /\ SlotsAgree' /\ SiftOrdered'
  <2>1. CASE state[n] = "HEAP"
    <3>1. RemoveAt(index[n])
      BY <2>1 DEF Unlink
    <3>. QED
      BY <1>2, <1>3, <2>1, <3>1, RemoveStarts
  <2>2. CASE state[n] # "HEAP"
    <3>1. UNCHANGED <<heap, size, index, sift, at, cur, sink>>
      BY <2>2 DEF Unlink, heapvars, siftvars
    <3>2. \A m \in Nodes : state'[m] = IF m = n THEN "IDLE" ELSE state[m]
      BY <1>1, <1>3 DEF TypeOK
    <3>3. \A j \in 0 .. size - 1 : heap[j] \in Nodes /\ heap[j] # n /\ state[heap[j]] = "HEAP"
      BY <1>1, <2>2, SMTT(30) DEF TypeOK, SlotsAgree, Settled, Moving
    <3>4. SlotsAgree'
      BY <1>1, <1>2, <1>3, <3>1, <3>2, <3>3, SMTT(30) DEF SlotsAgree, Settled, Moving
    <3>5. SiftOrdered'
      BY <1>1, <1>3, <3>1 DEF SiftOrdered, EdgeOK, Val, Moving, Less
    <3>. QED
      BY <1>1, <3>1, <3>4, <3>5 DEF TypeOK
  <2>. QED
    BY <2>1, <2>2
<1>7. TypeOK'
  <2>1. state' \in [Nodes -> {"IDLE", "HEAP", "DUE", "RUNNING"}]
    BY <1>1, <1>3 DEF TypeOK
  <2>. QED
    BY <1>1, <1>3, <1>4, <1>5, <1>6, <2>1 DEF TypeOK
<1>. QED
  BY <1>4, <1>5, <1>6, <1>7 DEF IndInv

\* A nonempty set of natural numbers has a least element.
LEMMA LeastOf ==
  ASSUME NEW T, T \subseteq Nat, T # {}
  PROVE  \E k \in T : \A j \in T : k <= j
<1> DEFINE R == {ss \in Nat \X Nat : ss[1] < ss[2]}
<1>1. IsWellFoundedOn(R, Nat)
  BY NatLessThanWellFounded DEF OpToRel
<1>2. PICK k \in T : \A j \in T : <<j, k>> \notin R
  <2> HIDE DEF R
  <2>. QED
    BY <1>1, WFMin
<1>3. ASSUME NEW j \in T PROVE k <= j
  <2>1. j \in Nat /\ k \in Nat
    OBVIOUS
  <2>2. <<j, k>> \in Nat \X Nat /\ ~ (<<j, k>>[1] < <<j, k>>[2])
    BY <1>2, <2>1
  <2>. QED
    BY <2>1, <2>2, SMTT(30)
<1>. QED
  BY <1>3

\* The root of an ordered heap is before every other node, or incomparable.
LEMMA RootFirst ==
  ASSUME IndInv, ~ Moving, NEW i \in 0 .. size - 1
  PROVE  ~ Less(heap[i], heap[0])
<1>1. /\ size \in Nat /\ heap \in [0 .. size - 1 -> Nodes]
      /\ \A j \in 1 .. size - 1 : ~ Less(heap[j], heap[Parent(j)])
  BY DEF IndInv, TypeOK, SiftOrdered, EdgeOK, Val, Moving
<1>2. /\ \A k, m, n \in Nodes : ~ Less(k, m) /\ ~ Less(m, n) => ~ Less(k, n)
      /\ \A n \in Nodes : ~ Less(n, n)
  BY LessFacts DEF IndInv, TypeOK
<1> DEFINE T == {j \in 0 .. size - 1 : Less(heap[j], heap[0])}
<1>3. SUFFICES ASSUME T # {} PROVE FALSE
  BY DEF T
<1>4. T \subseteq Nat
  BY <1>1, SMTT(30)
<1>5. PICK k \in T : \A j \in T : k <= j
  <2> HIDE DEF T
  <2>. QED
    BY <1>3, <1>4, LeastOf
<1>6. k \in 1 .. size - 1
  BY <1>1, <1>2, <1>5, SMTT(30)
<1>7. Parent(k) \in 0 .. size - 1 /\ Parent(k) < k
  BY <1>1, <1>6, ParentInside
<1>8. ~ Less(heap[Parent(k)], heap[0])
  BY <1>1, <1>5, <1>6, <1>7, SMTT(30)
<1>9. heap[k] \in Nodes /\ heap[Parent(k)] \in Nodes /\ heap[0] \in Nodes
  BY <1>1, <1>6, <1>7, SMTT(30)
<1>. QED
  BY <1>1, <1>2, <1>5, <1>6, <1>8, <1>9

\* A failed reservation changes nothing.
LEMMA Stutter ==
  ASSUME IndInv, UNCHANGED vars
  PROVE  IndInv'
<1>1. /\ heap' = heap /\ size' = size /\ capacity' = capacity
      /\ next_sequence' = next_sequence /\ index' = index /\ deadline' = deadline
      /\ order' = order /\ state' = state /\ registered' = registered
      /\ timer_node_count' = timer_node_count /\ sift' = sift /\ at' = at /\ cur' = cur
      /\ sink' = sink /\ due' = due /\ collecting' = collecting /\ now' = now
      /\ running' = running
  BY DEF vars, heapvars, siftvars, nodevars, ownvars, duevars
<1>2. TypeOK'
  BY <1>1 DEF IndInv, TypeOK
<1>3. SlotsAgree'
  BY <1>1 DEF IndInv, SlotsAgree, Settled, Moving
<1>4. SiftOrdered'
  BY <1>1 DEF IndInv, SiftOrdered, EdgeOK, Val, Moving, Less
<1>5. DueAgrees' /\ CountsAgree'
  BY <1>1 DEF IndInv, DueAgrees, CountsAgree
<1>. QED
  BY <1>2, <1>3, <1>4, <1>5 DEF IndInv

LEMMA RegisterStep ==
  ASSUME IndInv, NEW n \in Nodes, Register(n)
  PROVE  IndInv'
<1>1. /\ TypeOK /\ SlotsAgree /\ SiftOrdered /\ DueAgrees /\ CountsAgree
      /\ sift = "none" /\ cur = NoNode /\ n \notin registered
  BY DEF IndInv, Moving, SlotsAgree, Register, Ready
<1>2. PICK r \in Reserve(timer_node_count + 1) :
        IF r = OutOfMemory
        THEN UNCHANGED vars
        ELSE /\ capacity' = r
             /\ registered' = registered \union {n}
             /\ timer_node_count' = timer_node_count + 1
             /\ index' = [index EXCEPT ![n] = NoIndex]
             /\ deadline' = [deadline EXCEPT ![n] = 0]
             /\ order' = [order EXCEPT ![n] = 0]
             /\ state' = [state EXCEPT ![n] = "IDLE"]
             /\ UNCHANGED <<heap, size, siftvars, duevars, next_sequence>>
  BY DEF Register
<1>3. CASE r = OutOfMemory
  <2>1. UNCHANGED vars
    BY <1>2, <1>3
  <2>. QED
    BY <2>1, Stutter
<1>4. CASE r # OutOfMemory
  <2>1. r \in Nat /\ r >= timer_node_count + 1
    BY <1>1, <1>4, ReserveFacts, SMTT(30) DEF TypeOK
  <2>2. /\ capacity' = r
        /\ registered' = registered \union {n}
        /\ timer_node_count' = timer_node_count + 1
        /\ index' = [index EXCEPT ![n] = NoIndex]
        /\ deadline' = [deadline EXCEPT ![n] = 0]
        /\ order' = [order EXCEPT ![n] = 0]
        /\ state' = [state EXCEPT ![n] = "IDLE"]
        /\ UNCHANGED <<heap, size, sift, at, cur, sink, due, collecting, now, running, next_sequence>>
    BY <1>2, <1>4 DEF siftvars, duevars
  <2>3. state[n] = "IDLE" /\ state' = state
    BY <1>1, <2>2, SMTT(30) DEF SlotsAgree, TypeOK
  <2>4. TypeOK'
    <3>1. /\ index' \in [Nodes -> Nat \union {NoIndex}] /\ deadline' \in [Nodes -> Int]
          /\ order' \in [Nodes -> Nat]
      BY <1>1, <2>2, SMTT(30) DEF TypeOK
    <3>. QED
      BY <1>1, <2>1, <2>2, <2>3, <3>1, SMTT(30) DEF TypeOK
  <2>5. \A m \in Nodes : m # n => /\ index'[m] = index[m] /\ order'[m] = order[m]
                                  /\ deadline'[m] = deadline[m]
    BY <1>1, <2>2 DEF TypeOK
  <2>6. \A j \in 0 .. size - 1 : heap[j] \in Nodes /\ heap[j] # n
    BY <1>1, <2>3 DEF TypeOK, SlotsAgree, Settled, Moving
  <2>7. SlotsAgree'
    BY <1>1, <2>2, <2>3, <2>5, <2>6, SMTT(30) DEF SlotsAgree, Settled, Moving
  <2>8. SiftOrdered'
    <3>1. \A j \in 1 .. size - 1 : /\ j \in 0 .. size - 1 /\ Parent(j) \in 0 .. size - 1
                                   /\ ~ Less(heap[j], heap[Parent(j)])
      BY <1>1, ParentInside, SMTT(30) DEF SiftOrdered, EdgeOK, Val, Moving, TypeOK
    <3>2. \A j \in 1 .. size - 1 : ~ Less(heap[j], heap[Parent(j)])'
      BY <2>2, <2>5, <2>6, <3>1, SMTT(30) DEF Less
    <3>. QED
      BY <1>1, <2>2, <3>2 DEF SiftOrdered, EdgeOK, Val, Moving
  <2>9. CountsAgree'
    <3>1. IsFiniteSet(registered)
      BY <1>1, FS_Subset, ConstantsAssumption DEF TypeOK
    <3>2. Cardinality(registered \union {n}) = Cardinality(registered) + 1
      BY <1>1, <3>1, FS_AddElement
    <3>. QED
      BY <1>1, <2>1, <2>2, <3>2 DEF CountsAgree, TypeOK
  <2>10. DueAgrees'
    BY <1>1, <2>2, <2>3 DEF DueAgrees
  <2>. QED
    BY <2>4, <2>7, <2>8, <2>9, <2>10 DEF IndInv
<1>. QED
  BY <1>3, <1>4

\* The heap, its sift and its order are left alone, and so are the armed nodes.
LEMMA HeapUntouched ==
  ASSUME IndInv, ~ Moving, NEW n \in registered, NEW v \in {"IDLE", "RUNNING"},
         state[n] # "HEAP",
         state' = [state EXCEPT ![n] = v],
         UNCHANGED <<heapvars, siftvars, deadline, order, ownvars, next_sequence>>
  PROVE  SlotsAgree' /\ SiftOrdered' /\ CountsAgree'
<1>1. /\ TypeOK /\ SlotsAgree /\ SiftOrdered /\ CountsAgree
      /\ sift = "none" /\ cur = NoNode /\ n \in Nodes
  BY DEF IndInv, Moving, SlotsAgree, TypeOK
<1>2. UNCHANGED <<heap, size, index, sift, at, cur, sink, deadline, order, registered,
                  timer_node_count, capacity, next_sequence>>
  BY DEF heapvars, siftvars, ownvars
<1>3. \A m \in Nodes : state'[m] = IF m = n THEN v ELSE state[m]
  BY <1>1 DEF TypeOK
<1>4. \A j \in 0 .. size - 1 : heap[j] \in Nodes /\ heap[j] # n /\ state[heap[j]] = "HEAP"
  BY <1>1, SMTT(30) DEF TypeOK, SlotsAgree, Settled, Moving
<1>5. SlotsAgree'
  BY <1>1, <1>2, <1>3, <1>4, SMTT(30) DEF SlotsAgree, Settled, Moving
<1>6. SiftOrdered'
  BY <1>1, <1>2 DEF SiftOrdered, EdgeOK, Val, Moving, Less
<1>. QED
  BY <1>1, <1>2, <1>5, <1>6 DEF CountsAgree

LEMMA CollectDueStep ==
  ASSUME IndInv, NEW t \in Times, CollectDue(t)
  PROVE  IndInv'
<1>1. /\ UNCHANGED <<heap, size, index, sift, at, cur, sink, deadline, order, state, registered,
                     timer_node_count, capacity, due, running, next_sequence>>
      /\ collecting' = TRUE /\ now' = t
  BY DEF CollectDue, heapvars, siftvars, nodevars, ownvars
<1>2. collecting' \in BOOLEAN
  BY <1>1
<1>3. TypeOK'
  BY <1>1, <1>2 DEF IndInv, TypeOK
<1>4. SlotsAgree' /\ SiftOrdered'
  BY <1>1 DEF IndInv, SlotsAgree, Settled, Moving, SiftOrdered, EdgeOK, Val, Less
<1>5. DueAgrees' /\ CountsAgree'
  BY <1>1 DEF IndInv, DueAgrees, CountsAgree
<1>. QED
  BY <1>3, <1>4, <1>5 DEF IndInv

\* The node at the root becomes due.
LEMMA RootDueStep ==
  ASSUME IndInv, ~ Moving, size > 0,
         RemoveAt(0),
         state' = [state EXCEPT ![heap[0]] = "DUE"],
         due' = Append(due, heap[0]),
         UNCHANGED <<collecting, now, deadline, order, ownvars, running, next_sequence>>
  PROVE  IndInv'
<1>1. /\ TypeOK /\ SlotsAgree /\ SiftOrdered /\ DueAgrees /\ CountsAgree
      /\ sift = "none" /\ cur = NoNode
  BY DEF IndInv, Moving, SlotsAgree
<1>2. PICK n : n = heap[0]
  OBVIOUS
<1>3. n \in Nodes /\ state[n] = "HEAP" /\ index[n] = 0
  BY <1>1, <1>2, SMTT(30) DEF TypeOK, SlotsAgree, Settled, Moving
<1>4. /\ state' = [state EXCEPT ![n] = "DUE"] /\ due' = Append(due, n)
      /\ UNCHANGED <<registered, timer_node_count, capacity>>
  BY <1>2 DEF ownvars
<1>5. /\ size' \in Nat /\ heap' \in [0 .. size' - 1 -> Nodes]
      /\ index' \in [Nodes -> Nat \union {NoIndex}]
      /\ sift' \in {"none", "up", "down"} /\ at' \in Nat
      /\ cur' \in Nodes \union {NoNode} /\ sink' \in BOOLEAN
      /\ SlotsAgree' /\ SiftOrdered'
  <2>1. RemoveAt(index[n])
    BY <1>3
  <2>. QED
    BY <1>3, <1>4, <2>1, RemoveStarts
<1>6. due \in Seq(Nodes) /\ Len(due) \in Nat /\ due' \in Seq(Nodes) /\ Len(due') = Len(due) + 1
  BY <1>1, <1>3, <1>4, SMTT(30) DEF TypeOK
<1>7. /\ due'[Len(due) + 1] = n
      /\ \A k \in 1 .. Len(due) : due'[k] = due[k] /\ due[k] \in Nodes /\ due[k] # n
  BY <1>1, <1>3, <1>4, <1>6, SMTT(30) DEF DueAgrees
<1>8. \A m \in Nodes : state'[m] = IF m = n THEN "DUE" ELSE state[m]
  BY <1>1, <1>4 DEF TypeOK
<1>9. DueAgrees'
  <2>1. \A k \in 1 .. Len(due') : state'[due'[k]] = "DUE"
    BY <1>1, <1>3, <1>6, <1>7, <1>8, SMTT(30) DEF DueAgrees
  <2>2. ASSUME NEW m \in Nodes, state'[m] = "DUE" PROVE \E k \in 1 .. Len(due') : due'[k] = m
    <3>1. CASE m = n
      BY <1>6, <1>7, <3>1, SMTT(30)
    <3>2. CASE m # n
      <4>1. PICK k \in 1 .. Len(due) : due[k] = m
        BY <1>1, <1>8, <2>2, <3>2 DEF DueAgrees
      <4>. QED
        BY <1>6, <1>7, <4>1, SMTT(30)
    <3>. QED
      BY <3>1, <3>2
  <2>3. \A j, k \in 1 .. Len(due') : due'[j] = due'[k] => j = k
    BY <1>1, <1>6, <1>7, SMTT(30) DEF DueAgrees
  <2>. QED
    BY <2>1, <2>2, <2>3 DEF DueAgrees
<1>10. state' \in [Nodes -> {"IDLE", "HEAP", "DUE", "RUNNING"}]
  BY <1>1, <1>4 DEF TypeOK
<1>11. TypeOK'
  BY <1>1, <1>4, <1>5, <1>6, <1>10 DEF TypeOK
<1>12. CountsAgree'
  BY <1>1, <1>4 DEF CountsAgree
<1>. QED
  BY <1>5, <1>9, <1>11, <1>12 DEF IndInv

LEMMA CollectOneStep ==
  ASSUME IndInv, CollectOne
  PROVE  IndInv'
<1>1. CASE size > 0 /\ deadline[heap[0]] <= now
  BY <1>1, RootDueStep DEF CollectOne, Moving
<1>2. CASE ~ (size > 0 /\ deadline[heap[0]] <= now)
  <2>1. /\ UNCHANGED <<heap, size, index, sift, at, cur, sink, deadline, order, state, registered,
                       timer_node_count, capacity, due, running, next_sequence>>
        /\ collecting' = FALSE /\ now' = 0
    BY <1>2 DEF CollectOne, heapvars, siftvars, nodevars, ownvars
  <2>2. collecting' \in BOOLEAN /\ now' \in Times
    BY <2>1, ConstantsAssumption
  <2>3. TypeOK'
    BY <2>1, <2>2 DEF IndInv, TypeOK
  <2>4. SlotsAgree' /\ SiftOrdered'
    BY <2>1 DEF IndInv, SlotsAgree, Settled, Moving, SiftOrdered, EdgeOK, Val, Less
  <2>5. DueAgrees' /\ CountsAgree'
    BY <2>1 DEF IndInv, DueAgrees, CountsAgree
  <2>. QED
    BY <2>3, <2>4, <2>5 DEF IndInv
<1>. QED
  BY <1>1, <1>2

LEMMA DispatchStep ==
  ASSUME IndInv, Dispatch
  PROVE  IndInv'
<1>1. /\ TypeOK /\ SlotsAgree /\ DueAgrees /\ ~ Moving
      /\ due # << >>
      /\ UNCHANGED <<heapvars, siftvars, deadline, order, ownvars, collecting, now, next_sequence>>
  BY DEF IndInv, Dispatch, Ready, Moving
<1>2. PICK n : n = Head(due)
  OBVIOUS
<1>3. /\ running' = n /\ due' = Tail(due) /\ state' = [state EXCEPT ![n] = "RUNNING"]
  BY <1>2 DEF Dispatch
<1>4. /\ due \in Seq(Nodes) /\ Len(due) \in Nat /\ Len(due) > 0 /\ n = due[1] /\ n \in Nodes
      /\ due' \in Seq(Nodes) /\ Len(due') = Len(due) - 1
      /\ \A k \in 1 .. Len(due) - 1 : due'[k] = due[k + 1]
  BY <1>1, <1>2, <1>3, SMTT(30) DEF TypeOK
<1>5. state[n] = "DUE" /\ n \in registered
  BY <1>1, <1>4, SMTT(30) DEF DueAgrees, SlotsAgree
<1>6. SlotsAgree' /\ SiftOrdered' /\ CountsAgree'
  BY <1>1, <1>3, <1>5, HeapUntouched
<1>7. \A m \in Nodes : state'[m] = IF m = n THEN "RUNNING" ELSE state[m]
  BY <1>1, <1>3 DEF TypeOK
<1>8. DueAgrees'
  <2>1. \A k \in 1 .. Len(due') : due'[k] \in Nodes /\ due'[k] # n /\ state[due'[k]] = "DUE"
    BY <1>1, <1>4, SMTT(30) DEF DueAgrees
  <2>2. ASSUME NEW m \in Nodes, state'[m] = "DUE" PROVE \E k \in 1 .. Len(due') : due'[k] = m
    <3>1. PICK k \in 1 .. Len(due) : due[k] = m
      BY <1>1, <1>7, <2>2 DEF DueAgrees
    <3>2. m # n
      BY <1>7, <2>2
    <3>3. k - 1 \in 1 .. Len(due') /\ due'[k - 1] = m
      BY <1>4, <3>1, <3>2, SMTT(30)
    <3>. QED
      BY <3>3
  <2>3. \A j, k \in 1 .. Len(due') : due'[j] = due'[k] => j = k
    BY <1>1, <1>4, SMTT(30) DEF DueAgrees
  <2>. QED
    BY <1>7, <2>1, <2>2, <2>3 DEF DueAgrees
<1>9. state' \in [Nodes -> {"IDLE", "HEAP", "DUE", "RUNNING"}]
  BY <1>1, <1>3 DEF TypeOK
<1>10. TypeOK'
  BY <1>1, <1>3, <1>4, <1>9 DEF TypeOK, heapvars, siftvars, ownvars
<1>. QED
  BY <1>6, <1>8, <1>10 DEF IndInv

LEMMA ReturnStep ==
  ASSUME IndInv, Return
  PROVE  IndInv'
<1>1. /\ TypeOK /\ SlotsAgree /\ DueAgrees /\ ~ Moving
      /\ running \in Nodes /\ running' = NoNode
      /\ UNCHANGED <<heapvars, siftvars, deadline, order, ownvars, due, collecting, now,
                     next_sequence>>
  BY DEF IndInv, Return, Ready, Moving, TypeOK
<1>2. CASE state[running] = "RUNNING"
  <2>1. state' = [state EXCEPT ![running] = "IDLE"] /\ running \in registered
    BY <1>1, <1>2 DEF Return, SlotsAgree
  <2>2. SlotsAgree' /\ SiftOrdered' /\ CountsAgree'
    <3>1. PICK n : n = running
      OBVIOUS
    <3>2. n \in registered /\ state[n] # "HEAP" /\ state' = [state EXCEPT ![n] = "IDLE"]
      BY <1>2, <2>1, <3>1
    <3>. QED
      BY <1>1, <3>2, HeapUntouched
  <2>3. \A m \in Nodes : state'[m] = IF m = running THEN "IDLE" ELSE state[m]
    BY <1>1, <2>1 DEF TypeOK
  <2>4. DueAgrees'
    <3>1. due' = due /\ \A k \in 1 .. Len(due) : due[k] \in Nodes /\ due[k] # running
      BY <1>1, <1>2, SMTT(30) DEF DueAgrees, TypeOK
    <3>. QED
      BY <1>1, <2>3, <3>1 DEF DueAgrees
  <2>5. state' \in [Nodes -> {"IDLE", "HEAP", "DUE", "RUNNING"}]
    BY <1>1, <2>1 DEF TypeOK
  <2>6. TypeOK'
    BY <1>1, <2>5 DEF TypeOK, heapvars, siftvars, ownvars
  <2>. QED
    BY <2>2, <2>4, <2>6 DEF IndInv
<1>3. CASE state[running] # "RUNNING"
  <2>1. /\ state' = state
        /\ UNCHANGED <<heap, size, index, sift, at, cur, sink, deadline, order, registered,
                       timer_node_count, capacity, due, collecting, now, next_sequence>>
    BY <1>1, <1>3 DEF Return, heapvars, siftvars, ownvars
  <2>2. TypeOK'
    BY <1>1, <2>1 DEF TypeOK
  <2>3. SlotsAgree' /\ SiftOrdered'
    BY <2>1 DEF IndInv, SlotsAgree, Settled, Moving, SiftOrdered, EdgeOK, Val, Less
  <2>4. DueAgrees' /\ CountsAgree'
    BY <2>1 DEF IndInv, DueAgrees, CountsAgree
  <2>. QED
    BY <2>2, <2>3, <2>4 DEF IndInv
<1>. QED
  BY <1>2, <1>3

LEMMA ScheduleStep ==
  ASSUME IndInv, NEW n \in Nodes, NEW d \in Times, Schedule(n, d)
  PROVE  IndInv'
<1>1. TypeOK /\ ~ Moving /\ n \in registered /\ d \in Int
  BY ConstantsAssumption DEF IndInv, Schedule, Ready, Moving
<1>2. CASE state[n] = "HEAP"
  BY <1>1, <1>2, RescheduleStep DEF Schedule
<1>3. CASE state[n] # "HEAP"
  <2>1. PICK r \in Reserve(size + 1) :
          IF r = OutOfMemory
          THEN UNCHANGED vars
          ELSE /\ capacity' = r
               /\ due' = IF state[n] = "DUE" THEN Without(due, n) ELSE due
               /\ deadline' = [deadline EXCEPT ![n] = d]
               /\ order' = [order EXCEPT ![n] = next_sequence]
               /\ next_sequence' = next_sequence + 1
               /\ state' = [state EXCEPT ![n] = "HEAP"]
               /\ size' = size + 1
               /\ heap' = [j \in 0 .. size |-> IF j = size THEN n ELSE heap[j]]
               /\ index' = [index EXCEPT ![n] = size]
               /\ Swim(n, size, FALSE)
               /\ UNCHANGED <<registered, timer_node_count, collecting, now, running>>
    BY <1>3 DEF Schedule
  <2>2. CASE r = OutOfMemory
    BY <2>1, <2>2, Stutter
  <2>3. CASE r # OutOfMemory
    <3>1. r \in Nat /\ r >= capacity
      <4>1. capacity \in Nat /\ size + 1 \in Nat
        BY <1>1, SMTT(30) DEF TypeOK
      <4>. QED
        BY <2>3, <4>1, ReserveFacts
    <3>. QED
      BY <1>1, <1>3, <2>1, <2>3, <3>1, InsertStep
  <2>. QED
    BY <2>2, <2>3
<1>. QED
  BY <1>2, <1>3

LEMMA UnregisterStep ==
  ASSUME IndInv, NEW n \in Nodes, Unregister(n)
  PROVE  IndInv'
<1>1. /\ ~ Moving /\ n \in registered /\ Unlink(n) /\ registered' = registered \ {n}
      /\ timer_node_count' = IF timer_node_count > 0 THEN timer_node_count - 1
                                                     ELSE timer_node_count
  BY DEF Unregister, Ready, Moving
<1>2. timer_node_count > 0
  <2>1. IsFiniteSet(registered) /\ timer_node_count = Cardinality(registered)
    BY FS_Subset, ConstantsAssumption DEF IndInv, TypeOK, CountsAgree
  <2>2. Cardinality(registered) \in Nat /\ Cardinality(registered) # 0
    BY <1>1, <2>1, FS_CardinalityType, FS_EmptySet
  <2>. QED
    BY <2>1, <2>2, SMTT(30)
<1>. QED
  BY <1>1, <1>2, UnlinkStep

LEMMA NextInv == IndInv /\ [Next]_vars => IndInv'
<1> SUFFICES ASSUME IndInv, [Next]_vars PROVE IndInv'
  OBVIOUS
<1>1. CASE SiftUp
  BY <1>1, SiftUpMoves, SiftUpStops
<1>2. CASE SiftDown
  BY <1>2, SiftDownMoves, SiftDownStops
<1>3. CASE CollectOne
  BY <1>3, CollectOneStep
<1>4. CASE Dispatch
  BY <1>4, DispatchStep
<1>5. CASE Return
  BY <1>5, ReturnStep
<1>6. ASSUME NEW n \in Nodes, Register(n) PROVE IndInv'
  BY <1>6, RegisterStep
<1>7. ASSUME NEW n \in Nodes, Cancel(n) PROVE IndInv'
  BY <1>7, UnlinkStep DEF Cancel, Ready, Moving
<1>8. ASSUME NEW n \in Nodes, Unregister(n) PROVE IndInv'
  BY <1>8, UnregisterStep
<1>9. ASSUME NEW n \in Nodes, NEW d \in Times, Schedule(n, d) PROVE IndInv'
  BY <1>9, ScheduleStep
<1>10. ASSUME NEW t \in Times, CollectDue(t) PROVE IndInv'
  BY <1>10, CollectDueStep
<1>11. CASE UNCHANGED vars
  BY <1>11, Stutter
<1>. QED
  BY <1>1, <1>2, <1>3, <1>4, <1>5, <1>6, <1>7, <1>8, <1>9, <1>10, <1>11 DEF Next

\* The inductive invariant holds throughout every run of the timer manager:
\* whatever sequence of schedules, cancels, registrations and collections the
\* engine makes, and after every iteration of the sift loops of
\* kcpmux_timer.c.
THEOREM Invariance == Spec => []IndInv
<1>. QED
  BY InitInv, NextInv, PTL DEF Spec

\* Between operations the array is a min-heap, for any number of nodes and any
\* deadlines: kcpmux_timer_sift_up and kcpmux_timer_sift_down together restore
\* the order after an insertion, a removal or a change of deadline.
THEOREM HeapOrder == Spec => []HeapOrdered
<1>1. IndInv => HeapOrdered
  BY DEF IndInv, SiftOrdered, HeapOrdered, EdgeOK, Val, Moving
<1>. QED
  BY <1>1, Invariance, PTL

\* Between operations heap_index is the inverse of the array.
THEOREM IndexAgreement == Spec => []IndexAgrees
<1>1. IndInv => IndexAgrees
  <2> SUFFICES ASSUME IndInv, ~ Moving
               PROVE  /\ \A i \in 0 .. size - 1 : state[heap[i]] = "HEAP" /\ index[heap[i]] = i
                      /\ \A n \in Nodes : state[n] = "HEAP" =>
                           n \in registered /\ index[n] \in 0 .. size - 1 /\ heap[index[n]] = n
    BY DEF IndexAgrees
  <2>1. SlotsAgree /\ cur = NoNode /\ cur \notin Nodes
    BY ConstantsAssumption DEF IndInv, SlotsAgree
  <2>. QED
    BY <2>1 DEF SlotsAgree, Settled
<1>. QED
  BY <1>1, Invariance, PTL

\* A registered node that is not in the heap always finds a free slot, so the
\* reservation made by kcpmux_engine_register_timer_node is enough for every
\* later schedule: the nodes of the heap and the new one are different
\* registered nodes, and there are at most `capacity' of those.
THEOREM Room == Spec => []RoomToSchedule
<1>1. IndInv => RoomToSchedule
  <2> SUFFICES ASSUME IndInv, ~ Moving, NEW n \in registered, state[n] # "HEAP"
               PROVE  size < capacity
    BY DEF RoomToSchedule
  <2>1. /\ TypeOK /\ SlotsAgree /\ CountsAgree /\ cur = NoNode /\ size \in Nat
        /\ heap \in [0 .. size - 1 -> Nodes] /\ n \in Nodes
    BY DEF IndInv, SlotsAgree, TypeOK
  <2>2. \A i \in 0 .. size - 1 :
          /\ heap[i] \in registered /\ heap[i] # n /\ index[heap[i]] = i
    BY <2>1 DEF SlotsAgree, Settled
  <2> DEFINE f == [i \in 0 .. size |-> IF i = size THEN n ELSE heap[i]]
  <2>3. f \in Injection(0 .. size, registered)
    <3>1. f \in [0 .. size -> registered]
      <4>1. \A i \in 0 .. size : (IF i = size THEN n ELSE heap[i]) \in registered
        <5>1. \A i \in 0 .. size : i = size \/ i \in 0 .. size - 1
          BY <2>1, SMTT(30)
        <5>. QED
          BY <2>2, <5>1
      <4>. QED
        BY <4>1
    <3>2. \A i, j \in 0 .. size : f[i] = f[j] => i = j
      BY <2>1, <2>2, SMTT(30)
    <3>. QED
      BY <3>1, <3>2 DEF Injection, IsInjective
  <2>4. IsFiniteSet(registered)
    BY <2>1, FS_Subset, ConstantsAssumption DEF TypeOK
  <2>5. IsFiniteSet(0 .. size) /\ Cardinality(0 .. size) = size + 1
    BY <2>1, FS_Interval, SMTT(30)
  <2>6. Cardinality(0 .. size) <= Cardinality(registered)
    BY <2>3, <2>4, FS_Injection
  <2>. QED
    BY <2>1, <2>5, <2>6, SMTT(30) DEF CountsAgree, TypeOK
<1>. QED
  BY <1>1, Invariance, PTL

\* In the heap, a node's deadline is at least that of the root.
LEMMA RootEarliest ==
  ASSUME IndInv, ~ Moving, NEW n \in Nodes, state[n] = "HEAP"
  PROVE  /\ size > 0 /\ heap[0] \in Nodes /\ state[heap[0]] = "HEAP"
         /\ ~ Less(n, heap[0])
         /\ deadline[heap[0]] <= deadline[n]
<1>1. TypeOK /\ SlotsAgree /\ cur = NoNode /\ size \in Nat /\ n # NoNode
  BY ConstantsAssumption, SMTT(30) DEF IndInv, SlotsAgree, TypeOK
<1>2. index[n] \in 0 .. size - 1 /\ heap[index[n]] = n
  BY <1>1 DEF SlotsAgree, Settled
<1>3. ~ Less(n, heap[0])
  BY <1>2, RootFirst
<1>4. size > 0 /\ heap[0] \in Nodes /\ state[heap[0]] = "HEAP"
  BY <1>1, <1>2, SMTT(30) DEF TypeOK, SlotsAgree, Settled
<1>. QED
  BY <1>1, <1>3, <1>4, SMTT(30) DEF Less, TypeOK

\* kcpmux_timer_collect_due leaves no node behind that was due: it stops when
\* the root is not, and the root is the earliest.
THEOREM CollectionComplete == Spec => CollectsAll
<1> DEFINE A == collecting /\ ~ collecting' =>
                  \A n \in Nodes : state[n] = "HEAP" => deadline[n] > now
<1>1. IndInv /\ [Next]_vars => [A]_vars
  <2> SUFFICES ASSUME IndInv, Next, collecting, ~ collecting',
                      NEW n \in Nodes, state[n] = "HEAP"
               PROVE  deadline[n] > now
    OBVIOUS
  <2>1. CollectOne
    BY Zenon DEF Next, SiftUp, SiftDown, Dispatch, Return, Register, Cancel, Unregister, Unlink, Schedule,
           CollectDue, Ready, duevars
  <2>2. ~ Moving /\ ~ (size > 0 /\ deadline[heap[0]] <= now)
    BY <2>1 DEF CollectOne, Moving
  <2>3. deadline \in [Nodes -> Int] /\ now \in Int
    BY ConstantsAssumption DEF IndInv, TypeOK
  <2>. QED
    BY <2>2, <2>3, RootEarliest, SMTT(30)
<1>. QED
  BY <1>1, Invariance, PTL DEF Spec, CollectsAll

\* A node that is not due is not in the due list.
LEMMA NotDue ==
  ASSUME IndInv, NEW n \in Nodes, state[n] # "DUE"
  PROVE  Queue!Without(due, n) = due
<1>1. DOMAIN due = 1 .. Len(due)
  BY SMTT(30) DEF IndInv, TypeOK
<1>2. ~ \E k \in DOMAIN due : due[k] = n
  BY <1>1 DEF IndInv, DueAgrees
<1>. QED
  BY <1>2 DEF Queue!Without

\* What each step does to the queue.
LEMMA QueueStep ==
  ASSUME IndInv, [Next]_vars
  PROVE  [Queue!QNext]_(Queue!qvars)
<1> DEFINE armed == {n \in Nodes : state[n] = "HEAP"}
<1>1. /\ TypeOK /\ state \in [Nodes -> {"IDLE", "HEAP", "DUE", "RUNNING"}]
  BY DEF IndInv, TypeOK
<1>2. ASSUME UNCHANGED <<state, deadline, order, due>> PROVE UNCHANGED Queue!qvars
  BY <1>2 DEF Queue!qvars
<1>3. CASE SiftUp \/ SiftDown \/ \E t \in Times : CollectDue(t)
  BY <1>2, <1>3 DEF SiftUp, SiftDown, CollectDue, nodevars, duevars
<1>4. CASE CollectOne
  <2>1. CASE size > 0 /\ deadline[heap[0]] <= now
    <3>1. ~ Moving /\ now \in Times
      BY <1>4 DEF CollectOne, Moving, IndInv, TypeOK
    <3>2. PICK n : n = heap[0]
      OBVIOUS
    <3>3. n \in Nodes /\ state[n] = "HEAP" /\ deadline[n] <= now
      BY <2>1, <3>1, <3>2, SMTT(30) DEF IndInv, TypeOK, SlotsAgree, Settled
    <3>4. /\ state' = [state EXCEPT ![n] = "DUE"] /\ due' = Append(due, n)
          /\ deadline' = deadline /\ order' = order
      BY <1>4, <2>1, <3>2 DEF CollectOne
    <3>5. \A m \in armed : ~ Queue!Before(m, n)
      BY <3>1, <3>2, RootEarliest DEF Queue!Before, Less
    <3>6. armed' = armed \ {n}
      BY <1>1, <3>3, <3>4
    <3>7. PICK t \in Times : t = now
      BY <3>1
    <3>8. Queue!Expire(n, t)
      BY <3>3, <3>4, <3>5, <3>6, <3>7 DEF Queue!Expire, Queue!IsFirst
    <3>9. Queue!QNext
      BY <3>3, <3>8 DEF Queue!QNext
    <3>. QED
      BY <3>9
  <2>2. CASE ~ (size > 0 /\ deadline[heap[0]] <= now)
    BY <1>2, <1>4, <2>2 DEF CollectOne
  <2>. QED
    BY <2>1, <2>2
<1>5. CASE Dispatch
  <2>1. PICK n : n = Head(due)
    OBVIOUS
  <2>2. /\ due # << >> /\ due' = Tail(due) /\ state' = [state EXCEPT ![n] = "RUNNING"]
        /\ deadline' = deadline /\ order' = order
    BY <1>5, <2>1 DEF Dispatch
  <2>3. n \in Nodes /\ state[n] = "DUE"
    <3>1. due \in Seq(Nodes)
      BY <1>1 DEF TypeOK
    <3>2. 1 \in 1 .. Len(due) /\ n = due[1] /\ n \in Nodes
      BY <2>1, <2>2, <3>1, SMTT(30)
    <3>. QED
      BY <3>2 DEF IndInv, DueAgrees
  <2>4. armed' = armed
    BY <1>1, <2>2, <2>3
  <2>5. Queue!Dispatch
    BY <2>2, <2>4 DEF Queue!Dispatch
  <2>. QED
    BY <2>5 DEF Queue!QNext
<1>6. CASE Return
  <2>1. deadline' = deadline /\ order' = order /\ due' = due
    BY <1>6 DEF Return
  <2>2. armed' = armed
    BY <1>1, <1>6 DEF Return
  <2>. QED
    BY <2>1, <2>2 DEF Queue!qvars
<1>7. ASSUME NEW n \in Nodes, Register(n) PROVE [Queue!QNext]_(Queue!qvars)
  <2>1. CASE UNCHANGED vars
    BY <1>2, <2>1 DEF vars, nodevars, duevars
  <2>2. CASE ~ UNCHANGED vars
    <3>1. /\ deadline' = [deadline EXCEPT ![n] = 0]
          /\ order' = [order EXCEPT ![n] = 0]
          /\ state' = [state EXCEPT ![n] = "IDLE"]
          /\ due' = due
      BY <1>7, <2>2 DEF Register, duevars
    <3>2. state[n] = "IDLE"
      BY <1>7 DEF Register, IndInv, SlotsAgree
    <3>3. armed' = armed /\ n \notin armed
      BY <1>1, <3>1, <3>2
    <3>4. Queue!Reset(n)
      BY <3>1, <3>3 DEF Queue!Reset
    <3>. QED
      BY <3>4 DEF Queue!QNext
  <2>. QED
    BY <2>1, <2>2
<1>8. ASSUME NEW n \in Nodes, Unlink(n) PROVE [Queue!QNext]_(Queue!qvars)
  <2>1. /\ state' = [state EXCEPT ![n] = "IDLE"]
        /\ due' = IF state[n] = "DUE" THEN Without(due, n) ELSE due
        /\ deadline' = deadline /\ order' = order
    BY <1>8 DEF Unlink
  <2>2. armed' = armed \ {n}
    BY <1>1, <2>1
  <2>3. due' = Queue!Without(due, n)
    BY <2>1, NotDue DEF Without, Queue!Without
  <2>4. Queue!Cancel(n)
    BY <2>1, <2>2, <2>3 DEF Queue!Cancel
  <2>. QED
    BY <2>4 DEF Queue!QNext
<1>9. ASSUME NEW n \in Nodes, NEW d \in Times, Schedule(n, d) PROVE [Queue!QNext]_(Queue!qvars)
  <2>1. CASE state[n] = "HEAP"
    <3>1. /\ deadline' = [deadline EXCEPT ![n] = d]
          /\ UNCHANGED <<order, state, due>>
      BY <1>9, <2>1 DEF Schedule, duevars
    <3>2. Queue!Schedule(n, d)
      BY <2>1, <3>1 DEF Queue!Schedule
    <3>. QED
      BY <3>2 DEF Queue!QNext
  <2>2. CASE state[n] # "HEAP" /\ UNCHANGED vars
    BY <1>2, <2>2 DEF vars, nodevars, duevars
  <2>3. CASE state[n] # "HEAP" /\ ~ UNCHANGED vars
    <3>1. /\ due' = IF state[n] = "DUE" THEN Without(due, n) ELSE due
          /\ deadline' = [deadline EXCEPT ![n] = d]
          /\ order' = [order EXCEPT ![n] = next_sequence]
          /\ state' = [state EXCEPT ![n] = "HEAP"]
      BY <1>9, <2>3 DEF Schedule
    <3>2. armed' = armed \union {n} /\ n \notin armed
      BY <1>1, <2>3, <3>1
    <3>3. due' = Queue!Without(due, n)
      BY <3>1, NotDue DEF Without, Queue!Without
    <3>4. order'[n] = next_sequence /\ next_sequence \in Nat
      BY <1>1, <3>1 DEF TypeOK
    <3>5. \A m \in armed : order[m] < order'[n]
      BY <3>4 DEF IndInv, SlotsAgree
    <3>6. Queue!Schedule(n, d)
      BY <3>1, <3>2, <3>3, <3>4, <3>5 DEF Queue!Schedule
    <3>. QED
      BY <3>6 DEF Queue!QNext
  <2>. QED
    BY <2>1, <2>2, <2>3
<1>10. CASE UNCHANGED vars
  BY <1>2, <1>10 DEF vars, nodevars, duevars
<1>. QED
  BY <1>3, <1>4, <1>5, <1>6, <1>7, <1>8, <1>9, <1>10 DEF Next, Cancel, Unregister

\* The heap implements the timer queue, for any number of nodes: whatever the
\* shape of the array, the node that kcpmux_timer_collect_due takes is the
\* earliest in (deadline_ms, insertion_sequence) of all armed ones, and the
\* other operations change the set of armed nodes and the due list as the
\* queue says.
THEOREM QueueRefinement == Spec => ImplementsQueue
<1>1. Init => Queue!QInit
  BY DEF Init, Queue!QInit
<1>2. IndInv /\ [Next]_vars => [Queue!QNext]_(Queue!qvars)
  BY QueueStep
<1>. QED
  BY <1>1, <1>2, Invariance, PTL DEF Spec, ImplementsQueue, Queue!QSpec
=============================================================================
