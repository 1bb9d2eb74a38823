------------------------------ MODULE HashTable ------------------------------
(* The chained hash table of kcpmux_hashtable.c on the intrusive doubly linked    *)
(* lists of kcpmux_list.h, pointer by pointer and one step per iteration of a      *)
(* loop.  The engine keeps two of them (connections by local id, passive           *)
(* handshakes by peer id), every connection one (streams by id).  A node is        *)
(* list_init'ed by its owner before its first use, and the owner's in_engine_map   *)
(* or in_stream_map keeps it from being added while it is in the table.            *)
(* The hash function is a parameter; cb_free of the library's tables does nothing. *)
EXTENDS Integers, FiniteSets

CONSTANTS HashNodes,  \* list_head members of the indexed objects
          KeyOf,      \* KeyOf[n]: the key cb_cmp compares
          Hash,       \* Hash[k]: kcpmux_hash32 of a key
          Size,       \* number of buckets
          None

Heads == 0..(Size - 1)
Cells == HashNodes \cup Heads
Keys == {KeyOf[n] : n \in HashNodes}
Bucket(k) == Hash[k] % Size

ASSUME HashAssumption ==
  /\ Size \in Nat \ {0}
  /\ HashNodes \cap Heads = {} /\ None \notin HashNodes
  /\ \A n \in HashNodes : Hash[KeyOf[n]] \in Nat

VARIABLES links,   \* the next and prev pointers of nodes and bucket heads
          num,     \* ht->num
          answer,  \* what the last call found or counted, None for the others
          scan     \* the function whose loop runs, with its arguments and cursors

htbVars == <<links, num, answer, scan>>

NoScan == [fn |-> "none", key |-> None, node |-> None, i |-> 0, p |-> None, t |-> None]

-----------------------------------------------------------------------------
(* kcpmux_list.h                                                               *)

ListInit == [c \in Cells |-> c]
ListEmpty(l, c) == l.next[c] = c

(* __list_add of n between p and q.                                               *)
ListAdd(l, n, p, q) ==
  [next |-> [l.next EXCEPT ![n] = q, ![p] = n],
   prev |-> [l.prev EXCEPT ![q] = n, ![n] = p]]

ListAddHead(l, n, h) == ListAdd(l, n, h, l.next[h])
ListAddTail(l, n, h) == ListAdd(l, n, l.prev[h], h)

(* Mutant: the entry keeps its own pointers.                                      *)
ListDelKeepsOwn(l, n) ==
  [next |-> [l.next EXCEPT ![l.prev[n]] = l.next[n]],
   prev |-> [l.prev EXCEPT ![l.next[n]] = l.prev[n]]]
(* list_del: the neighbours are joined, the entry points to itself.               *)
ListDel(l, n) ==
  [next |-> [l.next EXCEPT ![l.prev[n]] = l.next[n], ![n] = n],
   prev |-> [l.prev EXCEPT ![l.next[n]] = l.prev[n], ![n] = n]]

ListMoveTail(l, n, h) == ListAddTail(ListDel(l, n), n, h)

-----------------------------------------------------------------------------
(* kcpmux_hashtable.c                                                          *)

(* kcpmux_htb_new *)
HtbInit ==
  /\ links = [next |-> ListInit, prev |-> ListInit]
  /\ num = 0 /\ answer = None /\ scan = NoScan

(* kcpmux_htb_find_lru goes backwards, the others forwards.                         *)
Toward(fn) == IF fn = "find_lru" THEN links.prev ELSE links.next

(* The loop of the function fn for key k begins at the head of the bucket.            *)
Search(fn, k, n) ==
  /\ scan = NoScan
  /\ scan' = [NoScan EXCEPT !.fn = fn, !.key = k, !.node = n, !.p = Toward(fn)[Bucket(k)]]
  /\ UNCHANGED <<links, num, answer>>

Searching == scan.fn \in {"find", "find_lru", "add", "del_by_key"}
AtHead == scan.p = Bucket(scan.key)
Hit == ~AtHead /\ KeyOf[scan.p] = scan.key   \* cb_cmp

NextEntry ==
  /\ Searching /\ ~AtHead /\ ~Hit
  /\ scan' = [scan EXCEPT !.p = Toward(scan.fn)[scan.p]]
  /\ UNCHANGED <<links, num, answer>>

(* The loop of fn ends: cb_cmp says yes, or the head comes round again.                *)
LoopEnds(fn) ==
  /\ scan.fn = fn /\ (AtHead \/ Hit)
  /\ scan' = NoScan
Found == IF AtHead THEN None ELSE scan.p

Find ==
  /\ LoopEnds("find")
  /\ answer' = Found
  /\ UNCHANGED <<links, num>>

(* What kcpmux_htb_find_lru finds moves to the tail.                                  *)
FindLru ==
  /\ LoopEnds("find_lru")
  /\ answer' = Found
  /\ links' = IF AtHead THEN links ELSE ListMoveTail(links, scan.p, Bucket(scan.key))
  /\ UNCHANGED num

(* kcpmux_htb_add ignores a node whose key is there.                                  *)
Add ==
  /\ LoopEnds("add")
  /\ links' = IF AtHead THEN ListAddHead(links, scan.node, Bucket(scan.key)) ELSE links
  /\ num' = IF AtHead THEN num + 1 ELSE num
  /\ answer' = None

(* kcpmux_htb_add_direct, for a key its caller knows to be absent.                    *)
Linked(n) == ~ListEmpty(links, n)
AddDirect(n) ==
  /\ scan = NoScan /\ ~Linked(n)
  /\ \A m \in HashNodes : Linked(m) => KeyOf[m] # KeyOf[n]
  /\ links' = ListAddHead(links, n, Bucket(KeyOf[n]))
  /\ num' = num + 1
  /\ answer' = None
  /\ UNCHANGED scan

(* Removal of n, kcpmux_htb_del, also of a node that is in no list.                   *)
Removal(n) ==
  /\ links' = IF ListEmpty(links, n) THEN links ELSE ListDel(links, n)
  /\ num' = IF ListEmpty(links, n) THEN num ELSE num - 1
  /\ answer' = None

Del(n) == scan = NoScan /\ Removal(n) /\ UNCHANGED scan

DelByKey ==
  /\ LoopEnds("del_by_key")
  /\ IF AtHead THEN answer' = None /\ UNCHANGED <<links, num>> ELSE Removal(scan.p)

Num == scan = NoScan /\ answer' = num /\ UNCHANGED <<links, num, scan>>

(* kcpmux_htb_flush deletes node after node, bucket after bucket; the cursor t is       *)
(* read before the node it is read from is deleted.                                     *)
FlushAt(l, i) ==
  [fn |-> "flush", key |-> None, node |-> None,
   i |-> i, p |-> l.next[i], t |-> l.next[l.next[i]]]

Flush ==
  /\ scan = NoScan
  /\ scan' = FlushAt(links, 0)
  /\ answer' = None
  /\ UNCHANGED <<links, num>>

FlushEntry ==
  /\ scan.fn = "flush" /\ scan.p # scan.i
  /\ links' = ListDel(links, scan.p)
  /\ scan' = [scan EXCEPT !.p = scan.t, !.t = links'.next[scan.t]]
  /\ UNCHANGED <<num, answer>>

FlushBucket ==
  /\ scan.fn = "flush" /\ scan.p = scan.i
  /\ IF scan.i + 1 < Size THEN scan' = FlushAt(links, scan.i + 1) /\ num' = num
     ELSE scan' = NoScan /\ num' = 0
  /\ UNCHANGED <<links, answer>>

HtbNext ==
  \/ \E n \in HashNodes :
       \/ ~Linked(n) /\ Search("add", KeyOf[n], n)
       \/ AddDirect(n) \/ Del(n)
  \/ \E k \in Keys, fn \in {"find", "find_lru", "del_by_key"} : Search(fn, k, None)
  \/ NextEntry \/ Find \/ FindLru \/ Add \/ DelByKey
  \/ Num \/ Flush \/ FlushEntry \/ FlushBucket

HtbSpec == HtbInit /\ [][HtbNext]_htbVars

-----------------------------------------------------------------------------
(* The node in the table under key k.  A flush has emptied the map when it begins.      *)
Holders(l, k) == {n \in HashNodes : ~ListEmpty(l, n) /\ KeyOf[n] = k}
Holder(l, k) == IF Holders(l, k) = {} THEN None ELSE CHOOSE n \in Holders(l, k) : TRUE
Held == [k \in Keys |-> IF scan.fn = "flush" THEN None ELSE Holder(links, k)]

Map == INSTANCE HashMap WITH Nodes <- HashNodes, held <- Held

(* The table is a map: every answer of find, find_lru and num is the map's, with     *)
(* colliding keys in one list, nodes reordered by find_lru, duplicates that were      *)
(* ignored and are deleted later, and nodes deleted twice or added again; the loop    *)
(* of a search misses no node, and that of a flush leaves none.                       *)
ImplementsMap == Map!Spec
=============================================================================
