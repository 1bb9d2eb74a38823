------------------------------- MODULE HashMap -------------------------------
(* What kcpmux_hashtable.c promises the engine and the connections that index    *)
(* their objects with it: at most one node per key, the first one added wins, a   *)
(* node leaves only when it is deleted itself or through its key, and the answer  *)
(* of every call agrees.                                                          *)
EXTENDS FiniteSets

CONSTANTS Nodes, KeyOf, None

Keys == {KeyOf[n] : n \in Nodes}

VARIABLES held,   \* held[k]: the node found under key k, or None
          answer  \* what the last call returned, None for void calls

Init == held = [k \in Keys |-> None] /\ answer = None

Add(n) ==
  /\ held' = [held EXCEPT ![KeyOf[n]] = IF @ = None THEN n ELSE @]
  /\ answer' = None

Find(k) == answer' = held[k] /\ UNCHANGED held

Del(n) ==
  /\ held' = [held EXCEPT ![KeyOf[n]] = IF @ = n THEN None ELSE @]
  /\ answer' = None

DelByKey(k) == held' = [held EXCEPT ![k] = None] /\ answer' = None

Num == answer' = Cardinality({k \in Keys : held[k] # None}) /\ UNCHANGED held

Flush == held' = [k \in Keys |-> None] /\ answer' = None

Next ==
  \/ \E n \in Nodes : Add(n) \/ Del(n)
  \/ \E k \in Keys : Find(k) \/ DelByKey(k)
  \/ Num \/ Flush

Spec == Init /\ [][Next]_<<held, answer>>
=============================================================================
