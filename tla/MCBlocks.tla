------------------------------- MODULE MCBlocks -------------------------------
(* Small instances of four self-contained parts, for TLC: the timer heap, the hash *)
(* table, the send path and the stream ids.  They share no state; an initial state  *)
(* picks one of them and the others stay as they are.                               *)
EXTENDS StreamIds, TimerHeap, HashTable, SendPath, TLC

CONSTANTS MaxTime, h1, h2, h3, h4, h5, MaxFragments, MaxLength

VARIABLE block

Seqs == INSTANCE SequencesExt

(* Enough for the acceptor to use up its ids and to go round the ring.               *)
FiveAndTwo == [e \in Ends |-> IF e = "acceptor" THEN 5 ELSE 2]

MCTimes == 0 .. MaxTime

(* Two nodes with one key, and three keys of one bucket, the fourth alone.          *)
MCHashNodes == {h1, h2, h3, h4, h5}
MCKeyOf == h1 :> "a" @@ h2 :> "a" @@ h3 :> "b" @@ h4 :> "c" @@ h5 :> "d"
MCHash == [a |-> 0, b |-> 2, c |-> 1, d |-> 4]

(* All vectors of up to MaxFragments fragments of up to MaxLength bytes.             *)
MCVectors ==
  {[i \in DOMAIN lens |-> Seqs!FoldLeft(+, 0, SubSeq(lens, 1, i))] :
     lens \in Seqs!BoundedSeq(0..MaxLength, MaxFragments)}

BlocksInit ==
  /\ block \in {"ids", "heap", "table", "path"}
  /\ Init /\ HtbInit /\ PathInit
  /\ IdsInit /\ (block # "ids" => next["acceptor"] = 2)

BlocksNext ==
  \/ block = "ids" /\ IdsNext /\ UNCHANGED <<block, vars, htbVars, call>>
  \/ block = "heap" /\ Next /\ UNCHANGED <<block, idVars, htbVars, call>>
  \/ block = "table" /\ HtbNext /\ UNCHANGED <<block, idVars, vars, call>>
  \/ block = "path" /\ PathNext /\ UNCHANGED <<block, idVars, vars, htbVars>>

BlocksSpec == BlocksInit /\ [][BlocksNext]_<<block, idVars, vars, htbVars, call>>
=============================================================================
