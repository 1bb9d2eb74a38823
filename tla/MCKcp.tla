-------------------------------- MODULE MCKcp --------------------------------
(* Values of the constants of Kcp for model checking. *)
EXTENDS Kcp

CONSTANTS a, b        \* the two ends of a stream

OneWay == [p \in {a, b} |-> IF p = a THEN 3 ELSE 0]
=============================================================================
