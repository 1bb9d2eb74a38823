---------------------------- MODULE MCEngineLoop ----------------------------
(* Instances of EngineLoop for TLC. *)
EXTENDS EngineLoop, TLC

CONSTANTS c1, s1, s2

(* One connection with two streams.                                            *)
OneWithTwo == (s1 :> c1) @@ (s2 :> c1)
=============================================================================
