----------------------------- MODULE MCStreamPair -----------------------------
(* Instances of StreamPair for TLC.                                            *)
EXTENDS StreamPair

TwoOut == [e \in Ends |-> IF e = "A" THEN 2 ELSE 1]
NoneOrTwo == {0, 2}
=============================================================================
