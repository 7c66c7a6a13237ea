------------------------------ MODULE MCContext ------------------------------
(* Instances of Context for TLC.                                            *)
EXTENDS Context

CONSTANTS c1, c2, t1, s1, k1
OfDefault == [k \in Callbacks |-> DefaultContext]
==============================================================================
