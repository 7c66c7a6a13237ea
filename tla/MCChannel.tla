------------------------------ MODULE MCChannel ------------------------------
(* Instances of Channel for TLC.                                            *)
EXTENDS Channel

CONSTANTS w1, w2, r1, r2
==============================================================================
