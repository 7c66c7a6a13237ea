--------------------------- MODULE MCGraphListener ---------------------------
(* Instances of GraphListener for TLC.                                      *)
EXTENDS GraphListener

CONSTANTS n1, n2, u1, u2
==============================================================================
