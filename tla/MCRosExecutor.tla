---------------------------- MODULE MCRosExecutor ----------------------------
(* Instances of RosExecutor for TLC: who belongs to which callback group.   *)
EXTENDS RosExecutor, TLC

CONSTANTS t1, t2, s1, s2, x1, v1, k1, w1, g1, g2, c1, c2, c3

\* Everything in one mutually exclusive group.
OneGroup == [e \in Entities |-> g1]

\* Subscriptions, services and clients in g1; timers and waitables in g2.
TimersApart == [e \in Entities |-> IF e \in Timers \cup Waitables THEN g2 ELSE g1]

Symmetry == Permutations(Threads) \cup Permutations(Coros)
==============================================================================
