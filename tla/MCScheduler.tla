----------------------------- MODULE MCScheduler -----------------------------
(* Instances of Scheduler for TLC: which call has which delay.              *)
EXTENDS Scheduler

CONSTANTS i1, i2, i3

\* A long sleep, a negative one and a short one: with the first two or the
\* first and the last, a shorter sleep is pushed while a longer is waited for.
Unequal == [i \in Items |-> CASE i = i1 -> 3 [] i = i2 -> -1 [] OTHER -> 1]
==============================================================================
