--------------------------- MODULE MCIntraProcess ---------------------------
(* Instances of IntraProcess for TLC.                                       *)
EXTENDS IntraProcess

CONSTANTS p1, s1, s2, m1, m2, t1, t2
Symmetry == Permutations(Messages) \cup Permutations(Takers)
Kinds == [s \in Subs |-> IF s = s1 THEN "const_shared_ptr" ELSE "shared_ptr"]
OnePub == [m \in Messages |-> p1]
==============================================================================
