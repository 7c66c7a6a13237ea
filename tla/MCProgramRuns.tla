---------------------------- MODULE MCProgramRuns ----------------------------
(* ProgramRuns for TLC. *)
EXTENDS ProgramRuns

\* Four nodes with at most one subscription and one publisher each, without a cycle.
AtMostOne == {{}, {"a"}, {"b"}}
SmallGraphs ==
  {g \in [1 .. 4 -> [sub : AtMostOne, pub : AtMostOne]] : Acyclic(g)}
\* More threads than nodelets, and the threads of the hardware for three nodelets.
SmallSizes == {<<3, 2>>, <<0, 3>>}
AllPrograms == DOMAIN Main \cup {"registry", "graphs"}
OneNode == {<<1, 1>>}
==============================================================================
