--------------------------- MODULE MCTaskCompletion ---------------------------
(* Instances for TLC: of TaskCompletion, and of Generator.  They share       *)
(* nothing: the task is explored beside one generator that is left alone,    *)
(* and the generators beside one task that nobody touches, about which the  *)
(* fairness of the task then says nothing.                                  *)
EXTENDS TaskCompletion, Generator

CONSTANTS c1, c2, c3, a1, g1

Kinds == [c \in Callbacks |-> CASE c = c1 -> "then" [] c = c2 -> "catching" [] OTHER -> "finally"]

\* Predicates are the sets they hold for; f of map throws for 3.
Values == {1, 2, 3}
SomeOperations ==
  {[name |-> "take", n |-> n] : n \in 0 .. 2} \cup
  {[name |-> "take_while", f |-> {1, 2}], [name |-> "map", f |-> <<2, 3>>],
   [name |-> "flat_map", f |-> << <<>>, <<2>>, <<3, 1>> >>]}
MCSources == BoundedSeq(Values, 3)
MCPipelines == BoundedSeq(SomeOperations, 2)

NoGenerator == Len(pipe) = 1 /\ pipe[1] = Stage([name |-> "from", list |-> <<>>])
NoTask == Init /\ flavour = "value"

MCInit == Init /\ GenInit /\ (NoGenerator \/ NoTask)
MCNext ==
  \/ NoGenerator /\ Next /\ UNCHANGED genVars
  \/ NoTask /\ GenNext /\ UNCHANGED vars
MCSpec == MCInit /\ [][MCNext]_<<vars, genVars>> /\ WF_vars(~Terminated /\ Step)
===============================================================================
