------------------------- MODULE DistrThreadedExecutor -------------------------
(***************************************************************************)
(* DistrThreadedExecutor::alloc_exe: nodes are layered along their topics,  *)
(* layer l goes to nodelet l % number_of_nodelet_, and the threads are      *)
(* shared out by the number of nodes of each nodelet.                       *)
(*                                                                         *)
(* A graph is a sequence of nodes in the order of add_node, each with the   *)
(* sets sub and pub of the topics in get_sub_names() and get_pub_names().   *)
(* Nodes and nodelets are counted from 0, as the code does.                 *)
(***************************************************************************)
EXTENDS Integers, Sequences, FiniteSets, FiniteSetsExt

CONSTANT HardwareThreads  \* std::thread::hardware_concurrency()

ASSUME HardwareAssumption == HardwareThreads \in Nat

\* number_of_threads_ of an executor that is asked for n threads.
NumberOfThreads(n) == IF n > 0 THEN n ELSE IF HardwareThreads > 0 THEN HardwareThreads ELSE 1

\* The constructor: several nodelets only if there are more threads than nodelets.
Nodelets(threads, nodelets) == IF threads > nodelets THEN nodelets ELSE 1

Nodes(g) == 0 .. Len(g) - 1
Edge(g, i, j) == g[i + 1].pub \cap g[j + 1].sub # {}

(***************************************************************************)
(* The loop over node_list_ pushes two entries per node: a 0, and 0 or -1.  *)
(* Node i reads entry i, which belongs to node i / 2.                       *)
(***************************************************************************)
InitialLayers(g) ==
  [i \in Nodes(g) |->
    IF i % 2 = 0 \/ g[(i - 1) \div 2 + 1].sub = {} THEN 0 ELSE -1]

\* The nodes that hear from node i and are not above it.
TooLow(g, layer, i) == {j \in Nodes(g) : Edge(g, i, j) /\ layer[j] < layer[i] + 1}

\* Mutant: only the first of them is raised.
RaiseAbove_FirstOnly(g, layer, i) ==
  LET low == TooLow(g, layer, i)
  IN  IF layer[i] >= 0 /\ low # {} /\ \A k \in Nodes(g) : Edge(g, i, k) => Min(low) <= k
      THEN [layer EXCEPT ![Min(low)] =
              layer[i] + 1]
      ELSE layer

\* The matching of node i's publishers: the nodes that hear from it are raised above it.
RaiseAbove(g, layer, i) ==
  LET cur == layer[i]
      low == TooLow(g, layer, i)
  IN  IF cur >= 0 THEN [j \in Nodes(g) |-> IF j \in low THEN cur + 1 ELSE layer[j]] ELSE layer

\* One turn: every node in the order of node_list_.
Turn(g, layer) ==
  LET upto[i \in 0 .. Len(g)] == IF i = 0 THEN layer ELSE RaiseAbove(g, upto[i - 1], i - 1)
  IN  upto[Len(g)]

\* while (run_continue): until a turn changes nothing, which is after at most as many turns
\* as there are nodes.  With a cycle of topics it never ends.
Relax(g, layer) ==
  LET turned[k \in 0 .. Len(g)] == IF k = 0 THEN layer ELSE Turn(g, turned[k - 1])
      ended == CHOOSE k \in 0 .. Len(g) : Turn(g, turned[k]) = turned[k]
  IN  turned[ended]

Layers(g) == Relax(g, InitialLayers(g))

\* Mutant: the layer is not converted, and -1 is no index of a nodelet.
NodeletOf_Signed(layer, nodelets) == IF layer >= 0 THEN layer % nodelets ELSE -1

\* The layer is converted to a size_t of 64 bits: -1 becomes 2^64 - 1.
NodeletOf(layer, nodelets) ==
  LET squared(x) == (x * x) % nodelets
  IN  IF layer >= 0 THEN layer % nodelets
      ELSE (squared(squared(2^16 % nodelets)) + nodelets - 1) % nodelets

\* th_num_per_nodelet before the rest is dealt out.
Share(layer, threads, nodelets) ==
  [i \in 0 .. nodelets - 1 |->
    (Cardinality({k \in DOMAIN layer : NodeletOf(layer[k], nodelets) = i}) * nodelets)
      \div threads]

\* thread_num, over the nodelets.
SumOf(f, nodelets) ==
  LET sum[i \in 0 .. nodelets] == IF i = 0 THEN 0 ELSE sum[i - 1] + f[i - 1]
  IN  sum[nodelets]

\* The rest goes round, one thread to a nodelet at a time.  (It is a size_t: the code
\* never ends when the shares already exceed the threads.)
ThreadsOf(layer, threads, nodelets) ==
  LET share == Share(layer, threads, nodelets)
      rest  == threads - SumOf(share, nodelets)
  IN  [i \in DOMAIN share |-> share[i] + (rest + nodelets - 1 - i) \div nodelets]

\* The threads each ExecutorNodelet has: one that is dealt none takes those of the hardware.
Started(layer, threads, nodelets) ==
  LET dealt == ThreadsOf(layer, threads, nodelets)
  IN  [i \in DOMAIN dealt |-> NumberOfThreads(dealt[i])]

(***************************************************************************)
(* The reference: the length of the longest path from a node that starts    *)
(* on layer 0.  A node no such path reaches keeps its initial entry.        *)
(***************************************************************************)
Heard(g, from) == {j \in Nodes(g) : \E i \in from : Edge(g, i, j)}

Reaches(g, d) ==
  LET reach[k \in 0 .. Len(g)] ==
        IF k = 0 THEN {i \in Nodes(g) : InitialLayers(g)[i] = 0} ELSE Heard(g, reach[k - 1])
  IN  reach[d]

Depth(g, j) == Max({-1} \cup {d \in 0 .. Len(g) : j \in Reaches(g, d)})

\* The graph has no cycle of topics: no walk is as long as the list of nodes.
Acyclic(g) ==
  LET walk[k \in 0 .. Len(g)] == IF k = 0 THEN Nodes(g) ELSE Heard(g, walk[k - 1])
  IN  walk[Len(g)] = {}
================================================================================
