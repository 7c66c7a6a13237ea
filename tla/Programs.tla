------------------------------- MODULE Programs -------------------------------
(***************************************************************************)
(* The programs of the repository: the experiments under exp/src and the    *)
(* examples under cb_grp_example/src.                                       *)
(*                                                                         *)
(* Each program defines node classes, builds nodes and executors, adds the  *)
(* nodes, spins, removes the nodes and shuts down.  A node is a pair <<c,k>>*)
(* : c1_timer is <<1, 0>>, c1_r_cb_3 is <<1, 3>>, c1_r_cb_a is <<1, 10>>.   *)
(* exec1 is executor 1.  A class is what its callback does, step by step:   *)
(*   "work"     time passes while the thread is kept                        *)
(*   "await"    co_await of a sleep: the thread is given back               *)
(*   "launch"   a kernel is launched; awaited only after the record phase   *)
(*   "sync"     cudaStreamSynchronize, and the tuner takes the measurement  *)
(*   "publish"  publisher_->publish, if the node has a publisher            *)
(* The text of messages, printing and time stamps are left out.             *)
(***************************************************************************)
EXTENDS Integers, Sequences, SequencesExt

\* A node with a timer and a publisher; a node with a subscription, bound to its
\* co_callback if it is created with use_coroutine and to its callback otherwise.
Start(pub, timer_callback) == [sub |-> "", depth |-> 0, pub |-> pub, body |-> timer_callback]
Intermediate(sub, depth, pub, use_co, callback, co_callback) ==
  [sub |-> sub, depth |-> depth, pub |-> pub,
   body |-> IF use_co THEN co_callback ELSE callback]

Op(op, exec, node) == [op |-> op, exec |-> exec, node |-> node]
Nobody == <<0, 0>>
Names(c, first, last) == [i \in 1 .. last - first + 1 |-> <<c, first + i - 1>>]
AddAll(e, ns)    == [i \in DOMAIN ns |-> Op("add", e, ns[i])]
RemoveAll(e, ns) == [i \in DOMAIN ns |-> Op("remove", e, ns[i])]
Spin(e)   == <<Op("spin", e, Nobody)>>
Spawn(e)  == <<Op("spawn", e, Nobody)>>      \* std::thread(run_exe, &exec)
Join(e)   == <<Op("join", e, Nobody)>>
Calibrate == <<Op("calibrate", 0, Nobody)>>  \* the warm-up loop of main
Shutdown  == <<Op("shutdown", 0, Nobody)>>

Prog(kind, nodes, threads, script) ==
  [kind |-> kind, nodes |-> nodes, threads |-> threads, nodelets |-> 0,
   tuner |-> "none", script |-> script]

-------------------------------------------------------------------------------
(* exp1_co_multiexe and exp6_co_multiexe: three chains, two of them on the GPU *)

exp1_dummy_load == <<"work">>
exp1_StartNode(pub_topic) == Start(pub_topic, exp1_dummy_load \o <<"publish">>)
exp1_IntermediateNodeCPU(sub_topic, pub_topic, use_co) ==
  Intermediate(sub_topic, 1, pub_topic, use_co, <<"work", "publish">>, <<"await", "publish">>)
exp1_GpuCallback == <<"work", "publish">>
exp1_GpuCoCallback == <<"launch", "sync", "publish">>
exp1_IntermediateNodeGPU(sub_topic, pub_topic, use_co) ==
  Intermediate(sub_topic, 10, pub_topic, use_co, exp1_GpuCallback, exp1_GpuCoCallback)

exp1_Nodes ==
  [n \in {<<1, k>> : k \in 0 .. 7} \cup {<<2, k>> : k \in 0 .. 2} \cup {<<3, k>> : k \in 0 .. 1} |->
    CASE n = <<1, 0>> -> exp1_StartNode("c1")
      [] n = <<1, 1>> -> exp1_IntermediateNodeGPU("c1", "", TRUE)
      [] n[1] = 1 /\ n[2] > 1 -> exp1_IntermediateNodeCPU("c1", "", FALSE)
      [] n = <<2, 0>> -> exp1_StartNode("c21")
      [] n = <<2, 1>> -> exp1_IntermediateNodeCPU("c21", "c22", FALSE)
      [] n = <<2, 2>> -> exp1_IntermediateNodeCPU("c22", "", TRUE)
      [] n = <<3, 0>> -> exp1_StartNode("c3")
      [] n = <<3, 1>> -> exp1_IntermediateNodeGPU("c3", "", TRUE)]

exp1_main ==
  LET ns == Names(1, 0, 7) \o Names(2, 0, 2) \o Names(3, 0, 1)
  IN  [Prog("nodelet", exp1_Nodes, <<5>>,
            AddAll(1, ns) \o Spin(1) \o RemoveAll(1, ns) \o Shutdown)
       EXCEPT !.tuner = "exp1"]

exp6_dummy_load == <<"work">>
exp6_StartNode(pub_topic) == Start(pub_topic, exp6_dummy_load \o <<"publish">>)
exp6_IntermediateNodeCPU(sub_topic, pub_topic, use_co) ==
  Intermediate(sub_topic, 1, pub_topic, use_co, <<"work", "publish">>, <<"await", "publish">>)
exp6_GpuCallback == <<"work", "publish">>
exp6_GpuCoCallback == <<"launch", "sync", "publish">>
exp6_IntermediateNodeGPU(sub_topic, pub_topic, use_co) ==
  Intermediate(sub_topic, 10, pub_topic, use_co, exp6_GpuCallback, exp6_GpuCoCallback)

exp6_Nodes ==
  [n \in DOMAIN exp1_Nodes |->
    CASE n = <<1, 0>> -> exp6_StartNode("c1")
      [] n = <<1, 1>> -> exp6_IntermediateNodeGPU("c1", "", TRUE)
      [] n[1] = 1 /\ n[2] > 1 -> exp6_IntermediateNodeCPU("c1", "", FALSE)
      [] n = <<2, 0>> -> exp6_StartNode("c21")
      [] n = <<2, 1>> -> exp6_IntermediateNodeCPU("c21", "c22", FALSE)
      [] n = <<2, 2>> -> exp6_IntermediateNodeCPU("c22", "", TRUE)
      [] n = <<3, 0>> -> exp6_StartNode("c3")
      [] n = <<3, 1>> -> exp6_IntermediateNodeGPU("c3", "", TRUE)]

\* exec2 has 5 - 3 threads and is spun by th2.
exp6_main ==
  LET first  == Names(1, 0, 4)
      second == Names(1, 5, 7)
      third  == <<<<2, 2>>>> \o Names(3, 0, 1)
  IN  [Prog("nodelet", exp6_Nodes, <<5, 2>>,
            AddAll(1, first) \o AddAll(2, second) \o AddAll(1, Names(2, 0, 1))
              \o AddAll(2, third) \o Spawn(2) \o Spin(1) \o Join(2)
              \o RemoveAll(1, first) \o RemoveAll(2, second)
              \o RemoveAll(1, Names(2, 0, 1)) \o RemoveAll(2, third) \o Shutdown)
       EXCEPT !.tuner = "exp6"]

-------------------------------------------------------------------------------
(* exp2_gpu_pgo: one GPU node and six CPU nodes behind one timer *)

exp2_dummy_load == <<"work">>
exp2_StartNode(pub_topic) == Start(pub_topic, exp2_dummy_load \o <<"publish">>)
exp2_IntermediateNodeCPU(sub_topic, pub_topic) ==
  Intermediate(sub_topic, 1, pub_topic, FALSE, <<"work", "publish">>, <<>>)
exp2_GpuCallback == <<"work", "publish">>
exp2_GpuCoCallback == <<"launch", "sync", "publish">>
exp2_IntermediateNodeGPU(sub_topic, pub_topic) ==
  Intermediate(sub_topic, 10, pub_topic, TRUE, exp2_GpuCallback, exp2_GpuCoCallback)

exp2_main ==
  LET ns == Names(1, 0, 7)
      nodes == [n \in ToSet(ns) |->
                 CASE n[2] = 0 -> exp2_StartNode("c1")
                   [] n[2] = 1 -> exp2_IntermediateNodeGPU("c1", "")
                   [] n[2] > 1 -> exp2_IntermediateNodeCPU("c1", "")]
  IN  [Prog("nodelet", nodes, <<5>>,
            AddAll(1, ns) \o Spin(1) \o RemoveAll(1, ns) \o Shutdown)
       EXCEPT !.tuner = "exp2"]

-------------------------------------------------------------------------------
(* exp0_[co_]interexe and exp0_[co_]intraexe: three timers with ten subscribers *)
(* each, on four executors or on one, with coroutines or without               *)

exp0_interexe_dummy_load == <<"work">>
exp0_interexe_dummy_load_sleep == <<"work">>
exp0_interexe_StartNode(pub_topic) == Start(pub_topic, exp0_interexe_dummy_load \o <<"publish">>)
exp0_interexe_IntermediateNode(sub_topic, pub_topic) ==
  Intermediate(sub_topic, 1, pub_topic, FALSE, exp0_interexe_dummy_load_sleep \o <<"publish">>,
               <<"await", "publish">>)

exp0_co_interexe_dummy_load == <<"work">>
exp0_co_interexe_dummy_load_sleep == <<"work">>
exp0_co_interexe_StartNode(pub_topic) ==
  Start(pub_topic, exp0_co_interexe_dummy_load \o <<"publish">>)
exp0_co_interexe_IntermediateNode(sub_topic, pub_topic) ==
  Intermediate(sub_topic, 1, pub_topic, TRUE, exp0_co_interexe_dummy_load_sleep \o <<"publish">>,
               <<"await", "publish">>)

exp0_intraexe_dummy_load == <<"work">>
exp0_intraexe_dummy_load_sleep == <<"work">>
exp0_intraexe_StartNode(pub_topic) == Start(pub_topic, exp0_intraexe_dummy_load \o <<"publish">>)
exp0_intraexe_IntermediateNode(sub_topic, pub_topic) ==
  Intermediate(sub_topic, 1, pub_topic, FALSE, exp0_intraexe_dummy_load_sleep \o <<"publish">>,
               <<"await", "publish">>)

exp0_co_intraexe_dummy_load == <<"work">>
exp0_co_intraexe_dummy_load_sleep == <<"work">>
exp0_co_intraexe_StartNode(pub_topic) ==
  Start(pub_topic, exp0_co_intraexe_dummy_load \o <<"publish">>)
exp0_co_intraexe_IntermediateNode(sub_topic, pub_topic) ==
  Intermediate(sub_topic, 1, pub_topic, TRUE, exp0_co_intraexe_dummy_load_sleep \o <<"publish">>,
               <<"await", "publish">>)

Topic(c) == <<"c1", "c2", "c3">>[c]
Chains(start(_), regular(_, _)) ==
  [n \in (1 .. 3) \X (0 .. 10) |->
    IF n[2] = 0 THEN start(Topic(n[1])) ELSE regular(Topic(n[1]), "")]

exp0_interexe_Nodes == Chains(exp0_interexe_StartNode, exp0_interexe_IntermediateNode)
exp0_co_interexe_Nodes == Chains(exp0_co_interexe_StartNode, exp0_co_interexe_IntermediateNode)
exp0_intraexe_Nodes == Chains(exp0_intraexe_StartNode, exp0_intraexe_IntermediateNode)
exp0_co_intraexe_Nodes == Chains(exp0_co_intraexe_StartNode, exp0_co_intraexe_IntermediateNode)

\* A chain starts on the executor of its number and moves on after the timer and one
\* subscriber, and then after three subscribers each.
Placed(op) ==
  [i \in 1 .. 33 |->
    LET c == (i - 1) \div 11
        k == (i - 1) % 11
    IN  Op(op, 1 + ((c + (k + 1) \div 3) % 4), <<c + 1, k>>)]

exp0_interexe_Allocation == Placed("add")
exp0_co_interexe_Allocation == Placed("add")

\* The threads spin exec2 to exec4 and main exec1; once all are joined main spins each again.
SpinFourTwice ==
  Spawn(2) \o Spawn(3) \o Spawn(4) \o Spin(1) \o Join(2) \o Join(3) \o Join(4)
    \o Spin(1) \o Spin(2) \o Spin(3) \o Spin(4) \o Placed("remove") \o Shutdown

exp0_interexe_main ==
  Prog("nodelet", exp0_interexe_Nodes, <<3, 4, 4, 4>>, exp0_interexe_Allocation \o SpinFourTwice)
exp0_co_interexe_main ==
  Prog("nodelet", exp0_co_interexe_Nodes, <<3, 4, 4, 4>>,
       exp0_co_interexe_Allocation \o SpinFourTwice)

\* One executor of 15 threads; the subscribers 8 to a are added, and removed, last.
AllOnOne(nodes) ==
  LET ns == Names(1, 0, 7) \o Names(2, 0, 7) \o Names(3, 0, 7)
              \o Names(1, 8, 10) \o Names(2, 8, 10) \o Names(3, 8, 10)
  IN  Prog("nodelet", nodes, <<15>>,
           AddAll(1, ns) \o Spin(1) \o RemoveAll(1, ns) \o Shutdown)

exp0_intraexe_main == AllOnOne(exp0_intraexe_Nodes)
exp0_co_intraexe_main == AllOnOne(exp0_co_intraexe_Nodes)

-------------------------------------------------------------------------------
(* exp0_multicast: a tree of topics on a DistrThreadedExecutor with one nodelet *)

exp0_multicast_dummy_load == <<"work">>
exp0_multicast_dummy_load_sleep == <<"work">>
exp0_multicast_StartNode(pub_topic) ==
  Start(pub_topic, exp0_multicast_dummy_load \o <<"publish">>)
exp0_multicast_IntermediateNode(sub_topic, pub_topic) ==
  Intermediate(sub_topic, 1, pub_topic, FALSE, exp0_multicast_dummy_load_sleep \o <<"publish">>,
               <<"await", "publish">>)

exp0_multicast_main ==
  LET first  == Names(1, 0, 5)
      second == Names(2, 1, 6)
      sub == <<"tc2", "tc21", "tc2", "tc22", "tc2", "tc23">>
      pub == <<"tc21", "", "tc22", "", "tc23", "">>
      nodes == [n \in ToSet(first \o second) |->
                 CASE n = <<1, 0>> -> exp0_multicast_StartNode("tc1")
                   [] n = <<1, 5>> -> exp0_multicast_IntermediateNode("tc1", "tc2")
                   [] n[1] = 1 /\ n[2] \in 1 .. 4 -> exp0_multicast_IntermediateNode("tc1", "")
                   [] n[1] = 2 -> exp0_multicast_IntermediateNode(sub[n[2]], pub[n[2]])]
  IN  [Prog("distr", nodes, <<16>>,
            AddAll(0, first \o second) \o Spin(0) \o RemoveAll(0, first \o second) \o Shutdown)
       EXCEPT !.nodelets = 1]

-------------------------------------------------------------------------------
(* exp0_cuda_cpu and exp0_cuda_gpu: one timer and one coroutine subscriber *)

exp0_cuda_cpu_dummy_load == <<"work">>
exp0_cuda_cpu_StartNode(pub_topic) == Start(pub_topic, exp0_cuda_cpu_dummy_load \o <<"publish">>)

\* A coroutine that never suspends: its co_await is commented out.
exp0_cuda_cpu_IntermediateNode(sub_topic, pub_topic) ==
  Intermediate(sub_topic, 10, pub_topic, TRUE, <<"work", "publish">>, <<"work", "publish">>)

exp0_cuda_gpu_dummy_load == <<"work">>
exp0_cuda_gpu_StartNode(pub_topic) == Start(pub_topic, exp0_cuda_gpu_dummy_load \o <<"publish">>)
exp0_cuda_gpu_IntermediateNode(sub_topic, pub_topic) ==
  Intermediate(sub_topic, 10, pub_topic, TRUE, <<"work", "publish">>,
               <<"launch", "sync", "publish">>)

TimerAndOne(start, regular, threads) ==
  LET ns == Names(1, 0, 1)
  IN  Prog("nodelet", [n \in ToSet(ns) |-> IF n[2] = 0 THEN start ELSE regular], <<threads>>,
           AddAll(1, ns) \o Spin(1) \o RemoveAll(1, ns) \o Shutdown)

exp0_cuda_cpu_main ==
  TimerAndOne(exp0_cuda_cpu_StartNode("c1"), exp0_cuda_cpu_IntermediateNode("c1", ""), 2)
exp0_cuda_gpu_main ==
  [TimerAndOne(exp0_cuda_gpu_StartNode("c1"), exp0_cuda_gpu_IntermediateNode("c1", ""), 1)
    EXCEPT !.tuner = "exp0_cuda_gpu"]

-------------------------------------------------------------------------------
(* cb_grp_example: the same chains on each kind of executor *)

single_executor_dummy_load == <<"work">>
single_executor_dummy_load_sleep == <<"work">>
single_executor_StartNode(pub_topic) ==
  Start(pub_topic, single_executor_dummy_load \o <<"publish">>)
single_executor_IntermediateNode(sub_topic, pub_topic) ==
  Intermediate(sub_topic, 1, pub_topic, FALSE, single_executor_dummy_load_sleep \o <<"publish">>, <<>>)

multi_executor_dummy_load == <<"work">>
multi_executor_dummy_load_sleep == <<"work">>
multi_executor_StartNode(pub_topic) ==
  Start(pub_topic, multi_executor_dummy_load \o <<"publish">>)
multi_executor_IntermediateNode(sub_topic, pub_topic) ==
  Intermediate(sub_topic, 1, pub_topic, FALSE, multi_executor_dummy_load_sleep \o <<"publish">>, <<>>)

multi_executor_s2_dummy_load == <<"work">>
multi_executor_s2_dummy_load_sleep == <<"work">>
multi_executor_s2_StartNode(pub_topic) ==
  Start(pub_topic, multi_executor_s2_dummy_load \o <<"publish">>)
multi_executor_s2_IntermediateNode(sub_topic, pub_topic) ==
  Intermediate(sub_topic, 1, pub_topic, FALSE, multi_executor_s2_dummy_load_sleep \o <<"publish">>, <<>>)

\* Seven nodes c1_t_cb_0, c1_r_cb_1 .. 6 on one executor, after the warm-up.
Seven(kind, nodes, threads) ==
  LET ns == Names(1, 0, 6)
  IN  Prog(kind, nodes, <<threads>>,
           Calibrate \o AddAll(1, ns) \o Spin(1) \o RemoveAll(1, ns) \o Shutdown)

single_executor_main ==
  Seven("single", [n \in {1} \X (0 .. 6) |->
                    IF n[2] = 0 THEN single_executor_StartNode("c1")
                    ELSE single_executor_IntermediateNode("c1", "")], 1)
multi_executor_main ==
  Seven("multi", [n \in {1} \X (0 .. 6) |->
                   IF n[2] = 0 THEN multi_executor_StartNode("c1")
                   ELSE multi_executor_IntermediateNode("c1", "")], 4)

\* c1_r_cb_4 is the second timer.
multi_executor_s2_main ==
  Seven("multi", [n \in {1} \X (0 .. 6) |->
                   LET topic == IF n[2] < 4 THEN "c1" ELSE "c2"
                   IN  IF n[2] \in {0, 4} THEN multi_executor_s2_StartNode(topic)
                       ELSE multi_executor_s2_IntermediateNode(topic, "")], 4)

distr_executor_dummy_load == <<"work">>
distr_executor_dummy_load_sleep == <<"work">>
distr_executor_StartNode(pub_topic) == Start(pub_topic, distr_executor_dummy_load \o <<"publish">>)
distr_executor_IntermediateNode(sub_topic, pub_topic) ==
  Intermediate(sub_topic, 1, pub_topic, TRUE, distr_executor_dummy_load_sleep \o <<"publish">>,
               <<"await", "publish">>)

executor_nodelet_dummy_load == <<"work">>
executor_nodelet_dummy_load_sleep == <<"work">>
executor_nodelet_StartNode(pub_topic) ==
  Start(pub_topic, executor_nodelet_dummy_load \o <<"publish">>)
executor_nodelet_IntermediateNode(sub_topic, pub_topic) ==
  Intermediate(sub_topic, 1, pub_topic, TRUE, executor_nodelet_dummy_load_sleep \o <<"publish">>,
               <<"await", "publish">>)

\* t1 -> [r11, r12, r13] and t2 -> r21 -> r22
TwoTimers(topic, start(_), regular(_, _)) ==
  [n \in ({1} \X (0 .. 3)) \cup ({2} \X (0 .. 2)) |->
    CASE n = <<1, 0>> -> start(topic[1])
      [] n[1] = 1 /\ n[2] > 0 -> regular(topic[1], "")
      [] n = <<2, 0>> -> start(topic[2])
      [] n = <<2, 1>> -> regular(topic[2], topic[3])
      [] n = <<2, 2>> -> regular(topic[3], "")]

distr_executor_main ==
  LET ns == <<<<1, 0>>, <<2, 0>>>> \o Names(1, 1, 3) \o Names(2, 1, 2)
      nodes == TwoTimers(<<"tc1", "tc2", "tc3">>, distr_executor_StartNode,
                         distr_executor_IntermediateNode)
  IN  [Prog("distr", nodes, <<4>>, AddAll(0, ns) \o Spin(0) \o RemoveAll(0, ns) \o Shutdown)
       EXCEPT !.nodelets = 2]

\* The timers are on exec1 and the subscribers on exec2; main removes c1_r_cb_1 and
\* c2_r_cb_2 from exec1 all the same.
executor_nodelet_main ==
  Prog("nodelet",
       TwoTimers(<<"c1", "c2", "c3">>, executor_nodelet_StartNode, executor_nodelet_IntermediateNode),
       <<2, 2>>,
       AddAll(1, <<<<1, 0>>, <<2, 0>>>>) \o AddAll(2, Names(1, 1, 3) \o Names(2, 1, 2))
         \o Spawn(1) \o Spin(2) \o Join(1)
         \o RemoveAll(1, <<<<1, 0>>, <<2, 0>>, <<1, 1>>>>)
         \o RemoveAll(2, <<<<1, 2>>, <<1, 3>>, <<2, 1>>>>)
         \o RemoveAll(1, <<<<2, 2>>>>) \o Shutdown)

-------------------------------------------------------------------------------

Main ==
  [exp1 |-> exp1_main, exp2 |-> exp2_main, exp6 |-> exp6_main,
   exp0_interexe |-> exp0_interexe_main, exp0_co_interexe |-> exp0_co_interexe_main,
   exp0_intraexe |-> exp0_intraexe_main, exp0_co_intraexe |-> exp0_co_intraexe_main,
   exp0_multicast |-> exp0_multicast_main,
   exp0_cuda_cpu |-> exp0_cuda_cpu_main, exp0_cuda_gpu |-> exp0_cuda_gpu_main,
   single_executor |-> single_executor_main, multi_executor |-> multi_executor_main,
   multi_executor_s2 |-> multi_executor_s2_main, distr_executor |-> distr_executor_main,
   executor_nodelet |-> executor_nodelet_main]
===============================================================================
