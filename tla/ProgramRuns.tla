------------------------------ MODULE ProgramRuns ------------------------------
(***************************************************************************)
(* The programs of Programs.tla running: main and the threads it starts go  *)
(* through their calls, the executors wait for and take callbacks, and      *)
(* messages go along one watched path from a timer to a last subscriber.    *)
(*                                                                         *)
(* Which thread executes what, and the suspend list, are in RosExecutor;    *)
(* here an executor is a number of threads and a phase (NodeRegistration).  *)
(* The callbacks of nodes off the path only delay the ones on it.  A sleep  *)
(* ends after its coroutine is recorded.                                    *)
(*                                                                         *)
(* Two more choices of prog are not programs of the repository: "registry"  *)
(* has two threads that make any calls of an executor in any order, and     *)
(* "graphs" hands any small graph of nodes to a DistrThreadedExecutor.      *)
(***************************************************************************)
EXTENDS NodeRegistration, Programs, GpuTuner, DistrThreadedExecutor

CONSTANTS
  ProgramNames,  \* the programs that are run
  MaxTicks,      \* how often the timer of the path elapses
  MaxTunings,    \* the same for a program with a GPU tuner
  MaxOps,        \* calls of "registry" in all
  Registered,    \* its nodes
  Graphs,        \* the graphs of "graphs"
  Sizes,         \* and the pairs of threads and nodelets
  Units,         \* microseconds dummy_load(100) takes with dummy_load_calib = 1
  KernelTimes,   \* microseconds a kernel runs
  Jitter,        \* by which a sleep is late
  Rands          \* values of rand() % delta, where delta = 10

ASSUME TimesAssumption ==
  KernelTimes \subseteq Nat /\ Jitter \subseteq Nat /\ Rands \subseteq 0 .. 9

VARIABLES
  prog,        \* the program
  kind,        \* its kind of executor
  tuned,       \* the tuner of its GPU coroutines, or "none"
  script,      \* what main does
  threads,     \* number_of_threads_ of its executors
  watch,       \* the path that is watched
  at,          \* main's position in its script
  over,        \* "" while the process runs, then "ended", "terminated" or "exited"
  spun,        \* the executors whose spin() has returned once
  signal,      \* the signal handler: "none", "received" or "done"
  ops,         \* calls of "registry" so far
  graph, size,            \* a DistrThreadedExecutor's nodes and its size
  found,                  \* what the layering of graph arrives at
  layer,                  \* node_layer_list_
  unit, calib,            \* the machine, and dummy_load_calib
  ticks, queue, job, served,
  tuner

program == <<prog, kind, tuned, script, threads, watch, graph, size, found, unit>>
progVars == <<program, at, over, spun, signal, ops, layer, calib>>
pathVars == <<ticks, queue, job, served, tuner>>
vars == <<regVars, progVars, pathVars>>

-------------------------------------------------------------------------------
(* What the chosen program consists of *)

NodeOf(p, n) == Main[p].nodes[n]

\* The order of add_node, and the topics alloc_exe reads.
AddOrder(p) == SelectSeq(Main[p].script, LAMBDA o : o.op = "add")
GraphOf(p) ==
  [i \in DOMAIN AddOrder(p) |->
    LET n == NodeOf(p, AddOrder(p)[i].node)
    IN  [sub |-> {n.sub} \ {""}, pub |-> {n.pub} \ {""}]]

\* DistrThreadedExecutor: spin() allocates, starts a thread for every nodelet but the first,
\* spins that one and joins; remove_node looks the nodelet up.
Distr(p) == Main[p].kind = "distr"
Count(p) == IF Distr(p) THEN Nodelets(Main[p].threads[1], Main[p].nodelets)
            ELSE Len(Main[p].threads)
DistrScript(p) ==
  LET layers == Layers(GraphOf(p))
      others(op) == [i \in 1 .. Count(p) - 1 |-> Op(op, i + 1, Nobody)]
  IN  <<Op("alloc", 0, Nobody)>> \o others("spawn") \o Spin(1) \o others("join")
        \o [i \in DOMAIN AddOrder(p) |->
             Op("remove", 1 + NodeletOf(layers[i - 1], Count(p)), AddOrder(p)[i].node)]
        \o Shutdown
ScriptOf(p) == IF Distr(p) THEN DistrScript(p) ELSE Main[p].script

\* number_of_threads_ of each executor, and the executor of a node.
ThreadsIn(p) ==
  IF Distr(p)
  THEN [e \in 1 .. Count(p) |-> Started(Layers(GraphOf(p)), Main[p].threads[1], Count(p))[e - 1]]
  ELSE Main[p].threads
ExecOf(p, s, n) ==
  LET k == CHOOSE k \in DOMAIN s : s[k].node = n /\ s[k].op = IF Distr(p) THEN "remove" ELSE "add"
  IN  s[k].exec

\* The paths from a timer to a node that publishes nothing.  Of the paths through the same
\* callbacks on executors that differ only in their number, one is watched.
Follows(p, m, n) == NodeOf(p, m).pub # "" /\ NodeOf(p, m).pub = NodeOf(p, n).sub
Paths(p, s, total) ==
  LET ns == DOMAIN Main[p].nodes
      path[k \in 1 .. 4] ==
        IF k = 1 THEN {<<n>> : n \in {m \in ns : NodeOf(p, m).sub = ""}}
        ELSE {Append(wn[1], wn[2]) : wn \in
               {wn \in path[k - 1] \X ns : Follows(p, Last(wn[1]), wn[2])}}
      ends == {w \in UNION {path[k] : k \in 1 .. 4} : ~ \E n \in ns : Follows(p, Last(w), n)}
      on(w, i) == ExecOf(p, s, w[i])
      class(w) == [i \in DOMAIN w |->
                   <<on(w, i) = 1, total[on(w, i)], {j \in DOMAIN w : on(w, j) = on(w, i)},
                     NodeOf(p, w[i]).body>>]
      kinds == {class(w) : w \in ends}
      one(c) == CHOOSE w \in ends : class(w) = c
  IN  {[i \in DOMAIN w |-> [node |-> w[i], exec |-> on(w, i), depth |-> NodeOf(p, w[i]).depth,
                            body |-> NodeOf(p, w[i]).body]] : w \in {one(c) : c \in kinds}}

(***************************************************************************)
(* What the script of every program keeps to.  TLC evaluates it for the 15;  *)
(* the proofs start from it.                                                *)
(***************************************************************************)

\* The nodes that a call of main gives to executors: pairs of an executor and a node.
Gives(p, o) ==
  CASE o.op = "add" -> {<<o.exec, o.node>>}
    [] o.op = "alloc" ->
         LET layers == Layers(GraphOf(p))
         IN  {<<1 + NodeletOf(layers[k], Count(p)), AddOrder(p)[k + 1].node>> :
                k \in Nodes(GraphOf(p))}
    [] OTHER -> {}

SpinsAt(s, e) == {k \in DOMAIN s : s[k].op \in {"spin", "spawn"} /\ s[k].exec = e}

\* The threads that are started before position k and not joined.
OpenAt(s, k) ==
  {s[i].exec : i \in {i \in 1 .. k - 1 :
     s[i].op = "spawn" /\ \A j \in i + 1 .. k - 1 : ~ (s[j].op = "join" /\ s[j].exec = s[i].exec)}}

\* A node is given to one executor, once.
GivesOnce(given) ==
  \A i, j \in DOMAIN given : \A g \in given[i], h \in given[j] :
    g[2] = h[2] => i = j /\ g = h

\* It is removed afterwards, by all programs but one from the executor that has it.
RemovesGiven(p, s, given) ==
  \A i \in DOMAIN s : \A g \in given[i] :
    LET removes == {j \in DOMAIN s : s[j].op = "remove" /\ s[j].node = g[2]}
    IN  removes # {} /\ \A j \in removes : i < j /\ (p = "executor_nodelet" \/ s[j].exec = g[1])

\* A thread is joined before its executor is spun again, and all are when main ends.
JoinsBefore(s) ==
  \A k \in DOMAIN s :
    /\ s[k].op \in {"spin", "spawn"} => s[k].exec \notin OpenAt(s, k)
    /\ s[k].op = "shutdown" => k = Len(s) /\ OpenAt(s, k) = {}

\* Only two programs spin an ExecutorNodelet of several threads twice, and exec1 first.
SpinsTwice(p, s) ==
  \A e \in 1 .. Count(p) : \A j \in SpinsAt(s, e) :
    (/\ \E i \in SpinsAt(s, e) : i < j
     /\ Main[p].kind \in {"nodelet", "distr"} /\ ThreadsIn(p)[e] > 1) =>
      /\ p \in {"exp0_interexe", "exp0_co_interexe"}
      /\ e = 1 \/ \E k \in 1 .. j - 1 : s[k].op = "spin" /\ s[k].exec = 1

\* No topic leads back to its publisher, so that alloc_exe ends.
SoundGraph(g) == Len(g) \in Nat /\ Acyclic(g)

SoundScript(p, s) ==
  LET given == [k \in DOMAIN s |-> Gives(p, s[k])]
  IN  /\ Count(p) \in Nat /\ Len(s) \in Nat /\ DOMAIN s = 1 .. Len(s)
      /\ Distr(p) => s[1].op = "alloc"
      /\ Distr(p) => SoundGraph(GraphOf(p)) /\ {Main[p].threads[1], Main[p].nodelets} \subseteq Nat \ {0}
      /\ GivesOnce(given) /\ RemovesGiven(p, s, given) /\ JoinsBefore(s) /\ SpinsTwice(p, s)

ASSUME GraphsAssumption ==
  (\A g \in Graphs : SoundGraph(g)) /\ Sizes \subseteq Nat \X (Nat \ {0})

ASSUME ScriptsAssumption == \A p \in DOMAIN Main : SoundScript(p, ScriptOf(p))

-------------------------------------------------------------------------------

IdleJob == [st |-> "idle", step |-> 0, val |-> 0]

ProgInit ==
  /\ at = 1 /\ over = "" /\ spun = {} /\ signal = "none" /\ ops = 0
  /\ layer = <<>> /\ calib = 1
  /\ ticks = 0 /\ served = 0 /\ tuner = NewTuner
  /\ queue = [i \in DOMAIN watch |-> <<>>]
  /\ job = [i \in DOMAIN watch |-> IdleJob]

Init ==
  /\ prog \in ProgramNames
  /\ \/ /\ prog \in DOMAIN Main
        /\ kind = Main[prog].kind /\ tuned = Main[prog].tuner
        /\ script = ScriptOf(prog) /\ threads = ThreadsIn(prog)
        /\ watch \in Paths(prog, script, threads)
        /\ RegistrationInit(Count(prog))
        /\ graph = (IF Distr(prog) THEN GraphOf(prog) ELSE <<>>)
        /\ size = (IF Distr(prog) THEN <<Main[prog].threads[1], Main[prog].nodelets>> ELSE <<1, 1>>)
        /\ unit \in (IF Calibrate[1] \in Range(Main[prog].script) THEN Units ELSE {1})
        /\ entities = DOMAIN Main[prog].nodes
     \/ /\ prog = "registry" /\ RegistrationInit(2)
        /\ kind = "" /\ tuned = "none" /\ script = <<>> /\ watch = <<>> /\ threads = <<>> /\ graph = <<>> /\ size = <<1, 1>> /\ unit = 1 /\ entities = {}
     \/ /\ prog = "graphs"
        /\ kind = "" /\ tuned = "none" /\ script = <<>> /\ watch = <<>> /\ threads = <<>> /\ graph \in Graphs /\ unit = 1 /\ entities = {}
        /\ size \in {<<NumberOfThreads(s[1]), s[2]>> : s \in Sizes}
        /\ RegistrationInit(Nodelets(size[1], size[2]))
  /\ found = (IF graph = <<>> THEN <<>> ELSE Layers(graph))
  /\ ProgInit

Running == over = "" /\ ~ undefined
IsMain == kind # ""
NextOp == script[at]
MainAt(op) == Running /\ IsMain /\ call[0] = Idle /\ at <= Len(script) /\ NextOp.op = op

-------------------------------------------------------------------------------
(* main and its threads *)

\* A call of add_node, remove_node or spin.  Once main removes nodes every executor has been
\* joined, and nothing looks at what the path holds any more.
MainCalls ==
  \E op \in {"add", "remove", "spin"} :
    /\ MainAt(op)
    /\ Begin(0, op, NextOp.exec, NextOp.node)
    /\ at' = at + 1
    /\ IF op = "remove"
         THEN /\ queue' = [i \in DOMAIN watch |-> <<>>] /\ job' = [i \in DOMAIN watch |-> IdleJob]
              /\ tuner' = NewTuner /\ ticks' = 0 /\ served' = 0
         ELSE UNCHANGED pathVars
    /\ UNCHANGED <<program, over, spun, signal, ops, layer, calib>>

\* std::thread(run_exe, &exec).
MainSpawns ==
  /\ MainAt("spawn")
  /\ Begin(NextOp.exec, "spin", NextOp.exec, Nobody)
  /\ at' = at + 1
  /\ UNCHANGED <<program, over, spun, signal, ops, layer, calib, pathVars>>

MainJoins ==
  /\ MainAt("join")
  /\ call[NextOp.exec] = Idle
  /\ at' = at + 1
  /\ UNCHANGED <<regVars, program, over, spun, signal, ops, layer, calib, pathVars>>

\* One turn of the warm-up: the time dummy_load(100) takes is proportional to dummy_load_calib.
MainCalibrates ==
  LET duration_us == calib * unit
      close == duration_us \in 100000 - 499 .. 100000 + 499
      next  == (100000 * calib) \div duration_us
  IN  /\ MainAt("calibrate")
      /\ at' = IF close THEN at + 1 ELSE at
      /\ calib' = IF close THEN calib ELSE IF next <= 0 THEN 1 ELSE next
      /\ UNCHANGED <<regVars, program, over, spun, signal, ops, layer, pathVars>>

\* rclcpp::shutdown() and the end of main.
MainEnds ==
  /\ MainAt("shutdown")
  /\ ContextShutdown
  /\ over' = "ended"
  /\ UNCHANGED <<program, at, spun, signal, ops, layer, calib, pathVars>>

\* Node k of node_list_.
NameOf(k) == IF IsMain THEN AddOrder(prog)[k + 1].node ELSE <<1, k>>

\* alloc_exe: the layers, the nodelets, and add_node for the nodes of each.  It never returns
\* when the shares exceed the threads.
Allocate ==
  LET count   == Nodelets(size[1], size[2])
      mine(e) == {NameOf(k) : k \in {j \in Nodes(graph) : NodeletOf(found[j], count) = e - 1}}
  IN  /\ MainAt("alloc") \/ (Running /\ prog = "graphs" /\ layer = <<>>)
      /\ SumOf(Share(found, size[1], count), count) <= size[1]
      /\ layer' = [k \in 1 .. Len(graph) |-> found[k - 1]]
      /\ Assign([e \in Execs |-> mine(e)])
      /\ at' = at + 1
      /\ UNCHANGED <<program, over, spun, signal, ops, calib, pathVars>>

\* ExecutorNodelet keeps the threads it has started in threads_ and joins all of them: the ones
\* of an earlier spin() are no longer joinable.  MultiThreadedExecutor's vector is local.
JoinThrows(e) ==
  IsMain /\ kind \in {"nodelet", "distr"} /\ e \in spun /\ threads[e] > 1

Unfinished(e) ==
  \E i \in DOMAIN watch : watch[i].exec = e /\ job[i].st \in {"run", "record"}

\* spin() returns once the threads of the executor have ended; an exception that leaves main or
\* a std::thread ends the process.
SpinReturns(u) ==
  LET e == call[u].exec
  IN  /\ Running
      /\ SpinLeaves(u)
      /\ ~ Unfinished(e)
      /\ spun' = spun \cup {e}
      /\ over' = IF JoinThrows(e) THEN "terminated" ELSE over
      /\ UNCHANGED <<program, at, signal, ops, layer, calib, pathVars>>

\* The steps of the calls; in a program nothing catches what they throw.
CallStep(u) ==
  /\ Running
  /\ RegistrationStep(u)
  /\ LET thrown == IsMain /\ call'[u] = Idle /\ call[u].at \in {"exchange", "push", "spin"}
     IN  over' = IF thrown THEN "terminated" ELSE over
  /\ UNCHANGED <<program, at, spun, signal, ops, layer, calib, pathVars>>

\* Any call of an executor, from two threads.
FreeCall(u) ==
  /\ Running /\ prog = "registry" /\ ops < MaxOps
  /\ \E op \in DOMAIN FirstStep, e \in {1, 2}, n \in Registered :
       /\ op \in {"create", "destroy"} => e = 1
       /\ op \in {"spin", "destruct"} => n = CHOOSE m \in Registered : TRUE
       /\ Begin(u, op, e, IF op \in {"spin", "destruct"} THEN Nobody ELSE n)
  /\ ops' = ops + 1
  /\ UNCHANGED <<program, at, over, spun, signal, layer, calib, pathVars>>

\* SIGINT: the context is shut down, and then every wait set is interrupted.
Signal ==
  /\ Running /\ signal = "none" /\ prog # "graphs"
  /\ ContextShutdown /\ signal' = "received"
  /\ UNCHANGED <<program, at, over, spun, ops, layer, calib, pathVars>>

\* Mutant: the wait sets are not interrupted.
InterruptAll_None ==
  /\ Running /\ signal = "received"
  /\ signal' = "done"
  /\ UNCHANGED <<regVars, program, at, over, spun, ops, layer, calib, pathVars>>

InterruptAll ==
  /\ Running /\ signal = "received"
  /\ signal' = "done"
  /\ InterruptWaitSets
  /\ UNCHANGED <<program, at, over, spun, ops, layer, calib, pathVars>>

-------------------------------------------------------------------------------
(* The callbacks of the path *)

OnPath(e) == {i \in DOMAIN watch : watch[i].exec = e}
Busy(e) == {i \in OnPath(e) : job[i].st \in {"run", "record"}}
Suspended(e) == {i \in OnPath(e) : job[i].st \in {"sleep", "queued"}}

\* A thread that is idle looks for work, or none is.
PhaseWith(e, busy) == IF busy < threads[e] THEN "choose" ELSE "busy"

\* A node whose callback runs is left out of the wait set: its group cannot be taken from.
\* While a coroutine is suspended the only thread polls; of several one may, or may not.  An
\* executor of a program that has no node of the path is not seen waiting.
ExecutorWaits(e) ==
  /\ Running
  /\ IsMain => OnPath(e) # {}
  /\ LET busy == IF IsMain THEN {watch[i].node : i \in Busy(e)} ELSE {}
         polls == IF ~ IsMain \/ Suspended(e) = {} THEN {FALSE}
                  ELSE IF threads[e] = 1 THEN {TRUE} ELSE BOOLEAN
     IN  \E poll \in polls : Fill(e, busy, poll)
  /\ UNCHANGED <<progVars, pathVars>>

ExecutorWakes(e) == Running /\ Wake(e) /\ UNCHANGED <<progVars, pathVars>>

Tuned == \E i \in DOMAIN watch : "sync" \in Range(watch[i].body)

\* exp0_cuda_gpu calls exit(0) in its eighth round.  More executors are given fewer rounds.
ExitRound == 8
Limit ==
  IF ~ Tuned THEN IF Len(threads) > 2 THEN 1 ELSE MaxTicks
  ELSE IF tuned = "exp0_cuda_gpu" THEN ExitRound ELSE MaxTunings + 1 - Len(threads)
Ready(i) == IF i = 1 THEN ticks < Limit ELSE queue[i] # <<>>

Body(i) == watch[i].body

\* No callback of the node runs, and its coroutine is not on the suspend list.
Takeable(i) == job[i].st = "idle"

Take(i) ==
  LET e == watch[i].exec
  IN  /\ Running /\ exec[e].phase = "wait" /\ watch[i].node \in exec[e].wait_set.nodes
      /\ FoundByHandle(e, watch[i].node)
      /\ Takeable(i) /\ Ready(i)
      /\ job' = [job EXCEPT ![i] =
           [st |-> "run", step |-> 1, val |-> IF i = 1 THEN ticks + 1 ELSE Head(queue[i])]]
      /\ ticks' = IF i = 1 THEN ticks + 1 ELSE ticks
      /\ queue' = IF i = 1 THEN queue ELSE [queue EXCEPT ![i] = Tail(@)]
      /\ Taken(e, PhaseWith(e, Cardinality(Busy(e)) + 1))
      /\ UNCHANGED <<progVars, served, tuner>>

Advance(i, st) == job' = [job EXCEPT ![i].st = st, ![i].step = @ + 1]
Now(i, op) == Running /\ job[i].st = "run" /\ job[i].step <= Len(Body(i)) /\ Body(i)[job[i].step] = op

Work(i) ==
  /\ Now(i, "work")
  /\ Advance(i, "run")
  /\ UNCHANGED <<regVars, progVars, ticks, queue, served, tuner>>

\* A kernel is launched; the record phase goes on, later rounds co_await.  exp0_cuda_gpu too.
Launch(i) ==
  /\ Now(i, "launch")
  /\ Advance(i, IF Recording(tuner) THEN "run" ELSE "record")
  /\ UNCHANGED <<regVars, progVars, ticks, queue, served, tuner>>

\* co_await of a duration.
Await(i) ==
  /\ Now(i, "await")
  /\ Advance(i, "record")
  /\ UNCHANGED <<regVars, progVars, ticks, queue, served, tuner>>

\* promise_executor_init needs co_vec_mutex_, which the thread in rcl_wait holds.
RecordCoroutine(i) ==
  LET e == watch[i].exec
  IN  /\ Running /\ job[i].st = "record" /\ exec[e].phase # "wait"
      /\ job' = [job EXCEPT ![i].st = "sleep"]
      /\ Released(e)
      /\ UNCHANGED <<progVars, ticks, queue, served, tuner>>

\* re_execute pushes the rest of the coroutine and triggers nothing.
SleepEnds(i) ==
  /\ Running /\ job[i].st = "sleep"
  /\ job' = [job EXCEPT ![i].st = "queued"]
  /\ UNCHANGED <<regVars, progVars, ticks, queue, served, tuner>>

\* get_rest_coroutine, by a thread that chooses or polls.
ResumeRest(i) ==
  LET e == watch[i].exec
  IN  /\ Running /\ ok /\ job[i].st = "queued"
      /\ exec[e].phase = "choose" \/ (exec[e].phase = "wait" /\ exec[e].wait_set.poll)
      /\ job' = [job EXCEPT ![i].st = "run"]
      /\ Taken(e, PhaseWith(e, Cardinality(Busy(e)) + 1))
      /\ UNCHANGED <<progVars, ticks, queue, served, tuner>>

Larger(a, b) == IF a > b THEN a ELSE b

RecordBy(name, t, d, a) ==
  CASE name = "exp1" -> exp1_Record(t, d, a) [] name = "exp6" -> exp6_Record(t, d, a)
    [] name = "exp2" -> exp2_Record(t, d, a) [] OTHER -> exp0_cuda_gpu_Record(t, d, a)
ModifyBy(name, t, d, a, r) ==
  CASE name = "exp1" -> exp1_Modify(t, d, a, r) [] name = "exp6" -> exp6_Modify(t, d, a, r)
    [] name = "exp2" -> exp2_Modify(t, d, a, r) [] OTHER -> [t EXCEPT !.record = @ + 1]

\* cudaStreamSynchronize returns when the kernel ends.
Sync(i) ==
  /\ Now(i, "sync")
  /\ \E k \in KernelTimes, late \in Jitter, r \in Rands :
       LET slept == IF Recording(tuner) THEN 0 ELSE tuner.await + late
           duration == Larger(0, k - slept)
           all == Larger(k, slept)
           name == tuned
       IN  tuner' = IF Recording(tuner) THEN RecordBy(name, tuner, duration, all)
                    ELSE ModifyBy(name, tuner, duration, all, r)
  /\ Advance(i, "run")
  /\ over' = IF tuned = "exp0_cuda_gpu" /\ tuner'.record = ExitRound THEN "exited" ELSE over
  /\ UNCHANGED <<regVars, program, at, spun, signal, ops, layer, calib, ticks, queue, served>>

\* The history of a subscription keeps the last messages.
Kept(q, depth) == IF Len(q) > depth THEN Tail(q) ELSE q
Publish(i) ==
  /\ Now(i, "publish")
  /\ Advance(i, "run")
  /\ queue' = IF i < Len(watch)
              THEN [queue EXCEPT ![i + 1] = Kept(Append(@, job[i].val), watch[i + 1].depth)]
              ELSE queue
  /\ UNCHANGED <<regVars, progVars, ticks, served, tuner>>

CallbackReturns(i) ==
  LET e == watch[i].exec
  IN  /\ Running /\ job[i].st = "run" /\ job[i].step > Len(Body(i))
      /\ job' = [job EXCEPT ![i] = IdleJob]
      /\ served' = IF i = Len(watch) THEN job[i].val ELSE served
      /\ Released(e)
      /\ UNCHANGED <<progVars, ticks, queue, tuner>>

PathStep(i) ==
  \/ Take(i) \/ Work(i) \/ Launch(i) \/ Await(i) \/ RecordCoroutine(i) \/ SleepEnds(i)
  \/ ResumeRest(i) \/ Sync(i) \/ Publish(i) \/ CallbackReturns(i)

MainStep == MainCalls \/ MainSpawns \/ MainJoins \/ MainCalibrates \/ MainEnds \/ Allocate

\* Everything but what the environment does.
System ==
  \/ MainStep \/ InterruptAll
  \/ \E u \in Users : CallStep(u) \/ SpinReturns(u)
  \/ \E e \in Execs : ExecutorWaits(e) \/ ExecutorWakes(e)
  \/ \E i \in DOMAIN watch : PathStep(i)

Next == System \/ Signal \/ \E u \in {0, 1} : FreeCall(u)

\* Threads are scheduled, callbacks, kernels and sleeps end, and timers elapse.
Spec == Init /\ [][Next]_vars /\ WF_vars(System)

-------------------------------------------------------------------------------

TypeOK ==
  /\ ok \in BOOLEAN /\ undefined \in BOOLEAN
  /\ \A e \in Execs : exec[e].phase \in {"out", "choose", "wait", "busy", "gone"}
  /\ \A u \in Users : call[u].exec \in Execs \cup {0}
  /\ over \in {"", "ended", "terminated", "exited"} /\ signal \in {"none", "received", "done"}
  /\ calib \in 1 .. 100000
  /\ \A i \in DOMAIN watch :
       /\ Len(queue[i]) <= watch[i].depth
       /\ job[i].st \in {"idle", "run", "record", "sleep", "queued"}

\* The time a GPU coroutine sleeps never exceeds the longest kernel once it is tuned: the
\* record phase averages, and the steps up are bounded by what was measured.
AwaitBelowKernel ==
  ~ Recording(tuner) => tuner.await >= 0 /\ \E k \in KernelTimes : tuner.await <= k

\* The executors that list node k of node_list_.
Homes(k) == {e \in Execs : NameOf(k) \in exec[e].weak_nodes}

\* alloc_exe puts a node one layer above the highest of the nodes it hears from, and adds it to
\* the nodelet of that layer and to no other.  A node that no layer reaches (-1) is on one nodelet
\* too.  Every thread is dealt out, and no nodelet runs without one.
AllocationFollowsGraph ==
  (layer # <<>> /\ at = 2) =>
    LET count == Nodelets(size[1], size[2])
    IN  /\ \A j \in Nodes(graph) :
             /\ layer[j + 1] = Depth(graph, j)
             /\ \E e \in 1 .. count :
                  /\ Homes(j) = {e}
                  /\ Depth(graph, j) >= 0 => e = 1 + (Depth(graph, j) % count)
        /\ SumOf(ThreadsOf(found, size[1], count), count) = size[1]
        /\ \A i \in 0 .. count - 1 : Started(found, size[1], count)[i] > 0
        /\ \A i, j \in Nodes(graph) :
             (Edge(graph, i, j) /\ layer[i + 1] >= 0) => layer[j + 1] > layer[i + 1]

\* No call of a program's main throws, except the second spin() of an ExecutorNodelet that has
\* started threads: exp0_interexe and exp0_co_interexe end there, before their clean-up.
ThrowsOnlyOnRespin ==
  over = "terminated" => prog \in {"exp0_interexe", "exp0_co_interexe"} /\ 1 \in spun

\* When main returns no node is associated with an executor and no executor lists one, except
\* the nodes main removes from an executor they were not added to (executor_nodelet).
EndsClean ==
  (over = "ended") =>
    /\ has_executor = {}
    /\ \A e \in Execs : exec[e].weak_nodes \subseteq misremoved /\ ~ exec[e].spinning
    /\ misremoved # {} => prog = "executor_nodelet"

\* A coroutine is recorded, or queued, behind a thread in rcl_wait: RosExecutor's
\* RecordingBlocked.  In the programs the next tick of a timer lets it go on.
BehindWait ==
  \E i \in DOMAIN watch :
    LET x == exec[watch[i].exec]
    IN  x.phase = "wait" /\ (job[i].st = "record" \/ (job[i].st = "queued" /\ ~ x.wait_set.poll))

\* The last message of a timer reaches the end of its path, over every executor on the way and
\* through histories of one message, unless the program is stopped.
LastMessageArrives ==
  (IsMain /\ ticks = Limit) ~> (served = Limit \/ ~ ok \/ over # "" \/ BehindWait)

\* The warm-up never comes within 500 us when its unit of load is too coarse.
Uncalibrated == IsMain /\ at = 1 /\ 100000 % unit >= 500

\* After SIGINT a program ends by itself: its executors leave rcl_wait, spin() returns, the
\* threads are joined and main goes on to its end, in whatever order the executors stop.
StopsOnSignal == (IsMain /\ ~ ok) ~> (over # "" \/ Uncalibrated)

\* A program that ends has undone what it registered, and none is terminated but by the
\* second spin(); at any time a node is associated with an executor if one lists it.
ProgramsEnd == AssociatedIffListed /\ ThrowsOnlyOnRespin /\ EndsClean

\* What the GPU programs compute about themselves: sleeps and shares of threads.
PlanIsSound == AwaitBelowKernel /\ AllocationFollowsGraph
===============================================================================
