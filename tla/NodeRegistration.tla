--------------------------- MODULE NodeRegistration ---------------------------
(***************************************************************************)
(* Nodes are added to and removed from executors, entities are added to     *)
(* nodes, and nodes are destroyed, by several threads while executors spin. *)
(*                                                                         *)
(* An executor keeps weak_nodes_ without a lock, the guard conditions of    *)
(* the memory strategy under memory_strategy_mutex_, and fills its wait set *)
(* from both.  phase says what the threads of an executor do with them:     *)
(*   "out"     no spin is in progress                                       *)
(*   "choose"  a thread holds wait_mutex_ and reads the lists               *)
(*   "wait"    a thread is in rcl_wait                                      *)
(*   "busy"    every thread executes a callback                             *)
(*   "gone"    the executor is destroyed                                    *)
(* A list that is changed in phase "choose", or by two threads at once, is  *)
(* a data race, and a node destroyed while its guard condition is in an     *)
(* active wait set leaves a dangling pointer: both end the model's run in   *)
(* undefined.                                                               *)
(***************************************************************************)
EXTENDS Integers, Sequences, FiniteSets

VARIABLES
  ok,            \* rclcpp::ok
  exec,          \* the members of each Executor
  has_executor,  \* the nodes whose associated_with_executor_ is set
  entities,      \* the nodes an entity was added to
  notified,      \* the nodes whose notify_guard_condition_ is triggered
  expired,       \* the nodes that were destroyed
  call,          \* the call each user is in
  undefined,
  misremoved,    \* nodes remove_node was called for on an executor without them
  unannounced,   \* nodes spin_node_some left, or took, while another thread spins
  stolen         \* nodes whose guard condition an executor reset while another waited for it

regRest == <<ok, has_executor, entities, notified, expired, undefined, misremoved, unannounced,
             stolen>>
regVars == <<exec, call, regRest>>

Execs == DOMAIN exec
Users == DOMAIN call   \* the threads that call the executors

NoNode == <<0, 0>>
Idle == [op |-> "none", exec |-> 0, node |-> NoNode, at |-> "idle", removed |-> FALSE]
NotWaiting == [nodes |-> {}, busy |-> {}, guards |-> {}, entities |-> {}, poll |-> FALSE]
NewExecutor ==
  [weak_nodes |-> {}, guards |-> {}, spinning |-> FALSE, interrupt |-> FALSE,
   phase |-> "out", wait_set |-> NotWaiting]

RegistrationInit(count) ==
  /\ ok = TRUE
  /\ exec = [e \in 1 .. count |-> NewExecutor]
  /\ has_executor = {} /\ notified = {} /\ expired = {}
  /\ call = [u \in 0 .. count |-> Idle]
  /\ undefined = FALSE /\ misremoved = {} /\ unannounced = {} /\ stolen = {}

-------------------------------------------------------------------------------

\* Where a call starts.
FirstStep ==
  [add |-> "exchange", some |-> "exchange", remove |-> "erase", spin |-> "spin",
   create |-> "create", destroy |-> "destroy", destruct |-> "destruct"]

Begun(op, e, n) ==
  [op |-> op, exec |-> e, node |-> n, at |-> FirstStep[op], removed |-> FALSE]

At(u, step) == call[u].at = step /\ ~ undefined
GoOn(u, step) == call' = [call EXCEPT ![u].at = step]
Return(u) == call' = [call EXCEPT ![u] = Idle]

\* An exception leaves the call where it is raised.
Throw(u) == Return(u)

\* Another thread reads or writes weak_nodes_ of executor e.
ListInUse(u, e) ==
  \/ exec[e].phase = "choose"
  \/ \E v \in Users \ {u} : call[v].exec = e /\ call[v].at \in {"push", "erase"}

\* add_node: has_executor.exchange(true).
Exchange(u) ==
  /\ At(u, "exchange")
  /\ has_executor' = has_executor \cup {call[u].node}
  /\ IF call[u].node \in has_executor THEN Throw(u) ELSE GoOn(u, "push")
  /\ UNCHANGED <<ok, exec, entities, notified, expired, undefined, misremoved, unannounced, stolen>>

\* The node is looked for in weak_nodes_ and pushed; a second exception leaves the flag set.
Push(u) ==
  LET e == call[u].exec
      n == call[u].node
  IN  /\ At(u, "push")
      /\ undefined' = ListInUse(u, e)
      /\ IF n \in exec[e].weak_nodes
           THEN Throw(u) /\ UNCHANGED exec
           ELSE /\ exec' = [exec EXCEPT ![e].weak_nodes = @ \cup {n}]
                /\ GoOn(u, IF call[u].op = "add" THEN "trigger" ELSE "guard")
      /\ UNCHANGED <<ok, has_executor, entities, notified, expired, misremoved, unannounced, stolen>>

\* Mutant: the executor is not interrupted.
Trigger_Never(u) ==
  /\ At(u, "trigger")
  /\ GoOn(u, IF call[u].op = "add" THEN "guard" ELSE "unguard")
  /\ UNCHANGED <<exec, regRest>>

\* if (notify): interrupt_guard_condition_ is triggered.
Trigger(u) ==
  /\ At(u, "trigger")
  /\ exec' = [exec EXCEPT ![call[u].exec].interrupt = TRUE]
  /\ GoOn(u, IF call[u].op = "add" THEN "guard" ELSE "unguard")
  /\ UNCHANGED regRest

\* The end of add_node, under memory_strategy_mutex_.
AddGuard(u) ==
  /\ At(u, "guard")
  /\ exec' = [exec EXCEPT ![call[u].exec].guards = @ \cup {call[u].node}]
  /\ IF call[u].op = "add" THEN Return(u) ELSE GoOn(u, "begin")
  /\ UNCHANGED regRest

\* remove_node: the node is erased from weak_nodes_ if it is there.
Erase(u) ==
  LET e == call[u].exec
      n == call[u].node
      found == n \in exec[e].weak_nodes
  IN  /\ At(u, "erase")
      /\ undefined' = ListInUse(u, e)
      /\ exec' = [exec EXCEPT ![e].weak_nodes = @ \ {n}]
      /\ call' = [call EXCEPT ![u].at = "store", ![u].removed = found]
      /\ unannounced' = IF call[u].op = "some" /\ exec[e].phase = "wait"
                        THEN unannounced \cup {n} ELSE unannounced
      /\ UNCHANGED <<ok, has_executor, entities, notified, expired, misremoved, stolen>>

\* Mutant: the flag stays set.
Store_Keep(u) ==
  /\ At(u, "store")
  /\ GoOn(u, IF call[u].removed /\ call[u].op = "remove" THEN "trigger" ELSE "unguard")
  /\ UNCHANGED <<exec, regRest>>

\* has_executor.store(false), whether the node was found or not.
Store(u) ==
  /\ At(u, "store")
  /\ has_executor' = has_executor \ {call[u].node}
  /\ misremoved' = IF call[u].removed THEN misremoved
                   ELSE misremoved \cup ({call[u].node} \cap has_executor)
  /\ GoOn(u, IF call[u].removed /\ call[u].op = "remove" THEN "trigger" ELSE "unguard")
  /\ UNCHANGED <<ok, exec, entities, notified, expired, undefined, unannounced, stolen>>

\* The end of remove_node, under memory_strategy_mutex_.
RemoveGuard(u) ==
  /\ At(u, "unguard")
  /\ exec' = [exec EXCEPT ![call[u].exec].guards = @ \ {call[u].node}]
  /\ Return(u)
  /\ UNCHANGED regRest

-------------------------------------------------------------------------------
(* Entities and lifetimes *)

\* add_subscription, add_timer, add_service, add_client and add_waitable push on a vector of
\* the callback group, under its mutex_.
EntersGroup(n) == entities \cup {n}

\* An executor in phase "choose" reads that vector, by reference and without the mutex_.
AddEntity(u) ==
  /\ At(u, "create")
  /\ entities' = EntersGroup(call[u].node)
  /\ undefined' = \E e \in Execs : exec[e].phase = "choose" /\ call[u].node \in exec[e].weak_nodes
  /\ GoOn(u, "notify")
  /\ UNCHANGED <<ok, exec, has_executor, notified, expired, misremoved, unannounced, stolen>>

\* Mutant: the executor is not told of the new entity.
NotifyEntity_Never(u) ==
  /\ At(u, "notify")
  /\ Return(u)
  /\ UNCHANGED <<exec, regRest>>

\* "Notify the executor that a new subscription was created using the parent Node."
NotifyEntity(u) ==
  /\ At(u, "notify")
  /\ notified' = notified \cup {call[u].node}
  /\ Return(u)
  /\ UNCHANGED <<ok, exec, has_executor, entities, expired, undefined, misremoved, unannounced, stolen>>

\* ~NodeBase finalises the guard condition.
DestroyNode(u) ==
  /\ At(u, "destroy")
  /\ expired' = expired \cup {call[u].node}
  /\ notified' = notified \ {call[u].node}
  /\ undefined' = \E e \in Execs : exec[e].phase = "wait" /\ call[u].node \in exec[e].wait_set.guards
  /\ Return(u)
  /\ UNCHANGED <<ok, exec, has_executor, entities, misremoved, unannounced, stolen>>

\* ~Executor disassociates the nodes it still has.
DestroyExecutor(u) ==
  LET e == call[u].exec
  IN  /\ At(u, "destruct")
      /\ has_executor' = has_executor \ (exec[e].weak_nodes \ expired)
      /\ exec' = [exec EXCEPT ![e] = [NewExecutor EXCEPT !.phase = "gone"]]
      /\ Return(u)
      /\ UNCHANGED <<ok, entities, notified, expired, undefined, misremoved, unannounced, stolen>>

-------------------------------------------------------------------------------
(* Spinning *)

\* spin(): spinning.exchange(true).
SpinBegins(u) ==
  LET e == call[u].exec
  IN  /\ At(u, "spin")
      /\ IF exec[e].spinning
           THEN Throw(u) /\ UNCHANGED exec
           ELSE /\ exec' = [exec EXCEPT ![e].spinning = TRUE, ![e].phase = "choose"]
                /\ GoOn(u, "loop")
      /\ UNCHANGED regRest

\* The loop is left: SCOPE_EXIT resets spinning.
SpinLeaves(u) ==
  LET e == call[u].exec
  IN  /\ At(u, "loop") /\ ~ ok
      /\ exec[e].phase = "choose"
      /\ exec' = [exec EXCEPT ![e].spinning = FALSE, ![e].phase = "out"]
      /\ Return(u)
      /\ UNCHANGED regRest

\* spin_node_some and spin_node_once after add_node(node, false): the exception of a
\* spin_some while spinning skips the remove_node.
SomeBegins(u) ==
  LET e == call[u].exec
  IN  /\ At(u, "begin")
      /\ IF exec[e].spinning
           THEN /\ Throw(u) /\ unannounced' = unannounced \cup {call[u].node}
                /\ UNCHANGED exec
           ELSE /\ exec' = [exec EXCEPT ![e].spinning = TRUE, ![e].phase = "choose"]
                /\ GoOn(u, "some") /\ UNCHANGED unannounced
      /\ UNCHANGED <<ok, has_executor, entities, notified, expired, undefined, misremoved, stolen>>

\* wait_for_work drops the nodes that have expired, with their guard conditions.
Cleaned(x) ==
  [x EXCEPT !.weak_nodes = @ \ expired, !.guards = @ \ (x.weak_nodes \cap expired)]

\* spin_some works on what is ready without blocking, and remove_node(node, false) follows.
SomeEnds(u) ==
  LET e == call[u].exec
  IN  /\ At(u, "some")
      /\ exec' = [exec EXCEPT ![e] = [Cleaned(@) EXCEPT !.spinning = FALSE, !.phase = "out"]]
      /\ GoOn(u, "erase")
      /\ UNCHANGED regRest

\* wait_for_work, up to rcl_wait: idle are the nodes none of whose callbacks runs; poll tells
\* a wait_free_wfk, which looks at coroutine_queue_, from an rcl_wait.
Fill(e, busy, poll) ==
  LET x == Cleaned(exec[e])
  IN  /\ ~ undefined /\ ok
      /\ exec[e].phase = "choose" /\ exec[e].spinning
      /\ exec' = [exec EXCEPT ![e] =
           [x EXCEPT !.phase = "wait",
                     !.wait_set = [nodes |-> x.weak_nodes \ busy, busy |-> x.weak_nodes \cap busy,
                                   guards |-> x.guards,
                                   entities |-> x.weak_nodes \cap entities, poll |-> poll]]]
      /\ UNCHANGED <<call, regRest>>

\* get_subscription_by_handle and its siblings, get_node_by_group, get_group_by_subscription and
\* its siblings: a ready handle of the wait set finds its entity, its group and its node only
\* while a living node that weak_nodes_ lists has them.
FoundByHandle(e, n) == n \in exec[e].weak_nodes \ expired

\* A guard condition of the wait set is triggered.
Pending(e) == exec[e].interrupt \/ exec[e].wait_set.guards \cap notified # {}

\* rcl_wait returns, for a guard condition or with data, and resets every guard condition of the
\* wait set that is triggered.
LeavesWait(e, phase) ==
  /\ notified' = notified \ exec[e].wait_set.guards
  /\ exec' = [exec EXCEPT ![e].phase = phase, ![e].interrupt = FALSE, ![e].wait_set = NotWaiting]
  /\ stolen' = stolen \cup {n \in exec[e].wait_set.guards \cap notified :
                          \E f \in Execs \ {e} : exec[f].phase = "wait" /\ n \in exec[f].wait_set.guards}
  /\ UNCHANGED <<ok, has_executor, entities, expired, call, undefined, misremoved, unannounced>>

\* A thread that polls comes round again; a guard condition stands for what is new to it.
Wake(e) ==
  /\ ~ undefined
  /\ exec[e].phase = "wait" /\ Pending(e)
  /\ LeavesWait(e, "choose")

RegistrationStep(u) ==
  \/ Exchange(u) \/ Push(u) \/ Trigger(u) \/ AddGuard(u)
  \/ Erase(u) \/ Store(u) \/ RemoveGuard(u)
  \/ AddEntity(u) \/ NotifyEntity(u) \/ DestroyNode(u) \/ DestroyExecutor(u)
  \/ SpinBegins(u) \/ SomeBegins(u) \/ SomeEnds(u)

-------------------------------------------------------------------------------
(* What a program does with its executors, and its callbacks *)

\* A thread calls.  Who destroys a node or an executor is its only user.
Begin(u, op, e, n) ==
  /\ u \in Users /\ e \in Execs
  /\ call[u] = Idle /\ ~ undefined /\ exec[e].phase # "gone" /\ n \notin expired
  /\ \A v \in Users \ {u} : call[v].node = n => "destroy" \notin {op, call[v].op}
  /\ \A v \in Users \ {u} : call[v].exec = e => "destruct" \notin {op, call[v].op}
  /\ call' = [call EXCEPT ![u] = Begun(op, e, n)]
  /\ UNCHANGED <<exec, regRest>>

\* A thread of the executor leaves rcl_wait with a callback, or finds one without waiting: among
\* what an earlier wait has left, in get_rest_coroutine, or when it polls.
Taken(e, phase) ==
  /\ e \in Execs
  /\ exec[e].phase \in {"choose", "wait"} /\ phase \in {"choose", "busy"}
  /\ IF exec[e].phase = "wait" /\ ~ exec[e].wait_set.poll
       THEN LeavesWait(e, phase)
       ELSE /\ exec' = [exec EXCEPT ![e].phase = phase, ![e].wait_set = NotWaiting]
            /\ UNCHANGED <<call, regRest>>

\* Mutant: the executor is not told that a callback has ended.
Released_Silent(e) ==
  /\ e \in Execs
  /\ exec' = [exec EXCEPT ![e].phase = IF @ = "busy" THEN "choose" ELSE @]
  /\ UNCHANGED <<call, regRest>>

\* The thread is given back, and the guard condition wakes the thread in rcl_wait.
Released(e) ==
  /\ e \in Execs
  /\ exec' = [exec EXCEPT ![e].interrupt = TRUE, ![e].phase = IF @ = "busy" THEN "choose" ELSE @]
  /\ UNCHANGED <<call, regRest>>

\* Each executor is given its nodes by add_node, before any other call.
Assign(share) ==
  /\ \A u \in Users : call[u] = Idle
  /\ has_executor = {} /\ \A e \in Execs : exec[e].weak_nodes = {} /\ exec[e].phase = "out"
  /\ \A e, f \in Execs : e # f => share[e] \cap share[f] = {}
  /\ exec' = [e \in Execs |-> [exec[e] EXCEPT !.weak_nodes = share[e], !.guards = share[e],
                                               !.interrupt = @ \/ share[e] # {}]]
  /\ has_executor' = UNION {share[e] : e \in Execs}
  /\ UNCHANGED <<ok, entities, notified, expired, call, undefined, misremoved, unannounced, stolen>>

\* The context is shut down, and then every wait set is interrupted.
ContextShutdown ==
  /\ ok' = FALSE
  /\ UNCHANGED <<exec, has_executor, entities, notified, expired, call, undefined, misremoved,
                 unannounced, stolen>>

InterruptWaitSets ==
  /\ exec' = [e \in Execs |-> [exec[e] EXCEPT !.interrupt = TRUE]]
  /\ UNCHANGED <<call, regRest>>

-------------------------------------------------------------------------------

Quiet == ~ undefined /\ \A u \in Users : call[u].at \in {"idle", "loop"}

AllListed == UNION {exec[e].weak_nodes : e \in Execs}

\* "Node has already been added to an executor.": between calls the flag of a node says
\* whether an executor lists it, and no two do.  A node that was removed through an executor
\* that did not have it is excepted: remove_node clears the flag all the same.
AssociatedIffListed ==
  Quiet =>
    \A n \in (AllListed \cup has_executor) \ (expired \cup misremoved) :
      /\ n \in has_executor
      /\ Cardinality({e \in Execs : n \in exec[e].weak_nodes}) = 1

\* "If the executor is blocked at the rmw layer while waiting for work and it is notified that
\* a new node was added, it will wake up": a thread that stays in rcl_wait waits for the nodes
\* the executor has, but those whose callbacks ran when it began to wait, and for no other, with
\* the entities of every node whose guard condition it waits for.  A node that spin_node_some
\* adds or removes without notice while another thread spins is excepted, and so are the
\* entities of a node whose guard condition was added behind the wait, or was reset by another
\* executor: one the node was taken from and that has not yet left the rcl_wait it was in.
WaitSeesRegistration ==
  Quiet => \A e \in Execs :
    (exec[e].phase = "wait" /\ ~ Pending(e)) =>
      LET w == exec[e].wait_set
          n == exec[e].weak_nodes \ expired
      IN  /\ n \ unannounced \subseteq w.nodes \cup w.busy
          /\ (w.nodes \cup w.busy) \ (expired \cup unannounced) \subseteq n
          /\ (n \ (unannounced \cup stolen)) \cap w.guards \cap entities \subseteq w.entities
===============================================================================
