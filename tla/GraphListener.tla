----------------------------- MODULE GraphListener -----------------------------
(***************************************************************************)
(* The graph listener of a context and the NodeGraph of its nodes          *)
(* (graph_listener.cpp, node_graph.cpp), with                              *)
(* ClientBase::wait_for_service_nanoseconds (client.cpp) as their user and *)
(* the shutdown of the default context, whose on_shutdown hook joins the   *)
(* listener thread.  Context has the shutdown itself in detail.            *)
(***************************************************************************)
EXTENDS Naturals, FiniteSets

CONSTANTS
  Nodes,       \* NodeGraph objects
  Users,       \* threads that call wait_for_service or destroy a node
  MaxEvents,   \* bound: graph events lent
  MaxChanges   \* bound: changes of the ROS graph

NoOne == "none"
Listener == "listener"   \* listener_thread_
Main == "main"           \* the thread that shuts the context down

ASSUME IdentitiesAssumption ==
  Users \cap {NoOne, Listener, Main} = {} /\ NoOne \notin Nodes

VARIABLES
  valid,          \* rclcpp::ok(context)
  hook,           \* the on_shutdown hook is registered
  main,           \* where the shutdown of the context is
  existing,          \* nodes that exist
  should_add,     \* nodes whose should_add_to_graph_listener_ is true
  interfaces,     \* node_graph_interfaces_, raw pointers
  is_started, is_shutdown,
  shutdown_mutex, barrier_mutex, nodes_mutex,   \* owners
  interrupt_gc, shutdown_gc,   \* triggered guard conditions
  released,       \* the guard conditions of the listener are finalised
  graph_gc,       \* nodes whose graph guard condition is triggered
  lpc,            \* where the listener thread is
  waited, ready, visit,  \* its wait set, what rcl_wait returned, nodes to visit
  notifying,      \* the node whose graph_cv_ it is about to notify
  down_seen,      \* shutdown_guard_condition_triggered
  pc, node,       \* of each user: where it is, and its node
  event,          \* users whose graph event is set
  expired,        \* expired[n]: expired pointers in graph_events_
  waiting,        \* users in graph_cv_.wait_for
  notified,       \* users whose condition variable was notified
  lent, changes,  \* counters for the bounds
  missed,         \* history: users with an event that a change has yet to set
  unwatched,      \* history: nodes with a new event the wait set lacks
  refused,        \* history: nodes whose get_graph_event threw in add_node
  failed,         \* exceptions: NodeAlreadyAdded, NodeNotFound
  undefined       \* a data race or the use of a finalised guard condition

mutexes == <<shutdown_mutex, barrier_mutex, nodes_mutex>>
gcs == <<interrupt_gc, shutdown_gc, released, graph_gc>>
loop == <<lpc, waited, ready, visit, notifying, down_seen>>
nodeVars == <<existing, should_add, interfaces, expired>>
userVars == <<pc, node, event, waiting, notified>>
flags == <<is_started, is_shutdown, hook>>
ctx == <<valid, main>>
hist == <<lent, changes, missed, unwatched, refused, failed, undefined>>
graphVars == <<mutexes, gcs, loop, nodeVars, userVars, flags, ctx, hist>>

GraphInit ==
  /\ valid = TRUE /\ hook = FALSE /\ main = "up"
  /\ existing = Nodes /\ should_add = Nodes /\ interfaces = {} /\ expired = [n \in Nodes |-> 0]
  /\ is_started = FALSE /\ is_shutdown = FALSE
  /\ shutdown_mutex = NoOne /\ barrier_mutex = NoOne /\ nodes_mutex = NoOne
  /\ interrupt_gc = FALSE /\ shutdown_gc = FALSE /\ released = FALSE /\ graph_gc = {}
  /\ lpc = "none" /\ waited = {} /\ ready = {} /\ visit = {} /\ notifying = NoOne /\ down_seen = FALSE
  /\ pc = [u \in Users |-> "idle"] /\ node = [u \in Users |-> NoOne]
  /\ event = {} /\ waiting = {} /\ notified = {}
  /\ lent = 0 /\ changes = 0 /\ missed = {} /\ unwatched = {} /\ refused = {} /\ failed = {}
  /\ undefined = FALSE

Holding == {"got", "add", "add_barrier", "add_nodes", "start", "hook", "have", "wait", "check"}

\* The users that hold an event of node n, and count_graph_users.
Holders(n) == {u \in Users : node[u] = n /\ pc[u] \in Holding}
CountGraphUsers(n) == Cardinality(Holders(n)) + expired[n]

Go(u, from, to) == pc[u] = from /\ pc' = [pc EXCEPT ![u] = to]

\* The event of u goes out of scope: its weak pointer stays and is expired.
Drop(u) ==
  /\ pc' = [pc EXCEPT ![u] = "idle"] /\ node' = [node EXCEPT ![u] = NoOne]
  /\ event' = event \ {u} /\ missed' = missed \ {u}
  /\ expired' = [expired EXCEPT ![node[u]] = @ + 1]

------------------------------------------------------------------------------
(* NodeGraph::get_graph_event, GraphListener::add_node and                  *)
(* start_if_not_started.                                                    *)

\* The event is pushed and graph_users_count_ incremented under graph_mutex_.
GetGraphEvent(u, n) ==
  /\ pc[u] = "idle" /\ n \in existing /\ lent < MaxEvents
  /\ \A v \in Users : node[v] = n => pc[v] \notin {"destroy", "del_barrier", "del_nodes"}
  /\ lent' = lent + 1
  /\ pc' = [pc EXCEPT ![u] = "got"] /\ node' = [node EXCEPT ![u] = n]
  /\ unwatched' = IF lpc = "wait" /\ n \in interfaces \ waited THEN unwatched \cup {n} ELSE unwatched
  /\ UNCHANGED <<mutexes, gcs, loop, nodeVars, event, waiting, notified, flags, ctx, changes, missed, refused, failed, undefined>>

\* Mutant: should_add_to_graph_listener_ is read and not exchanged.
FirstCall_TestOnly(u) ==
  /\ Go(u, "got", IF node[u] \in should_add THEN "add" ELSE "have")
  /\ UNCHANGED <<mutexes, gcs, loop, nodeVars, node, event, waiting, notified, flags, ctx, hist>>

\* should_add_to_graph_listener_.exchange(false): one caller adds the node.
FirstCall(u) ==
  /\ Go(u, "got", IF node[u] \in should_add THEN "add" ELSE "have")
  /\ should_add' = should_add \ {node[u]}
  /\ UNCHANGED <<mutexes, gcs, loop, existing, interfaces, expired, node, event, waiting, notified, flags, ctx, hist>>

\* add_node: GraphListenerShutdownError when the listener is shut down.
AddLock(u) ==
  /\ pc[u] = "add" /\ shutdown_mutex = NoOne
  /\ IF is_shutdown
     THEN Drop(u) /\ refused' = refused \cup {node[u]} /\ UNCHANGED shutdown_mutex
     ELSE /\ pc' = [pc EXCEPT ![u] = "add_barrier"] /\ shutdown_mutex' = u
          /\ UNCHANGED <<node, event, missed, expired, refused>>
  /\ UNCHANGED <<barrier_mutex, nodes_mutex, gcs, loop, existing, should_add, interfaces, waiting, notified, flags, ctx, lent, changes, unwatched, failed, undefined>>

\* acquire_nodes_lock_: take the barrier and interrupt rcl_wait ...
AcquireNodesLock(u, from, to) ==
  /\ barrier_mutex = NoOne /\ Go(u, from, to)
  /\ barrier_mutex' = u /\ interrupt_gc' = TRUE
  /\ undefined' = (undefined \/ released)
  /\ UNCHANGED <<shutdown_mutex, nodes_mutex, shutdown_gc, released, graph_gc, loop, nodeVars, node, event, waiting, notified, flags, ctx, lent, changes, missed, unwatched, refused, failed>>

ReleaseBarrier(u) == barrier_mutex' = IF barrier_mutex = u THEN NoOne ELSE barrier_mutex

\* ... then the nodes mutex; add_node pushes the node and releases all.
AddNode(u) ==
  /\ nodes_mutex = NoOne /\ Go(u, "add_nodes", "start")
  /\ IF node[u] \in interfaces THEN failed' = failed \cup {<<"NodeAlreadyAdded", node[u]>>} ELSE UNCHANGED failed
  /\ interfaces' = interfaces \cup {node[u]}
  /\ ReleaseBarrier(u) /\ shutdown_mutex' = NoOne
  /\ UNCHANGED <<nodes_mutex, gcs, loop, existing, should_add, expired, node, event, waiting, notified, flags, ctx, lent, changes, missed, unwatched, refused, undefined>>

\* start_if_not_started throws when the listener is shut down, and when the
\* wait set cannot be initialised in a context that is.
StartLock(u) ==
  /\ pc[u] = "start" /\ shutdown_mutex = NoOne
  /\ IF is_shutdown \/ (~is_started /\ ~valid)
     THEN Drop(u) /\ UNCHANGED shutdown_mutex
     ELSE /\ pc' = [pc EXCEPT ![u] = IF is_started THEN "have" ELSE "hook"]
          /\ shutdown_mutex' = IF is_started THEN NoOne ELSE u
          /\ UNCHANGED <<node, event, missed, expired>>
  /\ UNCHANGED <<barrier_mutex, nodes_mutex, gcs, loop, existing, should_add, interfaces, waiting, notified, flags, ctx, lent, changes, unwatched, refused, failed, undefined>>

\* rclcpp::on_shutdown takes no lock: the callbacks may be being called.
Start(u) ==
  /\ Go(u, "hook", "have")
  /\ hook' = TRUE /\ is_started' = TRUE /\ lpc' = "top" /\ shutdown_mutex' = NoOne
  /\ undefined' = (undefined \/ main \in {"callbacks", "join"})
  /\ UNCHANGED <<barrier_mutex, nodes_mutex, gcs, waited, ready, visit, notifying, down_seen, nodeVars, node, event, waiting, notified, is_shutdown, ctx, lent, changes, missed, unwatched, refused, failed>>

------------------------------------------------------------------------------
(* wait_for_service_nanoseconds and wait_for_graph_change.                  *)

\* The loop: return false when the context is shut down.
TestOk(u) ==
  /\ pc[u] = "have"
  /\ IF valid THEN pc' = [pc EXCEPT ![u] = "wait"] /\ UNCHANGED <<node, event, missed, expired>>
              ELSE Drop(u)
  /\ UNCHANGED <<mutexes, gcs, loop, existing, should_add, interfaces, waiting, notified, flags, ctx, lent, changes, unwatched, refused, failed, undefined>>

\* The predicate of wait_for_graph_change.
Pred(u) == u \in event \/ ~valid

\* Under graph_mutex_: the predicate is tested before the wait.
EnterWait(u) ==
  /\ pc[u] = "wait" /\ u \notin waiting
  /\ IF Pred(u) THEN pc' = [pc EXCEPT ![u] = "check"] /\ UNCHANGED waiting
                ELSE waiting' = waiting \cup {u} /\ UNCHANGED pc
  /\ UNCHANGED <<mutexes, gcs, loop, nodeVars, node, event, notified, flags, ctx, hist>>

\* A notified waiter tests the predicate again.
WakeUp(u) ==
  /\ u \in notified /\ notified' = notified \ {u}
  /\ IF Pred(u) THEN waiting' = waiting \ {u} /\ pc' = [pc EXCEPT ![u] = "check"]
                ELSE UNCHANGED <<waiting, pc>>
  /\ UNCHANGED <<mutexes, gcs, loop, nodeVars, node, event, flags, ctx, hist>>

\* The wait is limited to 100 ms.
Timeout(u) ==
  /\ u \in waiting /\ waiting' = waiting \ {u} /\ notified' = notified \ {u}
  /\ pc' = [pc EXCEPT ![u] = "check"]
  /\ UNCHANGED <<mutexes, gcs, loop, nodeVars, node, event, flags, ctx, hist>>

\* check_and_clear, then service_is_ready: the service is there or the time is
\* over, or the loop goes on.
CheckService(u) ==
  /\ pc[u] = "check"
  /\ \/ Drop(u)
     \/ /\ pc' = [pc EXCEPT ![u] = "have"] /\ event' = event \ {u}
        /\ UNCHANGED <<node, missed, expired>>
  /\ UNCHANGED <<mutexes, gcs, loop, existing, should_add, interfaces, waiting, notified, flags, ctx, lent, changes, unwatched, refused, failed, undefined>>

------------------------------------------------------------------------------
(* ~NodeGraph and GraphListener::remove_node.                               *)

\* Nobody else uses the node; a node that was to be added is removed.
DestroyNode(u, n) ==
  /\ pc[u] = "idle" /\ n \in existing /\ \A v \in Users : node[v] # n
  /\ \/ /\ n \in should_add
        /\ existing' = existing \ {n} /\ should_add' = should_add \ {n} /\ UNCHANGED <<pc, node>>
     \/ /\ n \notin should_add /\ UNCHANGED <<existing, should_add>>
        /\ pc' = [pc EXCEPT ![u] = "destroy"] /\ node' = [node EXCEPT ![u] = n]
  /\ UNCHANGED <<mutexes, gcs, loop, interfaces, expired, event, waiting, notified, flags, ctx, hist>>

\* remove_node_: NodeNotFoundError out of the destructor ends the program.
Remove(u) == LET n == node[u] IN
  /\ failed' = IF n \in interfaces THEN failed ELSE failed \cup {<<"NodeNotFound", n>>}
  /\ interfaces' = interfaces \ {n} /\ existing' = existing \ {n}
  /\ pc' = [pc EXCEPT ![u] = "idle"] /\ node' = [node EXCEPT ![u] = NoOne]

\* remove_node; after a shutdown the run loop has been joined.
RemoveLock(u) ==
  /\ pc[u] = "destroy" /\ shutdown_mutex = NoOne
  /\ IF is_shutdown
     THEN Remove(u) /\ UNCHANGED shutdown_mutex
     ELSE /\ pc' = [pc EXCEPT ![u] = "del_barrier"] /\ shutdown_mutex' = u
          /\ UNCHANGED <<failed, interfaces, existing, node>>
  /\ UNCHANGED <<barrier_mutex, nodes_mutex, gcs, loop, should_add, expired, event, waiting, notified, flags, ctx, lent, changes, missed, unwatched, refused, undefined>>

\* Otherwise the node is removed under the nodes mutex.
RemoveNode(u) ==
  /\ pc[u] = "del_nodes" /\ nodes_mutex = NoOne
  /\ Remove(u) /\ ReleaseBarrier(u) /\ shutdown_mutex' = NoOne
  /\ UNCHANGED <<nodes_mutex, gcs, loop, should_add, expired, event, waiting, notified, flags, ctx, lent, changes, missed, unwatched, refused, undefined>>

------------------------------------------------------------------------------
(* GraphListener::run_loop.                                                 *)

LoopRest == UNCHANGED <<shutdown_mutex, existing, should_add, interfaces, pc, node, flags, ctx, lent, changes, refused, failed, undefined>>

\* If shutdown() was called, exit.
LoopTop ==
  /\ lpc = "top" /\ lpc' = IF is_shutdown THEN "exited" ELSE "barrier"
  /\ UNCHANGED <<barrier_mutex, nodes_mutex, gcs, waited, ready, visit, notifying, down_seen, expired, event, waiting, notified, missed, unwatched>> /\ LoopRest

\* The barrier is taken, the nodes mutex under it ...
LoopBarrier ==
  /\ lpc = "barrier" /\ barrier_mutex = NoOne /\ barrier_mutex' = Listener /\ lpc' = "nodes"
  /\ UNCHANGED <<nodes_mutex, gcs, waited, ready, visit, notifying, down_seen, expired, event, waiting, notified, missed, unwatched>> /\ LoopRest

\* Mutant: one user is not enough.
LoopFill_MoreThanOne ==
  /\ lpc = "nodes" /\ nodes_mutex = NoOne /\ nodes_mutex' = Listener /\ lpc' = "wait"
  /\ barrier_mutex' = IF barrier_mutex = Listener THEN NoOne ELSE barrier_mutex
  /\ waited' = {n \in interfaces : CountGraphUsers(n) > 1} /\ unwatched' = {}
  /\ UNCHANGED <<gcs, ready, visit, notifying, down_seen, expired, event, waiting, notified, missed>> /\ LoopRest

\* ... and the wait set is filled with the nodes that have users.
LoopFill ==
  /\ lpc = "nodes" /\ nodes_mutex = NoOne /\ nodes_mutex' = Listener /\ lpc' = "wait"
  /\ barrier_mutex' = IF barrier_mutex = Listener THEN NoOne ELSE barrier_mutex
  /\ waited' = {n \in interfaces : CountGraphUsers(n) > 0} /\ unwatched' = {}
  /\ UNCHANGED <<gcs, ready, visit, notifying, down_seen, expired, event, waiting, notified, missed>> /\ LoopRest

\* rcl_wait returns and takes what was triggered.
RclWait ==
  /\ lpc = "wait" /\ (interrupt_gc \/ shutdown_gc \/ graph_gc \cap waited # {})
  /\ lpc' = "visit" /\ visit' = interfaces
  /\ ready' = graph_gc \cap waited /\ down_seen' = shutdown_gc
  /\ graph_gc' = graph_gc \ waited /\ interrupt_gc' = FALSE /\ shutdown_gc' = FALSE
  /\ waited' = {} /\ unwatched' = {}
  /\ UNCHANGED <<barrier_mutex, nodes_mutex, released, notifying, expired, event, waiting, notified, missed>> /\ LoopRest

\* notify_graph_change under graph_mutex_: the events are set, expired pointers
\* erased.
SetEvents ==
  /\ lpc = "visit" /\ \E n \in visit \cap ready :
       /\ event' = event \cup Holders(n) /\ missed' = missed \ Holders(n)
       /\ expired' = [expired EXCEPT ![n] = 0]
       /\ ready' = ready \ {n} /\ lpc' = "notify" /\ visit' = (visit \ {n}) \cup IF down_seen THEN {n} ELSE {}
       /\ notifying' = n
  /\ UNCHANGED <<barrier_mutex, nodes_mutex, gcs, waited, down_seen, waiting, notified, unwatched>> /\ LoopRest

WaitersOf(n) == {u \in waiting : node[u] = n}

\* graph_cv_.notify_all().  The trigger of the node's own guard condition that follows wakes its
\* executor, which is not here.
NotifyAll ==
  /\ lpc = "notify" /\ lpc' = "visit" /\ notifying' = NoOne
  /\ notified' = notified \cup WaitersOf(notifying)
  /\ UNCHANGED <<barrier_mutex, nodes_mutex, gcs, waited, ready, visit, down_seen, expired, event, waiting, missed, unwatched>> /\ LoopRest

\* notify_shutdown, for nodes whose change was notified.
VisitOther ==
  /\ lpc = "visit" /\ \E n \in visit \ ready :
       /\ visit' = visit \ {n}
       /\ notified' = IF down_seen THEN notified \cup WaitersOf(n) ELSE notified
  /\ UNCHANGED <<barrier_mutex, nodes_mutex, gcs, lpc, waited, ready, notifying, down_seen, expired, event, waiting, missed, unwatched>> /\ LoopRest

\* nodes_lock is released when the loop continues.
LoopEnd ==
  /\ lpc = "visit" /\ visit = {} /\ lpc' = "top" /\ nodes_mutex' = NoOne /\ down_seen' = FALSE
  /\ UNCHANGED <<barrier_mutex, gcs, waited, ready, visit, notifying, expired, event, waiting, notified, missed, unwatched>> /\ LoopRest

------------------------------------------------------------------------------
(* The ROS graph, and the shutdown of the context.                          *)

\* The middleware triggers the graph guard conditions.
GraphChange ==
  /\ valid /\ changes < MaxChanges /\ changes' = changes + 1
  /\ graph_gc' = graph_gc \cup existing
  /\ missed' = missed \cup {u \in Users : pc[u] \in Holding /\ u \notin event}
  /\ UNCHANGED <<mutexes, interrupt_gc, shutdown_gc, released, loop, nodeVars, userVars, flags, ctx, lent, unwatched, refused, failed, undefined>>

MainRest == UNCHANGED <<barrier_mutex, nodes_mutex, graph_gc, loop, nodeVars, userVars, lent, changes, missed, unwatched, refused, failed>>

\* rcl_shutdown, then the on_shutdown callbacks.
ShutdownContext ==
  /\ main = "up" /\ valid' = FALSE /\ main' = IF hook THEN "callbacks" ELSE "interrupt"
  /\ UNCHANGED <<shutdown_mutex, interrupt_gc, shutdown_gc, released, flags, undefined>> /\ MainRest

\* Mutant: the run loop is not interrupted.
ListenerShutdown_NoInterrupt ==
  /\ main \in {"callbacks", "delete"} /\ shutdown_mutex = NoOne
  /\ main' = IF main = "delete" THEN "final_join" ELSE "join"
  /\ shutdown_mutex' = Main /\ is_shutdown' = TRUE
  /\ UNCHANGED <<valid, hook, is_started, interrupt_gc, shutdown_gc, released, undefined>> /\ MainRest

\* GraphListener::__shutdown, from the hook or from ~GraphListener.
ListenerShutdown ==
  /\ main \in {"callbacks", "delete"} /\ shutdown_mutex = NoOne
  /\ main' = IF main = "delete" THEN "final_join" ELSE "join"
  /\ shutdown_mutex' = Main /\ is_shutdown' = TRUE
  /\ interrupt_gc' = is_started
  /\ UNCHANGED <<valid, hook, is_started, shutdown_gc, released, undefined>> /\ MainRest

\* The thread is joined, the guard conditions and the wait set are finalised.
ListenerJoined ==
  /\ main \in {"join", "final_join"} /\ lpc \in {"none", "exited"}
  /\ main' = IF main = "join" THEN "interrupt" ELSE "gone"
  /\ released' = TRUE /\ interrupt_gc' = FALSE /\ shutdown_gc' = FALSE /\ shutdown_mutex' = NoOne
  /\ UNCHANGED <<valid, flags, undefined>> /\ MainRest

\* interrupt_all_wait_sets.
InterruptWaitSets ==
  /\ main = "interrupt" /\ main' = "down" /\ shutdown_gc' = ~released
  /\ UNCHANGED <<valid, shutdown_mutex, interrupt_gc, released, flags, undefined>> /\ MainRest

\* The context is destroyed after its nodes, and ~GraphListener with it.
DeleteListener ==
  /\ main = "down" /\ existing = {} /\ \A u \in Users : pc[u] = "idle"
  /\ main' = IF is_shutdown THEN "gone" ELSE "delete"
  /\ UNCHANGED <<valid, shutdown_mutex, interrupt_gc, shutdown_gc, released, flags, undefined>> /\ MainRest

------------------------------------------------------------------------------

UserStep(u) ==
  \/ FirstCall(u) \/ AddLock(u) \/ AcquireNodesLock(u, "add_barrier", "add_nodes") \/ AddNode(u)
  \/ StartLock(u) \/ Start(u) \/ TestOk(u) \/ EnterWait(u) \/ WakeUp(u) \/ Timeout(u) \/ CheckService(u)
  \/ RemoveLock(u) \/ AcquireNodesLock(u, "del_barrier", "del_nodes") \/ RemoveNode(u)

ListenerStep ==
  \/ LoopTop \/ LoopBarrier \/ LoopFill \/ RclWait \/ SetEvents \/ NotifyAll \/ VisitOther \/ LoopEnd

MainStep == ListenerShutdown \/ ListenerJoined \/ InterruptWaitSets

GraphNext ==
  \/ \E u \in Users : UserStep(u) \/ \E n \in Nodes : GetGraphEvent(u, n) \/ DestroyNode(u, n)
  \/ ListenerStep \/ MainStep \/ GraphChange \/ ShutdownContext \/ DeleteListener

\* Every thread runs on; a wait of wait_for_service is limited in time.  No
\* call, change or shutdown has to happen.
GraphSpec ==
  /\ GraphInit /\ [][GraphNext]_graphVars
  /\ \A u \in Users : WF_graphVars(UserStep(u))
  /\ WF_graphVars(ListenerStep) /\ WF_graphVars(MainStep)

------------------------------------------------------------------------------
(* Properties.                                                              *)

\* The state keeps its type, and the nodes mutex belongs to the listener from
\* the filling of the wait set to the end of the iteration.
GraphTypeOK ==
  /\ shutdown_mutex \in Users \cup {NoOne, Main} /\ barrier_mutex \in Users \cup {NoOne, Listener}
  /\ nodes_mutex = Listener <=> lpc \in {"wait", "visit", "notify"}
  /\ interfaces \subseteq Nodes /\ existing \subseteq Nodes /\ should_add \subseteq existing
  /\ waiting \subseteq {u \in Users : pc[u] = "wait"} /\ notified \subseteq waiting
  /\ event \subseteq {u \in Users : pc[u] \in Holding}
  /\ expired \in [Nodes -> 0 .. MaxEvents]

\* The listener holds raw pointers, and none outlives its node, in its list, in
\* the wait set and in the iteration over the list; a node is added once however
\* many threads ask for its first event, and the removal in ~NodeGraph finds it
\* unless the listener had refused it because it was shut down.
NoDanglingNode ==
  /\ interfaces \cup waited \cup visit \subseteq existing
  /\ \A f \in failed : f[1] = "NodeNotFound" /\ f[2] \in refused

\* A thread that waits on a graph event which is set has been notified or is
\* about to be: wait_for_graph_change does not sleep through a change.
NoLostWakeUp ==
  \A u \in waiting \cap event : u \in notified \/ notifying = node[u]

\* A change of the graph sets every event that was lent before ("a graph event,
\* which will be set anytime a graph change occurs"), unless the context is shut
\* down or the event was lent while the wait set lacked its node.
EventIsSet ==
  \A u \in Users : u \in missed ~> (u \notin missed \/ ~valid \/ node[u] \in unwatched \/ undefined)

\* Whoever interrupts the listener gets the nodes mutex: add_node and
\* remove_node end ("barrier" lock of run_loop).
ListenerYields ==
  \A u \in Users : pc[u] \in {"add_nodes", "del_nodes"} ~> (pc[u] \notin {"add_nodes", "del_nodes"} \/ undefined)

\* The shutdown of the context ends although its hook joins the listener while
\* threads wait, add and remove nodes.
ShutdownEnds == (main = "callbacks") ~> (main = "down" \/ undefined)

\* A shutdown of the context ends every wait_for_service.
ShutdownEndsWait == \A u \in Users : (~valid /\ pc[u] \in Holding) ~> (pc[u] \notin Holding \/ undefined)

\* A change of the graph reaches the thread that waits for it.
EventsReachWaiters == []NoLostWakeUp /\ EventIsSet

\* Every call that meets the listener's locks, its thread or the shutdown ends.
CallsEnd == ListenerYields /\ ShutdownEnds /\ ShutdownEndsWait
==============================================================================
