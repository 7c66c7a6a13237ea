------------------------- MODULE TaskAndGraphProofs -------------------------
(***************************************************************************)
(* Proofs about GraphListener, for any nodes, users and bounds, and about   *)
(* TaskCompletion, for any callbacks, awaiters and readers.  The two share  *)
(* no name and no variable; GraphListener comes first.                      *)
(*                                                                         *)
(* No pointer dangles because the list changes only under nodes_mutex_ or  *)
(* after the thread is joined (Owning, Iterating), and because each node is *)
(* to be added, being added by one user, listed, or refused (Belonging).    *)
(*                                                                         *)
(* That a function runs at most once is not inductive: Listing ties the    *)
(* list to where each registration stands, and Counting the number of runs *)
(* to both, so that neither the iteration nor the caller that found a      *)
(* result runs a function a second time.  That none is passed over either  *)
(* (NobodyIsForgotten) needs in addition what each of them has ahead of it *)
(* at every moment (Remembered).                                           *)
(***************************************************************************)
EXTENDS TaskCompletion, GraphListener, SequenceTheorems, TLAPS

\* The steps in which a user owns shutdown_mutex_.
Locked == {"add_barrier", "add_nodes", "hook", "del_barrier", "del_nodes"}
Adding == {"add", "add_barrier", "add_nodes"}
Destroying == {"destroy", "del_barrier", "del_nodes"}

\* shutdown_mutex_ has one owner, and from the flag to the join it is Main.
Owning ==
  /\ DOMAIN pc = Users /\ DOMAIN node = Users
  /\ \A u \in Users : pc[u] \in Locked <=> shutdown_mutex = u
  /\ main \in {"join", "final_join"} <=> shutdown_mutex = Main
  /\ \A u \in Users : pc[u] \in Locked => ~is_shutdown
  /\ \A u \in Users : pc[u] = "hook" => ~is_started
  /\ ~is_started => lpc = "none"
  /\ is_shutdown /\ lpc \notin {"none", "exited"} => shutdown_mutex = Main

\* The listener owns nodes_mutex_ while it waits for nodes and visits them.
Iterating ==
  /\ lpc \in {"wait", "visit", "notify"} => nodes_mutex = Listener
  /\ waited \subseteq interfaces /\ visit \subseteq interfaces
  /\ lpc # "wait" => waited = {}
  /\ lpc \notin {"visit", "notify"} => visit = {}
  /\ lpc # "notify" => notifying = NoOne

\* A node is either to be added, being added by one user, listed or refused,
\* and who destroys it is its only user.
Belonging ==
  /\ interfaces \subseteq existing /\ should_add \subseteq existing \ interfaces
  /\ NoOne \notin existing
  /\ \A u \in Users : pc[u] = "idle" <=> node[u] = NoOne
  /\ \A u \in Users : pc[u] # "idle" => node[u] \in existing
  /\ \A u \in Users : pc[u] \in Destroying =>
       node[u] \notin should_add /\ \A v \in Users \ {u} : node[v] # node[u]
  /\ \A u \in Users : pc[u] \in Adding =>
       /\ node[u] \notin should_add \cup interfaces
       /\ \A v \in Users \ {u} : pc[v] \in Adding => node[v] # node[u]
  /\ \A n \in existing \ (should_add \cup interfaces) :
       n \in refused \/ \E u \in Users : pc[u] \in Adding /\ node[u] = n

Failing == \A f \in failed : f[1] = "NodeNotFound" /\ f[2] \in refused

\* Who waits is in wait_for_graph_change.
Waiting ==
  /\ \A u \in waiting : u \in Users /\ pc[u] = "wait"
  /\ notified \subseteq waiting
  /\ NoLostWakeUp

GraphInv == Owning /\ Iterating /\ Belonging /\ Failing /\ Waiting

\* A step of user u, as its successors see it.
LEMMA UserAlone ==
  ASSUME NEW u \in Users, NEW f, DOMAIN f = Users, NEW x, NEW g, g = [f EXCEPT ![u] = x]
  PROVE  DOMAIN g = Users /\ g[u] = x /\ \A v \in Users \ {u} : g[v] = f[v]
  OBVIOUS

------------------------------------------------------------------------------
(* The owner of shutdown_mutex_. *)

LEMMA OwnerStays ==
  ASSUME Owning, NEW u \in Users, NEW step, pc' = [pc EXCEPT ![u] = step], DOMAIN node' = Users,
         step \in Locked <=> pc[u] \in Locked, step = "hook" => ~is_started,
         UNCHANGED <<shutdown_mutex, main, is_shutdown, is_started, lpc>>
  PROVE  Owning'
<1>1. DOMAIN pc' = Users /\ pc'[u] = step /\ \A v \in Users \ {u} : pc'[v] = pc[v]
  BY UserAlone DEF Owning
<1> QED
  BY <1>1 DEF Owning

LEMMA OwnerLocks ==
  ASSUME Owning, NEW u \in Users, NEW step \in Locked, pc' = [pc EXCEPT ![u] = step],
         DOMAIN node' = Users, step = "hook" => ~is_started,
         shutdown_mutex = NoOne, shutdown_mutex' = u, ~is_shutdown,
         UNCHANGED <<main, is_shutdown, is_started, lpc>>
  PROVE  Owning'
<1>1. DOMAIN pc' = Users /\ pc'[u] = step /\ \A v \in Users \ {u} : pc'[v] = pc[v]
  BY UserAlone DEF Owning
<1>2. u # NoOne /\ u # Main /\ NoOne # Main /\ NoOne \notin Users
  BY IdentitiesAssumption DEF NoOne, Main
<1> QED
  BY <1>1, <1>2 DEF Owning

LEMMA OwnerUnlocks ==
  ASSUME Owning, NEW u \in Users, pc[u] \in Locked,
         NEW step, step \notin Locked, pc' = [pc EXCEPT ![u] = step], DOMAIN node' = Users,
         shutdown_mutex' = NoOne, UNCHANGED <<main, is_shutdown>>,
         \/ UNCHANGED <<is_started, lpc>>
         \/ is_started' = TRUE
  PROVE  Owning'
<1>1. DOMAIN pc' = Users /\ pc'[u] = step /\ \A v \in Users \ {u} : pc'[v] = pc[v]
  BY UserAlone DEF Owning
<1>2. u # Main /\ NoOne # Main /\ NoOne \notin Users
  BY IdentitiesAssumption DEF NoOne, Main
<1>3. shutdown_mutex = u /\ ~is_shutdown
  BY DEF Owning
<1>4. \A v \in Users : pc'[v] \notin Locked
  BY <1>1, <1>3 DEF Owning
<1>5. main \notin {"join", "final_join"}
  BY <1>2, <1>3 DEF Owning
<1> QED
  BY <1>1, <1>2, <1>3, <1>4, <1>5 DEF Owning, Locked

------------------------------------------------------------------------------
(* The nodes and their users. *)

LEMMA PassesBy ==
  ASSUME Owning, Belonging, NEW u \in Users, NEW step, pc' = [pc EXCEPT ![u] = step],
         UNCHANGED <<node, existing, should_add, interfaces>>, refused \subseteq refused',
         pc[u] # "idle", step # "idle",
         step \in Adding <=> pc[u] \in Adding, step \in Destroying <=> pc[u] \in Destroying
  PROVE  Belonging'
<1>1. pc'[u] = step /\ \A v \in Users \ {u} : pc'[v] = pc[v]
  BY UserAlone DEF Owning
<1>2. /\ \A v \in Users : pc'[v] = "idle" <=> pc[v] = "idle"
      /\ \A v \in Users : pc'[v] \in Adding <=> pc[v] \in Adding
      /\ \A v \in Users : pc'[v] \in Destroying <=> pc[v] \in Destroying
  BY <1>1
<1> QED
  BY <1>2 DEF Belonging

LEMMA DropsEvent ==
  ASSUME Owning, Belonging, NEW u \in Users, Drop(u),
         pc[u] \notin {"idle"} \cup Destroying, pc[u] \in Adding => node[u] \in refused',
         UNCHANGED <<existing, should_add, interfaces>>, refused \subseteq refused'
  PROVE  Belonging'
<1>1. /\ pc'[u] = "idle" /\ \A v \in Users \ {u} : pc'[v] = pc[v]
      /\ node'[u] = NoOne /\ \A v \in Users \ {u} : node'[v] = node[v]
  BY UserAlone DEF Owning, Drop
<1>2. \A v \in Users : pc'[v] \in Adding \cup Destroying => v # u
  BY <1>1 DEF Adding, Destroying
<1>3. \A v \in Users \ {u} : pc[v] \in Destroying => node'[u] # node[v]
  BY <1>1 DEF Belonging, Destroying
<1>4. \A v \in Users : pc'[v] \in Destroying =>
        node'[v] \notin should_add /\ \A w \in Users \ {v} : node'[w] # node'[v]
  BY <1>1, <1>2, <1>3 DEF Belonging
<1>5. \A v \in Users : pc'[v] \in Adding =>
        /\ node'[v] \notin should_add \cup interfaces
        /\ \A w \in Users \ {v} : pc'[w] \in Adding => node'[w] # node'[v]
  BY <1>1, <1>2 DEF Belonging
<1>6. \A n \in existing \ (should_add \cup interfaces) :
        n \in refused' \/ \E v \in Users : pc'[v] \in Adding /\ node'[v] = n
  BY <1>1 DEF Belonging
<1>7. /\ \A v \in Users : pc'[v] = "idle" <=> node'[v] = NoOne
      /\ \A v \in Users : pc'[v] # "idle" => node'[v] \in existing
  BY <1>1 DEF Belonging
<1> QED
  BY <1>4, <1>5, <1>6, <1>7 DEF Belonging

\* get_graph_event: a node that nobody destroys gets a user.
LEMMA GetGraphEventBelongs ==
  ASSUME Owning, Belonging, NEW u \in Users, NEW n, GetGraphEvent(u, n)
  PROVE  Belonging'
<1>1. /\ pc[u] = "idle" /\ n \in existing /\ existing' = existing /\ should_add' = should_add
      /\ interfaces' = interfaces /\ refused' = refused
      /\ \A v \in Users : node[v] = n => pc[v] \notin Destroying
      /\ pc' = [pc EXCEPT ![u] = "got"] /\ node' = [node EXCEPT ![u] = n]
  BY DEF GetGraphEvent, nodeVars, Destroying
<1>2. /\ pc'[u] = "got" /\ \A v \in Users \ {u} : pc'[v] = pc[v]
      /\ node'[u] = n /\ \A v \in Users \ {u} : node'[v] = node[v]
  BY <1>1, UserAlone DEF Owning
<1>3. \A v \in Users : pc'[v] \in Adding \cup Destroying => v # u
  BY <1>2 DEF Adding, Destroying
<1>4. \A v \in Users : pc'[v] \in Destroying =>
        node'[v] \notin should_add /\ \A w \in Users \ {v} : node'[w] # node'[v]
  BY <1>1, <1>2, <1>3 DEF Belonging
<1>5. \A v \in Users : pc'[v] \in Adding =>
        /\ node'[v] \notin should_add \cup interfaces
        /\ \A w \in Users \ {v} : pc'[w] \in Adding => node'[w] # node'[v]
  BY <1>2, <1>3 DEF Belonging
<1>6. \A m \in existing \ (should_add \cup interfaces) :
        m \in refused \/ \E v \in Users : pc'[v] \in Adding /\ node'[v] = m
  BY <1>1, <1>2 DEF Belonging, Adding
<1>7. /\ \A v \in Users : pc'[v] = "idle" <=> node'[v] = NoOne
      /\ \A v \in Users : pc'[v] # "idle" => node'[v] \in existing
  BY <1>1, <1>2 DEF Belonging
<1> QED
  BY <1>1, <1>4, <1>5, <1>6, <1>7 DEF Belonging

\* The exchange: the one caller that finds the flag is to add the node.
LEMMA FirstCallBelongs ==
  ASSUME Owning, Belonging, NEW u \in Users, FirstCall(u)
  PROVE  Belonging'
<1> DEFINE n == node[u]
           step == IF n \in should_add THEN "add" ELSE "have"
<1>1. /\ pc[u] = "got" /\ pc' = [pc EXCEPT ![u] = step] /\ node' = node
      /\ existing' = existing /\ should_add' = should_add \ {n}
      /\ interfaces' = interfaces /\ refused' = refused
  BY DEF FirstCall, Go, hist
<1>2. pc'[u] = step /\ \A v \in Users \ {u} : pc'[v] = pc[v]
  BY <1>1, UserAlone DEF Owning
<1>3. \A v \in Users : pc'[v] \in Destroying => v # u
  BY <1>2 DEF Destroying
<1>4. \A v \in Users : pc'[v] \in Destroying =>
        node[v] \notin should_add' /\ \A w \in Users \ {v} : node[w] # node[v]
  BY <1>1, <1>2, <1>3 DEF Belonging
<1>5. \A v \in Users : pc'[v] \in Adding =>
        /\ node[v] \notin should_add' \cup interfaces
        /\ \A w \in Users \ {v} : pc'[w] \in Adding => node[w] # node[v]
  <2>1. pc'[u] \in Adding => n \in should_add /\ n \notin interfaces
    BY <1>2 DEF Adding, Belonging
  <2>2. \A v \in Users \ {u} : pc'[v] \in Adding => node[v] \notin should_add \cup interfaces
    BY <1>2 DEF Belonging
  <2>3. \A v \in Users \ {u}, w \in Users \ {u} : v # w /\ pc'[v] \in Adding /\ pc'[w] \in Adding =>
          node[v] # node[w]
    BY <1>2 DEF Belonging
  <2> QED
    BY <1>1, <2>1, <2>2, <2>3
<1>6. \A m \in existing \ (should_add' \cup interfaces) :
        m \in refused \/ \E v \in Users : pc'[v] \in Adding /\ node[v] = m
  <2>1. \A v \in Users : pc[v] \in Adding => pc'[v] \in Adding
    BY <1>1, <1>2 DEF Adding
  <2>2. n \in should_add => pc'[u] \in Adding
    BY <1>2 DEF Adding
  <2> QED
    BY <1>1, <2>1, <2>2 DEF Belonging
<1>7. \A v \in Users : pc'[v] = "idle" <=> pc[v] = "idle"
  BY <1>1, <1>2
<1> QED
  BY <1>1, <1>4, <1>5, <1>6, <1>7 DEF Belonging

\* add_node: the node is listed, and was not before.
LEMMA AddNodeBelongs ==
  ASSUME Owning, Belonging, NEW u \in Users, AddNode(u)
  PROVE  Belonging' /\ failed' = failed
<1> DEFINE n == node[u]
<1>1. /\ pc[u] = "add_nodes" /\ pc' = [pc EXCEPT ![u] = "start"] /\ node' = node
      /\ existing' = existing /\ should_add' = should_add
      /\ interfaces' = interfaces \cup {n} /\ refused' = refused
  BY DEF AddNode, Go
<1>2. pc'[u] = "start" /\ \A v \in Users \ {u} : pc'[v] = pc[v]
  BY <1>1, UserAlone DEF Owning
<1>3. n \notin should_add \cup interfaces /\ n \in existing
  BY <1>1 DEF Belonging, Adding
<1>4. failed' = failed
  BY <1>3 DEF AddNode
<1>5. \A v \in Users \ {u} : pc[v] \in Adding => node[v] # n
  BY <1>1 DEF Belonging, Adding
<1>6. \A v \in Users : pc'[v] \in Adding \cup Destroying => v # u /\ pc[v] = pc'[v]
  BY <1>2 DEF Adding, Destroying
<1>7. \A v \in Users : pc'[v] \in Destroying =>
        node[v] \notin should_add /\ \A w \in Users \ {v} : node[w] # node[v]
  BY <1>6 DEF Belonging
<1>8. \A v \in Users : pc'[v] \in Adding =>
        /\ node[v] \notin should_add \cup interfaces'
        /\ \A w \in Users \ {v} : pc'[w] \in Adding => node[w] # node[v]
  BY <1>1, <1>5, <1>6 DEF Belonging
<1>9. \A m \in existing \ (should_add \cup interfaces') :
        m \in refused \/ \E v \in Users : pc'[v] \in Adding /\ node[v] = m
  <2>1. \A v \in Users : pc[v] \in Adding /\ node[v] # n => pc'[v] \in Adding
    BY <1>2
  <2> QED
    BY <1>1, <2>1 DEF Belonging
<1>10. \A v \in Users : pc'[v] = "idle" <=> pc[v] = "idle"
  BY <1>1, <1>2
<1> QED
  BY <1>1, <1>3, <1>4, <1>7, <1>8, <1>9, <1>10 DEF Belonging

\* ~NodeGraph begins, and ends at once for a node that was to be added.
LEMMA DestroyNodeBelongs ==
  ASSUME Owning, Belonging, NEW u \in Users, NEW n, DestroyNode(u, n)
  PROVE  Belonging'
<1>1. /\ pc[u] = "idle" /\ n \in existing /\ \A v \in Users : node[v] # n
      /\ interfaces' = interfaces /\ refused' = refused
      /\ \/ /\ n \in should_add /\ existing' = existing \ {n} /\ should_add' = should_add \ {n}
            /\ pc' = pc /\ node' = node
         \/ /\ n \notin should_add /\ existing' = existing /\ should_add' = should_add
            /\ pc' = [pc EXCEPT ![u] = "destroy"] /\ node' = [node EXCEPT ![u] = n]
  BY DEF DestroyNode, hist
<1>2. CASE n \in should_add
  <2>1. /\ existing' = existing \ {n} /\ should_add' = should_add \ {n}
        /\ pc' = pc /\ node' = node
    BY <1>1, <1>2
  <2> QED
    BY <1>1, <1>2, <2>1 DEF Belonging
<1>3. CASE n \notin should_add
  <2>1. /\ existing' = existing /\ should_add' = should_add
        /\ pc'[u] = "destroy" /\ \A v \in Users \ {u} : pc'[v] = pc[v]
        /\ node'[u] = n /\ \A v \in Users \ {u} : node'[v] = node[v]
    BY <1>1, <1>3, UserAlone DEF Owning
  <2>2. n # NoOne
    BY <1>1 DEF Belonging
  <2>3. \A v \in Users : pc'[v] \in Destroying =>
          node'[v] \notin should_add /\ \A w \in Users \ {v} : node'[w] # node'[v]
    <3>1. \A v \in Users \ {u} : pc'[v] \in Destroying => node'[u] # node'[v]
      BY <1>1, <2>1
    <3>2. \A w \in Users \ {u} : node'[w] # node'[u]
      BY <1>1, <2>1
    <3>3. \A v \in Users \ {u} : pc'[v] \in Destroying =>
            node[v] \notin should_add /\ \A w \in Users \ {v, u} : node'[w] # node'[v]
      BY <2>1 DEF Belonging
    <3> QED
      BY <1>3, <2>1, <3>1, <3>2, <3>3
  <2>4. \A v \in Users : pc'[v] \in Adding => v # u
    BY <2>1 DEF Adding
  <2>5. \A v \in Users : pc'[v] \in Adding =>
          /\ node'[v] \notin should_add \cup interfaces
          /\ \A w \in Users \ {v} : pc'[w] \in Adding => node'[w] # node'[v]
    BY <2>1, <2>4 DEF Belonging
  <2>6. \A m \in existing \ (should_add \cup interfaces) :
          m \in refused \/ \E v \in Users : pc'[v] \in Adding /\ node'[v] = m
    BY <1>1, <2>1 DEF Belonging, Adding
  <2>7. /\ \A v \in Users : pc'[v] = "idle" <=> node'[v] = NoOne
        /\ \A v \in Users : pc'[v] # "idle" => node'[v] \in existing
    BY <1>1, <2>1, <2>2 DEF Belonging
  <2> QED
    BY <1>1, <2>1, <2>3, <2>5, <2>6, <2>7 DEF Belonging
<1> QED
  BY <1>2, <1>3

\* ... and ends: the node is found unless it was refused.
LEMMA RemoveBelongs ==
  ASSUME Owning, Belonging, Failing, NEW u \in Users, pc[u] \in Destroying, Remove(u),
         UNCHANGED <<should_add, refused>>
  PROVE  Belonging' /\ Failing' /\ pc' = [pc EXCEPT ![u] = "idle"] /\ DOMAIN node' = Users
<1> DEFINE n == node[u]
<1>1. /\ failed' = IF n \in interfaces THEN failed ELSE failed \cup {<<"NodeNotFound", n>>}
      /\ interfaces' = interfaces \ {n} /\ existing' = existing \ {n}
      /\ pc' = [pc EXCEPT ![u] = "idle"] /\ node' = [node EXCEPT ![u] = NoOne]
  BY DEF Remove
<1>2. /\ pc'[u] = "idle" /\ \A v \in Users \ {u} : pc'[v] = pc[v]
      /\ node'[u] = NoOne /\ DOMAIN node' = Users
      /\ \A v \in Users \ {u} : node'[v] = node[v]
  BY <1>1, UserAlone DEF Owning
<1>3. n \in existing /\ n \notin should_add /\ \A v \in Users \ {u} : node[v] # n
  BY DEF Belonging, Destroying
<1>4. pc[u] \notin Adding
  BY DEF Adding, Destroying
<1>5. n \in interfaces \/ n \in refused
  BY <1>3, <1>4 DEF Belonging
<1>6. Failing'
  BY <1>1, <1>5 DEF Failing
<1>7. \A v \in Users : pc'[v] \in Adding \cup Destroying => v # u
  BY <1>2 DEF Adding, Destroying
<1>8. \A v \in Users : pc'[v] \in Destroying =>
        node'[v] \notin should_add /\ \A w \in Users \ {v} : node'[w] # node'[v]
  <2>1. \A v \in Users \ {u} : pc[v] \in Destroying => node[v] # NoOne
    BY DEF Belonging, Destroying
  <2> QED
    BY <1>2, <1>7, <2>1 DEF Belonging
<1>9. \A v \in Users : pc'[v] \in Adding =>
        /\ node'[v] \notin should_add \cup interfaces'
        /\ \A w \in Users \ {v} : pc'[w] \in Adding => node'[w] # node'[v]
  BY <1>1, <1>2, <1>7 DEF Belonging
<1>10. \A m \in existing' \ (should_add \cup interfaces') :
         m \in refused \/ \E v \in Users : pc'[v] \in Adding /\ node'[v] = m
  BY <1>1, <1>2, <1>4 DEF Belonging
<1>11. /\ \A v \in Users : pc'[v] = "idle" <=> node'[v] = NoOne
       /\ \A v \in Users : pc'[v] # "idle" => node'[v] \in existing'
  BY <1>1, <1>2, <1>3 DEF Belonging
<1>12. /\ interfaces' \subseteq existing' /\ should_add' \subseteq existing' \ interfaces'
       /\ NoOne \notin existing' /\ should_add' = should_add /\ refused' = refused
  BY <1>1, <1>3 DEF Belonging
<1>13. Belonging'
  BY <1>8, <1>9, <1>10, <1>11, <1>12 DEF Belonging
<1> QED
  BY <1>1, <1>2, <1>6, <1>13

------------------------------------------------------------------------------
(* The listener and the waiting threads, while a user moves. *)

LEMMA ListenerAside ==
  ASSUME Iterating, UNCHANGED <<loop, nodes_mutex, interfaces>>
  PROVE  Iterating'
  BY DEF Iterating, loop

LEMMA FailingAside ==
  ASSUME Failing, failed' = failed, refused \subseteq refused'
  PROVE  Failing'
  BY DEF Failing

LEMMA WaitersAside ==
  ASSUME Owning, Waiting, NEW u \in Users, NEW step, pc' = [pc EXCEPT ![u] = step],
         \A v \in Users \ {u} : node'[v] = node[v],
         u \notin waiting', u \notin notified', waiting' \subseteq waiting, event' \subseteq event,
         waiting \ {u} \subseteq waiting', notified' \subseteq notified,
         notified \ {u} \subseteq notified', notifying' = notifying
  PROVE  Waiting'
<1>1. \A v \in Users \ {u} : pc'[v] = pc[v]
  BY UserAlone DEF Owning
<1> QED
  BY <1>1 DEF Waiting, NoLostWakeUp

\* Two steps of a call between which no lock and no node changes hands.
SameKind(from, to) ==
  /\ "idle" \notin {from, to} /\ to # "hook"
  /\ to \in Adding <=> from \in Adding
  /\ to \in Destroying <=> from \in Destroying
  /\ to \in Locked <=> from \in Locked

\* A user whose event, lists and locks stay moves on.
LEMMA UserMovesOn ==
  ASSUME GraphInv, NEW u \in Users, NEW step, pc' = [pc EXCEPT ![u] = step],
         SameKind(pc[u], step),
         u \notin waiting', u \notin notified', waiting' \subseteq waiting, event' \subseteq event,
         waiting \ {u} \subseteq waiting', notified' \subseteq notified,
         notified \ {u} \subseteq notified',
         UNCHANGED <<node, existing, should_add, interfaces, refused, failed, shutdown_mutex,
                     main, is_shutdown, is_started, loop, nodes_mutex>>
  PROVE  GraphInv'
<1>1. Owning'
  BY OwnerStays DEF GraphInv, Owning, loop, SameKind
<1>2. Iterating'
  BY ListenerAside DEF GraphInv
<1>3. Belonging'
  BY PassesBy DEF GraphInv, SameKind
<1>4. Failing'
  BY FailingAside DEF GraphInv
<1>5. Waiting'
  BY WaitersAside DEF GraphInv, loop
<1> QED
  BY <1>1, <1>2, <1>3, <1>4, <1>5 DEF GraphInv

\* A user whose event goes out of scope.
LEMMA UserDrops ==
  ASSUME GraphInv, NEW u \in Users, Drop(u), pc[u] \in {"add", "start", "have", "check"},
         pc[u] = "add" => node[u] \in refused', refused \subseteq refused',
         UNCHANGED <<existing, should_add, interfaces, failed, shutdown_mutex, waiting, notified,
                     main, is_shutdown, is_started, loop, nodes_mutex>>
  PROVE  GraphInv'
<1>1. /\ pc' = [pc EXCEPT ![u] = "idle"] /\ node' = [node EXCEPT ![u] = NoOne]
      /\ event' = event \ {u}
  BY DEF Drop
<1>2. DOMAIN node' = Users /\ \A v \in Users \ {u} : node'[v] = node[v]
  BY <1>1, UserAlone DEF GraphInv, Owning
<1>3. u \notin waiting /\ u \notin notified
  BY DEF GraphInv, Waiting
<1>4. Owning'
  BY <1>1, <1>2, OwnerStays DEF GraphInv, Locked, loop
<1>5. Iterating'
  BY ListenerAside DEF GraphInv
<1>6. Belonging'
  BY DropsEvent DEF GraphInv, Adding, Destroying
<1>7. Failing'
  BY FailingAside DEF GraphInv
<1>8. Waiting'
  BY <1>1, <1>2, <1>3, WaitersAside DEF GraphInv, loop
<1> QED
  BY <1>4, <1>5, <1>6, <1>7, <1>8 DEF GraphInv

\* A user that waits is in one step of wait_for_graph_change.
LEMMA NotWaiting ==
  ASSUME GraphInv, NEW u \in Users, pc[u] # "wait"
  PROVE  u \notin waiting /\ u \notin notified
  BY DEF GraphInv, Waiting

LEMMA GetGraphEventKeeps ==
  ASSUME GraphInv, NEW u \in Users, NEW n, GetGraphEvent(u, n)
  PROVE  GraphInv'
<1>1. /\ pc[u] = "idle" /\ pc' = [pc EXCEPT ![u] = "got"] /\ node' = [node EXCEPT ![u] = n]
      /\ UNCHANGED <<interfaces, refused, failed, shutdown_mutex, waiting, notified, event,
                     main, is_shutdown, is_started, loop, nodes_mutex>>
  BY DEF GetGraphEvent, mutexes, nodeVars, flags, ctx
<1>2. DOMAIN node' = Users /\ \A v \in Users \ {u} : node'[v] = node[v]
  BY <1>1, UserAlone DEF GraphInv, Owning
<1>3. Owning'
  BY <1>1, <1>2, OwnerStays DEF GraphInv, Locked, loop
<1>4. Iterating'
  BY <1>1, ListenerAside DEF GraphInv
<1>5. Belonging'
  BY GetGraphEventBelongs DEF GraphInv
<1>6. Failing'
  BY <1>1, FailingAside DEF GraphInv
<1>7. Waiting'
  BY <1>1, <1>2, NotWaiting, WaitersAside DEF GraphInv, loop
<1> QED
  BY <1>3, <1>4, <1>5, <1>6, <1>7 DEF GraphInv

LEMMA FirstCallKeeps ==
  ASSUME GraphInv, NEW u \in Users, FirstCall(u)
  PROVE  GraphInv'
<1>1. PICK step \in {"add", "have"} :
        /\ pc[u] = "got" /\ pc' = [pc EXCEPT ![u] = step]
        /\ UNCHANGED <<node, interfaces, refused, failed, shutdown_mutex, waiting, notified, event,
                       main, is_shutdown, is_started, loop, nodes_mutex>>
  BY DEF FirstCall, Go, mutexes, flags, ctx, hist
<1>2. Owning'
  BY <1>1, OwnerStays DEF GraphInv, Locked, loop, Owning
<1>3. Iterating'
  BY <1>1, ListenerAside DEF GraphInv
<1>4. Belonging'
  BY FirstCallBelongs DEF GraphInv
<1>5. Failing'
  BY <1>1, FailingAside DEF GraphInv
<1>6. Waiting'
  BY <1>1, NotWaiting, WaitersAside DEF GraphInv, loop
<1> QED
  BY <1>2, <1>3, <1>4, <1>5, <1>6 DEF GraphInv

\* A user takes shutdown_mutex_ in a listener that is not shut down.
LEMMA UserLocks ==
  ASSUME GraphInv, NEW u \in Users, NEW step \in {"add_barrier", "hook", "del_barrier"},
         pc' = [pc EXCEPT ![u] = step], pc[u] # "idle",
         step \in Adding <=> pc[u] \in Adding, step \in Destroying <=> pc[u] \in Destroying,
         step = "hook" => ~is_started, ~is_shutdown, pc[u] # "wait",
         shutdown_mutex = NoOne, shutdown_mutex' = u,
         UNCHANGED <<node, existing, should_add, interfaces, refused, failed, waiting, notified,
                     event, main, is_shutdown, is_started, loop, nodes_mutex>>
  PROVE  GraphInv'
<1>1. Owning'
  BY OwnerLocks DEF GraphInv, Locked, loop, Owning
<1>2. Iterating'
  BY ListenerAside DEF GraphInv
<1>3. Belonging'
  BY PassesBy DEF GraphInv
<1>4. Failing'
  BY FailingAside DEF GraphInv
<1>5. Waiting'
  BY NotWaiting, WaitersAside DEF GraphInv, loop
<1> QED
  BY <1>1, <1>2, <1>3, <1>4, <1>5 DEF GraphInv

LEMMA AddLockKeeps ==
  ASSUME GraphInv, NEW u \in Users, AddLock(u)
  PROVE  GraphInv'
<1>1. /\ pc[u] = "add" /\ shutdown_mutex = NoOne
      /\ UNCHANGED <<existing, should_add, interfaces, failed, waiting, notified,
                     main, is_shutdown, is_started, loop, nodes_mutex>>
  BY DEF AddLock, flags, ctx
<1>2. CASE is_shutdown
  <2>1. Drop(u) /\ refused' = refused \cup {node[u]} /\ UNCHANGED shutdown_mutex
    BY <1>2 DEF AddLock
  <2> QED
    BY <1>1, <2>1, UserDrops
<1>3. CASE ~is_shutdown
  <2>1. /\ pc' = [pc EXCEPT ![u] = "add_barrier"] /\ shutdown_mutex' = u
        /\ UNCHANGED <<node, event, refused>>
    BY <1>3 DEF AddLock
  <2> QED
    BY <1>1, <1>3, <2>1, UserLocks DEF Adding, Destroying
<1> QED
  BY <1>2, <1>3

LEMMA AcquireNodesLockKeeps ==
  ASSUME GraphInv, NEW u \in Users,
         \/ AcquireNodesLock(u, "add_barrier", "add_nodes")
         \/ AcquireNodesLock(u, "del_barrier", "del_nodes")
  PROVE  GraphInv'
<1>1. /\ \/ pc[u] = "add_barrier" /\ pc' = [pc EXCEPT ![u] = "add_nodes"]
         \/ pc[u] = "del_barrier" /\ pc' = [pc EXCEPT ![u] = "del_nodes"]
      /\ UNCHANGED <<node, existing, should_add, interfaces, refused, failed, shutdown_mutex,
                     waiting, notified, event, main, is_shutdown, is_started, loop, nodes_mutex>>
  BY DEF AcquireNodesLock, Go, nodeVars, flags, ctx
<1>2. u \notin waiting /\ u \notin notified
  BY <1>1, NotWaiting
<1> QED
  BY <1>1, <1>2, UserMovesOn DEF SameKind, Adding, Destroying, Locked

\* The nodes mutex is free: no iteration is in progress.
LEMMA NothingVisited ==
  ASSUME GraphInv, nodes_mutex = NoOne
  PROVE  waited = {} /\ visit = {} /\ lpc \notin {"wait", "visit", "notify"}
  BY DEF GraphInv, Iterating, NoOne, Listener

LEMMA ListChanges ==
  ASSUME Iterating, waited = {}, visit = {}, lpc \notin {"wait", "visit", "notify"},
         UNCHANGED <<loop, nodes_mutex>>
  PROVE  Iterating'
  BY DEF Iterating, loop

LEMMA AddNodeKeeps ==
  ASSUME GraphInv, NEW u \in Users, AddNode(u)
  PROVE  GraphInv'
<1>1. /\ pc[u] = "add_nodes" /\ pc' = [pc EXCEPT ![u] = "start"] /\ nodes_mutex = NoOne
      /\ shutdown_mutex' = NoOne
      /\ UNCHANGED <<node, refused, waiting, notified, event, main, is_shutdown, is_started,
                     loop, nodes_mutex>>
  BY DEF AddNode, Go, flags, ctx
<1>2. Owning'
  BY <1>1, OwnerUnlocks DEF GraphInv, Locked, loop, Owning
<1>3. Iterating'
  BY <1>1, NothingVisited, ListChanges DEF GraphInv
<1>4. Belonging' /\ failed' = failed
  BY AddNodeBelongs DEF GraphInv
<1>5. Failing'
  BY <1>1, <1>4, FailingAside DEF GraphInv
<1>6. Waiting'
  BY <1>1, NotWaiting, WaitersAside DEF GraphInv, loop
<1> QED
  BY <1>2, <1>3, <1>4, <1>5, <1>6 DEF GraphInv

LEMMA StartLockKeeps ==
  ASSUME GraphInv, NEW u \in Users, StartLock(u)
  PROVE  GraphInv'
<1>1. /\ pc[u] = "start" /\ shutdown_mutex = NoOne
      /\ UNCHANGED <<existing, should_add, interfaces, failed, refused, waiting, notified,
                     main, is_shutdown, is_started, loop, nodes_mutex>>
  BY DEF StartLock, flags, ctx
<1>2. CASE is_shutdown \/ (~is_started /\ ~valid)
  <2>1. Drop(u) /\ UNCHANGED shutdown_mutex
    BY <1>2 DEF StartLock
  <2> QED
    BY <1>1, <2>1, UserDrops
<1>3. CASE ~is_shutdown /\ is_started
  <2>1. /\ pc' = [pc EXCEPT ![u] = "have"] /\ shutdown_mutex' = shutdown_mutex /\ node' = node
        /\ event' \subseteq event /\ waiting' = waiting /\ notified' = notified
    BY <1>1, <1>3 DEF StartLock
  <2>2. u \notin waiting' /\ u \notin notified'
    BY <1>1, NotWaiting
  <2>3. SameKind(pc[u], "have")
    BY <1>1 DEF SameKind, Adding, Destroying, Locked
  <2> QED
    BY <1>1, <2>1, <2>2, <2>3, UserMovesOn
<1>4. CASE ~is_shutdown /\ ~is_started /\ valid
  <2>1. pc' = [pc EXCEPT ![u] = "hook"] /\ shutdown_mutex' = u /\ UNCHANGED <<node, event>>
    BY <1>4 DEF StartLock
  <2> QED
    BY <1>1, <1>4, <2>1, UserLocks DEF Adding, Destroying
<1> QED
  BY <1>2, <1>3, <1>4

\* The thread of the listener is started once.
LEMMA StartKeeps ==
  ASSUME GraphInv, NEW u \in Users, Start(u)
  PROVE  GraphInv'
<1>1. /\ pc[u] = "hook" /\ pc' = [pc EXCEPT ![u] = "have"] /\ is_started' = TRUE /\ lpc' = "top"
      /\ shutdown_mutex' = NoOne
      /\ UNCHANGED <<nodes_mutex, waited, visit, notifying, existing, should_add, interfaces,
                     node, event, waiting, notified, is_shutdown, main, refused, failed>>
  BY DEF Start, Go, nodeVars, ctx
<1>2. lpc = "none"
  BY <1>1 DEF GraphInv, Owning
<1>3. Owning'
  BY <1>1, OwnerUnlocks DEF GraphInv, Locked, Owning
<1>4. Iterating'
  BY <1>1, <1>2 DEF GraphInv, Iterating
<1>5. Belonging'
  BY <1>1, PassesBy DEF GraphInv, Adding, Destroying
<1>6. Failing'
  BY <1>1, FailingAside DEF GraphInv
<1>7. Waiting'
  BY <1>1, NotWaiting, WaitersAside DEF GraphInv
<1> QED
  BY <1>3, <1>4, <1>5, <1>6, <1>7 DEF GraphInv

------------------------------------------------------------------------------
(* wait_for_service_nanoseconds. *)

LEMMA TestOkKeeps ==
  ASSUME GraphInv, NEW u \in Users, TestOk(u)
  PROVE  GraphInv'
<1>1. /\ pc[u] = "have"
      /\ UNCHANGED <<existing, should_add, interfaces, failed, refused, waiting, notified,
                     shutdown_mutex, main, is_shutdown, is_started, loop, nodes_mutex>>
  BY DEF TestOk, mutexes, flags, ctx
<1>2. CASE valid
  <2>1. /\ pc' = [pc EXCEPT ![u] = "wait"] /\ node' = node /\ event' \subseteq event
        /\ waiting' = waiting /\ notified' = notified
    BY <1>1, <1>2 DEF TestOk
  <2>2. u \notin waiting' /\ u \notin notified'
    BY <1>1, NotWaiting
  <2>3. SameKind(pc[u], "wait")
    BY <1>1 DEF SameKind, Adding, Destroying, Locked
  <2> QED
    BY <1>1, <2>1, <2>2, <2>3, UserMovesOn
<1>3. CASE ~valid
  <2>1. Drop(u)
    BY <1>3 DEF TestOk
  <2> QED
    BY <1>1, <2>1, UserDrops
<1> QED
  BY <1>2, <1>3

\* The wait begins under graph_mutex_, after the test of the event.
LEMMA EnterWaitKeeps ==
  ASSUME GraphInv, NEW u \in Users, EnterWait(u)
  PROVE  GraphInv'
<1>1. /\ pc[u] = "wait" /\ u \notin waiting
      /\ UNCHANGED <<node, existing, should_add, interfaces, failed, refused, event, notified,
                     shutdown_mutex, main, is_shutdown, is_started, loop, nodes_mutex>>
  BY DEF EnterWait, mutexes, nodeVars, flags, ctx, hist
<1>2. CASE Pred(u)
  <2>1. /\ pc' = [pc EXCEPT ![u] = "check"] /\ waiting' = waiting /\ event' \subseteq event
        /\ notified' = notified /\ u \notin notified
    BY <1>1, <1>2 DEF EnterWait, GraphInv, Waiting
  <2>2. SameKind(pc[u], "check")
    BY <1>1 DEF SameKind, Adding, Destroying, Locked
  <2> QED
    BY <1>1, <2>1, <2>2, UserMovesOn
<1>3. CASE ~Pred(u)
  <2>1. /\ pc' = pc /\ waiting' = waiting \cup {u} /\ u \notin event /\ notifying' = notifying
        /\ UNCHANGED <<node, event, notified>>
    BY <1>1, <1>3 DEF EnterWait, Pred, loop
  <2>2. Owning'
    BY <1>1, <2>1 DEF GraphInv, Owning, loop
  <2>3. Iterating'
    BY <1>1, ListenerAside DEF GraphInv
  <2>4. Belonging'
    BY <1>1, <2>1 DEF GraphInv, Belonging
  <2>5. Failing'
    BY <1>1, FailingAside DEF GraphInv
  <2>6. Waiting'
    BY <1>1, <2>1 DEF GraphInv, Waiting, NoLostWakeUp
  <2> QED
    BY <2>2, <2>3, <2>4, <2>5, <2>6 DEF GraphInv
<1> QED
  BY <1>2, <1>3

\* A waiter that was notified and whose event is not set waits again.
LEMMA WakeUpKeeps ==
  ASSUME GraphInv, NEW u \in Users, WakeUp(u)
  PROVE  GraphInv'
<1>1. /\ notified' = notified \ {u}
      /\ UNCHANGED <<node, existing, should_add, interfaces, failed, refused, event,
                     shutdown_mutex, main, is_shutdown, is_started, loop, nodes_mutex>>
  BY DEF WakeUp, mutexes, nodeVars, flags, ctx, hist
<1>2. CASE Pred(u) /\ pc[u] = "wait"
  <2>1. /\ pc' = [pc EXCEPT ![u] = "check"] /\ waiting' = waiting \ {u} /\ event' \subseteq event
    BY <1>1, <1>2 DEF WakeUp
  <2>2. SameKind(pc[u], "check")
    BY <1>2 DEF SameKind, Adding, Destroying, Locked
  <2> QED
    BY <1>1, <2>1, <2>2, UserMovesOn
<1>3. CASE ~Pred(u)
  <2>1. pc' = pc /\ waiting' = waiting /\ u \notin event /\ notifying' = notifying
    BY <1>1, <1>3 DEF WakeUp, Pred, loop
  <2>2. Owning'
    BY <1>1, <2>1 DEF GraphInv, Owning, loop
  <2>3. Iterating'
    BY <1>1, ListenerAside DEF GraphInv
  <2>4. Belonging'
    BY <1>1, <2>1 DEF GraphInv, Belonging
  <2>5. Failing'
    BY <1>1, FailingAside DEF GraphInv
  <2>6. Waiting'
    BY <1>1, <2>1 DEF GraphInv, Waiting, NoLostWakeUp
  <2> QED
    BY <2>2, <2>3, <2>4, <2>5, <2>6 DEF GraphInv
<1>4. Pred(u) => pc[u] = "wait"
  BY DEF WakeUp, GraphInv, Waiting
<1> QED
  BY <1>2, <1>3, <1>4

LEMMA TimeoutKeeps ==
  ASSUME GraphInv, NEW u \in Users, Timeout(u)
  PROVE  GraphInv'
<1>1. /\ u \in waiting /\ waiting' = waiting \ {u} /\ notified' = notified \ {u}
      /\ pc' = [pc EXCEPT ![u] = "check"]
      /\ UNCHANGED <<node, existing, should_add, interfaces, failed, refused, event,
                     shutdown_mutex, main, is_shutdown, is_started, loop, nodes_mutex>>
  BY DEF Timeout, mutexes, nodeVars, flags, ctx, hist
<1>2. pc[u] = "wait"
  BY <1>1 DEF GraphInv, Waiting
<1>3. event' \subseteq event
  BY <1>1
<1>4. SameKind(pc[u], "check")
  BY <1>2 DEF SameKind, Adding, Destroying, Locked
<1> QED
  BY <1>1, <1>3, <1>4, UserMovesOn

LEMMA CheckServiceKeeps ==
  ASSUME GraphInv, NEW u \in Users, CheckService(u)
  PROVE  GraphInv'
<1>1. /\ pc[u] = "check"
      /\ UNCHANGED <<existing, should_add, interfaces, failed, refused, waiting, notified,
                     shutdown_mutex, main, is_shutdown, is_started, loop, nodes_mutex>>
  BY DEF CheckService, mutexes, flags, ctx
<1>2. CASE Drop(u)
  BY <1>1, <1>2, UserDrops
<1>3. CASE pc' = [pc EXCEPT ![u] = "have"] /\ event' = event \ {u} /\ node' = node
  <2>1. /\ u \notin waiting' /\ u \notin notified' /\ waiting' = waiting /\ notified' = notified
        /\ event' \subseteq event
    BY <1>1, <1>3, NotWaiting
  <2>2. SameKind(pc[u], "have")
    BY <1>1 DEF SameKind, Adding, Destroying, Locked
  <2> QED
    BY <1>1, <1>3, <2>1, <2>2, UserMovesOn
<1> QED
  BY <1>2, <1>3 DEF CheckService

------------------------------------------------------------------------------
(* ~NodeGraph. *)

LEMMA DestroyNodeKeeps ==
  ASSUME GraphInv, NEW u \in Users, NEW n, DestroyNode(u, n)
  PROVE  GraphInv'
<1>1. /\ pc[u] = "idle"
      /\ UNCHANGED <<interfaces, failed, refused, event, waiting, notified,
                     shutdown_mutex, main, is_shutdown, is_started, loop, nodes_mutex>>
      /\ \/ pc' = pc /\ node' = node
         \/ pc' = [pc EXCEPT ![u] = "destroy"] /\ node' = [node EXCEPT ![u] = n]
  BY DEF DestroyNode, mutexes, flags, ctx, hist
<1>2. Iterating'
  BY <1>1, ListenerAside DEF GraphInv
<1>3. Belonging'
  BY DestroyNodeBelongs DEF GraphInv
<1>4. Failing'
  BY <1>1, FailingAside DEF GraphInv
<1>5. CASE pc' = pc /\ node' = node
  <2>1. Owning'
    BY <1>1, <1>5 DEF GraphInv, Owning, loop
  <2>2. Waiting'
    BY <1>1, <1>5 DEF GraphInv, Waiting, NoLostWakeUp, loop
  <2> QED
    BY <1>2, <1>3, <1>4, <2>1, <2>2 DEF GraphInv
<1>6. CASE pc' = [pc EXCEPT ![u] = "destroy"] /\ node' = [node EXCEPT ![u] = n]
  <2>1. DOMAIN node' = Users /\ \A v \in Users \ {u} : node'[v] = node[v]
    BY <1>6, UserAlone DEF GraphInv, Owning
  <2>2. Owning'
    BY <1>1, <1>6, <2>1, OwnerStays DEF GraphInv, Locked, loop
  <2>3. Waiting'
    BY <1>1, <1>6, <2>1, NotWaiting, WaitersAside DEF GraphInv, loop
  <2> QED
    BY <1>2, <1>3, <1>4, <2>2, <2>3 DEF GraphInv
<1> QED
  BY <1>1, <1>5, <1>6

\* The node leaves the list when no iteration over it is in progress.
LEMMA RemoveKeeps ==
  ASSUME GraphInv, NEW u \in Users, pc[u] \in Destroying, Remove(u), Owning',
         waited = {}, visit = {}, lpc \notin {"wait", "visit", "notify"},
         UNCHANGED <<should_add, refused, event, waiting, notified, loop, nodes_mutex>>
  PROVE  GraphInv'
<1>1. Belonging' /\ Failing'
  BY RemoveBelongs DEF GraphInv
<1>2. /\ pc' = [pc EXCEPT ![u] = "idle"] /\ node' = [node EXCEPT ![u] = NoOne]
  BY DEF Remove
<1>3. \A v \in Users \ {u} : node'[v] = node[v]
  BY <1>2, UserAlone DEF GraphInv, Owning
<1>4. Iterating'
  BY ListChanges DEF GraphInv
<1>5. u \notin waiting /\ u \notin notified
  BY NotWaiting DEF Destroying
<1>6. Waiting'
  BY <1>2, <1>3, <1>5, WaitersAside DEF GraphInv, loop
<1> QED
  BY <1>1, <1>4, <1>6 DEF GraphInv

LEMMA RemoveLockKeeps ==
  ASSUME GraphInv, NEW u \in Users, RemoveLock(u)
  PROVE  GraphInv'
<1>1. /\ pc[u] = "destroy" /\ shutdown_mutex = NoOne
      /\ UNCHANGED <<should_add, refused, event, waiting, notified,
                     main, is_shutdown, is_started, loop, nodes_mutex>>
  BY DEF RemoveLock, flags, ctx
<1>2. CASE is_shutdown
  <2>1. Remove(u) /\ UNCHANGED shutdown_mutex
    BY <1>2 DEF RemoveLock
  <2>2. pc' = [pc EXCEPT ![u] = "idle"] /\ DOMAIN node' = Users
    BY <1>1, <2>1, RemoveBelongs DEF GraphInv, Destroying
  <2>3. Owning'
    BY <1>1, <2>1, <2>2, OwnerStays DEF GraphInv, Locked, loop
  <2>4. lpc \in {"none", "exited"}
    BY <1>1, <1>2, IdentitiesAssumption DEF GraphInv, Owning, NoOne, Main
  <2>5. waited = {} /\ visit = {}
    BY <2>4 DEF GraphInv, Iterating
  <2> QED
    BY <1>1, <2>1, <2>3, <2>4, <2>5, RemoveKeeps DEF Destroying
<1>3. CASE ~is_shutdown
  <2>1. /\ pc' = [pc EXCEPT ![u] = "del_barrier"] /\ shutdown_mutex' = u
        /\ UNCHANGED <<failed, interfaces, existing, node>>
    BY <1>3 DEF RemoveLock
  <2> QED
    BY <1>1, <1>3, <2>1, UserLocks DEF Adding, Destroying
<1> QED
  BY <1>2, <1>3

LEMMA RemoveNodeKeeps ==
  ASSUME GraphInv, NEW u \in Users, RemoveNode(u)
  PROVE  GraphInv'
<1>1. /\ pc[u] = "del_nodes" /\ nodes_mutex = NoOne /\ Remove(u) /\ shutdown_mutex' = NoOne
      /\ UNCHANGED <<should_add, refused, event, waiting, notified,
                     main, is_shutdown, is_started, loop, nodes_mutex>>
  BY DEF RemoveNode, flags, ctx
<1>2. pc' = [pc EXCEPT ![u] = "idle"] /\ DOMAIN node' = Users
  BY <1>1, RemoveBelongs DEF GraphInv, Destroying
<1>3. Owning'
  BY <1>1, <1>2, OwnerUnlocks DEF GraphInv, Locked, loop
<1> QED
  BY <1>1, <1>3, NothingVisited, RemoveKeeps DEF Destroying

------------------------------------------------------------------------------
(* The listener thread. *)

\* The listener moves on and leaves the users, the lists and the flags alone.
LEMMA ListenerMovesOn ==
  ASSUME GraphInv, LoopRest, Iterating', Waiting',
         \/ lpc' = lpc
         \/ lpc # "none" /\ (is_shutdown => shutdown_mutex = Main)
         \/ lpc # "none" /\ lpc' = "exited"
  PROVE  GraphInv'
<1>1. /\ UNCHANGED <<shutdown_mutex, existing, should_add, interfaces, pc, node,
                     is_started, is_shutdown, main, refused, failed>>
  BY DEF LoopRest, flags, ctx
<1>2. Owning'
  BY <1>1 DEF GraphInv, Owning
<1>3. Belonging'
  BY <1>1 DEF GraphInv, Belonging
<1>4. Failing'
  BY <1>1 DEF GraphInv, Failing
<1> QED
  BY <1>2, <1>3, <1>4 DEF GraphInv

\* A listener that is in its loop: whoever shut it down waits for it.
LEMMA ListenerRuns ==
  ASSUME GraphInv, lpc \in {"top", "barrier", "nodes", "wait", "visit", "notify"}
  PROVE  lpc # "none" /\ (is_shutdown => shutdown_mutex = Main)
  BY DEF GraphInv, Owning

LEMMA LoopTopKeeps ==
  ASSUME GraphInv, LoopTop
  PROVE  GraphInv'
<1>1. /\ lpc = "top" /\ lpc' \in {"exited", "barrier"} /\ LoopRest
      /\ UNCHANGED <<nodes_mutex, waited, visit, notifying, event, waiting, notified>>
  BY DEF LoopTop
<1>2. Iterating'
  BY <1>1 DEF GraphInv, Iterating, LoopRest
<1>3. Waiting'
  BY <1>1 DEF GraphInv, Waiting, NoLostWakeUp, LoopRest
<1> QED
  BY <1>1, <1>2, <1>3, ListenerRuns, ListenerMovesOn

LEMMA LoopBarrierKeeps ==
  ASSUME GraphInv, LoopBarrier
  PROVE  GraphInv'
<1>1. /\ lpc = "barrier" /\ lpc' = "nodes" /\ LoopRest
      /\ UNCHANGED <<nodes_mutex, waited, visit, notifying, event, waiting, notified>>
  BY DEF LoopBarrier
<1>2. Iterating'
  BY <1>1 DEF GraphInv, Iterating, LoopRest
<1>3. Waiting'
  BY <1>1 DEF GraphInv, Waiting, NoLostWakeUp, LoopRest
<1> QED
  BY <1>1, <1>2, <1>3, ListenerRuns, ListenerMovesOn

LEMMA LoopFillKeeps ==
  ASSUME GraphInv, LoopFill
  PROVE  GraphInv'
<1>1. /\ lpc = "nodes" /\ lpc' = "wait" /\ LoopRest /\ nodes_mutex' = Listener
      /\ waited' \subseteq interfaces
      /\ UNCHANGED <<visit, notifying, event, waiting, notified>>
  BY DEF LoopFill
<1>2. Iterating'
  BY <1>1 DEF GraphInv, Iterating, LoopRest
<1>3. Waiting'
  BY <1>1 DEF GraphInv, Waiting, NoLostWakeUp, LoopRest
<1> QED
  BY <1>1, <1>2, <1>3, ListenerRuns, ListenerMovesOn

LEMMA RclWaitKeeps ==
  ASSUME GraphInv, RclWait
  PROVE  GraphInv'
<1>1. /\ lpc = "wait" /\ lpc' = "visit" /\ LoopRest /\ visit' = interfaces /\ waited' = {}
      /\ UNCHANGED <<nodes_mutex, notifying, event, waiting, notified>>
  BY DEF RclWait
<1>2. Iterating'
  BY <1>1 DEF GraphInv, Iterating, LoopRest
<1>3. Waiting'
  BY <1>1 DEF GraphInv, Waiting, NoLostWakeUp, LoopRest
<1> QED
  BY <1>1, <1>2, <1>3, ListenerRuns, ListenerMovesOn

\* The events are set before their waiters are notified, with the listener at
\* the node in between.
LEMMA SetEventsKeeps ==
  ASSUME GraphInv, SetEvents
  PROVE  GraphInv'
<1>1. PICK n \in visit :
        /\ event' = event \cup Holders(n) /\ lpc' = "notify" /\ notifying' = n
        /\ visit' = (visit \ {n}) \cup IF down_seen THEN {n} ELSE {}
  BY DEF SetEvents
<1>2. lpc = "visit" /\ LoopRest /\ UNCHANGED <<nodes_mutex, waited, waiting, notified>>
  BY DEF SetEvents
<1>3. visit' \subseteq visit
  BY <1>1
<1>4. Iterating'
  BY <1>1, <1>2, <1>3 DEF GraphInv, Iterating, LoopRest
<1>5. notifying = NoOne
  BY <1>2 DEF GraphInv, Iterating
<1>6. \A u \in waiting : node[u] # NoOne
  BY DEF GraphInv, Waiting, Belonging
<1>7. \A u \in waiting \cap event : u \in notified
  BY <1>5, <1>6 DEF GraphInv, Waiting, NoLostWakeUp
<1>8. \A u \in Holders(n) : node[u] = n
  BY DEF Holders
<1>9. Waiting'
  BY <1>1, <1>2, <1>7, <1>8 DEF GraphInv, Waiting, NoLostWakeUp, LoopRest
<1> QED
  BY <1>2, <1>4, <1>9, ListenerRuns, ListenerMovesOn

LEMMA NotifyAllKeeps ==
  ASSUME GraphInv, NotifyAll
  PROVE  GraphInv'
<1>1. /\ lpc = "notify" /\ lpc' = "visit" /\ notifying' = NoOne /\ LoopRest
      /\ notified' = notified \cup WaitersOf(notifying)
      /\ UNCHANGED <<nodes_mutex, waited, visit, event, waiting>>
  BY DEF NotifyAll
<1>2. Iterating'
  BY <1>1 DEF GraphInv, Iterating, LoopRest
<1>3. Waiting'
  BY <1>1 DEF GraphInv, Waiting, NoLostWakeUp, WaitersOf, LoopRest
<1> QED
  BY <1>1, <1>2, <1>3, ListenerRuns, ListenerMovesOn

LEMMA VisitOtherKeeps ==
  ASSUME GraphInv, VisitOther
  PROVE  GraphInv'
<1>1. /\ lpc = "visit" /\ lpc' = lpc /\ LoopRest /\ visit' \subseteq visit
      /\ notified \subseteq notified' /\ notified' \subseteq notified \cup waiting
      /\ UNCHANGED <<nodes_mutex, waited, notifying, event, waiting>>
  BY DEF VisitOther, WaitersOf
<1>2. Iterating'
  BY <1>1 DEF GraphInv, Iterating, LoopRest
<1>3. Waiting'
  BY <1>1 DEF GraphInv, Waiting, NoLostWakeUp, LoopRest
<1> QED
  BY <1>1, <1>2, <1>3, ListenerMovesOn

LEMMA LoopEndKeeps ==
  ASSUME GraphInv, LoopEnd
  PROVE  GraphInv'
<1>1. /\ lpc = "visit" /\ lpc' = "top" /\ visit = {} /\ LoopRest
      /\ UNCHANGED <<waited, visit, notifying, event, waiting, notified>>
  BY DEF LoopEnd
<1>2. Iterating'
  BY <1>1 DEF GraphInv, Iterating, LoopRest
<1>3. Waiting'
  BY <1>1 DEF GraphInv, Waiting, NoLostWakeUp, LoopRest
<1> QED
  BY <1>1, <1>2, <1>3, ListenerRuns, ListenerMovesOn

------------------------------------------------------------------------------
(* The shutdown of the context, and the ROS graph. *)

\* The thread that shuts down leaves the listener, its users and lists alone.
LEMMA MainMovesOn ==
  ASSUME GraphInv, Owning',
         UNCHANGED <<nodes_mutex, loop, nodeVars, userVars, refused, failed>>
  PROVE  GraphInv'
<1>1. UNCHANGED <<existing, should_add, interfaces, pc, node, event, waiting, notified, notifying>>
  BY DEF nodeVars, userVars, loop
<1>2. Iterating'
  BY <1>1, ListenerAside DEF GraphInv
<1>3. Belonging'
  BY <1>1 DEF GraphInv, Belonging
<1>4. Failing'
  BY DEF GraphInv, Failing
<1>5. Waiting'
  BY <1>1 DEF GraphInv, Waiting, NoLostWakeUp
<1> QED
  BY <1>2, <1>3, <1>4, <1>5 DEF GraphInv

\* The flag is set and the thread joined under shutdown_mutex_.
LEMMA ListenerShutdownKeeps ==
  ASSUME GraphInv, ListenerShutdown
  PROVE  GraphInv'
<1>1. /\ shutdown_mutex = NoOne /\ shutdown_mutex' = Main /\ is_shutdown' = TRUE
      /\ main' \in {"join", "final_join"} /\ MainRest /\ is_started' = is_started
      /\ UNCHANGED <<pc, node, lpc>>
  BY DEF ListenerShutdown, MainRest, userVars, loop
<1>2. NoOne \notin Users /\ Main \notin Users
  BY IdentitiesAssumption
<1>3. \A u \in Users : pc[u] \notin Locked
  BY <1>1, <1>2 DEF GraphInv, Owning
<1>4. Owning'
  BY <1>1, <1>2, <1>3 DEF GraphInv, Owning, Locked
<1> QED
  BY <1>1, <1>4, MainMovesOn DEF MainRest

LEMMA ListenerJoinedKeeps ==
  ASSUME GraphInv, ListenerJoined
  PROVE  GraphInv'
<1>1. /\ main \in {"join", "final_join"} /\ lpc \in {"none", "exited"}
      /\ shutdown_mutex' = NoOne /\ main' \in {"interrupt", "gone"} /\ MainRest
      /\ UNCHANGED <<is_started, is_shutdown, pc, node, lpc>>
  BY DEF ListenerJoined, MainRest, flags, userVars, loop
<1>2. NoOne \notin Users /\ Main \notin Users /\ NoOne # Main
  BY IdentitiesAssumption DEF NoOne, Main
<1>3. \A u \in Users : pc[u] \notin Locked
  BY <1>1, <1>2 DEF GraphInv, Owning
<1>4. Owning'
  BY <1>1, <1>2, <1>3 DEF GraphInv, Owning
<1> QED
  BY <1>1, <1>4, MainMovesOn DEF MainRest

LEMMA MainStepsKeep ==
  ASSUME GraphInv, InterruptWaitSets \/ ShutdownContext \/ DeleteListener
  PROVE  GraphInv'
<1>1. /\ main \notin {"join", "final_join"} /\ main' \notin {"join", "final_join"} /\ MainRest
      /\ UNCHANGED <<shutdown_mutex, is_started, is_shutdown, pc, node, lpc>>
  BY DEF InterruptWaitSets, ShutdownContext, DeleteListener, MainRest, flags, userVars, loop
<1>2. Owning'
  BY <1>1 DEF GraphInv, Owning
<1> QED
  BY <1>1, <1>2, MainMovesOn DEF MainRest

LEMMA GraphChangeKeeps ==
  ASSUME GraphInv, GraphChange
  PROVE  GraphInv'
<1>1. /\ UNCHANGED <<shutdown_mutex, main, is_started, is_shutdown, pc, node, lpc>>
      /\ UNCHANGED <<nodes_mutex, loop, nodeVars, userVars, refused, failed>>
  BY DEF GraphChange, mutexes, flags, ctx, userVars, loop
<1>2. Owning'
  BY <1>1 DEF GraphInv, Owning
<1> QED
  BY <1>1, <1>2, MainMovesOn

------------------------------------------------------------------------------
(* The invariant. *)

LEMMA GraphInvBegins ==
  ASSUME GraphInit
  PROVE  GraphInv
<1>1. Owning
  <2>1. \A u \in Users : u # NoOne /\ pc[u] = "idle"
    BY IdentitiesAssumption DEF GraphInit
  <2> QED
    BY <2>1, IdentitiesAssumption DEF GraphInit, Owning, Locked, NoOne, Main
<1>2. Iterating
  BY DEF GraphInit, Iterating
<1>3. Belonging
  BY IdentitiesAssumption DEF GraphInit, Belonging, Adding, Destroying
<1>4. Failing /\ Waiting
  BY DEF GraphInit, Failing, Waiting, NoLostWakeUp
<1> QED
  BY <1>1, <1>2, <1>3, <1>4 DEF GraphInv

LEMMA GraphInvKept ==
  ASSUME GraphInv, [GraphNext]_graphVars
  PROVE  GraphInv'
<1>1. CASE UNCHANGED graphVars
  <2>1. /\ UNCHANGED <<shutdown_mutex, main, is_started, is_shutdown, pc, node, lpc>>
        /\ UNCHANGED <<nodes_mutex, loop, nodeVars, userVars, refused, failed>>
    BY <1>1 DEF graphVars, mutexes, flags, ctx, userVars, loop, hist
  <2>2. Owning'
    BY <2>1 DEF GraphInv, Owning
  <2> QED
    BY <2>1, <2>2, MainMovesOn
<1>2. ASSUME NEW u \in Users, UserStep(u)
      PROVE  GraphInv'
  <2>1. CASE FirstCall(u)
    BY <2>1, FirstCallKeeps
  <2>2. CASE AddLock(u)
    BY <2>2, AddLockKeeps
  <2>3. CASE AcquireNodesLock(u, "add_barrier", "add_nodes")
    BY <2>3, AcquireNodesLockKeeps
  <2>4. CASE AddNode(u)
    BY <2>4, AddNodeKeeps
  <2>5. CASE StartLock(u)
    BY <2>5, StartLockKeeps
  <2>6. CASE Start(u)
    BY <2>6, StartKeeps
  <2>7. CASE TestOk(u)
    BY <2>7, TestOkKeeps
  <2>8. CASE EnterWait(u)
    BY <2>8, EnterWaitKeeps
  <2>9. CASE WakeUp(u)
    BY <2>9, WakeUpKeeps
  <2>10. CASE Timeout(u)
    BY <2>10, TimeoutKeeps
  <2>11. CASE CheckService(u)
    BY <2>11, CheckServiceKeeps
  <2>12. CASE RemoveLock(u)
    BY <2>12, RemoveLockKeeps
  <2>13. CASE AcquireNodesLock(u, "del_barrier", "del_nodes")
    BY <2>13, AcquireNodesLockKeeps
  <2>14. CASE RemoveNode(u)
    BY <2>14, RemoveNodeKeeps
  <2> QED
    BY <1>2, <2>1, <2>2, <2>3, <2>4, <2>5, <2>6, <2>7, <2>8, <2>9, <2>10, <2>11, <2>12, <2>13,
       <2>14 DEF UserStep
<1>3. ASSUME NEW u \in Users, NEW n \in Nodes, GetGraphEvent(u, n) \/ DestroyNode(u, n)
      PROVE  GraphInv'
  BY <1>3, GetGraphEventKeeps, DestroyNodeKeeps
<1>4. CASE ListenerStep
  BY <1>4, LoopTopKeeps, LoopBarrierKeeps, LoopFillKeeps, RclWaitKeeps, SetEventsKeeps,
     NotifyAllKeeps, VisitOtherKeeps, LoopEndKeeps DEF ListenerStep
<1>5. CASE MainStep \/ GraphChange \/ ShutdownContext \/ DeleteListener
  BY <1>5, ListenerShutdownKeeps, ListenerJoinedKeeps, MainStepsKeep, GraphChangeKeeps
     DEF MainStep
<1> QED
  BY <1>1, <1>2, <1>3, <1>4, <1>5 DEF GraphNext

LEMMA GraphInvHolds == GraphSpec => []GraphInv
<1>1. GraphInit => GraphInv
  BY GraphInvBegins
<1>2. GraphInv /\ [GraphNext]_graphVars => GraphInv'
  BY GraphInvKept
<1> QED
  BY <1>1, <1>2, PTL DEF GraphSpec

\* graph_listener.cpp: no raw pointer the listener holds, in its list, in its
\* wait set or in the iteration, outlives its node; no node is added twice, and
\* the removal in ~NodeGraph fails only for a node the listener had refused.
THEOREM NothingDangles == GraphSpec => []NoDanglingNode
<1>1. GraphInv => NoDanglingNode
  BY DEF GraphInv, Iterating, Belonging, Failing, NoDanglingNode
<1> QED
  BY <1>1, GraphInvHolds, PTL

\* node_graph.cpp, wait_for_graph_change: a thread that waits on an event which
\* is set has been notified, or is about to be by the listener.
THEOREM NoWakeUpIsLost == GraphSpec => []NoLostWakeUp
<1>1. GraphInv => NoLostWakeUp
  BY DEF GraphInv, Waiting
<1> QED
  BY <1>1, GraphInvHolds, PTL

------------------------------------------------------------------------------
(* TaskCompletion. *)

\* Who is at the front of a list, and what is left without it.
LEMMA FrontAndRest ==
  ASSUME NEW S, NEW q \in Seq(S), q # <<>>
  PROVE  /\ Head(q) \in S /\ Head(q) = q[1] /\ Tail(q) \in Seq(S)
         /\ 1 \in 1 .. Len(q) /\ Len(Tail(q)) = Len(q) - 1
         /\ \A i \in 1 .. Len(Tail(q)) : i + 1 \in 1 .. Len(q) /\ Tail(q)[i] = q[i + 1]
  OBVIOUS

\* Before the coroutine ends there is no result, afterwards it stays.
Resulting ==
  /\ task \in {"body", "ending"} <=> result = "none"
  /\ task = "ending" => outcome # "none"
  /\ \A c \in Registrants : reg[c] = "self" => result # "none"

\* A callback is in the list once, from its registration to its return.
Listing ==
  /\ \A i \in 1 .. Len(completion_callbacks) : reg[completion_callbacks[i]] = "listed"
  /\ \A i, j \in 1 .. Len(completion_callbacks) :
       completion_callbacks[i] = completion_callbacks[j] => i = j
  /\ task = "called" => completion_callbacks # <<>>

\* Callback c is the one notify_callbacks is running.
Called(c) == task = "called" /\ c = Head(completion_callbacks)

\* Nobody has called callback c yet.
Uncalled(c) ==
  \/ reg[c] \in {"new", "self"}
  \/ reg[c] = "listed" /\ ~Called(c) /\ task # "undefined"

\* A function has run at most once, on the result it is for, and not before
\* its callback is called.
Counting ==
  \A c \in Callbacks :
    /\ ran[c] <= IF Applies(c, result) /\ result # "none" THEN 1 ELSE 0
    /\ Uncalled(c) => ran[c] = 0

IInv == TypeOK /\ Resulting /\ Listing /\ Counting

USE SetsAssumption DEF Registrants, Readers

LEMMA IInvInit == Init => IInv
<1> SUFFICES ASSUME Init PROVE IInv
  OBVIOUS
<1>1. TypeOK
  BY DEF Init, TypeOK
<1>2. Resulting /\ Listing /\ Counting
  BY DEF Init, Resulting, Listing, Counting, Called
<1> QED
  BY <1>1, <1>2 DEF IInv

\* Call keeps types, and counts a run of an ordinary callback only.
LEMMA CallCounts ==
  ASSUME TypeOK, NEW c \in Registrants, Call(c)
  PROVE  /\ get' \in [Readers -> {"new", "lock", "wait", "notified", "returned",
                                  "undefined", "terminate"}]
         /\ ran' \in [Callbacks -> Nat]
         /\ \A d \in Callbacks \ {c} : ran'[d] = ran[d]
         /\ c \in Callbacks => ran'[c] = IF Applies(c, result) THEN ran[c] + 1 ELSE ran[c]
<1>1. CASE c \in Awaiters
  BY <1>1 DEF Call, TypeOK
<1>2. CASE c \in Callbacks
  <2>1. ran[c] + 1 \in Nat
    BY <1>2 DEF TypeOK
  <2>2. get' = get
    BY <1>2 DEF Call
  <2>3. ran' = IF Applies(c, result) THEN [ran EXCEPT ![c] = ran[c] + 1] ELSE ran
    BY <1>2 DEF Call
  <2> QED
    BY <1>2, <2>1, <2>2, <2>3 DEF TypeOK
<1> QED
  BY <1>1, <1>2

LEMMA IInvKept == IInv /\ [Next]_vars => IInv'
<1> SUFFICES ASSUME TypeOK, Resulting, Listing, Counting, [Next]_vars PROVE IInv'
  BY DEF IInv
<1> USE DEF IInv
<1> DEFINE q == completion_callbacks
<1>a. /\ q \in Seq(Registrants)
      /\ reg \in [Registrants -> {"new", "listed", "self", "calling", "done"}]
      /\ ran \in [Callbacks -> Nat]
  BY DEF TypeOK
\* A step that touches neither the list, the counts nor the registrations.
<1>b. ASSUME UNCHANGED <<result, completion_callbacks, reg, ran>>, TypeOK', Resulting',
             \/ task' = task
             \/ /\ task' # "called" /\ task # "undefined"
                /\ task = "called" => task' = "undefined"
      PROVE  IInv'
  <2>1. Listing'
    BY <1>b DEF Listing
  <2>2. \A c \in Callbacks : Uncalled(c)' => Uncalled(c)
    BY <1>b DEF Uncalled, Called
  <2>3. Counting'
    BY <1>b, <2>2 DEF Counting, Applies
  <2> QED
    BY <1>b, <2>1, <2>3
<1>1. ASSUME NEW c \in Registrants, OnCompleted(c)
      PROVE  IInv'
  <2> USE <1>1 DEF OnCompleted
  <2>1. TypeOK'
    <3>1. /\ completion_callbacks' \in Seq(Registrants)
          /\ reg' \in [Registrants -> {"new", "listed", "self", "calling", "done"}]
      <4>1. CASE result = "none"
        <5>1. q' = Append(q, c) /\ reg' = [reg EXCEPT ![c] = "listed"]
          BY <4>1
        <5> HIDE <1>1 DEF OnCompleted
        <5>2. Append(q, c) \in Seq(Registrants)
          BY <1>a
        <5> QED
          BY <1>a, <5>1, <5>2
      <4>2. CASE result # "none"
        BY <4>2, <1>a
      <4> QED
        BY <4>1, <4>2
    <3> QED
      BY <3>1 DEF TypeOK
  <2>2. Resulting'
    BY <1>a DEF Resulting
  <2>3. CASE result # "none"
    <3>1. reg' = [reg EXCEPT ![c] = "self"] /\ reg[c] = "new" /\ q' = q
      BY <2>3
    <3>2. Listing'
      BY <3>1, <1>a DEF Listing
    <3>3. Counting'
      BY <3>1, <1>a DEF Counting, Uncalled, Called, Applies
    <3> QED
      BY <2>1, <2>2, <3>2, <3>3
  <2>4. CASE result = "none"
    <3>1. reg' = [reg EXCEPT ![c] = "listed"] /\ reg[c] = "new" /\ q' = Append(q, c)
      BY <2>4
    <3>2. /\ Len(q') = Len(q) + 1 /\ q'[Len(q) + 1] = c
          /\ \A i \in 1 .. Len(q) : q'[i] = q[i]
      BY <3>1, <1>a
    <3>3. \A i \in 1 .. Len(q) : q[i] # c
      BY <3>1 DEF Listing
    <3>4. task \notin {"called", "undefined"} /\ task' = task
      BY <2>4 DEF Resulting
    <3>5. Listing'
      BY <3>1, <3>2, <3>3, <3>4, <1>a DEF Listing
    <3>6. Counting'
      BY <3>1, <3>4, <1>a DEF Counting, Uncalled, Called, Applies
    <3> QED
      BY <2>1, <2>2, <3>5, <3>6
  <2> QED
    BY <2>3, <2>4
<1>2. ASSUME NEW c \in Registrants, CallSelf(c)
      PROVE  IInv'
  <2> USE <1>2 DEF CallSelf
  <2>1. TypeOK'
    BY CallCounts DEF TypeOK
  <2>2. Resulting' /\ Listing'
    BY <1>a DEF Resulting, Listing
  <2>3. Counting'
    <3> SUFFICES ASSUME NEW d \in Callbacks
                 PROVE  /\ ran'[d] <= IF Applies(d, result) /\ result # "none" THEN 1 ELSE 0
                        /\ Uncalled(d)' => ran'[d] = 0
      BY DEF Counting, Applies
    <3>1. CASE d # c
      BY <3>1, CallCounts, <1>a DEF Counting, Uncalled, Called
    <3>2. CASE d = c
      <4>1. reg[c] = "self" /\ reg' = [reg EXCEPT ![c] = "calling"] /\ result # "none"
        BY DEF Resulting
      <4>2. ran[c] = 0 /\ ~Uncalled(c)'
        BY <3>2, <4>1, <1>a DEF Counting, Uncalled
      <4> QED
        BY <3>2, <4>1, <4>2, CallCounts, <1>a
    <3> QED
      BY <3>1, <3>2
  <2> QED
    BY <2>1, <2>2, <2>3
<1>3. ASSUME NEW c \in Registrants, CallSelfReturns(c)
      PROVE  IInv'
  <2> USE <1>3 DEF CallSelfReturns
  <2>1. TypeOK'
    BY DEF TypeOK
  <2>2. Resulting' /\ Listing'
    BY <1>a DEF Resulting, Listing
  <2>3. Counting'
    BY <1>a DEF Counting, Uncalled, Called, Applies
  <2> QED
    BY <2>1, <2>2, <2>3
<1>4. ASSUME NEW r \in Outcomes, CoReturn(r)
      PROVE  IInv'
  <2>1. TypeOK' /\ Resulting'
    BY <1>4 DEF CoReturn, TypeOK, Resulting
  <2> QED
    BY <1>4, <2>1, <1>b DEF CoReturn
<1>5. ASSUME Complete
      PROVE  IInv'
  <2> USE <1>5 DEF Complete
  <2>1. result = "none" /\ result' # "none" /\ task' = "notify"
    BY DEF Resulting
  <2>2. TypeOK'
    BY <2>1 DEF TypeOK, Resulting
  <2>3. Resulting' /\ Listing'
    BY <2>1 DEF Resulting, Listing
  <2>4. \A c \in Callbacks : ran[c] = 0
    BY <2>1, <1>a DEF Counting
  <2>5. Counting'
    BY <2>4 DEF Counting
  <2> QED
    BY <2>2, <2>3, <2>5
<1>6. ASSUME NotifyCallback
      PROVE  IInv'
  <2> USE <1>6 DEF NotifyCallback
  <2> DEFINE c == Head(q)
  <2>1. c \in Registrants /\ reg[c] = "listed"
    BY FrontAndRest, <1>a DEF Listing
  <2>2. TypeOK'
    BY <2>1, CallCounts DEF TypeOK, Resulting
  <2>3. Resulting' /\ Listing'
    BY DEF Resulting, Listing
  <2>4. Counting'
    <3> SUFFICES ASSUME NEW d \in Callbacks
                 PROVE  /\ ran'[d] <= IF Applies(d, result) /\ result # "none" THEN 1 ELSE 0
                        /\ Uncalled(d)' => ran'[d] = 0
      BY DEF Counting, Applies
    <3>1. CASE d # c
      BY <2>1, <3>1, CallCounts, <1>a DEF Counting, Uncalled, Called
    <3>2. CASE d = c
      <4>1. ran[c] = 0 /\ result # "none"
        BY <2>1, <3>2 DEF Counting, Uncalled, Called, Resulting
      <4>2. ~Uncalled(d)'
        BY <2>1, <3>2 DEF Uncalled, Called
      <4> QED
        BY <2>1, <3>2, <4>1, <4>2, CallCounts, <1>a
    <3> QED
      BY <3>1, <3>2
  <2> QED
    BY <2>2, <2>3, <2>4
<1>7. ASSUME CallbackReturned
      PROVE  IInv'
  <2> USE <1>7 DEF CallbackReturned
  <2> DEFINE c == Head(q)
  <2>1. /\ q # <<>> /\ c \in Registrants /\ c = q[1] /\ reg[c] = "listed"
        /\ q' = Tail(q) /\ q' \in Seq(Registrants)
        /\ \A i \in 1 .. Len(q') :
             i + 1 \in 1 .. Len(q) /\ q'[i] = q[i + 1] /\ 1 \in 1 .. Len(q)
    BY FrontAndRest, <1>a DEF Listing
  <2>2. TypeOK'
    BY <2>1 DEF TypeOK
  <2>3. Resulting'
    BY <2>1, <1>a DEF Resulting
  <2>4. Listing'
    <3>1. \A i \in 1 .. Len(q') : q'[i] # c /\ q'[i] \in Registrants /\ reg[q'[i]] = "listed"
      <4> SUFFICES ASSUME NEW i \in 1 .. Len(q')
                   PROVE  q'[i] # c /\ q'[i] \in Registrants /\ reg[q'[i]] = "listed"
        OBVIOUS
      <4>1. i + 1 \in 1 .. Len(q) /\ q'[i] = q[i + 1] /\ 1 \in 1 .. Len(q) /\ i + 1 # 1
        BY <2>1
      <4> QED
        BY <2>1, <4>1, <1>a DEF Listing
    <3>2. \A i, j \in 1 .. Len(q') : q'[i] = q'[j] => i = j
      <4> SUFFICES ASSUME NEW i \in 1 .. Len(q'), NEW j \in 1 .. Len(q'), q'[i] = q'[j]
                   PROVE  i = j
        OBVIOUS
      <4>1. i + 1 = j + 1
        BY <2>1 DEF Listing
      <4> QED
        BY <4>1
    <3> QED
      BY <2>1, <3>1, <3>2, <1>a DEF Listing
  <2>5. Counting'
    <3> SUFFICES ASSUME NEW d \in Callbacks
                 PROVE  /\ ran'[d] <= IF Applies(d, result) /\ result # "none" THEN 1 ELSE 0
                        /\ Uncalled(d)' => ran'[d] = 0
      BY DEF Counting, Applies
    <3>1. CASE d # c
      BY <2>1, <3>1, <1>a DEF Counting, Uncalled, Called
    <3>2. CASE d = c
      <4>1. ~Uncalled(d)'
        BY <2>1, <3>2, <1>a DEF Uncalled
      <4> QED
        BY <4>1 DEF Counting
    <3> QED
      BY <3>1, <3>2
  <2> QED
    BY <2>2, <2>3, <2>4, <2>5
<1>8. ASSUME NotifyEnds \/ FinalSuspend \/ UsesDestroyed
      PROVE  IInv'
  <2>1. TypeOK' /\ Resulting'
    BY <1>8 DEF NotifyEnds, FinalSuspend, UsesDestroyed, TypeOK, Resulting
  <2> QED
    BY <1>8, <2>1, <1>b DEF NotifyEnds, FinalSuspend, UsesDestroyed
<1>9. ASSUME NEW g \in Readers, GetResult(g) \/ GetLocked(g) \/ WaitReturns(g)
      PROVE  IInv'
  <2>1. TypeOK' /\ Resulting'
    BY <1>9 DEF GetResult, GetLocked, WaitReturns, Got, TypeOK, Resulting
  <2> QED
    BY <1>9, <2>1, <1>b DEF GetResult, GetLocked, WaitReturns
<1>10. ASSUME NEW a \in Awaiters, DestroyTask(a)
       PROVE  IInv'
  <2>1. TypeOK' /\ Resulting'
    BY <1>10 DEF DestroyTask, TypeOK, Resulting
  <2> QED
    BY <1>10, <2>1, <1>b DEF DestroyTask
<1>11. CASE UNCHANGED vars
  <2>1. TypeOK' /\ Resulting'
    BY <1>11 DEF vars, TypeOK, Resulting
  <2> QED
    BY <1>11, <2>1, <1>b DEF vars
<1> QED
  BY <1>1, <1>2, <1>3, <1>4, <1>5, <1>6, <1>7, <1>8, <1>9, <1>10, <1>11 DEF Next, Step

LEMMA IInvHolds == Spec => []IInv
  BY IInvInit, IInvKept, PTL DEF Spec

\* The task, its list of callbacks and its readers stay well typed, and the
\* thread that ended the coroutine finds a result.
THEOREM TaskTypes == Spec => []TypeOK
  BY IInvHolds, PTL DEF IInv

\* A function passed to then, catching or finally runs at most once and only
\* on the result it is for, for any number of registrations in any order.
THEOREM FunctionsRunAtMostOnce == Spec => []RunsAtMostOnce
<1>1. IInv => RunsAtMostOnce
  BY DEF IInv, Counting, RunsAtMostOnce
<1> QED
  BY <1>1, IInvHolds, PTL

------------------------------------------------------------------------------
(* TaskCompletion: nobody is forgotten. *)

\* When the coroutine has gone through its list, no registration is left in it,
\* no reader blocks for a result that is there, and a callback that is through
\* has run its function exactly once if the result is one it is for.
NobodyIsForgotten ==
  /\ task \in {"returning", "suspended"} => \A c \in Registrants : reg[c] # "listed"
  /\ result # "none" => \A g \in Readers : get[g] # "wait"
  /\ \A c \in Callbacks : reg[c] = "done" => ran[c] = IF Applies(c, result) THEN 1 ELSE 0

\* Who is registered for the end is in the list, and the list is empty when
\* notify_callbacks is through.
Listed ==
  /\ \A c \in Registrants :
       reg[c] = "listed" => \E i \in 1 .. Len(completion_callbacks) : completion_callbacks[i] = c
  /\ task \in {"returning", "suspended"} => completion_callbacks = <<>>

\* A reader blocks only before there is a result.
Blocking == \A g \in Readers : get[g] = "wait" => result = "none"

\* Callback c has been called, by the caller or by notify_callbacks.
Served(c) == reg[c] \in {"calling", "done"} \/ Called(c)

\* A callback is called only with a result, and its function has then run if
\* the result is one it is for.
Running ==
  \A c \in Callbacks :
    Served(c) => result # "none" /\ ran[c] = IF Applies(c, result) THEN 1 ELSE 0

Remembered == Listed /\ Blocking /\ Running

LEMMA RememberedInit == Init => Remembered
  BY DEF Init, Remembered, Listed, Blocking, Running, Served, Called

\* What a run of callback c does to the readers: an awaiter goes to get_result.
LEMMA CallBlocksNobody ==
  ASSUME TypeOK, NEW c \in Registrants, Call(c), NEW g \in Readers
  PROVE  get'[g] = get[g] \/ get'[g] = "lock"
  BY DEF Call, TypeOK

LEMMA BlockingKept ==
  ASSUME IInv, Blocking, [Next]_vars
  PROVE  Blocking'
<1> USE DEF IInv, Blocking
<1>1. ASSUME UNCHANGED result, \A g \in Readers : get'[g] = "wait" => get[g] = "wait"
      PROVE  Blocking'
  BY <1>1
<1>2. ASSUME NEW c \in Registrants, CallSelf(c)
      PROVE  Blocking'
  BY <1>1, <1>2, CallBlocksNobody DEF CallSelf
<1>3. CASE Complete
  BY <1>3 DEF Complete
<1>4. CASE NotifyCallback
  <2>1. Head(completion_callbacks) \in Registrants
    BY <1>4, FrontAndRest DEF NotifyCallback, TypeOK
  <2> QED
    BY <1>1, <1>4, <2>1, CallBlocksNobody DEF NotifyCallback
<1>5. ASSUME NEW g \in Readers, GetResult(g) \/ WaitReturns(g)
      PROVE  Blocking'
  <2>1. get \in [Readers -> {"new", "lock", "wait", "notified", "returned", "undefined", "terminate"}]
    BY DEF TypeOK
  <2>2. get' = [get EXCEPT ![g] = "lock"] \/ get' = [get EXCEPT ![g] = Got(g)]
    BY <1>5 DEF GetResult, WaitReturns
  <2>3. Got(g) # "wait"
    BY DEF Got
  <2>4. \A h \in Readers : get'[h] = "wait" => get[h] = "wait"
    BY <2>1, <2>2, <2>3
  <2> QED
    BY <1>1, <1>5, <2>4 DEF GetResult, WaitReturns
<1>6. ASSUME NEW g \in Readers, GetLocked(g)
      PROVE  Blocking'
  <2>1. get' = [get EXCEPT ![g] = IF result = "none" THEN "wait" ELSE Got(g)] /\ UNCHANGED result
    BY <1>6 DEF GetLocked
  <2>2. Got(g) # "wait"
    BY DEF Got
  <2> QED
    BY <2>1, <2>2 DEF TypeOK
<1>7. ASSUME UNCHANGED <<result, get>>
      PROVE  Blocking'
  BY <1>7
<1> QED
  BY <1>2, <1>3, <1>4, <1>5, <1>6, <1>7
  DEF Next, Step, vars, OnCompleted, CallSelfReturns, CoReturn, CallbackReturned, NotifyEnds, FinalSuspend,
      UsesDestroyed, DestroyTask

LEMMA ListedKept ==
  ASSUME IInv, Listed, [Next]_vars
  PROVE  Listed'
<1> USE DEF IInv, Listed
<1> DEFINE q == completion_callbacks
<1>a. /\ q \in Seq(Registrants)
      /\ reg \in [Registrants -> {"new", "listed", "self", "calling", "done"}]
  BY DEF TypeOK
<1>1. ASSUME UNCHANGED completion_callbacks, \A c \in Registrants : reg'[c] = "listed" => reg[c] = "listed",
             task' \in {"returning", "suspended"} => task \in {"returning", "suspended"} \/ q = <<>>
      PROVE  Listed'
  BY <1>1
<1>2. ASSUME NEW c \in Registrants, OnCompleted(c)
      PROVE  Listed'
  <2>1. CASE result # "none"
    <3>1. reg' = [reg EXCEPT ![c] = "self"] /\ UNCHANGED <<completion_callbacks, task>>
      BY <1>2, <2>1 DEF OnCompleted
    <3> QED
      BY <1>1, <1>a, <3>1
  <2>2. CASE result = "none"
    <3>1. reg' = [reg EXCEPT ![c] = "listed"] /\ q' = Append(q, c) /\ task' = task
      BY <1>2, <2>2 DEF OnCompleted
    <3>2. task' \in {"body", "ending"}
      BY <2>2, <3>1 DEF Resulting
    <3>3. /\ Len(q') = Len(q) + 1 /\ Len(q) \in Nat /\ q'[Len(q) + 1] = c
          /\ \A i \in 1 .. Len(q) : q'[i] = q[i] /\ i \in 1 .. Len(q')
      BY <1>a, <3>1
    <3>4. Len(q) + 1 \in 1 .. Len(q')
      BY <3>3
    <3>5. ASSUME NEW d \in Registrants, reg'[d] = "listed"
          PROVE  \E i \in 1 .. Len(q') : q'[i] = d
      <4>1. CASE d = c
        BY <3>3, <3>4, <4>1
      <4>2. CASE d # c
        <5>1. reg[d] = "listed"
          BY <1>a, <3>1, <3>5, <4>2
        <5>2. PICK i \in 1 .. Len(q) : q[i] = d
          BY <5>1
        <5> QED
          BY <3>3, <5>2
      <4> QED
        BY <4>1, <4>2
    <3> QED
      BY <3>2, <3>5
  <2> QED
    BY <2>1, <2>2
<1>3. CASE CallbackReturned
  <2>1. /\ q # <<>> /\ task' = "notify" /\ q' = Tail(q) /\ reg' = [reg EXCEPT ![Head(q)] = "done"]
    BY <1>3 DEF CallbackReturned, Listing
  <2>2. /\ Head(q) \in Registrants /\ Head(q) = q[1] /\ Len(Tail(q)) = Len(q) - 1 /\ Len(q) \in Nat
        /\ \A i \in 1 .. Len(Tail(q)) : Tail(q)[i] = q[i + 1]
    BY <1>a, <2>1, FrontAndRest
  <2>3. ASSUME NEW d \in Registrants, reg'[d] = "listed"
        PROVE  \E i \in 1 .. Len(q') : q'[i] = d
    <3>1. d # q[1] /\ reg[d] = "listed"
      BY <1>a, <2>1, <2>2, <2>3
    <3>2. PICK i \in 1 .. Len(q) : q[i] = d
      BY <3>1
    <3>3. i # 1
      BY <3>1, <3>2
    <3>4. PICK j \in 1 .. Len(q') : i = j + 1
      <4>1. i - 1 \in 1 .. Len(q') /\ i = (i - 1) + 1
        BY <2>1, <2>2, <3>3
      <4> QED
        BY <4>1
    <3>5. q'[j] = d
      BY <2>1, <2>2, <3>2, <3>4
    <3> QED
      BY <3>5
  <2> QED
    BY <2>1, <2>3
<1>4. ASSUME NEW c \in Registrants, CallSelf(c) \/ CallSelfReturns(c)
      PROVE  Listed'
  <2>1. /\ reg' = [reg EXCEPT ![c] = "calling"] \/ reg' = [reg EXCEPT ![c] = "done"]
        /\ UNCHANGED <<completion_callbacks, task>>
    BY <1>4 DEF CallSelf, CallSelfReturns
  <2> QED
    BY <1>1, <1>a, <2>1
<1>5. CASE NotifyEnds
  BY <1>1, <1>5 DEF NotifyEnds
<1>6. CASE FinalSuspend
  BY <1>1, <1>6 DEF FinalSuspend
<1>7. ASSUME UNCHANGED <<completion_callbacks, reg>>, task' = task \/ task' \notin {"returning", "suspended"}
      PROVE  Listed'
  BY <1>1, <1>7
<1> QED
  BY <1>2, <1>3, <1>4, <1>5, <1>6, <1>7
  DEF Next, Step, vars, CoReturn, Complete, NotifyCallback, UsesDestroyed, GetResult, GetLocked, WaitReturns,
      DestroyTask

LEMMA RunningKept ==
  ASSUME IInv, Running, [Next]_vars
  PROVE  Running'
<1> USE DEF IInv, Running
<1> DEFINE q == completion_callbacks
<1>a. /\ q \in Seq(Registrants)
      /\ reg \in [Registrants -> {"new", "listed", "self", "calling", "done"}]
      /\ ran \in [Callbacks -> Nat]
  BY DEF TypeOK
<1>1. ASSUME UNCHANGED <<result, ran>>, \A d \in Callbacks : Served(d)' => Served(d)
      PROVE  Running'
  BY <1>1 DEF Applies
<1>2. ASSUME NEW c \in Registrants, OnCompleted(c)
      PROVE  Running'
  <2>1. UNCHANGED <<result, ran, task>>
    BY <1>2 DEF OnCompleted
  <2>2. \A d \in Callbacks : reg'[d] \in {"calling", "done"} => reg[d] \in {"calling", "done"}
    BY <1>2, <1>a DEF OnCompleted
  <2>3. task = "called" => q' = q
    BY <1>2 DEF OnCompleted, Resulting
  <2> QED
    BY <1>1, <2>1, <2>2, <2>3 DEF Served, Called
<1>3. ASSUME NEW c \in Registrants, CallSelf(c)
      PROVE  Running'
  <2>1. /\ reg[c] = "self" /\ Call(c) /\ reg' = [reg EXCEPT ![c] = "calling"] /\ result # "none"
        /\ UNCHANGED <<result, task, completion_callbacks>>
    BY <1>3 DEF CallSelf, Resulting
  <2>2. ASSUME NEW d \in Callbacks, Served(d)'
        PROVE  ran'[d] = IF Applies(d, result) THEN 1 ELSE 0
    <3>1. CASE d # c
      <4>1. Served(d)
        BY <1>a, <2>1, <2>2, <3>1 DEF Served, Called
      <4> QED
        BY <2>1, <3>1, <4>1, CallCounts
    <3>2. CASE d = c
      <4>1. ran[c] = 0
        BY <2>1, <3>2 DEF Counting, Uncalled
      <4> QED
        BY <2>1, <3>2, <4>1, CallCounts
    <3> QED
      BY <3>1, <3>2
  <2> QED
    BY <2>1, <2>2 DEF Applies
<1>4. ASSUME NEW c \in Registrants, CallSelfReturns(c)
      PROVE  Running'
  <2>1. /\ reg[c] = "calling" /\ reg' = [reg EXCEPT ![c] = "done"]
        /\ UNCHANGED <<result, ran, task, completion_callbacks>>
    BY <1>4 DEF CallSelfReturns
  <2> QED
    BY <1>1, <1>a, <2>1 DEF Served, Called
<1>5. CASE Complete
  <2>1. result = "none" /\ task' = "notify" /\ UNCHANGED <<reg, ran>>
    BY <1>5 DEF Complete, Resulting
  <2> QED
    BY <2>1 DEF Served, Called
<1>6. CASE NotifyCallback
  <2> DEFINE c == Head(q)
  <2>1. /\ c \in Registrants /\ reg[c] = "listed" /\ Call(c) /\ task = "notify" /\ task' = "called"
        /\ result # "none" /\ UNCHANGED <<result, reg, completion_callbacks>>
    BY <1>6, <1>a, FrontAndRest DEF NotifyCallback, Listing, Resulting
  <2>2. ASSUME NEW d \in Callbacks, Served(d)'
        PROVE  ran'[d] = IF Applies(d, result) THEN 1 ELSE 0
    <3>1. CASE d # c
      <4>1. Served(d)
        BY <2>1, <2>2, <3>1 DEF Served, Called
      <4> QED
        BY <2>1, <3>1, <4>1, CallCounts
    <3>2. CASE d = c
      <4>1. ran[c] = 0
        BY <2>1, <3>2 DEF Counting, Uncalled, Called
      <4> QED
        BY <2>1, <3>2, <4>1, CallCounts
    <3> QED
      BY <3>1, <3>2
  <2> QED
    BY <2>1, <2>2 DEF Applies
<1>7. CASE CallbackReturned
  <2>1. /\ task = "called" /\ task' = "notify" /\ reg' = [reg EXCEPT ![Head(q)] = "done"]
        /\ UNCHANGED <<result, ran>>
    BY <1>7 DEF CallbackReturned
  <2> QED
    BY <1>1, <1>a, <2>1 DEF Served, Called
<1>8. ASSUME UNCHANGED <<result, ran, reg, completion_callbacks>>, task' = task \/ task' # "called"
      PROVE  Running'
  BY <1>1, <1>8 DEF Served, Called
<1> QED
  BY <1>2, <1>3, <1>4, <1>5, <1>6, <1>7, <1>8
  DEF Next, Step, vars, CoReturn, NotifyEnds, FinalSuspend, UsesDestroyed, GetResult, GetLocked, WaitReturns,
      DestroyTask

\* Whatever thread registers, reads or ends the task, and with the lock held
\* during the callbacks or not, the end of the task passes over nobody: no
\* registration falls between the result and the list, no reader misses the
\* one notification, and a callback that is through has run exactly once.
THEOREM EndPassesOverNobody == Spec => []NobodyIsForgotten
<1>1. IInv /\ Remembered /\ [Next]_vars => Remembered'
  BY ListedKept, BlockingKept, RunningKept DEF Remembered
<1>2. IInv /\ Remembered => NobodyIsForgotten
  <2> SUFFICES ASSUME IInv, Remembered PROVE NobodyIsForgotten
    OBVIOUS
  <2>1. task \in {"returning", "suspended"} => \A c \in Registrants : reg[c] # "listed"
    BY DEF Remembered, Listed
  <2>2. /\ result # "none" => \A g \in Readers : get[g] # "wait"
        /\ \A c \in Callbacks : reg[c] = "done" => ran[c] = IF Applies(c, result) THEN 1 ELSE 0
    BY DEF Remembered, Blocking, Running, Served
  <2> QED
    BY <2>1, <2>2 DEF NobodyIsForgotten
<1> QED
  BY <1>1, <1>2, IInvInit, IInvKept, RememberedInit, PTL DEF Spec
==============================================================================
