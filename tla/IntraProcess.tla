----------------------------- MODULE IntraProcess -----------------------------
(***************************************************************************)
(* Publishing inside a process: Publisher::publish, the                    *)
(* IntraProcessManager with one MappedRingBuffer per publisher, and the    *)
(* two ways in which a Subscription receives a message, by a notification  *)
(* on the "/_intra" topic and by the copy sent between processes.          *)
(*                                                                         *)
(* A message is published once, by a thread of its own; takers are the     *)
(* executor threads that handle what a subscription received.  All of them *)
(* are callers of the manager.  The middleware is external: which readers  *)
(* a publisher has discovered is chosen at each publish, and notifications *)
(* may be lost.                                                            *)
(***************************************************************************)
EXTENDS Naturals, Sequences, FiniteSets, SequencesExt

CONSTANTS
  Pubs, Subs, Messages, Takers,
  PubOf,        \* the publisher of a message
  CallbackOf,   \* the kind of a subscription's callback
  Remote,       \* a reader that the manager does not know
  Size,         \* depth of the publishers' history
  None

\* The signatures of AnySubscriptionCallback that differ in who owns the message.
CallbackKinds == {"const_shared_ptr", "shared_ptr", "unique_ptr"}

ASSUME IntraAssumption ==
  /\ PubOf \in [Messages -> Pubs] /\ CallbackOf \in [Subs -> CallbackKinds]
  /\ Size \in Nat \ {0} /\ Remote \notin Subs
  /\ None \notin Messages \cup Takers \cup Subs /\ Messages \cap Takers = {}

VARIABLES
  pub,               \* a publisher is "none", "alive", "expired" (no owner left) or "gone"
  sub,               \* a subscription is "none", "added", "ready" or "gone"
  sequence_number, elements_, head_, targets,   \* PublisherInfo of each publisher
  runtime_mutex_, take_mutex_,
  pc, needed, discovered, seq,                  \* of the publish of each message
  inbox, copies,     \* what the middleware holds for a subscription
  taker,             \* of each taker: pc, subscription, notification, last
  got,               \* history: how a subscription received a message
  took,              \* history: what a subscription's take of a notification gave
  displaced,         \* history: messages overwritten before they were taken
  undefined          \* the maps were changed while a caller used them

infoVars == <<sequence_number, elements_, head_, targets>>
pubVars == <<pc, needed, discovered, seq>>
mwVars == <<inbox, copies>>
histVars == <<got, took, displaced>>
vars == <<pub, sub, infoVars, runtime_mutex_, take_mutex_, pubVars, mwVars, taker,
          histVars, undefined>>

Callers == Messages \cup Takers
Seqs == 0 .. Cardinality(Messages)
Notifications == [pub: Pubs, seq: Seqs]

\* An Element of the ring.
Element == [key: Seqs, unique_value: Messages \cup {None},
            shared_value: Messages \cup {None}, in_use: BOOLEAN]
Empty == [key |-> 0, unique_value |-> None, shared_value |-> None, in_use |-> FALSE]

Idle == [pc |-> "idle", sub |-> None, note |-> None, last |-> FALSE]

TypeOK ==
  /\ pub \in [Pubs -> {"none", "alive", "expired", "gone"}]
  /\ sub \in [Subs -> {"none", "added", "ready", "gone"}]
  /\ sequence_number \in [Pubs -> Seqs]
  /\ elements_ \in [Pubs -> [0 .. Size - 1 -> Element]]
  /\ head_ \in [Pubs -> 0 .. Size - 1]
  /\ \A p \in Pubs : DOMAIN targets[p] \subseteq Seqs /\ Range(targets[p]) \subseteq SUBSET Subs
  /\ runtime_mutex_ \in Callers \cup {None} /\ take_mutex_ \in Takers \cup {None}
  /\ pc \in [Messages -> {"new", "seq", "push", "targets", "notify", "inter", "done"}]
  /\ needed \in [Messages -> BOOLEAN] /\ discovered \in [Messages -> SUBSET Subs]
  /\ seq \in [Messages -> Seqs]
  /\ inbox \in [Subs -> SUBSET Notifications] /\ copies \in [Subs -> SUBSET Messages]
  /\ taker \in [Takers -> [pc: {"idle", "take", "fetch"}, sub: Subs \cup {None},
                           note: Notifications \cup {None}, last: BOOLEAN]]
  /\ got \in [Subs -> [Messages -> Seq({"moved", "shared", "copy", "inter", "throws"})]]
  /\ took \subseteq Subs \X Notifications \X BOOLEAN
  /\ displaced \subseteq Notifications /\ undefined \in BOOLEAN

\* Subscriptions exist from the start or are created later.
Init ==
  /\ pub = [p \in Pubs |-> "none"] /\ sub \in [Subs -> {"none", "ready"}]
  /\ sequence_number = [p \in Pubs |-> 0]
  /\ elements_ = [p \in Pubs |-> [i \in 0 .. Size - 1 |-> Empty]]
  /\ head_ = [p \in Pubs |-> 0] /\ targets = [p \in Pubs |-> <<>>]
  /\ runtime_mutex_ = None /\ take_mutex_ = None
  /\ pc = [m \in Messages |-> "new"] /\ needed = [m \in Messages |-> FALSE]
  /\ discovered = [m \in Messages |-> {}] /\ seq = [m \in Messages |-> 0]
  /\ inbox = [s \in Subs |-> {}] /\ copies = [s \in Subs |-> {}]
  /\ taker = [t \in Takers |-> Idle]
  /\ got = [s \in Subs |-> [m \in Messages |-> <<>>]] /\ took = {} /\ displaced = {}
  /\ undefined = FALSE

------------------------------------------------------------------------------
(* The ring buffer.                                                         *)

\* get_iterator_of_key: the places that hold a message of this key.
Found(ring, key) == {i \in DOMAIN ring : ring[i].key = key /\ ring[i].in_use}

\* push_and_replace, for a unique and for a shared message.
PushAndReplace(ring, h, key, m, shared) ==
  [ring EXCEPT ![h] = [key |-> key, unique_value |-> IF shared THEN None ELSE m,
                       shared_value |-> IF shared THEN m ELSE None, in_use |-> TRUE]]

\* get for a unique pointer: the caller receives a copy.
GetUnique(ring, i) ==
  [ring |-> ring, how |-> "copy",
   value |-> IF ring[i].unique_value # None THEN ring[i].unique_value ELSE ring[i].shared_value]

\* Mutant: the shared pointer is taken from the unique one without moving it.
GetShared_KeepsUnique(ring, i) ==
  LET v == IF ring[i].shared_value # None THEN ring[i].shared_value ELSE ring[i].unique_value
  IN  [ring |-> ring, how |-> "shared", value |-> v]

\* get for a shared pointer: a unique message becomes a shared one.
GetShared(ring, i) ==
  LET v == IF ring[i].shared_value # None THEN ring[i].shared_value ELSE ring[i].unique_value
  IN  [ring |-> [ring EXCEPT ![i].unique_value = IF ring[i].shared_value # None THEN @ ELSE None,
                             ![i].shared_value = v],
       how |-> "shared", value |-> v]

\* Both pops leave the element unused.
Vacant(ring, i) == [ring EXCEPT ![i].unique_value = None, ![i].shared_value = None,
                                ![i].in_use = FALSE]

\* pop for a unique pointer: ownership if the message is not shared, else a copy.
PopUnique(ring, i) ==
  [ring |-> Vacant(ring, i),
   how |-> IF ring[i].unique_value # None THEN "moved" ELSE "copy",
   value |-> IF ring[i].unique_value # None THEN ring[i].unique_value ELSE ring[i].shared_value]

\* pop for a shared pointer.
PopShared(ring, i) ==
  [ring |-> Vacant(ring, i),
   how |-> IF ring[i].shared_value # None THEN "shared" ELSE "moved",
   value |-> IF ring[i].shared_value # None THEN ring[i].shared_value ELSE ring[i].unique_value]

------------------------------------------------------------------------------
(* Creation and destruction.  None of them takes runtime_mutex_.            *)

\* The containers of the manager are used by a caller inside runtime_mutex_.
Race == undefined' = (undefined \/ runtime_mutex_ # None)

\* add_subscription: the identifier is known, the "/_intra" reader is not there yet.
AddSubscription(s) ==
  /\ sub[s] = "none" /\ sub' = [sub EXCEPT ![s] = "added"] /\ Race
  /\ UNCHANGED <<pub, infoVars, runtime_mutex_, take_mutex_, pubVars, mwVars, taker, histVars>>

\* SubscriptionBase::setup_intra_process.
SetupIntraProcess(s) ==
  /\ sub[s] = "added" /\ sub' = [sub EXCEPT ![s] = "ready"]
  /\ UNCHANGED <<pub, infoVars, runtime_mutex_, take_mutex_, pubVars, mwVars, taker, histVars,
                 undefined>>

\* ~SubscriptionBase and remove_subscription, when no executor uses the subscription.
RemoveSubscription(s) ==
  /\ sub[s] = "ready" /\ \A t \in Takers : taker[t].sub # s
  /\ sub' = [sub EXCEPT ![s] = "gone"] /\ Race
  /\ targets' = [p \in Pubs |-> [q \in DOMAIN targets[p] |-> targets[p][q] \ {s}]]
  /\ inbox' = [inbox EXCEPT ![s] = {}] /\ copies' = [copies EXCEPT ![s] = {}]
  /\ UNCHANGED <<pub, sequence_number, elements_, head_, runtime_mutex_, take_mutex_, pubVars,
                 taker, histVars>>

\* NodeTopics::create_publisher: add_publisher with an empty ring, then
\* setup_intra_process; nobody has the publisher before it returns.
CreatePublisher(p) ==
  /\ pub[p] = "none" /\ pub' = [pub EXCEPT ![p] = "alive"] /\ Race
  /\ UNCHANGED <<sub, infoVars, runtime_mutex_, take_mutex_, pubVars, mwVars, taker, histVars>>

\* The last owner of a publisher lets go of it: weak pointers to it expire.
PublisherExpires(p) ==
  /\ pub[p] = "alive"
  /\ \A m \in Messages : PubOf[m] = p => pc[m] \in {"new", "done"}
  /\ pub' = [pub EXCEPT ![p] = "expired"]
  /\ UNCHANGED <<sub, infoVars, runtime_mutex_, take_mutex_, pubVars, mwVars, taker, histVars,
                 undefined>>

\* ~PublisherBase and remove_publisher.
RemovePublisher(p) ==
  /\ pub[p] = "expired" /\ pub' = [pub EXCEPT ![p] = "gone"] /\ Race
  /\ UNCHANGED <<sub, infoVars, runtime_mutex_, take_mutex_, pubVars, mwVars, taker, histVars>>

------------------------------------------------------------------------------
(* Publishing.                                                              *)

\* The identifiers in subscription_ids_by_topic_.
Registered == {s \in Subs : sub[s] \in {"added", "ready"}}
\* Readers of the topic itself: they are created before the identifier.
TopicReaders == Registered \cup {Remote}

\* publish(unique_ptr): is somebody there who is not in the manager?  Only
\* the discovered readers inside the process matter to the model later.
InterProcessNeeded(d) == Cardinality(d) > Cardinality(Registered)

Publish(m) ==
  /\ pc[m] = "new" /\ pub[PubOf[m]] = "alive"
  /\ \E d \in SUBSET TopicReaders :
       /\ discovered' = [discovered EXCEPT ![m] = IF InterProcessNeeded(d) THEN d \ {Remote} ELSE {}]
       /\ needed' = [needed EXCEPT ![m] = InterProcessNeeded(d)]
  /\ pc' = [pc EXCEPT ![m] = "seq"]
  /\ UNCHANGED <<pub, sub, infoVars, runtime_mutex_, take_mutex_, seq, mwVars, taker, histVars,
                 undefined>>

\* A caller enters runtime_mutex_; a taker has acquired take_mutex_ before.
Enter(c) ==
  /\ runtime_mutex_ = None /\ runtime_mutex_' = c
  /\ \/ c \in Messages /\ pc[c] \in {"seq", "targets"} /\ UNCHANGED take_mutex_
     \/ c \in Takers /\ taker[c].pc = "take" /\ take_mutex_ = None /\ take_mutex_' = c
  /\ UNCHANGED <<pub, sub, infoVars, pubVars, mwVars, taker, histVars, undefined>>

\* get_publisher_info_for_id.
GetPublisherInfo(m) ==
  /\ runtime_mutex_ = m /\ pc[m] = "seq"
  /\ seq' = [seq EXCEPT ![m] = sequence_number[PubOf[m]]]
  /\ sequence_number' = [sequence_number EXCEPT ![PubOf[m]] = @ + 1]
  /\ pc' = [pc EXCEPT ![m] = "push"] /\ runtime_mutex_' = None
  /\ UNCHANGED <<pub, sub, elements_, head_, targets, take_mutex_, needed, discovered, mwVars,
                 taker, histVars, undefined>>

\* IntraProcessManager::store_intra_process_message puts the message in the ring.
Push(m) ==
  LET p == PubOf[m]  e == elements_[p][head_[p]] IN
  /\ pc[m] = "push"
  /\ elements_' = [elements_ EXCEPT ![p] = PushAndReplace(@, head_[p], seq[m], m, needed[m])]
  /\ head_' = [head_ EXCEPT ![p] = (@ + 1) % Size]
  /\ displaced' = displaced \cup (IF e.in_use THEN {[pub |-> p, seq |-> e.key]} ELSE {})
  /\ pc' = [pc EXCEPT ![m] = "targets"]
  /\ UNCHANGED <<pub, sub, sequence_number, targets, runtime_mutex_, take_mutex_, needed,
                 discovered, seq, mwVars, taker, got, took, undefined>>

\* IntraProcessManagerImpl::store_intra_process_message.
StoreTargets(m) ==
  LET p == PubOf[m] IN
  /\ runtime_mutex_ = m /\ pc[m] = "targets"
  /\ targets' = [targets EXCEPT ![p] =
       [q \in DOMAIN @ \cup {seq[m]} |-> IF q = seq[m] THEN Registered ELSE @[q]]]
  /\ pc' = [pc EXCEPT ![m] = "notify"] /\ runtime_mutex_' = None
  /\ UNCHANGED <<pub, sub, sequence_number, elements_, head_, take_mutex_, needed, discovered,
                 seq, mwVars, taker, histVars, undefined>>

\* publish returns; its local variables end.
Return(m) ==
  /\ pc' = [pc EXCEPT ![m] = "done"] /\ needed' = [needed EXCEPT ![m] = FALSE]
  /\ discovered' = [discovered EXCEPT ![m] = {}] /\ seq' = [seq EXCEPT ![m] = 0]

\* do_intra_process_publish.
IntraProcessPublish(m) ==
  /\ pc[m] = "notify"
  /\ inbox' = [s \in Subs |-> IF sub[s] = "ready"
                              THEN inbox[s] \cup {[pub |-> PubOf[m], seq |-> seq[m]]}
                              ELSE inbox[s]]
  /\ IF needed[m] THEN pc' = [pc EXCEPT ![m] = "inter"] /\ UNCHANGED <<needed, discovered, seq>>
                  ELSE Return(m)
  /\ UNCHANGED <<pub, sub, infoVars, runtime_mutex_, take_mutex_, copies, taker, histVars,
                 undefined>>

\* do_inter_process_publish: the topic's own readers get a copy.
InterProcessPublish(m) ==
  /\ pc[m] = "inter"
  /\ copies' = [s \in Subs |-> IF s \in discovered[m] /\ sub[s] = "ready"
                               THEN copies[s] \cup {m} ELSE copies[s]]
  /\ Return(m)
  /\ UNCHANGED <<pub, sub, infoVars, runtime_mutex_, take_mutex_, inbox, taker, histVars,
                 undefined>>

\* The middleware drops a notification.
Lose(s) ==
  /\ \E n \in inbox[s] : inbox' = [inbox EXCEPT ![s] = @ \ {n}]
  /\ UNCHANGED <<pub, sub, infoVars, runtime_mutex_, take_mutex_, pubVars, copies, taker,
                 histVars, undefined>>

------------------------------------------------------------------------------
(* Receiving.                                                               *)

\* use_take_shared_method.
UseTakeShared(s) == CallbackOf[s] = "const_shared_ptr"

\* dispatch_intra_process and co_dispatch_intra_process: a shared message needs a
\* callback for const messages, any other callback needs a message of its own.
Dispatch(s, shared, how) ==
  IF shared = (CallbackOf[s] = "const_shared_ptr") THEN how ELSE "throws"

\* matches_any_publishers.
Matches(p) == pub[p] = "alive"

\* Mutant: copies are not compared with the publishers of this process.
HandleMessage_NoMatch(s) ==
  \E m \in copies[s] :
    /\ copies' = [copies EXCEPT ![s] = @ \ {m}]
    /\ got' = [got EXCEPT ![s][m] = Append(@, "inter")]
    /\ UNCHANGED <<pub, sub, infoVars, runtime_mutex_, take_mutex_, pubVars, inbox, taker, took,
                   displaced, undefined>>

\* handle_message: a copy of a message that also arrives intra process is ignored.
HandleMessage(s) ==
  \E m \in copies[s] :
    /\ copies' = [copies EXCEPT ![s] = @ \ {m}]
    /\ got' = IF Matches(PubOf[m]) THEN got ELSE [got EXCEPT ![s][m] = Append(@, "inter")]
    /\ UNCHANGED <<pub, sub, infoVars, runtime_mutex_, take_mutex_, pubVars, inbox, taker, took,
                   displaced, undefined>>

\* handle_intra_process_message up to the take.
HandleIntraProcessMessage(t, s) ==
  \E n \in inbox[s] :
    /\ taker[t].pc = "idle"
    /\ inbox' = [inbox EXCEPT ![s] = @ \ {n}]
    /\ taker' = IF Matches(n.pub)
                THEN [taker EXCEPT ![t] = [pc |-> "take", sub |-> s, note |-> n, last |-> FALSE]]
                ELSE taker
    /\ UNCHANGED <<pub, sub, infoVars, runtime_mutex_, take_mutex_, pubVars, copies, histVars,
                   undefined>>

\* Mutant: take_mutex_ is not kept until the message is fetched.
TakeTarget_Unlocks(t) ==
  LET s == taker[t].sub  p == taker[t].note.pub  q == taker[t].note.seq
      mine == pub[p] # "gone" /\ q \in DOMAIN targets[p] /\ s \in targets[p][q]
  IN
  /\ runtime_mutex_ = t /\ runtime_mutex_' = None /\ take_mutex_' = None
  /\ IF mine THEN /\ targets' = [targets EXCEPT ![p][q] = @ \ {s}]
                  /\ taker' = [taker EXCEPT ![t].pc = "fetch", ![t].last = (targets[p][q] = {s})]
             ELSE taker' = [taker EXCEPT ![t] = Idle] /\ UNCHANGED targets
  /\ UNCHANGED <<pub, sub, sequence_number, elements_, head_, pubVars, mwVars, histVars, undefined>>

\* IntraProcessManagerImpl::take_intra_process_message.
TakeTarget(t) ==
  LET s == taker[t].sub  p == taker[t].note.pub  q == taker[t].note.seq
      mine == pub[p] # "gone" /\ q \in DOMAIN targets[p] /\ s \in targets[p][q]
  IN
  /\ runtime_mutex_ = t /\ runtime_mutex_' = None
  /\ IF mine THEN /\ targets' = [targets EXCEPT ![p][q] = @ \ {s}]
                  /\ taker' = [taker EXCEPT ![t].pc = "fetch", ![t].last = (targets[p][q] = {s})]
                  /\ UNCHANGED take_mutex_
             ELSE /\ taker' = [taker EXCEPT ![t] = Idle] /\ take_mutex_' = None
                  /\ UNCHANGED targets
  /\ UNCHANGED <<pub, sub, sequence_number, elements_, head_, pubVars, mwVars, histVars, undefined>>

\* The end of IntraProcessManager::take_intra_process_message: the last target
\* takes the message out of the ring, the others leave it there.
Fetch(t) ==
  LET s == taker[t].sub  p == taker[t].note.pub
      i == CHOOSE j \in Found(elements_[p], taker[t].note.seq) : TRUE
      r == IF UseTakeShared(s)
           THEN IF taker[t].last THEN PopShared(elements_[p], i) ELSE GetShared(elements_[p], i)
           ELSE IF taker[t].last THEN PopUnique(elements_[p], i) ELSE GetUnique(elements_[p], i)
      found == Found(elements_[p], taker[t].note.seq) # {}
  IN
  /\ taker[t].pc = "fetch" /\ take_mutex_' = None
  /\ elements_' = IF found THEN [elements_ EXCEPT ![p] = r.ring] ELSE elements_
  /\ got' = IF found THEN [got EXCEPT ![s][r.value] = Append(@, Dispatch(s, UseTakeShared(s), r.how))]
            ELSE got
  /\ took' = took \cup {<<s, taker[t].note, found>>}
  /\ taker' = [taker EXCEPT ![t] = Idle]
  /\ UNCHANGED <<pub, sub, sequence_number, head_, targets, runtime_mutex_, pubVars, mwVars,
                 displaced, undefined>>

------------------------------------------------------------------------------

\* After a data race anything may happen; the model says no more.
Next ==
  /\ ~undefined
  /\ \/ \E s \in Subs : AddSubscription(s) \/ SetupIntraProcess(s) \/ RemoveSubscription(s)
                        \/ Lose(s) \/ HandleMessage(s)
     \/ \E p \in Pubs : CreatePublisher(p) \/ PublisherExpires(p) \/ RemovePublisher(p)
     \/ \E m \in Messages : Publish(m) \/ GetPublisherInfo(m) \/ Push(m) \/ StoreTargets(m)
                            \/ IntraProcessPublish(m) \/ InterProcessPublish(m)
     \/ \E c \in Callers : Enter(c)
     \/ \E t \in Takers : TakeTarget(t) \/ Fetch(t)
     \/ \E t \in Takers, s \in Subs : HandleIntraProcessMessage(t, s)

Spec == Init /\ [][Next]_vars

------------------------------------------------------------------------------
(* Properties.                                                              *)

\* "Unexpected empty MappedRingBuffer element" is never thrown: an element in
\* use holds its message, as a unique or as a shared one and never as both.
NeverEmpty ==
  \A p \in Pubs : \A i \in 0 .. Size - 1 :
    LET e == elements_[p][i] IN
    e.in_use => (e.unique_value = None) # (e.shared_value = None)

\* What was taken can be dispatched: the way a subscription takes a message
\* agrees with the callback it has, so no "unexpected ..." exception is thrown.
TakenIsDispatched ==
  \A s \in Subs, m \in Messages : "throws" \notin ToSet(got[s][m])

\* A subscription's callback is not called twice for a message, although the
\* message may reach it intra process and between processes, as long as the
\* publisher exists: a copy is recognised by its living publisher.
AtMostOnce ==
  \A s \in Subs, m \in Messages : pub[PubOf[m]] = "alive" => Len(got[s][m]) <= 1

\* Whoever is given a message itself, not a copy, owns it alone: nobody shares
\* it and the ring no longer holds it.
OneOwner ==
  \A s \in Subs, m \in Messages :
    "moved" \in ToSet(got[s][m]) =>
      /\ \A u \in Subs \ {s} : ToSet(got[u][m]) \cap {"moved", "shared"} = {}
      /\ \A p \in Pubs : \A i \in 0 .. Size - 1 :
           m \notin {elements_[p][i].unique_value, elements_[p][i].shared_value}

\* A subscription for which a message was stored finds it in the ring unless
\* newer messages have displaced it: nobody else takes it away.
MissedOnlyIfDisplaced ==
  \A s \in Subs : \A n \in Notifications : <<s, n, FALSE>> \in took => n \in displaced

\* The last of the targets takes the message out of the ring: what everybody
\* has taken is not kept (if no subscription was removed meanwhile).
LastTakerFrees ==
  \A n \in Notifications :
    /\ n.seq \in DOMAIN targets[n.pub] /\ targets[n.pub][n.seq] = {}
    /\ \E s \in Subs, b \in BOOLEAN : <<s, n, b>> \in took
    /\ take_mutex_ = None /\ \A s \in Subs : sub[s] # "gone"
    => Found(elements_[n.pub], n.seq) = {}

\* Each message in the ring has one owner, is dispatched the way it was taken,
\* and leaves the ring with its last taker.
BufferOwnership == NeverEmpty /\ OneOwner /\ TakenIsDispatched /\ LastTakerFrees
==============================================================================
