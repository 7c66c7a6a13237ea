------------------------------ MODULE ThreadPool ------------------------------
(***************************************************************************)
(* cospike/coexecutor.hpp: ThreadPoolExecutor, whose workers each have a    *)
(* queue of their own and share queue_lock and queue_condition, and         *)
(* LooperExecutor, which is the same program with one worker but for        *)
(* shutdown(false).                                                         *)
(*                                                                         *)
(* An action is one critical section of queue_lock, or one step outside it. *)
(* execute is two steps with the lock held, because the workers' loop       *)
(* condition, shutdown and executor_init take no lock.  thread_select only  *)
(* draws a number, which the push draws here.                               *)
(***************************************************************************)
EXTENDS Naturals, Sequences

CONSTANTS
  N,         \* thread_num
  Funcs,     \* calls of execute, one function each
  Kinds,     \* subset of {"pool", "looper"}: the executors considered
  StopCalls, \* the calls of shutdown there may be: "wait" with
             \* wait_for_complete = true, "all" and "one" with false
  None       \* no function

ASSUME NAssumption == N \in Nat \ {0} /\ Kinds \subseteq {"pool", "looper"}
ASSUME StopAssumption == StopCalls \subseteq {"wait", "all", "one"}
ASSUME NoneAssumption == None \notin Funcs

Threads == 1 .. N

VARIABLES
  kind,       \* ThreadPoolExecutor with N workers or LooperExecutor with one
  size,       \* workers that executor_init has started
  growing,    \* executor_init is in emplace_back
  is_active,  \* is_active
  queue,      \* executable_queue_pool
  queue_lock, \* the call of execute that holds it; other holders take one step
  client,     \* where each call of execute stands
  stop,       \* where the call of shutdown stands
  toClear,    \* the queues that shutdown has yet to clear, in order
  torn,       \* the queue changed while shutdown copied it
  pc,         \* the workers
  notified,   \* queue_condition was notified during the worker's wait
  func,       \* the worker's func
  accepted,   \* history: what was pushed to each queue, in order
  started     \* history: what each worker started to run, in order

initVars == <<kind, size, growing>>
stopVars == <<is_active, stop, toClear>>
histVars == <<accepted, started>>
vars == <<initVars, stopVars, queue, queue_lock, client, torn, pc, notified, func, histVars>>

Looper == kind = "looper"
Workers == IF Looper THEN 1 ELSE N

ClientStates == {"new", "push", "notify", "returned", "rejected"}
WorkerStates == {"none", "test", "lock", "wait", "run", "exited", "undefined"}

TypeOK ==
  /\ kind \in Kinds /\ size \in 0 .. Workers /\ growing \in BOOLEAN /\ is_active \in BOOLEAN
  /\ queue \in [Threads -> Seq(Funcs)] /\ queue_lock \in Funcs \cup {None}
  /\ client \in [Funcs -> ClientStates]
  /\ stop \in {"no", "drain", "drained", "copy", "swap", "notify", "returned", "undefined"}
  /\ toClear \in Seq(Threads) /\ torn \in BOOLEAN
  /\ pc \in [Threads -> WorkerStates] /\ notified \in [Threads -> BOOLEAN]
  /\ func \in [Threads -> Funcs \cup {None}]
  /\ \A t \in Threads : pc[t] = "run" <=> func[t] # None
  /\ accepted \in [Threads -> Seq(Funcs)] /\ started \in [Threads -> Seq(Funcs)]

\* executor_init has stored is_active; no worker is started yet.
Init ==
  /\ kind \in Kinds
  /\ size = 0 /\ growing = FALSE /\ is_active = TRUE
  /\ queue = [t \in Threads |-> <<>>] /\ queue_lock = None
  /\ client = [f \in Funcs |-> "new"]
  /\ stop = "no" /\ toClear = <<>> /\ torn = FALSE
  /\ pc = [t \in Threads |-> "none"] /\ notified = [t \in Threads |-> FALSE]
  /\ func = [t \in Threads |-> None]
  /\ accepted = [t \in Threads |-> <<>>] /\ started = [t \in Threads |-> <<>>]

------------------------------------------------------------------------------
(* executor_init(): the vector of queues grows while workers already run.   *)

Emplace ==
  /\ size < Workers /\ ~growing
  /\ growing' = TRUE
  /\ UNCHANGED <<kind, size, stopVars, queue, queue_lock, client, torn, pc, notified, func, histVars>>

StartThread ==
  /\ growing
  /\ growing' = FALSE /\ size' = size + 1
  /\ pc' = [pc EXCEPT ![size + 1] = "test"]
  /\ UNCHANGED <<kind, stopVars, queue, queue_lock, client, torn, notified, func, histVars>>

\* "you should use executor_init ... before using the execute()".
Initialized == size = Workers

------------------------------------------------------------------------------
(* execute() and shutdown().                                                *)

ExecuteTest(f) ==
  /\ Initialized /\ client[f] = "new" /\ queue_lock = None
  /\ \/ /\ is_active
        /\ queue_lock' = f /\ client' = [client EXCEPT ![f] = "push"]
     \/ /\ ~is_active
        /\ client' = [client EXCEPT ![f] = "rejected"] /\ UNCHANGED queue_lock
  /\ UNCHANGED <<initVars, stopVars, queue, torn, pc, notified, func, histVars>>

\* A push or a pop while shutdown_all or shutdown_one copies queue t.
Tear(t) == torn' = (torn \/ (stop = "copy" /\ t = Head(toClear)))

ExecutePush(f, t) ==
  /\ client[f] = "push"
  /\ queue' = [queue EXCEPT ![t] = Append(@, f)]
  /\ accepted' = [accepted EXCEPT ![t] = Append(@, f)]
  /\ queue_lock' = None /\ client' = [client EXCEPT ![f] = "notify"]
  /\ Tear(t)
  /\ UNCHANGED <<initVars, stopVars, pc, notified, func, started>>

NotifyWaiting == notified' = [t \in Threads |-> notified[t] \/ pc[t] = "wait"]

\* Mutant: notify_one in place of notify_all.
NotifyClient_One(f) ==
  /\ client[f] = "notify"
  /\ client' = [client EXCEPT ![f] = "returned"]
  /\ IF \A t \in Threads : pc[t] # "wait" THEN UNCHANGED notified
     ELSE \E t \in Threads : pc[t] = "wait" /\ notified' = [notified EXCEPT ![t] = TRUE]
  /\ UNCHANGED <<initVars, stopVars, queue, queue_lock, torn, pc, func, histVars>>

\* notify_all, after the unlock; the Looper's notify_one has one waiter.
NotifyClient(f) ==
  /\ client[f] = "notify"
  /\ client' = [client EXCEPT ![f] = "returned"]
  /\ NotifyWaiting
  /\ UNCHANGED <<initVars, stopVars, queue, queue_lock, torn, pc, func, histVars>>

\* shutdown stores the flag without the lock.
StoreInactive(c) ==
  /\ Initialized /\ stop = "no"
  /\ is_active' = FALSE
  /\ \/ c = "wait" /\ stop' = "drain" /\ UNCHANGED toClear
     \/ c = "all" /\ stop' = "copy" /\ toClear' = [t \in 1 .. Workers |-> t]
     \/ c = "one" /\ ~Looper /\ stop' = "copy" /\ \E t \in Threads : toClear' = <<t>>
  /\ UNCHANGED <<initVars, queue, queue_lock, client, torn, pc, notified, func, histVars>>

\* The pool copies a queue without the lock; a copy of a queue that changes
\* meanwhile is undefined.
CopyQueue ==
  /\ ~Looper /\ stop = "copy" /\ torn' = FALSE
  /\ stop' \in IF torn THEN {"swap", "undefined"} ELSE {"swap"}
  /\ UNCHANGED <<initVars, is_active, toClear, queue, queue_lock, client, pc, notified, func, histVars>>

\* With the lock it swaps the copy with an empty queue.
SwapCopy ==
  /\ stop = "swap" /\ queue_lock = None
  /\ toClear' = Tail(toClear) /\ stop' = IF Len(toClear) = 1 THEN "notify" ELSE "copy"
  /\ UNCHANGED <<initVars, is_active, queue, queue_lock, client, torn, pc, notified, func, histVars>>

\* Mutant: the Looper does not take the lock to clear its queue.
SwapQueue_NoLock ==
  /\ Looper /\ stop = "copy"
  /\ queue' = [t \in Threads |-> <<>>] /\ toClear' = <<>> /\ stop' = "notify"
  /\ UNCHANGED <<initVars, is_active, queue_lock, client, torn, pc, notified, func, histVars>>

\* The Looper swaps the queue itself.
SwapQueue ==
  /\ Looper /\ stop = "copy" /\ queue_lock = None
  /\ queue' = [t \in Threads |-> <<>>] /\ toClear' = <<>> /\ stop' = "notify"
  /\ UNCHANGED <<initVars, is_active, queue_lock, client, torn, pc, notified, func, histVars>>

NotifyStop ==
  /\ \/ stop = "drain" /\ stop' = "drained"
     \/ stop = "notify" /\ stop' = "returned"
  /\ NotifyWaiting
  /\ UNCHANGED <<initVars, is_active, toClear, queue, queue_lock, client, torn, pc, func, histVars>>

------------------------------------------------------------------------------
(* run_loop(thread_id).                                                     *)

\* The loop condition is read without the lock.
LoopTest(t) ==
  /\ pc[t] = "test"
  /\ pc' = [pc EXCEPT ![t] = IF is_active \/ queue[t] # <<>> THEN "lock" ELSE "exited"]
  /\ UNCHANGED <<initVars, stopVars, queue, queue_lock, client, torn, notified, func, histVars>>

\* Mutant: the function stays in the queue until it has run.
Take_NoPop(t) ==
  /\ queue[t] # <<>>
  /\ func' = [func EXCEPT ![t] = Head(queue[t])]
  /\ started' = [started EXCEPT ![t] = Append(@, Head(queue[t]))]
  /\ pc' = [pc EXCEPT ![t] = "run"]
  /\ Tear(t) /\ UNCHANGED <<queue, notified>>

\* front, pop and unlock.
Take(t) ==
  /\ queue[t] # <<>>
  /\ func' = [func EXCEPT ![t] = Head(queue[t])]
  /\ started' = [started EXCEPT ![t] = Append(@, Head(queue[t]))]
  /\ queue' = [queue EXCEPT ![t] = Tail(@)]
  /\ pc' = [pc EXCEPT ![t] = "run"]
  /\ Tear(t) /\ UNCHANGED notified

LockQueue(t) ==
  /\ pc[t] = "lock" /\ queue_lock = None
  /\ \/ /\ queue[t] = <<>>
        /\ pc' = [pc EXCEPT ![t] = "wait"] /\ notified' = [notified EXCEPT ![t] = FALSE]
        /\ UNCHANGED <<queue, func, torn, started>>
     \/ Take(t)
  /\ UNCHANGED <<initVars, stopVars, queue_lock, client, accepted>>

\* queue_condition.wait returns, notified or not.
WaitReturns(t) ==
  /\ pc[t] = "wait" /\ queue_lock = None
  /\ \/ /\ queue[t] = <<>>
        /\ pc' = [pc EXCEPT ![t] = "test"]
        /\ UNCHANGED <<queue, func, torn, started, notified>>
     \/ Take(t)
  /\ UNCHANGED <<initVars, stopVars, queue_lock, client, accepted>>

\* With the lock, which emplace_back does not take, the worker may read its
\* queue from the storage that emplace_back has moved and freed.
ReadMoved(t) ==
  /\ growing /\ pc[t] \in {"lock", "wait"} /\ queue_lock = None
  /\ pc' = [pc EXCEPT ![t] = "undefined"]
  /\ UNCHANGED <<initVars, stopVars, queue, queue_lock, client, torn, notified, func, histVars>>

\* func() returns, outside the lock.
Run(t) ==
  /\ pc[t] = "run"
  /\ pc' = [pc EXCEPT ![t] = "test"] /\ func' = [func EXCEPT ![t] = None]
  /\ UNCHANGED <<initVars, stopVars, queue, queue_lock, client, torn, notified, histVars>>

------------------------------------------------------------------------------
Worker(t) == LoopTest(t) \/ LockQueue(t) \/ WaitReturns(t) \/ ReadMoved(t) \/ Run(t)

Client ==
  \/ \E f \in Funcs : \/ ExecuteTest(f) \/ NotifyClient(f)
                      \/ \E t \in 1 .. Workers : ExecutePush(f, t)
  \/ \E c \in StopCalls : StoreInactive(c)
  \/ CopyQueue \/ SwapCopy \/ SwapQueue \/ NotifyStop

Next == Emplace \/ StartThread \/ Client \/ \E t \in Threads : Worker(t)

Spec == Init /\ [][Next]_vars

\* A wait that nobody notifies may last for ever.
Progress(t) == LoopTest(t) \/ LockQueue(t) \/ Run(t) \/ (notified[t] /\ WaitReturns(t))

\* A call in progress goes on, functions return, and threads are scheduled.
Fairness ==
  /\ \A t \in Threads : WF_vars(Progress(t))
  /\ \A f \in Funcs : WF_vars(NotifyClient(f)) /\ WF_vars(\E t \in 1 .. Workers : ExecutePush(f, t))

FairSpec == Spec /\ Fairness

------------------------------------------------------------------------------
(* Properties.                                                              *)

\* execute accepts functions in an order, and each worker starts the functions
\* of its queue in that order, each at most once: none is overtaken, none is
\* taken twice, and what is not started is still queued, unless the Looper's
\* shutdown(false) cleared it.
InOrder ==
  \A t \in Threads :
    \/ accepted[t] = started[t] \o queue[t]
    \/ /\ Looper /\ stop \in {"notify", "returned"} /\ queue[t] = <<>>
       /\ \E k \in 0 .. Len(accepted[t]) : started[t] = SubSeq(accepted[t], 1, k)

\* A function in the queue of a live worker is started, though all workers wait
\* for one condition variable and the notification comes after the unlock.
\* Only the Looper's shutdown(false) can come before.
AcceptedRuns ==
  \A f \in Funcs, t \in Threads :
    (pc[t] \notin {"exited", "undefined"} /\ \E k \in DOMAIN queue[t] : queue[t][k] = f)
      ~> ((\E k \in DOMAIN started[t] : started[t][k] = f) \/ (Looper /\ stop = "copy"))

\* "clear queue.": when the Looper's shutdown(false) returns, nothing that was
\* accepted is left to run, though it stores is_active before it takes the lock
\* and calls of execute may be past their test.
NothingLeft == Looper /\ stop = "returned" => \A t \in Threads : queue[t] = <<>>
===============================================================================
