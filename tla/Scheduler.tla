------------------------------ MODULE Scheduler ------------------------------
(***************************************************************************)
(* cospike/scheduler.hpp: the delayed-function queue behind co_await of a   *)
(* duration.  Client threads call execute(func, delay); the detached worker *)
(* thread copies the top of a priority queue, sleeps until it is due, pops  *)
(* the queue and runs the copy.  shutdown() may come from any thread.       *)
(*                                                                         *)
(* An action is one critical section of queue_lock, or one step outside it; *)
(* execute is two steps with the lock held, because the worker's loop       *)
(* condition and shutdown's store take no lock.                             *)
(***************************************************************************)
EXTENDS Integers, FiniteSets

CONSTANTS
  Items,     \* calls of execute, one function each
  Delay,     \* the delay argument of each call, in clock ticks (milliseconds)
  StopCalls, \* subset of {"wait", "clear"}: shutdown may be called with
             \* wait_for_complete = true, with wait_for_complete = false
  MaxTime,   \* bound: beyond it the clock advances only for queued items
  None       \* no item

ASSUME DelayAssumption == Delay \in [Items -> Int]
ASSUME StopAssumption == StopCalls \subseteq {"wait", "clear"} /\ MaxTime \in Nat
ASSUME NoneAssumption == None \notin Items

VARIABLES
  now,        \* system_clock, in milliseconds
  is_active,  \* is_active
  top,        \* the top of executable_queue, None when it is empty
  others,     \* the rest of executable_queue
  at,         \* scheduled_time of each item
  queue_lock, \* the call of execute that holds it; other holders take one step
  client,     \* where the call of execute for each item stands
  stop,       \* where the call of shutdown stands
  pc,         \* the worker
  executable, \* the worker's copy of the top
  deadline,   \* when its wait_for times out
  notified,   \* queue_condition was notified during the worker's wait
  runs        \* how often each function has run

qVars == <<top, others, at, queue_lock>>
wVars == <<pc, executable, deadline, notified>>
vars  == <<now, is_active, qVars, client, stop, wVars, runs>>

Queue == IF top = None THEN {} ELSE others \cup {top}

ClientStates == {"new", "push", "push_notify", "notify", "returned", "rejected"}

TypeOK ==
  /\ now \in Nat /\ is_active \in BOOLEAN
  /\ top \in Items \cup {None} /\ others \subseteq Items
  /\ at \in [Items -> Nat] /\ queue_lock \in Items \cup {None}
  /\ client \in [Items -> ClientStates]
  /\ stop \in {"no", "clear", "notify", "returned"}
  /\ pc \in {"test", "lock", "wait", "wait_for", "run", "exited", "undefined"}
  /\ executable \in Items \cup {None} /\ deadline \in Nat
  /\ notified \in BOOLEAN /\ runs \in [Items -> Nat]
  /\ pc \in {"wait_for", "run"} => executable # None

Init ==
  /\ now = 0 /\ is_active = TRUE
  /\ top = None /\ others = {} /\ at = [i \in Items |-> 0] /\ queue_lock = None
  /\ client = [i \in Items |-> "new"] /\ stop = "no"
  /\ pc = "test" /\ executable = None /\ deadline = 0 /\ notified = FALSE
  /\ runs = [i \in Items |-> 0]

Tick ==
  /\ now < MaxTime \/ \E i \in Queue : now < at[i]
  /\ now' = now + 1
  /\ UNCHANGED <<is_active, qVars, client, stop, wVars, runs>>

------------------------------------------------------------------------------
(* execute() and shutdown().                                                *)

EffectiveDelay(i) == IF Delay[i] < 0 THEN 0 ELSE Delay[i]

\* Mutant: the worker is never notified.
NeedNotify_Never(i) == FALSE

\* The worker must look at the queue again when the new item becomes its top.
NeedNotify(i) == top = None \/ (top # None /\ at[top] - now > EffectiveDelay(i))

\* priority_queue::push: the new element moves up past strictly later ones, so
\* it replaces the top only when it is strictly earlier.
Push(i, t) ==
  IF top # None /\ at[top] <= t
    THEN top' = top /\ others' = others \cup {i}
    ELSE top' = i /\ others' = Queue

\* execute up to the test whether the worker must be notified ...
ExecuteTest(i) ==
  /\ client[i] = "new" /\ queue_lock = None
  /\ \/ /\ is_active
        /\ queue_lock' = i
        /\ client' = [client EXCEPT ![i] = IF NeedNotify(i) THEN "push_notify" ELSE "push"]
     \/ /\ ~is_active
        /\ client' = [client EXCEPT ![i] = "rejected"] /\ UNCHANGED queue_lock
  /\ UNCHANGED <<now, is_active, top, others, at, stop, wVars, runs>>

\* ... and from there to the unlock.
ExecutePush(i) ==
  /\ client[i] \in {"push", "push_notify"}
  /\ at' = [at EXCEPT ![i] = now + EffectiveDelay(i)]
  /\ Push(i, now + EffectiveDelay(i))
  /\ queue_lock' = None
  /\ client' = [client EXCEPT ![i] = IF @ = "push_notify" THEN "notify" ELSE "returned"]
  /\ UNCHANGED <<now, is_active, stop, wVars, runs>>

Waiting == pc \in {"wait", "wait_for"}

\* notify_one, after the unlock.
NotifyOne(i) ==
  /\ client[i] = "notify"
  /\ client' = [client EXCEPT ![i] = "returned"]
  /\ notified' = (notified \/ Waiting)
  /\ UNCHANGED <<now, is_active, qVars, stop, pc, executable, deadline, runs>>

\* shutdown stores the flag without the lock ...
StoreInactive(c) ==
  /\ stop = "no"
  /\ is_active' = FALSE /\ stop' = IF c = "clear" THEN "clear" ELSE "notify"
  /\ UNCHANGED <<now, qVars, client, wVars, runs>>

\* ... swaps the queue with an empty one when it need not complete ...
ClearQueue ==
  /\ stop = "clear" /\ queue_lock = None
  /\ top' = None /\ others' = {} /\ stop' = "notify"
  /\ UNCHANGED <<now, is_active, at, queue_lock, client, wVars, runs>>

\* ... and notifies.
NotifyAll ==
  /\ stop = "notify"
  /\ stop' = "returned" /\ notified' = (notified \/ Waiting)
  /\ UNCHANGED <<now, is_active, qVars, client, pc, executable, deadline, runs>>

------------------------------------------------------------------------------
(* run_loop().                                                              *)

\* The loop condition reads the flag and the queue without the lock.
LoopTest ==
  /\ pc = "test"
  /\ pc' = IF is_active \/ top # None THEN "lock" ELSE "exited"
  /\ UNCHANGED <<now, is_active, qVars, client, stop, executable, deadline, notified, runs>>

\* priority_queue::pop; which of several earliest items comes up is not fixed.
Pop ==
  \/ /\ others = {} /\ top' = None /\ UNCHANGED others
  \/ \E i \in others :
       /\ \A j \in others : at[i] <= at[j]
       /\ top' = i /\ others' = others \ {i}

\* From the copy of the top to the wait for it or, when it is due, to its run.
TakeTop ==
  /\ top # None
  /\ executable' = top /\ notified' = FALSE
  /\ IF at[top] > now
       THEN pc' = "wait_for" /\ deadline' = at[top] /\ UNCHANGED <<top, others>>
       ELSE pc' = "run" /\ Pop /\ UNCHANGED deadline

LockQueue ==
  /\ pc = "lock" /\ queue_lock = None
  /\ \/ /\ top = None
        /\ pc' = "wait" /\ notified' = FALSE
        /\ UNCHANGED <<top, others, executable, deadline>>
     \/ TakeTop
  /\ UNCHANGED <<now, is_active, at, queue_lock, client, stop, runs>>

\* queue_condition.wait returns, notified or not.
WaitReturns ==
  /\ pc = "wait" /\ queue_lock = None
  /\ \/ /\ top = None
        /\ pc' = "test"
        /\ UNCHANGED <<top, others, executable, deadline, notified>>
     \/ TakeTop
  /\ UNCHANGED <<now, is_active, at, queue_lock, client, stop, runs>>

\* wait_for returns.  The status is a timeout when the deadline has passed,
\* also after a notification; the queue is then popped, whatever its top is
\* now.  A pop of an empty queue is undefined.
WaitForReturns ==
  /\ pc = "wait_for" /\ queue_lock = None
  /\ \/ /\ now < deadline
        /\ pc' = "test" /\ UNCHANGED <<top, others>>
     \/ /\ now >= deadline /\ top # None
        /\ pc' = "run" /\ Pop
     \/ /\ now >= deadline /\ top = None
        /\ pc' = "undefined" /\ UNCHANGED <<top, others>>
  /\ UNCHANGED <<now, is_active, at, queue_lock, client, stop, executable, deadline, notified, runs>>

\* Mutant: the function that is run is the top after the pop.
Run_Top ==
  /\ pc = "run"
  /\ runs' = IF top = None THEN runs ELSE [runs EXCEPT ![top] = @ + 1]
  /\ pc' = "test" /\ executable' = None
  /\ UNCHANGED <<now, is_active, qVars, client, stop, deadline, notified>>

\* The copy runs outside the lock.
Run ==
  /\ pc = "run"
  /\ runs' = [runs EXCEPT ![executable] = @ + 1]
  /\ pc' = "test" /\ executable' = None
  /\ UNCHANGED <<now, is_active, qVars, client, stop, deadline, notified>>

------------------------------------------------------------------------------
Worker == LoopTest \/ LockQueue \/ WaitReturns \/ WaitForReturns \/ Run

Client == \/ \E i \in Items : ExecuteTest(i) \/ ExecutePush(i) \/ NotifyOne(i)
          \/ \E c \in StopCalls : StoreInactive(c)
          \/ ClearQueue \/ NotifyAll

Next == Tick \/ Client \/ Worker

Spec == Init /\ [][Next]_vars

\* A wait that nothing ends may last for ever.
Progress ==
  \/ LoopTest \/ LockQueue \/ Run
  \/ (notified /\ WaitReturns)
  \/ ((notified \/ now >= deadline) /\ WaitForReturns)

\* The clock advances, a call in progress returns, and the worker is scheduled.
Fairness ==
  /\ WF_vars(Tick) /\ WF_vars(Progress)
  /\ \A i \in Items : WF_vars(ExecutePush(i)) /\ WF_vars(NotifyOne(i))
  /\ WF_vars(ClearQueue) /\ WF_vars(NotifyAll)

FairSpec == Spec /\ Fairness

------------------------------------------------------------------------------
(* Properties.                                                              *)

\* How often the function of each item is still to run: once for its place in
\* the queue, and once when the worker is about to run it.
Turns ==
  [i \in Items |-> (IF i \in Queue THEN 1 ELSE 0)
                     + (IF pc = "run" /\ executable = i THEN 1 ELSE 0)]

Abstract == INSTANCE SleepService WITH
  Sleeps <- Items, Duration <- [i \in Items |-> EffectiveDelay(i)],
  time <- now, open <- is_active, due <- at, turns <- Turns, wakes <- runs

\* The Scheduler implements SleepService: it runs each function once and not
\* before its time, unless a shutdown drops it, though it pops the queue after
\* a wait during which the queue may have changed.  When the item it pops is
\* not the one it has waited for, it is a shorter sleep pushed since, and that
\* one's turn goes to the longer.
ImplementsSleeps == Abstract!Spec

\* Every function that is queued while the worker lives is run, also after a
\* shutdown with wait_for_complete, unless a shutdown without it clears the
\* queue or a longer sleep has run twice in its place: no notification is lost.
AcceptedRuns ==
  \A i \in Items :
    (i \in Queue /\ pc # "exited") ~>
      \/ runs[i] > 0 \/ stop = "clear"
      \/ \E j \in Items : EffectiveDelay(j) > EffectiveDelay(i) /\ runs[j] > 1

\* Whatever the delays, no function runs before its scheduled time, though
\* the item that is popped may be another one.
NotEarly == [][\A i \in Items : runs'[i] > runs[i] => at[i] <= now]_vars

==============================================================================
