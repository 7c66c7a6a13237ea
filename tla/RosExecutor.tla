----------------------------- MODULE RosExecutor -----------------------------
(***************************************************************************)
(* The multi-threaded ROS 2 executor of RoboSpike with its coroutines.      *)
(*                                                                         *)
(* Threads run MultiThreadedExecutor::run (ExecutorNodelet::run and co_run *)
(* are the same loop): under wait_mutex_ each takes the next executable,   *)
(* marks its callback group as taken, and runs it outside the lock.  The   *)
(* callback of a coroutine subscription may suspend on a sleep; the static *)
(* Scheduler thread wakes it, and its rest is either pushed on             *)
(* coroutine_queue_ for an executor thread, or, when the sleep ended       *)
(* before promise_executor_init did, run on the Scheduler thread itself.   *)
(*                                                                         *)
(* One action stands for one critical section, or for one atomic access to *)
(* a variable that several threads read and write without a common lock.   *)
(***************************************************************************)
EXTENDS Integers, Sequences, FiniteSets

CONSTANTS
  Threads,        \* the executor's threads
  Sched,          \* the worker thread of the static Scheduler in SleepAwaiter
  Timers, Subs, Services, Clients, Waitables,  \* the entities of all nodes
  CoSubs,         \* subscriptions created with use_coroutine
  IntraSubs,      \* subscriptions with a publisher in the same process
  Throws,         \* coroutine subscriptions whose callback may throw
  Groups,         \* the callback groups
  MutuallyExclusive,  \* the groups of type MutuallyExclusive
  GroupOf,        \* the callback group of each entity
  Coros,          \* identities of the coroutines, one per dispatched message
  None,           \* the null pointer, and "no owner" of a mutex
  StopCalls,      \* subset of {"cancel", "shutdown"}: stops the user may call
  MaxMsgs,        \* bound: messages that arrive per entity
  MaxAwaits,      \* bound: sleeps a coroutine awaits
  MaxSpins        \* bound: calls of spin()

Handled  == Subs \cup Services \cup Clients \cup Waitables
Entities == Timers \cup Handled
Actors   == Threads \cup {Sched}

ASSUME ActorsAssumption == Sched \notin Threads
ASSUME EntitiesAssumption ==
  /\ Timers \cap Handled = {}
  /\ None \notin Entities \cup Coros \cup Actors
  /\ CoSubs \subseteq Subs /\ Throws \subseteq CoSubs /\ IntraSubs \subseteq Subs
ASSUME GroupsAssumption ==
  /\ GroupOf \in [Entities -> Groups]
  /\ MutuallyExclusive \subseteq Groups
ASSUME BoundsAssumption ==
  /\ MaxMsgs \in Nat /\ MaxAwaits \in Nat /\ MaxSpins \in Nat
  /\ StopCalls \subseteq {"cancel", "shutdown"}

VARIABLES
  \* the executor
  spinning,       \* Executor::spinning
  ok,             \* rclcpp::ok(context_)
  interrupt,      \* interrupt_guard_condition_ (or the context's) is triggered
  stopping,       \* a stop call has stored its flag and not triggered yet
  wait_mutex,     \* owner of wait_mutex_
  co_vec_mutex,   \* owner of co_vec_mutex_
  taken_from,     \* can_be_taken_from of each callback group
  scheduled_timers,  \* scheduled_timers_
  handles,        \* the handles the memory strategy holds after the last wait
  \* the threads
  pc,             \* where each thread stands
  any_exec,       \* the entity in the thread's AnyExecutable
  cur,            \* the coroutine the thread runs or holds in coroutine_ptr
  retry,          \* get_next_executable is in its second attempt
  \* the middleware and the user
  due,            \* timers for which is_ready() holds
  msgs,           \* messages, requests, responses waiting in the middleware
  arrived,        \* how many have arrived so far
  spins,          \* calls of spin() so far
  \* coroutines
  coro,           \* TaskPromise and coroutine frame
  coroutine_queue,  \* coroutine_queue_
  suspended,      \* suspend_coroutine_list_: occurrences of each subscription
  pid_queue,      \* free_thread_pid_queue_
  ready_vec       \* has_ready_coroutine_vec_; id i is at position i + 1

execVars == <<spinning, ok, interrupt, stopping>>
lockVars == <<wait_mutex, co_vec_mutex>>
grpVars  == <<taken_from, scheduled_timers, handles>>
thrVars  == <<pc, any_exec, cur, retry>>
envVars  == <<due, msgs, arrived, spins>>
coVars   == <<coro, coroutine_queue, suspended, pid_queue, ready_vec>>
vars     == <<execVars, lockVars, grpVars, thrVars, envVars, coVars>>

------------------------------------------------------------------------------
(* pc labels.                                                               *)

\* Inside the critical section of wait_mutex_ that takes an executable.
WaitPcs == {"rest", "timer", "handle", "register", "wait", "rcl_wait", "waited", "got"}

\* return_value and promise_executor_init.
ReturnPcs == {"ret_lock", "ret_vec"}
InitPcs   == {"init", "init_vec", "init_sub", "init_check", "init_exec"}

\* Inside execute_any_executable, before the callback group is released.
ExecPcs == {"callback", "body", "release"} \cup ReturnPcs \cup InitPcs

Pcs == {"idle", "loop", "lock", "stopped", "dup", "exec", "notify", "post", "asleep"}
         \cup WaitPcs \cup ExecPcs

CoroStates == {"unborn", "running", "sleeping", "queued", "done", "failed"}

\* TaskPromise: sub, has_returned, executer_ptr (set or not), the owner of
\* executer_ptr_lock, sub_node_ptr, has_ready_coroutine_vec_id_, and the
\* use_re_execute flag of its RosCoExecutor.  early is history: a sleep of the
\* coroutine ended before promise_executor_init did.
Promise == [st : CoroStates, sub : CoSubs \cup {None}, returned : BOOLEAN,
            exe : BOOLEAN, lock : Actors \cup {None}, sub_ptr : CoSubs \cup {None},
            id : Int, re_execute : BOOLEAN, awaits : Nat, early : BOOLEAN]

NewPromise(s) == [st |-> "running", sub |-> s, returned |-> FALSE, exe |-> FALSE,
                  lock |-> None, sub_ptr |-> None, id |-> -1,
                  re_execute |-> FALSE, awaits |-> 0, early |-> FALSE]

\* No coroutine yet.
Unborn == [NewPromise(None) EXCEPT !.st = "unborn"]

Goto(a, l) == pc' = [pc EXCEPT ![a] = l]

ExecutorTypes ==
  /\ spinning \in BOOLEAN /\ ok \in BOOLEAN /\ interrupt \in BOOLEAN
  /\ stopping \in BOOLEAN
  /\ wait_mutex \in Threads \cup {None} /\ co_vec_mutex \in Threads \cup {None}
  /\ taken_from \in [Groups -> BOOLEAN]
  /\ scheduled_timers \subseteq Timers /\ handles \subseteq Entities
  /\ due \subseteq Timers /\ msgs \in [Handled -> Nat]
  /\ arrived \in [Handled -> Nat] /\ spins \in Nat

ThreadTypes ==
  /\ pc \in [Actors -> Pcs]
  /\ any_exec \in [Actors -> Entities \cup {None}]
  /\ cur \in [Actors -> Coros \cup {None}]
  /\ retry \in [Threads -> BOOLEAN]

CoroutineTypes ==
  /\ coro \in [Coros -> Promise]
  /\ coroutine_queue \in Seq(Coros)
  /\ suspended \in [CoSubs -> Nat]
  /\ pid_queue \in Seq(Threads \X Int)
  /\ ready_vec \in Seq(BOOLEAN)

TypeOK == ExecutorTypes /\ ThreadTypes /\ CoroutineTypes

Init ==
  /\ spinning = FALSE /\ ok = TRUE /\ interrupt = FALSE /\ stopping = FALSE
  /\ wait_mutex = None /\ co_vec_mutex = None
  /\ taken_from = [g \in Groups |-> TRUE]
  /\ scheduled_timers = {} /\ handles = {}
  /\ pc = [a \in Actors |-> IF a = Sched THEN "asleep" ELSE "idle"]
  /\ any_exec = [a \in Actors |-> None]
  /\ cur = [a \in Actors |-> None]
  /\ retry = [t \in Threads |-> FALSE]
  /\ due = {} /\ msgs = [e \in Handled |-> 0]
  /\ arrived = [e \in Handled |-> 0] /\ spins = 0
  /\ coro = [c \in Coros |-> Unborn]
  /\ coroutine_queue = <<>>
  /\ suspended = [s \in CoSubs |-> 0]
  /\ pid_queue = <<>> /\ ready_vec = <<>>

------------------------------------------------------------------------------
(* The user: spin(), cancel(), shutdown of the context.                     *)

\* spin() starts the threads; the caller is one of them.
Spin ==
  /\ \A t \in Threads : pc[t] = "idle"
  /\ ~spinning /\ spins < MaxSpins
  /\ spinning' = TRUE /\ spins' = spins + 1
  /\ pc' = [a \in Actors |-> IF a \in Threads THEN "loop" ELSE pc[a]]
  /\ UNCHANGED <<ok, interrupt, stopping, lockVars, grpVars, any_exec, cur, retry,
                 due, msgs, arrived, coVars>>

\* spin() joins its threads and its scope exit clears spinning.
SpinReturns ==
  /\ \A t \in Threads : pc[t] = "stopped"
  /\ spinning' = FALSE
  /\ pc' = [a \in Actors |-> IF a \in Threads THEN "idle" ELSE pc[a]]
  /\ UNCHANGED <<ok, interrupt, stopping, lockVars, grpVars, any_exec, cur, retry,
                 envVars, coVars>>

\* cancel(): the flag first ...
Cancel ==
  /\ "cancel" \in StopCalls /\ spinning /\ ~stopping
  /\ spinning' = FALSE /\ stopping' = TRUE
  /\ UNCHANGED <<ok, interrupt, lockVars, grpVars, thrVars, envVars, coVars>>

\* Context::shutdown: rcl_shutdown invalidates the context ...
Shutdown ==
  /\ "shutdown" \in StopCalls /\ ok /\ ~stopping
  /\ ok' = FALSE /\ stopping' = TRUE
  /\ UNCHANGED <<spinning, interrupt, lockVars, grpVars, thrVars, envVars, coVars>>

\* Mutant: the stop call does not trigger the guard condition.
StopTriggers_NoTrigger ==
  /\ stopping
  /\ stopping' = FALSE
  /\ UNCHANGED <<spinning, ok, interrupt, lockVars, grpVars, thrVars, envVars, coVars>>

\* ... and both then trigger a guard condition of the wait set.
StopTriggers ==
  /\ stopping
  /\ stopping' = FALSE /\ interrupt' = TRUE
  /\ UNCHANGED <<spinning, ok, lockVars, grpVars, thrVars, envVars, coVars>>

------------------------------------------------------------------------------
(* The middleware: data arrives, a timer's period elapses.                  *)

Arrive(e) ==
  /\ arrived[e] < MaxMsgs
  /\ arrived' = [arrived EXCEPT ![e] = @ + 1]
  /\ msgs' = [msgs EXCEPT ![e] = @ + 1]
  /\ UNCHANGED <<execVars, lockVars, grpVars, thrVars, due, spins, coVars>>

TimerElapses(x) ==
  /\ x \notin due
  /\ due' = due \cup {x}
  /\ UNCHANGED <<execVars, lockVars, grpVars, thrVars, msgs, arrived, spins, coVars>>

------------------------------------------------------------------------------
(* run(): taking an executable.                                             *)

\* The while condition, tested without a lock.
LoopTest(t) ==
  /\ pc[t] = "loop"
  /\ Goto(t, IF ok /\ spinning THEN "lock" ELSE "stopped")
  /\ UNCHANGED <<execVars, lockVars, grpVars, any_exec, cur, retry, envVars, coVars>>

\* Mutant: the wait_lock is forgotten.
Lock_NoMutex(t) ==
  /\ pc[t] = "lock"
  /\ IF ok /\ spinning
       THEN wait_mutex' = t /\ Goto(t, "rest")
       ELSE wait_mutex' = wait_mutex /\ Goto(t, "stopped")
  /\ UNCHANGED <<execVars, co_vec_mutex, grpVars, any_exec, cur, retry, envVars, coVars>>

\* wait_mutex_ is acquired and the condition tested again.
Lock(t) ==
  /\ pc[t] = "lock" /\ wait_mutex = None
  /\ IF ok /\ spinning
       THEN wait_mutex' = t /\ Goto(t, "rest")
       ELSE wait_mutex' = wait_mutex /\ Goto(t, "stopped")
  /\ UNCHANGED <<execVars, co_vec_mutex, grpVars, any_exec, cur, retry, envVars, coVars>>

\* An attempt to find an executable succeeded: the second one ran under
\* co_vec_mutex_, which is released before the group is marked.
Found(t) ==
  /\ co_vec_mutex' = IF retry[t] THEN None ELSE co_vec_mutex
  /\ retry' = [retry EXCEPT ![t] = FALSE]

\* get_rest_coroutine: the resumed coroutines come first.
GetRestCoroutine(t) ==
  /\ pc[t] = "rest"
  /\ IF coroutine_queue # <<>>
       THEN /\ cur' = [cur EXCEPT ![t] = Head(coroutine_queue)]
            /\ coroutine_queue' = Tail(coroutine_queue)
            /\ Found(t) /\ Goto(t, "got")
       ELSE /\ Goto(t, "timer")
            /\ UNCHANGED <<cur, coroutine_queue, co_vec_mutex, retry>>
  /\ UNCHANGED <<execVars, wait_mutex, grpVars, any_exec, envVars,
                 coro, suspended, pid_queue, ready_vec>>

TakeableTimers == {x \in due : taken_from[GroupOf[x]]}

\* get_next_timer: a ready timer of a group that can be taken from.  Which one
\* depends on the order in which nodes, groups and timers were created.
GetNextTimer(t) ==
  /\ pc[t] = "timer"
  /\ \/ \E x \in TakeableTimers :
          /\ any_exec' = [any_exec EXCEPT ![t] = x]
          /\ Found(t) /\ Goto(t, "got")
     \/ /\ TakeableTimers = {} /\ Goto(t, "handle")
        /\ UNCHANGED <<any_exec, co_vec_mutex, retry>>
  /\ UNCHANGED <<execVars, wait_mutex, grpVars, cur, envVars, coVars>>

\* Subscriptions are searched first, then services, clients, waitables.
Rank(e) == IF e \in Subs THEN 1 ELSE IF e \in Services THEN 2
           ELSE IF e \in Clients THEN 3 ELSE 4

\* Mutant: the test of can_be_taken_from is dropped.
TakeableHandles_AnyGroup ==
  {e \in handles \cap Handled : e \in CoSubs => suspended[e] = 0}

\* Mutant: the suspend list is not consulted.
TakeableHandles_AnySub ==
  {e \in handles \cap Handled : taken_from[GroupOf[e]]}

\* get_next_subscription and its siblings skip a handle whose group is taken,
\* and a subscription on the suspend list.
TakeableHandles ==
  {e \in handles \cap Handled : /\ taken_from[GroupOf[e]]
                                /\ e \in CoSubs => suspended[e] = 0}
NextHandles ==
  {e \in TakeableHandles : \A f \in TakeableHandles : Rank(e) <= Rank(f)}

\* The handle is erased; a coroutine subscription is registered in a critical
\* section of its own.
GetNextHandle(t) ==
  /\ pc[t] = "handle"
  /\ \/ \E e \in NextHandles :
          /\ any_exec' = [any_exec EXCEPT ![t] = e]
          /\ handles' = handles \ {e}
          /\ IF e \in CoSubs
               THEN Goto(t, "register") /\ UNCHANGED <<co_vec_mutex, retry>>
               ELSE Goto(t, "got") /\ Found(t)
          /\ UNCHANGED wait_mutex
     \/ /\ NextHandles = {} /\ ~retry[t]
        /\ Goto(t, "wait")
        /\ UNCHANGED <<any_exec, handles, wait_mutex, co_vec_mutex, retry>>
     \/ /\ NextHandles = {} /\ retry[t]
        /\ Goto(t, "loop") /\ wait_mutex' = None /\ Found(t)
        /\ UNCHANGED <<any_exec, handles>>
  /\ UNCHANGED <<execVars, taken_from, scheduled_timers, cur, envVars, coVars>>

\* Mutant: the subscription is not pushed on the list.
Register_NoPush(t) ==
  /\ pc[t] = "register"
  /\ Found(t) /\ Goto(t, "got")
  /\ UNCHANGED <<execVars, wait_mutex, grpVars, any_exec, cur, envVars, coVars>>

\* suspend_coroutine_list_.push_back in get_next_ready_executable.
Register(t) ==
  /\ pc[t] = "register"
  /\ suspended' = [suspended EXCEPT ![any_exec[t]] = @ + 1]
  /\ Found(t) /\ Goto(t, "got")
  /\ UNCHANGED <<execVars, wait_mutex, grpVars, any_exec, cur, envVars,
                 coro, coroutine_queue, pid_queue, ready_vec>>

\* collect_entities: the entities of every group that can be taken from.
Collected == {e \in Entities : taken_from[GroupOf[e]]}

\* Mutant: the queue of free threads is ignored, every thread blocks.
FreeThread_Never(t) == FALSE

\* The thread at the front of free_thread_pid_queue_ does not block.
FreeThread(t) == pid_queue # <<>> /\ Head(pid_queue)[1] = t

\* wait_free_wfk: the collected handles are left in the wait set without
\* asking the middleware, so each of them looks ready.
WaitFree(t) ==
  /\ pc[t] = "wait" /\ co_vec_mutex = None
  /\ FreeThread(t) /\ ready_vec[Head(pid_queue)[2] + 1]
  /\ co_vec_mutex' = t /\ handles' = Collected
  /\ Goto(t, "waited")
  /\ UNCHANGED <<execVars, wait_mutex, taken_from, scheduled_timers, any_exec, cur,
                 retry, envVars, coVars>>

\* Its coroutine has returned: the thread leaves the front of the queue.
PopFreeThread(t) ==
  /\ pc[t] = "wait" /\ co_vec_mutex = None
  /\ FreeThread(t) /\ ~ready_vec[Head(pid_queue)[2] + 1]
  /\ pid_queue' = Tail(pid_queue)
  /\ wait_mutex' = None /\ Goto(t, "loop")
  /\ UNCHANGED <<execVars, co_vec_mutex, grpVars, any_exec, cur, retry, envVars,
                 coro, coroutine_queue, suspended, ready_vec>>

\* wait_for_work up to rcl_wait, which blocks under both mutexes.
WaitForWork(t) ==
  /\ pc[t] = "wait" /\ co_vec_mutex = None
  /\ ~FreeThread(t)
  /\ co_vec_mutex' = t /\ handles' = Collected
  /\ Goto(t, "rcl_wait")
  /\ UNCHANGED <<execVars, wait_mutex, taken_from, scheduled_timers, any_exec, cur,
                 retry, envVars, coVars>>

HasData(e) == IF e \in Timers THEN e \in due ELSE msgs[e] > 0

\* rcl_wait returns with the handles that have data; remove_null_handles.
RclWait(t) ==
  /\ pc[t] = "rcl_wait"
  /\ interrupt \/ \E e \in handles : HasData(e)
  /\ handles' = {e \in handles : HasData(e)}
  /\ interrupt' = FALSE
  /\ Goto(t, "waited")
  /\ UNCHANGED <<spinning, ok, stopping, lockVars, taken_from, scheduled_timers,
                 any_exec, cur, retry, envVars, coVars>>

\* The test of spinning after a wait; the second attempt.
AfterWait(t) ==
  /\ pc[t] = "waited"
  /\ IF spinning
       THEN /\ retry' = [retry EXCEPT ![t] = TRUE] /\ Goto(t, "rest")
            /\ UNCHANGED lockVars
       ELSE /\ wait_mutex' = None /\ co_vec_mutex' = None /\ Goto(t, "loop")
            /\ UNCHANGED retry
  /\ UNCHANGED <<execVars, grpVars, any_exec, cur, envVars, coVars>>

\* Mutant: scheduled_timers_ is not consulted.
Mark_NoDuplicateTest(t) ==
  /\ pc[t] = "got"
  /\ LET e == any_exec[t]
     IN /\ taken_from' = IF e = None THEN taken_from
                         ELSE [taken_from EXCEPT ![GroupOf[e]] =
                                 @ /\ GroupOf[e] \notin MutuallyExclusive]
        /\ scheduled_timers' = scheduled_timers \cup ({e} \cap Timers)
  /\ Goto(t, "exec")
  /\ wait_mutex' = None
  /\ UNCHANGED <<execVars, co_vec_mutex, handles, any_exec, cur, retry, envVars, coVars>>

\* A mutually exclusive group is marked as taken.  A timer that another
\* thread is executing is given back, its group opened again, and the
\* AnyExecutable left to its destructor; wait_mutex_ is released.
Mark(t) ==
  /\ pc[t] = "got"
  /\ LET e   == any_exec[t]
         dup == e \in scheduled_timers
     IN /\ taken_from' = IF e = None THEN taken_from
                         ELSE [taken_from EXCEPT ![GroupOf[e]] =
                                 dup \/ (@ /\ GroupOf[e] \notin MutuallyExclusive)]
        /\ scheduled_timers' = scheduled_timers \cup ({e} \cap Timers)
        /\ Goto(t, IF dup THEN "dup" ELSE "exec")
  /\ wait_mutex' = None
  /\ UNCHANGED <<execVars, co_vec_mutex, handles, any_exec, cur, retry, envVars, coVars>>

\* ~AnyExecutable after the continue of the duplicate timer.
Destroy(t) ==
  /\ pc[t] = "dup"
  /\ taken_from' = [taken_from EXCEPT ![GroupOf[any_exec[t]]] = TRUE]
  /\ any_exec' = [any_exec EXCEPT ![t] = None]
  /\ Goto(t, "loop")
  /\ UNCHANGED <<execVars, lockVars, scheduled_timers, handles, cur, retry, envVars, coVars>>

------------------------------------------------------------------------------
(* execute_any_executable.                                                  *)

\* The early return when spin was cancelled.
ExecuteCancelled(t) ==
  /\ pc[t] = "exec" /\ ~spinning
  /\ Goto(t, "post")
  /\ UNCHANGED <<execVars, lockVars, grpVars, any_exec, cur, retry, envVars, coVars>>

\* The call through coroutine_ptr resumes the coroutine.
ExecuteCoroutine(t) ==
  /\ pc[t] = "exec" /\ spinning /\ any_exec[t] = None
  /\ coro' = [coro EXCEPT ![cur[t]].st = "running"]
  /\ Goto(t, "body")
  /\ UNCHANGED <<execVars, lockVars, grpVars, any_exec, cur, retry, envVars,
                 coroutine_queue, suspended, pid_queue, ready_vec>>

\* execute_timer: rcl_timer_call, then the callback.
ExecuteTimer(t) ==
  /\ pc[t] = "exec" /\ spinning /\ any_exec[t] \in Timers
  /\ due' = due \ {any_exec[t]}
  /\ Goto(t, "callback")
  /\ UNCHANGED <<execVars, lockVars, grpVars, any_exec, cur, retry, msgs, arrived,
                 spins, coVars>>

\* rcl_take, rcl_take_request, rcl_take_response fail when there is no data.
TakeFails(t) ==
  /\ pc[t] = "exec" /\ spinning /\ any_exec[t] \in Handled /\ msgs[any_exec[t]] = 0
  /\ Goto(t, "release")
  /\ UNCHANGED <<execVars, lockVars, grpVars, any_exec, cur, retry, envVars, coVars>>

\* handle_message drops the copy of a message that is delivered intra process.
MessageIgnored(t) ==
  /\ pc[t] = "exec" /\ spinning /\ any_exec[t] \in IntraSubs /\ msgs[any_exec[t]] > 0
  /\ msgs' = [msgs EXCEPT ![any_exec[t]] = @ - 1]
  /\ Goto(t, "release")
  /\ UNCHANGED <<execVars, lockVars, grpVars, any_exec, cur, retry, due, arrived,
                 spins, coVars>>

\* The take succeeds and an ordinary callback starts.
ExecuteCallback(t) ==
  /\ pc[t] = "exec" /\ spinning
  /\ any_exec[t] \in Handled \ CoSubs /\ msgs[any_exec[t]] > 0
  /\ msgs' = [msgs EXCEPT ![any_exec[t]] = @ - 1]
  /\ Goto(t, "callback")
  /\ UNCHANGED <<execVars, lockVars, grpVars, any_exec, cur, retry, due, arrived,
                 spins, coVars>>

\* co_dispatch: the coroutine is created and DispatchAwaiter runs its body on
\* this thread (RosCoExecutor::execute calls the function).
ExecuteCoSubscription(t) ==
  /\ pc[t] = "exec" /\ spinning
  /\ any_exec[t] \in CoSubs /\ msgs[any_exec[t]] > 0
  /\ msgs' = [msgs EXCEPT ![any_exec[t]] = @ - 1]
  /\ \E c \in Coros :
       /\ coro[c].st = "unborn"
       /\ coro' = [coro EXCEPT ![c] = NewPromise(any_exec[t])]
       /\ cur' = [cur EXCEPT ![t] = c]
  /\ Goto(t, "body")
  /\ UNCHANGED <<execVars, lockVars, grpVars, any_exec, retry, due, arrived, spins,
                 coroutine_queue, suspended, pid_queue, ready_vec>>

CallbackReturns(t) ==
  /\ pc[t] = "callback"
  /\ Goto(t, "release")
  /\ UNCHANGED <<execVars, lockVars, grpVars, any_exec, cur, retry, envVars, coVars>>

\* The group is released, whatever its type ...
Release(t) ==
  /\ pc[t] = "release"
  /\ taken_from' = IF any_exec[t] = None THEN taken_from
                   ELSE [taken_from EXCEPT ![GroupOf[any_exec[t]]] = TRUE]
  /\ Goto(t, "notify")
  /\ UNCHANGED <<execVars, lockVars, scheduled_timers, handles, any_exec, cur, retry,
                 envVars, coVars>>

\* Mutant: the guard condition is not triggered after an execution.
Notify_NoTrigger(t) ==
  /\ pc[t] = "notify"
  /\ Goto(t, "post")
  /\ UNCHANGED <<execVars, lockVars, grpVars, any_exec, cur, retry, envVars, coVars>>

\* ... and a thread blocked in rcl_wait is woken.
Notify(t) ==
  /\ pc[t] = "notify"
  /\ interrupt' = TRUE
  /\ Goto(t, "post")
  /\ UNCHANGED <<spinning, ok, stopping, lockVars, grpVars, any_exec, cur, retry,
                 envVars, coVars>>

\* Back in run(): a timer is removed from scheduled_timers_ under wait_mutex_,
\* the callback group is reset so that the destructor does not touch it.
Post(t) ==
  /\ pc[t] = "post"
  /\ any_exec[t] \in Timers => wait_mutex = None
  /\ scheduled_timers' = scheduled_timers \ {any_exec[t]}
  /\ any_exec' = [any_exec EXCEPT ![t] = None]
  /\ cur' = [cur EXCEPT ![t] = None]
  /\ Goto(t, "loop")
  /\ UNCHANGED <<execVars, lockVars, taken_from, handles, retry, envVars, coVars>>

------------------------------------------------------------------------------
(* A coroutine runs on actor a: an executor thread or the Scheduler.        *)

\* Where a goes when the coroutine suspends or ends: the first call returns to
\* co_dispatch, a resumed coroutine to execute_any_executable.
AfterSegment(a) == IF a = Sched THEN "asleep"
                   ELSE IF any_exec[a] = None THEN "release" ELSE "init"

Leave(a) ==
  /\ Goto(a, AfterSegment(a))
  /\ cur' = IF a = Sched THEN [cur EXCEPT ![a] = None] ELSE cur

\* co_await of a duration: SleepAwaiter hands the handle to the Scheduler.
Await(a) ==
  /\ pc[a] = "body"
  /\ coro[cur[a]].awaits < MaxAwaits
  /\ coro' = [coro EXCEPT ![cur[a]].st = "sleeping", ![cur[a]].awaits = @ + 1]
  /\ Leave(a)
  /\ UNCHANGED <<execVars, lockVars, grpVars, any_exec, retry, envVars,
                 coroutine_queue, suspended, pid_queue, ready_vec>>

\* unhandled_exception: the result is set; nothing is unregistered.
BodyThrows(a) ==
  /\ pc[a] = "body"
  /\ coro[cur[a]].sub \in Throws
  /\ coro' = [coro EXCEPT ![cur[a]].st = "failed"]
  /\ Leave(a)
  /\ UNCHANGED <<execVars, lockVars, grpVars, any_exec, retry, envVars,
                 coroutine_queue, suspended, pid_queue, ready_vec>>

\* return_value: has_returned is stored before any lock.
ReturnValue(a) ==
  /\ pc[a] = "body"
  /\ coro' = [coro EXCEPT ![cur[a]].returned = TRUE]
  /\ Goto(a, "ret_lock")
  /\ UNCHANGED <<execVars, lockVars, grpVars, any_exec, cur, retry, envVars,
                 coroutine_queue, suspended, pid_queue, ready_vec>>

\* The loop that erases a subscription from suspend_coroutine_list_ advances
\* its iterator twice after an erase, so of several occurrences it removes at
\* least one.  When the erased element was the last, the second step is taken
\* from end(); in the std::list of libstdc++, a ring through its header node,
\* that leads back to the first element, and the loop goes on from there or,
\* with the list empty, ends.
EraseSuspended(s) ==
  IF s = None \/ (s # None /\ suspended[s] = 0) THEN suspended' = suspended
  ELSE \E n \in 0 .. suspended[s] - 1 : suspended' = [suspended EXCEPT ![s] = n]

\* return_value under executer_ptr_lock: without an executor the promise has
\* nothing to unregister; with one the subscription is erased and the lock is
\* kept for the next critical section.
ReturnLock(a) ==
  /\ pc[a] = "ret_lock" /\ coro[cur[a]].lock = None
  /\ IF coro[cur[a]].exe
       THEN /\ coro' = [coro EXCEPT ![cur[a]].lock = a]
            /\ EraseSuspended(coro[cur[a]].sub_ptr)
            /\ Goto(a, "ret_vec") /\ UNCHANGED cur
       ELSE /\ coro' = [coro EXCEPT ![cur[a]].st = "done"]
            /\ Leave(a) /\ UNCHANGED suspended
  /\ UNCHANGED <<execVars, lockVars, grpVars, any_exec, retry, envVars,
                 coroutine_queue, pid_queue, ready_vec>>

\* has_ready_coroutine_vec_[id] = false.  For id -1 the write falls outside
\* the vector and changes nothing the executor reads.
ReturnVec(a) ==
  /\ pc[a] = "ret_vec" /\ co_vec_mutex = None
  /\ ready_vec' = IF coro[cur[a]].id = -1 THEN ready_vec
                  ELSE [ready_vec EXCEPT ![coro[cur[a]].id + 1] = FALSE]
  /\ coro' = [coro EXCEPT ![cur[a]].lock = None, ![cur[a]].st = "done"]
  /\ Leave(a)
  /\ UNCHANGED <<execVars, lockVars, grpVars, any_exec, retry, envVars,
                 coroutine_queue, suspended, pid_queue>>

\* promise_executor_init, under executer_ptr_lock ...
InitLock(t) ==
  /\ pc[t] = "init" /\ coro[cur[t]].lock = None
  /\ LET c == cur[t] IN
     IF coro[c].returned
       THEN /\ coro' = [coro EXCEPT ![c].exe = TRUE]
            /\ Goto(t, "init_sub")
       ELSE /\ coro' = [coro EXCEPT ![c].exe = TRUE, ![c].lock = t]
            /\ Goto(t, "init_vec")
  /\ UNCHANGED <<execVars, lockVars, grpVars, any_exec, cur, retry, envVars,
                 coroutine_queue, suspended, pid_queue, ready_vec>>

\* ... the coroutine and its thread are recorded under co_vec_mutex_ ...
InitVec(t) ==
  /\ pc[t] = "init_vec" /\ co_vec_mutex = None
  /\ coro' = [coro EXCEPT ![cur[t]].id = Len(ready_vec), ![cur[t]].lock = None]
  /\ pid_queue' = Append(pid_queue, <<t, Len(ready_vec)>>)
  /\ ready_vec' = Append(ready_vec, TRUE)
  /\ Goto(t, "init_sub")
  /\ UNCHANGED <<execVars, lockVars, grpVars, any_exec, cur, retry, envVars,
                 coroutine_queue, suspended>>

\* ... sub_node_ptr is stored without a lock ...
InitSub(t) ==
  /\ pc[t] = "init_sub"
  /\ coro' = [coro EXCEPT ![cur[t]].sub_ptr = any_exec[t]]
  /\ Goto(t, "init_check")
  /\ UNCHANGED <<execVars, lockVars, grpVars, any_exec, cur, retry, envVars,
                 coroutine_queue, suspended, pid_queue, ready_vec>>

\* Mutant: has_returned is not read a second time.
InitCheck_NoErase(t) ==
  /\ pc[t] = "init_check"
  /\ Goto(t, "init_exec")
  /\ UNCHANGED <<execVars, lockVars, grpVars, any_exec, cur, retry, envVars, coVars>>

\* ... and has_returned is read again: a coroutine that has ended is erased.
InitCheck(t) ==
  /\ pc[t] = "init_check"
  /\ IF coro[cur[t]].returned THEN EraseSuspended(coro[cur[t]].sub_ptr)
     ELSE suspended' = suspended
  /\ Goto(t, "init_exec")
  /\ UNCHANGED <<execVars, lockVars, grpVars, any_exec, cur, retry, envVars,
                 coro, coroutine_queue, pid_queue, ready_vec>>

\* executor_init: from now on a sleep that ends uses re_execute.
InitExec(t) ==
  /\ pc[t] = "init_exec"
  /\ coro' = [coro EXCEPT ![cur[t]].re_execute = TRUE]
  /\ Goto(t, "release")
  /\ UNCHANGED <<execVars, lockVars, grpVars, any_exec, cur, retry, envVars,
                 coroutine_queue, suspended, pid_queue, ready_vec>>

\* The Scheduler runs the function of a sleep that has ended: re_execute
\* pushes the rest of the coroutine and triggers no guard condition; execute
\* runs it on the Scheduler's thread.
SleepEnds(c) ==
  /\ pc[Sched] = "asleep" /\ coro[c].st = "sleeping"
  /\ IF coro[c].re_execute
       THEN /\ coroutine_queue' = Append(coroutine_queue, c)
            /\ coro' = [coro EXCEPT ![c].st = "queued"]
            /\ UNCHANGED <<pc, cur>>
       ELSE /\ coro' = [coro EXCEPT ![c].st = "running", ![c].early = TRUE]
            /\ cur' = [cur EXCEPT ![Sched] = c]
            /\ Goto(Sched, "body")
            /\ UNCHANGED coroutine_queue
  /\ UNCHANGED <<execVars, lockVars, grpVars, any_exec, retry, envVars,
                 suspended, pid_queue, ready_vec>>

------------------------------------------------------------------------------
CoroutineStep(a) ==
  Await(a) \/ BodyThrows(a) \/ ReturnValue(a) \/ ReturnLock(a) \/ ReturnVec(a)

ThreadStep(t) ==
  \/ LoopTest(t) \/ Lock(t) \/ GetRestCoroutine(t) \/ GetNextTimer(t)
  \/ GetNextHandle(t) \/ Register(t) \/ WaitFree(t) \/ PopFreeThread(t)
  \/ WaitForWork(t) \/ RclWait(t) \/ AfterWait(t) \/ Mark(t) \/ Destroy(t)
  \/ ExecuteCancelled(t) \/ ExecuteCoroutine(t) \/ ExecuteTimer(t) \/ TakeFails(t)
  \/ MessageIgnored(t) \/ ExecuteCallback(t) \/ ExecuteCoSubscription(t)
  \/ CallbackReturns(t) \/ Release(t) \/ Notify(t) \/ Post(t)
  \/ InitLock(t) \/ InitVec(t) \/ InitSub(t) \/ InitCheck(t) \/ InitExec(t)
  \/ CoroutineStep(t)

SchedStep == CoroutineStep(Sched) \/ \E c \in Coros : SleepEnds(c)

UserStep == Spin \/ SpinReturns \/ Cancel \/ Shutdown \/ StopTriggers

Environment == (\E e \in Handled : Arrive(e)) \/ (\E x \in Timers : TimerElapses(x))

Next == UserStep \/ Environment \/ SchedStep \/ \E t \in Threads : ThreadStep(t)

Spec == Init /\ [][Next]_vars

\* Every thread of the process is scheduled, callbacks and sleeps end, and a
\* stop call that has begun is completed.  No fairness of the mutexes: which
\* waiting thread gets one is up to the system.
Fairness ==
  /\ WF_vars(SchedStep) /\ WF_vars(StopTriggers) /\ WF_vars(SpinReturns)
  /\ \A t \in Threads : WF_vars(ThreadStep(t))

FairSpec == Spec /\ Fairness

------------------------------------------------------------------------------
(* Safety.                                                                  *)

\* Thread t runs the callback of its entity (the call and, for a coroutine,
\* the part up to its first suspension with promise_executor_init).
Executing(t) == any_exec[t] # None /\ pc[t] \in ExecPcs

Timerless(g) == \A x \in Timers : GroupOf[x] # g

\* "Group is mutually exclusive and is being used, so skip it for now": two
\* threads never run callbacks of one mutually exclusive group that holds no
\* timer at the same time, whatever happens to spin() in between.
GroupExclusion ==
  \A t, u \in Threads :
    /\ t # u /\ Executing(t) /\ Executing(u)
    /\ GroupOf[any_exec[t]] = GroupOf[any_exec[u]]
    /\ Timerless(GroupOf[any_exec[t]])
    => GroupOf[any_exec[t]] \notin MutuallyExclusive

\* "Guard against multiple threads getting the same timer": scheduled_timers_
\* keeps a timer from being executed by two threads at once, also in a
\* reentrant group, where nothing else does.
TimerExclusion ==
  \A t, u \in Threads :
    /\ any_exec[t] \in Timers /\ any_exec[t] = any_exec[u]
    /\ pc[t] \in {"exec", "post"} \cup ExecPcs
    /\ pc[u] \in {"exec", "post"} \cup ExecPcs
    => t = u

\* The assertion of get_next_executable: when an executable has been chosen
\* its group is still free, though other threads change groups without
\* wait_mutex_ between the choice and the assertion.
AssertNotTaken ==
  \A t \in Threads :
    pc[t] = "got" /\ any_exec[t] # None => taken_from[GroupOf[any_exec[t]]]

\* The loops that erase from suspend_coroutine_list_ skip the element after
\* the erased one, so they rely on a subscription being listed only once,
\* though the test for membership and push_back are two critical sections.
ListedOnce == \A s \in CoSubs : suspended[s] <= 1

\* A coroutine that has been created and has not reached co_return.
Live(c) == coro[c].st \in {"running", "sleeping", "queued"} /\ ~coro[c].returned

SameSub(c, d) == coro[c].sub = coro[d].sub

\* What the suspend list is for: a subscription starts no second coroutine
\* while one is suspended, though the group was released at the suspension.
\* Only a sleep that ended before promise_executor_init did (a sleep of 0 ms,
\* or a recording held up behind a thread in rcl_wait) can break it: the
\* second erasure of a coroutine that has returned may then hit the entry of
\* the next one.
OneCoroutinePerSubscription ==
  \A c, d \in Coros :
    Live(c) /\ Live(d) /\ SameSub(c, d) =>
      c = d \/ \E b \in Coros : SameSub(b, c) /\ coro[b].early

\* The coroutine of a message may return on the Scheduler's thread while the
\* thread that dispatched the message is in promise_executor_init; both look
\* at what the other has written (has_returned, executer_ptr, sub_node_ptr) in
\* opposite orders.  When both are through, the subscription is off the list.
ReturnedIsErased ==
  \A t \in Threads :
    /\ pc[t] \in {"init_exec", "release"} /\ any_exec[t] \in CoSubs /\ cur[t] # None
    /\ GroupOf[any_exec[t]] \in MutuallyExclusive /\ Timerless(GroupOf[any_exec[t]])
    /\ coro[cur[t]].st = "done"
    => suspended[any_exec[t]] = 0

------------------------------------------------------------------------------
(* Liveness.                                                                *)

\* promise_executor_init waits for co_vec_mutex_, which a thread in rcl_wait
\* keeps; the group of its subscription is still taken.
RecordingBlocked ==
  \E t, u \in Threads : pc[t] = "init_vec" /\ co_vec_mutex = u /\ pc[u] = "rcl_wait"

\* Data that arrives while the executor spins is taken, also when its group
\* was in use during the wait that would have seen it: the guard condition
\* triggered after a release makes the wait start over.  Only a coroutine that
\* is recorded behind a thread in rcl_wait can keep the group for ever.
DataIsTaken ==
  \A e \in Handled \ CoSubs :
    (spinning /\ ok /\ msgs[e] > 0) ~> (msgs[e] = 0 \/ ~spinning \/ ~ok \/ RecordingBlocked)

\* cancel() and a shutdown of the context make spin() return: no thread stays
\* in rcl_wait or behind a mutex held by a thread that does.
StopEndsSpin == (~spinning \/ ~ok) ~> (\A t \in Threads : pc[t] = "idle")

\* A coroutine that ends on the Scheduler's thread waits for co_vec_mutex_,
\* which the executor's thread keeps in rcl_wait, and takes again at once while
\* it polls in wait_free_wfk.
SchedulerBlocked == pc[Sched] = "ret_vec"

\* "leave at leat one thread to get the re_execute of coroutine": a coroutine
\* that was started ends when the executor has one thread.  (With several, the
\* thread that should look at coroutine_queue_ may wait for wait_mutex_ while
\* another one is in rcl_wait.)  Only the Scheduler's thread, when it runs a
\* coroutine whose sleep ended too early, can be held up, and every later sleep
\* with it.
CoroutineReturns ==
  \A c \in Coros :
    (coro[c].st = "running") ~> (coro[c].st = "done" \/ SchedulerBlocked)
==============================================================================
