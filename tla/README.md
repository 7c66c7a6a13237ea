# RoboSpike in TLA+

RoboSpike is a fork of rclcpp (ROS 2 Dashing) whose subscription callbacks may be
C++20 coroutines: a callback can `co_await` a sleep, another task or a channel, and
its rest is run later by an executor thread. The library is `src/src/rclcpp_spk`;
the coroutine part is in its `include/cospike` and, for values, in
`include/rclcpp/executor.hpp`. This directory holds TLA+ models of that library, the
instances TLC checks, and the proofs TLAPS checks.

## 1. Inventory

State, operations and partners of each part, what is hard in it, and what makes it
correct. *(modelled)*, *(partly)* and *(not modelled)* say where it stands;
`PROJECT.json` lists the same parts with their sources.

**Executor and its threads** *(modelled: MultiThreadedExecutor, ExecutorNodelet)*.
State: `spinning`, `wait_mutex_`, `scheduled_timers_`, the memory strategy's handles,
the interrupt guard condition. Operations: `spin`, `cancel`, the `run` loop with
`get_next_executable` and `execute_any_executable`. Threads choose work under
`wait_mutex_` and run it outside; a thread blocks in `rcl_wait` with the mutex held,
and is woken by a guard condition. Correct when mutually exclusive groups exclude, a
timer runs once at a time, data is taken in the end, and a stop ends `spin()`.

**Callback groups and memory strategy** *(partly)*. `can_be_taken_from`, set in
`get_next_executable`, reset without a lock in `execute_any_executable`, `run` and
`~AnyExecutable`; the entities of a group; the look-up of an entity by its handle. An
entity that is destroyed while its node lives is left out.

**Coroutine callbacks** *(modelled)*. `TaskPromise`, `RosCoExecutor`,
`coroutine_queue_`, `suspend_coroutine_list_`, `free_thread_pid_queue_`,
`has_ready_coroutine_vec_`. The promise is used by the dispatching thread
(`promise_executor_init`), by the Scheduler's thread and by the thread that resumes
it. Correct when a subscription is listed once, has one coroutine at a time, leaves
the list when the coroutine returns, and the coroutine returns.

**Scheduler and SleepAwaiter** *(modelled)*. A priority queue of delayed functions,
a lock, a condition variable, one detached worker. `execute`, `shutdown`, `run_loop`.
The worker waits for a copy of the top with the lock released. Correct when each
accepted sleep ends once, not early, and does end.

**Channel and its awaiters** *(modelled)*. A bounded buffer and lists of suspended
writers and readers. `write`, `read`, `close`, destruction of a suspended task. The
resumptions come after the unlock. Correct when it is a FIFO queue, nobody waits in
vain, nobody is resumed twice, and `close` tells everybody.

**Coroutine executors** *(ThreadPoolExecutor and LooperExecutor modelled; Noop,
NewThread and Async, which have one stateless operation, are constants of their users'
modules)*. Queues per worker, one lock and one condition variable. Correct when queues
are served in order and no notification is lost.

**Task, TaskPromise, TaskAwaiter** *(modelled)*. A result, a list of callbacks, a
lock and a condition variable. `then`, `catching`, `finally`, `get_result`,
`co_await`, `return_value`/`return_void`/`unhandled_exception`. Correct when every
callback runs exactly once and nobody who waits for the result waits for ever.

**Node registration** *(modelled)*. `weak_nodes_` of every executor, the flag
`associated_with_executor_` of every node, the guard conditions in the memory strategy.
`add_node`, `remove_node`, `spin_node_some`, the destructors, entities created on a
node. Users' threads change the lists while an executor fills its wait set from them;
only some of it is locked. Correct when an executor that waits, waits for what is
registered, and the flag says whether a node is listed.

**SingleThreadedExecutor, spin_some, spin_once, spin_until_future_complete**
*(partly)*. The same choice of work from other loops. `spin_some`'s limit of time is
left out.

**DistrThreadedExecutor** *(modelled)*. Nodes layered along their topics, spread over
nodelets, threads shared out in proportion. Correct when a subscriber is above its
publishers, a node is on the nodelet of its layer and on no other, every thread is handed
out and no nodelet runs without one.

**The programs: 10 experiments and 5 examples** *(modelled)*. What
the library is for: nodes on one or several executors, a chain of topics from a timer,
coroutines, GPU kernels whose awaited time is tuned from measurements. Correct when
the last message of the timer reaches the end of the chain, a SIGINT ends the program
and what was registered is undone.

**Intra-process manager and MappedRingBuffer** *(modelled)*. A ring buffer per
publisher and the target subscriptions per message. `store` is three critical
sections, `take` one; `add_*`/`remove_*` take no lock. Correct when each subscription
takes each message at most once, ownership goes to one taker, and a value returned
belongs to its sequence number.

**Context and signal handler** *(modelled)*. The state of each context, the list of
contexts, `on_shutdown` callbacks, interruptible sleeps, the handler with its
semaphore and its deferred thread. Correct when a shutdown happens once whoever asks
for it, a signal is not lost and nobody waits for ever on the shutdown.

**Graph listener, node graph, events** *(modelled)*. One thread per context in
`rcl_wait` over raw pointers to nodes, with a barrier mutex so that others can take the
nodes mutex from it. Correct when no node dangles, a change reaches the threads that
wait for it and shutdown ends.

**Node parameters; parameter client and service; client, service, futures**
*(modelled)*. A map under a mutex with ranges, overrides and all-or-nothing sets;
handlers of remote requests; pending requests matched by sequence number. Correct when
no sequence of calls breaks a range or half of a set, and every answer finds its future.

**Time source** *(modelled)*, **Time, Duration, Rate** *(partly)*. `use_sim_time`
switches attached clocks between system time and `/clock`, from two threads. The
arithmetic is checked for overflow before it is done. Correct when clocks follow the
parameter and the topic, and when no operation overflows unnoticed.

**Generator** *(modelled)*. A coroutine that yields, a flag whether its value has been
fetched, and generators derived from it that resume it from their own bodies. `has_next`,
`next`, `from`, `take`, `take_while`, `map`, `flat_map`, `for_each`, `fold`. Correct when
no value is skipped, given twice or fetched too early, in whatever order it is asked.

**Timers and clocks; node, publisher, subscription and QoS objects; topic names,
logging, exceptions, type support** *(not modelled, section 6)*.

The 40 hazards of `PROJECT.json` say where this code is hard to test, line by line.
Each names the properties that would catch it, or why none does.

## 2. Modules and how they correspond to the code

An action is one critical section, or one atomic access to state that several threads
share without a common lock. `PROJECT.json` "map" gives the lines of every definition.

`RosExecutor` - the executor and coroutine callbacks. `pc[t]` is where a thread
stands in `run()`; the lines between the acquisition and the release of `wait_mutex_`
are split where other threads can interfere (`LoopTest`, `Lock`, `GetRestCoroutine`,
`GetNextTimer`, `GetNextHandle`, `Register`, `WaitFree` / `PopFreeThread` /
`WaitForWork`, `RclWait`, `AfterWait`, `Mark`, `Destroy`), then `Execute...`,
`Release`, `Notify`, `Post`. A coroutine runs on an actor, a thread or `Sched`, the
Scheduler's worker: `Await`, `BodyThrows`, `ReturnValue`, `ReturnLock`, `ReturnVec`;
`promise_executor_init` is `InitLock` to `InitExec`; `SleepEnds` is what the
Scheduler does with an ended sleep. The middleware (`Arrive`, `TimerElapses`,
`HasData`) is external.

`Scheduler` - `execute` (`ExecuteTest`, `ExecutePush`, `NotifyOne`), `shutdown`
(`StoreInactive`, `ClearQueue`, `NotifyAll`), `run_loop` (`LoopTest`, `LockQueue`,
`WaitReturns`, `WaitForReturns`, `Run`). The priority queue is its top and the set of
its other items: which of several equally early ones `pop` brings up is open.
`SleepService` is its abstract specification.

`Channel` - one operation is one `co_await`; `todo` holds the `resume()` calls a
caller has still to make after the unlock; `Inline` are the coroutines whose executor
runs inside `resume()`. The capacity is chosen by the constructor. `Fifo` is its
abstract specification.

`ThreadPool` - `executor_init` (`Emplace`, `StartThread`), `execute`, the three
shutdowns, `run_loop` per worker. `kind` chooses the pool or the Looper, which has one
worker and clears its queue itself. `accepted` and `started` are history.

`TaskCompletion` - the end of a coroutine against `on_completed`, `get_result` and
`co_await`; `flavour` chooses the promise for values (callbacks run without the lock)
or for void (with it).

`Generator` - `pipe` is the coroutines, the first made by `from` and each other derived
from the one before. Who calls `has_next` of a suspended coroutine waits while its body
runs, so control is one number: `run`, the stage whose body runs, or the consumer. A step
goes from one `has_next` or `co_yield` to the next (`HasNext`, `Yield`, `Finish`), one
action per body. `Destroy` drops the derived generator and goes on with its source. An exception
ends a body silently, because `unhandled_exception` is empty. It shares nothing with
`TaskCompletion`; `MCTaskCompletion` explores each beside an idle instance of the other.

`IntraProcess` - a publisher's thread goes through `publish`: the decision whether
to copy between processes, the three critical sections of the store, the notification,
the copy. A taker handles a notification (`HandleIntraProcessMessage`, `TakeTarget`,
`Fetch`) or a copy (`HandleMessage`). `ring[p]` is the MappedRingBuffer: at most `Size`
elements, each held unique or shared. The middleware chooses which readers a publisher
knows and may lose a notification.

`Context` - `pc[t]` for callers, sleepers and the deferred handler thread;
`frame` is the signal handler's frame on the thread that was interrupted, which
`Signal` pushes at any step while the handler is set. A condition variable is a set of
waiters; a notification without the mutex is a step of its own.

`GraphListener` - the listener's thread (`loop`), user threads (a node's first
`get_graph_event`, `wait_for_service`, `~NodeGraph`) and main's shutdown, over the two
mutexes `node_graph_interfaces_mutex_` and its barrier.

`NodeParameters` has the operations on the map as operators: they run under one mutex,
callback and publishing included. Which of `/**` and the node's own name wins within
one parameter file is open (`Orders`): the loop goes through an unordered map.
`TimeSource` has the attached clocks and the two callbacks. What both do with lists of
parameters is in `ParameterLists`. `ParameterSystem` composes
both with the service, the client and the user's thread: parameter events are what the
one writes and the other reads. `TimeArithmetic` has the operators of Time, Duration
and Rate on two operands; widths are constants. `MCParameterSystem` explores the system
for one pair of operands and the arithmetic for all pairs.

`NodeRegistration` - one call of a user's thread is a sequence of steps (`Exchange`,
`Push`, `Trigger`, `AddGuard`, ...; `Erase`, `Store`, `RemoveGuard`); an executor is
a phase and a wait set (`Fill`, `Wake`, `Taken`, `Released`). `Begin` starts a call; who
destroys a node or an executor is its only user. `Assign` is the allocation of a
DistrThreadedExecutor as the executors see it. `stolen` remembers the nodes whose guard
condition one executor has reset while another waited for it. `Programs` has the 15
programs as data: statements of main and the bodies of callbacks. `GpuTuner` has the
four tuners, `DistrThreadedExecutor` the allocation. `ProgramRuns` composes the four:
main, the threads that spin (their number is here), the watched path of callbacks from the timer to the end,
SIGINT.

`MC*` name the constants of the instances; `*Proofs` hold the theorems, those of
`TaskCompletion` and `GraphListener`, which share no name, in `TaskAndGraphProofs`, those of
`ParameterSystem` and `TimeArithmetic` in `ParameterSystemProofs`, those of `Channel` and of
`ProgramRuns` with what it consists of in `ChannelAndProgramsProofs`. The other
modules meet at constants: `RosExecutor` uses a Scheduler that ends a sleep at any
later time (what `SleepService` allows), `Channel` and `TaskCompletion` an executor
that queues or runs inline (what `ThreadPool` and `NoopExecutor` do), `GraphListener`
and `ProgramRuns` a shutdown in the steps that `Context` has in detail.

Undefined behaviour is an explicit outcome: `"undefined"` as a state of the worker
(pop of an empty queue, read of a moved vector), of a shutdown (copy of a changing
queue), of the ending coroutine (promise destroyed) or of `get_result` (empty
optional); the flag `undefined` elsewhere (lists changed without their mutex, a
destroyed semaphore, a dangling guard condition), after which a run does not go on.

### Readings of the code that a reviewer should know

- `get_rest_coroutine` keeps a pointer to the popped front element of a deque
  (`executor.cpp:621`); it is modelled as resuming that coroutine.
- `sub_node_ptr` read before it is set (`executor.hpp:488`) matches no subscription;
  `has_ready_coroutine_vec_[-1] = false` changes nothing the executor reads.
- The loop that erases from `suspend_coroutine_list_` advances twice after an erase:
  of several occurrences it removes at least one (`EraseSuspended`). When it erases the
  last element, the second step is taken from `end()`, which the standard leaves
  undefined. The library that is built against is libstdc++: its `std::list` is a ring
  through the header node, so that step leads to the first element and the loop goes on
  from there or, with the list empty, ends.
- The order among entities of one kind, which depends on creation order, is left open.
- `RosExecutor`: a second `spin()` while an earlier one winds down, errors of rcl and
  exceptions of plain callbacks are left out. `TakeFails` is the one failure that the
  code handles.
- Channel: a task is destroyed only while its awaiter is in a list; the destructor of
  the channel is its `close()`.
- TaskCompletion: exceptions that are not caught by `catching` of the model's kind do
  not occur; AsyncExecutor blocks like an inline executor.
- IntraProcess: each message is published once; sequence numbers do not wrap.
- Context: a callback that uninstalls the handler or shuts down from the handler's
  thread, which would join itself, is left out.
- Parameters: values are bools, integers and NOT_SET; one on-set callback.
- TimeArithmetic: floating-point scales are fractions without rounding.
- GraphListener: the trigger of the node's own guard condition at the end of
  `notify_graph_change` is left out: it wakes the node's executor, which is not in the
  module and finds nothing new.
- ProgramRuns: sleeps end after their coroutine is recorded, nobody calls `cancel`
  (both are in `RosExecutor`); callbacks off the watched path only occupy threads.

## 3. Runs

Every run is exhaustive on its instance. Each property has a mutant in
`PROJECT.json`: a definition changed the way a bug would change it, which TLC shows
to violate the property under the same cfg.

| run | instance | shows |
|-----|----------|-------|
| `executor_groups` | 2 threads; a coroutine subscription and a service in a mutually exclusive group, a timer in a reentrant one; sleeps that may end before `promise_executor_init`, exceptions, cancel, shutdown, 2 spins | `GroupExclusion`, `TimerExclusion`, `AssertNotTaken`, `ListedOnce`, `ReturnedIsErased` |
| `executor_live` | 2 threads, a plain and a coroutine subscription in one group, cancel and shutdown; fair | `DataIsTaken`, `StopEndsSpin` |
| `executor_one_thread` | 1 thread, 3 messages, 3 coroutines, 2 sleeps of any length per coroutine; fair | `OneCoroutinePerSubscription`, `CoroutineReturns` |
| `scheduler_sleeps` | 3 sleeps of unequal delays, one negative, either shutdown; fair | `ImplementsSleeps`, `AcceptedRuns` |
| `channel` | 2 writes, 2 reads, capacity 0 and 1, destroyed tasks, close; fair | `ImplementsFifo`, `NobodyWaitsInVain`, `ResumedOnce`, `CloseEndsWaiting` |
| `pool` | pool of 2 and Looper, 2 functions, every shutdown; fair | `InOrder`, `NothingLeft`, `AcceptedRuns` |
| `task` | value and void, value and exception, `then`, `catching`, `finally`, a `get_result`, an awaiting coroutine; every generator of up to 3 of 3 values through up to 2 operations; fair | `RunsAtMostOnce`, `StreamsAreLazyLists`, `CompletionReachesAll` |
| `intra_process` | a ring of 1, 2 messages, 2 publishing and 2 taking threads, a sharing and an owning subscription that come and go, a remote reader, lost notifications | `AtMostOnce`, `MissedOnlyIfDisplaced`, `BufferOwnership` |
| `context` | 2 contexts, 2 inits, a caller, a sleeper, a callback, a SIGINT, installs that fail half way; fair | `CallbacksCalledOnce`, `SleptWholeTime`, `SignalShutsDown`, `WaitersLeave` |
| `graph` | 2 nodes, 2 user threads, 2 events, a change, shutdown; fair | `NoDanglingNode`, `EventsReachWaiters`, `CallsEnd` |
| `parameters` | 3 user calls, 1 remote request, 1 `/clock` message, 2 clocks, a read-only parameter, a list that sets one to NOT_SET twice, overrides from files and arguments; all pairs of 6-bit operands | `StoreKept`, `TimeFollows`, `RequestsAnswered`, `ArithmeticCorrect` |
| `programs` | the 15 programs; 3 calls of 2 threads on 2 executors; every acyclic graph of 4 nodes and 2 topics, with 3 threads on 2 nodelets and the hardware's 4 on 3; fair | `WaitSeesRegistration`, `ProgramsEnd`, `PlanIsSound`, `LastMessageArrives`, `StopsOnSignal` |

Some properties are the conjunction of named parts that belong to one claim; the
modules state each part with its comment: `CompletionReachesAll` (`CallbacksAreCalled`,
`GetReturns`, `AwaitReturns`), `StreamsAreLazyLists` (`StreamIsExact`, `StreamIsLazy`),
`BufferOwnership` (`NeverEmpty`, `OneOwner`, `TakenIsDispatched`, `LastTakerFrees`),
`WaitersLeave` (`UninstallReturns`, `ShutdownWakesSleeper`), `EventsReachWaiters`
(`NoLostWakeUp`, `EventIsSet`), `CallsEnd` (`ListenerYields`, `ShutdownEnds`,
`ShutdownEndsWait`), `StoreKept` (`ValuesInRange`, `SetIsAtomic`,
`ReadOnlyKept`, `HasParameterIsExact`), `TimeFollows` (`ClocksFollow`, `SimTimeFollows`),
`RequestsAnswered` (`AnswersFit`, `NoAnswerLost`), `ArithmeticCorrect`
(`TimeArithmeticExact`, `DurationArithmeticSafe`, `ScaleIsSafe`,
`ConversionsKeepValue`, `RateKept`), `ProgramsEnd` (`AssociatedIffListed`,
`ThrowsOnlyOnRespin`, `EndsClean`), `PlanIsSound` (`AwaitBelowKernel`,
`AllocationFollowsGraph`). The type invariants of RosExecutor, Scheduler, Channel and
ThreadPool are proved, so that no run repeats them.

**Bounds.** `MaxMsgs`, `MaxAwaits`, `MaxSpins` cap what the environment does;
`MaxTime` caps the clock except while an item is queued. Two threads are enough for
every race that two critical sections can have; three messages let a subscription be
served, listed and served again while the first coroutine is still ending; three
sleeps of 3, -1 and 1 give a top, one behind it, one that arrives late and is over sooner,
and one that is due when it is pushed; capacities 0 and 1 reach
every branch of `try_push_reader` and `try_push_writer`. Lists of three
values reach a `take` that stops before, at and after the end, and two operations every
pair of an operation and the one it resumes. A ring of one is displaced by
the second message. Two contexts let a signal reach one that asks for it and one that
does not; two inits are a re-initialisation during a shutdown. `MaxEvents` 2 is a
second event of a known node, the case the listener does not see. Three calls of the
user let a parameter be declared, set and undeclared while the time source attaches;
a node either allows undeclared names or starts with those of the overrides declared, for
in the first case a call declares them;
six-bit operands, 4-tick seconds and 3-bit message seconds have every sign and both
ends, and the theorems cover every width. `MaxTicks` 2 lets a chain be entered again
while it is in use; `MaxOps` 3 gives add, remove and spin in every order on two
executors; 3 threads on 2 nodelets with all nodes on one layer leave a nodelet without
a thread, which then takes those of the hardware; `MaxTunings` 5 lets a time be raised, overshoot and be lowered; units of 40
and 700 are a warm-up that calibrates and one that is too coarse to. Symmetry (threads,
coroutines, messages, clocks) is used only in runs without liveness. Deadlock is
checked in `context`; elsewhere every component may come to rest when the environment
stops calling, and the liveness properties say who may not rest.

**Fairness.** Weak fairness of every thread: the operating system schedules them,
callbacks, bodies and sleeps end, a call that has begun returns. In `ProgramRuns` it is
weak fairness of the system as a whole: something that can go on does, in any order. No
fairness among threads that compete for a mutex is assumed, nor that the environment
sends data, stops, signals or closes anything, nor that an unnotified wait ends.
Spurious wake-ups are possible steps, never relied upon. `Tick` of the Scheduler is
fair: the clock advances.

**Conditions in properties.** `GroupExclusion` is about groups without a timer,
because a duplicate timer breaks it. `SleepService` lets a sleep lose its turn to one that
began no later, takes longer and is due (`Overtake`), and after a shutdown, because the
code does; `AcceptedRuns` excepts the sleep that was overtaken and those that
`shutdown(false)` clears. `OneCoroutinePerSubscription` excepts a subscription one of
whose coroutines had a sleep that ended before `promise_executor_init` did (`early`):
a sleep of 0 ms, or, with two threads, a recording held up at `co_vec_mutex_` behind a
thread in `rcl_wait`. `CoroutineReturns` is for one thread, and excepts a Scheduler that
is held up at `co_vec_mutex_` by the thread that polls (`SchedulerBlocked`, after an early
sleep only); with two threads, the one
that should poll `coroutine_queue_` can wait for `wait_mutex_` behind one in
`rcl_wait`, and a recording can wait for `co_vec_mutex_` behind it (`RecordingBlocked`,
which `DataIsTaken` names; `BehindWait` in `ProgramRuns`). `CloseEndsWaiting` and
`AwaitReturns` are for executors that queue. `AtMostOnce` is about living publishers.
`SleptWholeTime` excepts a context that was initialised anew. `SetIsAtomic` excepts lists
that give a name a value after NOT_SET, and promises nothing of one that gives a declared
name NOT_SET twice, which ends the program. `EventIsSet` excepts
events lent for a known node behind the wait set (`unwatched`). `SimTimeFollows`
excepts what publishes no event, or one the time source does not match (next
section). `WaitSeesRegistration` is about nodes whose guard condition is waited for, and of
their entities only while no other executor has reset that guard condition (`stolen`),
`AssociatedIffListed` about nodes that were not removed from the wrong executor.
`StreamIsLazy` is about generators not yet destroyed, and lets a value of a source wait
while the stage that has asked for it runs.
`AllocationFollowsGraph` is about allocations that return: not of shares above the
threads. Properties say nothing of a run after `undefined` or `crashed`.

### Where the code does not keep what a comment says, or is open

The models have each of these behaviours; properties are stated around them, and the
hazards in `PROJECT.json` name the lines.

*Executor and coroutines.* `cancel()` between taking and executing leaves the group
closed for every later `spin()` (`any_executable.cpp:32` says such groups are reset).
The late store of `~AnyExecutable` reopens a group while another thread runs a callback
of it (`multi_threaded_executor.cpp:98` says it is reset before the lock is released).
A failed take leaves a subscription listed; a coroutine that throws stays listed;
`return_value` may use the id -1; a coroutine resumed from the queue runs without its
group; one that is popped when `cancel()` comes is dropped.

*Scheduler, Channel, pools, Task.* A shorter sleep pushed as the wait for a longer one
times out is popped in its place: the longer one ends twice, the shorter one never
(`scheduler.hpp:75`). `shutdown(false)` may make the worker pop an empty queue.
`close()` with an inline executor deadlocks on `channel_lock`. `shutdown_all(false)`
clears copies; `executor_init` moves queues that workers read. Awaiting a void task
with NoopExecutor, the default, deadlocks on `completion_lock` (`task_void.hpp:62`);
`get_result` does not survive a spurious wake-up; `co_await` of a task that threw ends
the process; an awaiting coroutine can destroy the promise too early.

*Intra-process.* A publisher destroyed between the two deliveries of a message lets the
callback run twice. Entries of `target_subscriptions_by_message_sequence` are never
erased. A message whose last target is removed stays until it is displaced. `add_*` and
`remove_*` change maps that `store` and `take` read, without `runtime_mutex_`.

*Context.* `interrupt_all_sleep_for` notifies without `interrupt_mutex_`, so that a
sleeper about to wait sleeps on. `sleep_for` returns the opposite of what `context.hpp`
says. `on_shutdown` takes no lock. A failed install leaves the handler set;
`sem_post` can come after `sem_destroy`.

*Graph listener.* An event lent for a known node while the wait set lacks that node
is not set by a change (`node_graph_interface.hpp:119` promises it); `wait_for_service`
polls every 100 ms. `~NodeGraph` of a node the listener had refused throws
`NodeNotFoundError`. The shutdown hook joins the listener before
`interrupt_all_wait_sets`, so that `notify_shutdown` is never reached by the loop.

*Parameters and time source.* An atomic set that is refused leaves undeclared names of
its list declared, and so does a refused `declare_parameter`. `[p := NOT_SET, p := v]`
removes p (`node.hpp:615`: the last value counts). `[p := NOT_SET, p := NOT_SET]` of a
declared p fails the assertion of `node_parameters.cpp:604`, for the first removal leaves
nothing to the second; the repository sets no build type and no `NDEBUG`, so the call ends
the program. `undeclare_parameter` publishes
nothing, and the event of `declare_parameter` carries no node name: the time source
misses both, and a change between its read of `use_sim_time` and its subscription.
`detachNode` clears `ros_time_active_` before it disables the clocks, which then keep
their override. Pending requests without an answer are never removed. The client's
`get_parameter_types` pushes onto the vector it iterates (`parameter_client.cpp:188`): an
answer that is not empty is undefined behaviour, which ends the program or not, and what is
handed on is empty. The range check subtracts without a check
for overflow.

*Time.* Two `INT64_MIN` pass the check for sums; 0 - `INT64_MIN` and
`INT64_MIN` * -1 are not checked. Seconds beyond 32 bits are cut off in messages.

*Registration and programs.* `add_node` triggers the interrupt before the guard
condition of the node is added. A node that is moved to another executor is in the wait set
of the first until that executor wakes: its notification of a new entity wakes either, and
rcl resets the guard condition in the first for both. `weak_nodes_` and the vectors of a callback group are
read without a lock. `remove_node` of a node that another executor has clears its flag
(`executor_nodelet.cpp` does so for two nodes). `spin_node_some` while another thread
spins throws and leaves the node. The second `spin()` of an ExecutorNodelet joins
threads already joined and throws (`exp0_interexe.cpp`, `exp0_co_interexe.cpp`). When
the shares of the nodelets exceed the threads, a `size_t` wraps and `alloc_exe` does
not return; a cycle of topics is layered for ever. A nodelet that is dealt no thread starts
`hardware_concurrency()` of them (`executor_nodelet.cpp:35`): of 3 threads on 2 nodelets,
with every node on layer 0, one nodelet gets 3 and the other those of the hardware. The warm-up never ends if 100000
modulo its unit is 500 or more.

*Generators.* A generator whose body or function throws ends as if it were exhausted.

## 4. Proofs

For every value of the constants (any number of threads, entities, coroutines,
functions, messages, nodes, parameters, any delays and capacities, any width of
integers), from the ASSUMEs named in the modules, which TLC evaluates in the runs:

- kinds of identities are disjoint, and the names of the model ("none", the thread of
  the listener, the Scheduler's worker) are nobody's: `ActorsAssumption`,
  `EntitiesAssumption`, `OpsAssumption`, `SetsAssumption`, `IntraAssumption`,
  `ThreadsAssumption`, `IdentitiesAssumption`, `NoneAssumption`;
- groups, delays, contexts of callbacks, publishers of messages are functions of the
  right type, bounds and capacities natural numbers, a ring has room for one element:
  `GroupsAssumption`, `BoundsAssumption`, `DelayAssumption`, `ContextAssumption`,
  `IntraAssumption`, `CapacityAssumption`;
- what a program declares, loads and requests is well formed: lists are sequences of
  parameters, an initial value is in its own range, and the overrides that result from
  the files are a finite map of names to values (`ListsAssumption`,
  `DefaultsAssumption`, `OverridesAssumption`). Nothing is assumed of the values that
  are set or requested, nor of their order;
- a generator is made of a list of integers by operations of the four kinds, whose
  functions are functions on integers (`GeneratorsAssumption`);
- seconds and nanoseconds of 32 bits fit nanoseconds of 64;
- kernels and delays take natural numbers of microseconds, and `rand() % 10` is 0 to 9
  (`TimesAssumption`);
- the 15 scripts of `Programs`, which are not constants but definitions, have the order
  that the proof about their ends starts from (`ScriptsAssumption`, section on
  `ProgramRuns` below). It names no constant, so what TLC evaluates is all of it;
- the graphs given to a DistrThreadedExecutor have no cycle of topics, with which
  `alloc_exe` never ends, and there is at least one nodelet
  (`GraphsAssumption`; for the programs a part of `ScriptsAssumption`). The number of
  threads, and that of the hardware (`HardwareAssumption`), may be 0.

The theorems about registration assume nothing.

Two theorems have a hypothesis of their own, without which they are false of the
code: `NoDataIsForgotten` and
`NoCoroutineIsLost` assume that nobody calls `cancel()`: between taking an executable and
executing it, `cancel()` makes `execute_any_executable` return early, which leaves the
group closed (multi_threaded_executor.cpp:123) and drops a coroutine taken from the queue.

| module | theorem | states |
|--------|---------|--------|
| `RosExecutorProofs` | `TypeCorrect` | `[]TypeOK` |
| | `ExclusionOfGroups` | `[]GroupExclusion` |
| | `ExclusionOfTimers` | `[]TimerExclusion` |
| | `AssertionHolds` | `[]AssertNotTaken` |
| | `SubscriptionListedOnce` | `[]ListedOnce` |
| | `ReturnedCoroutineErased` | `[]ReturnedIsErased` |
| | `OneCoroutine` | `[]OneCoroutinePerSubscription`, sleeps of any length |
| | `NoStopIsMissed` | `[]StopNotMissed` |
| | `NoDataIsForgotten` | no `cancel()`: `[](ClosedIsKept /\ NothingForgotten)` |
| | `NoCoroutineIsLost` | no `cancel()`: `[]CoroutineKept`, sleeps of any length |
| `GeneratorAndSchedulerProofs` | `StreamsStayLazyLists` | `[]StreamsAreLazyLists`, any lists and pipelines |
| | `SchedulerTypes`, `RunsNotEarly` | `[]TypeOK`, `NotEarly`, any delays |
| | `NoNotificationIsLost` | `[]NoLostNotification`, any delays |
| | `SchedulerImplementsSleeps` | refines `SleepService`, any delays |
| `ChannelAndProgramsProofs` | `ChannelTypes`, `ChannelWaits` | `[]TypeOK`, `[]NobodyWaitsInVain` |
| | `ChannelImplementsFifo` | refines `Fifo` |
| | `ChannelResumesOnce` | `[]ResumedOnce` |
| | `ChannelLosesNobody` | `[]NobodyIsLost` |
| | `RegistrationIsSeen`, `OneExecutorPerNode` | `[]WaitSeesRegistration`, `[]AssociatedIffListed`, any calls of any threads (`RegistrationSpec`) |
| | `ProgramsSeeRegistration`, `ProgramsAssociateOnce` | the same of `ProgramRuns` |
| | `ProgramsEndClean` | `[]ProgramsEnd` |
| | `PlanIsAlwaysSound` | `[]PlanIsSound`, any graph without a cycle of topics |
| | `SleepsBelowKernel` | its part `[]AwaitBelowKernel` |
| `ThreadPoolProofs` | `PoolTypes`, `PoolOrder` | `[]TypeOK`, `[]InOrder` |
| | `LooperLeavesNothing` | `[]NothingLeft` |
| | `NoNotificationIsLost` | `[]NoLostNotification` |
| `TaskAndGraphProofs` | `TaskTypes`, `FunctionsRunAtMostOnce` | `[]TypeOK`, `[]RunsAtMostOnce` |
| | `EndPassesOverNobody` | `[]NobodyIsForgotten` |
| | `NothingDangles`, `NoWakeUpIsLost` | `[]NoDanglingNode`, `[]NoLostWakeUp` of `GraphListener` |
| `IntraProcessProofs` | `DeliveredAtMostOnce` | `[]AtMostOnce` |
| | `OnlyDisplacedIsMissed` | `[]MissedOnlyIfDisplaced` |
| | `RingKeepsOwnership` | `[]BufferOwnership` |
| `ContextProofs` | `ShutdownCallsOnce` | `[]CallbacksCalledOnce` |
| | `SleepForIsWhole` | `[]SleptWholeTime` |
| | `NoSignalIsLost` | `[]NoLostSignal` |
| `ParameterSystemProofs` | `StoreKeepsPromises` | `[]StoreKept` |
| | `RequestsAreAnswered` | `[]RequestsAnswered` |
| | `TimeSourceFollows` | `[]TimeFollows` |
| | `ClocksFollowTime`, `SimTimeFollowed` | its parts `[]ClocksFollow`, `[]SimTimeFollows` |
| | `TimeArithmeticCorrect`, `DurationArithmeticCorrect`, `ScaleCorrect`, `ConversionsCorrect`, `RateIsKept` | the parts of `ArithmeticCorrect`, for any operands |
| | `ArithmeticIsCorrect` | `OperandsOK => ArithmeticCorrect` |

Eight of the theorems are about liveness without being liveness: `NoStopIsMissed`,
`NoDataIsForgotten`, `NoCoroutineIsLost`, the two `NoNotificationIsLost`,
`ChannelLosesNobody`, `EndPassesOverNobody` and `NoSignalIsLost`. Each says, for all
values of the constants, that whoever waits for an event which has happened is known to
somebody who will tell him: the place where `StopEndsSpin`, `DataIsTaken`,
`CoroutineReturns`, `AcceptedRuns` (of the Scheduler and of the pools),
`CloseEndsWaiting`, `CompletionReachesAll`, `SignalShutsDown` and `UninstallReturns` would
fail if a notification were lost. That he does tell him is fairness, and stays with TLC.

None of the safety properties is inductive; each proof finds the invariant that is, and
keeps it action by action. Actions that leave a part alone are treated together
(`Quiet`, `Aside`, `Elsewhere`, `Rests`).

**RosExecutor.** `IInv = Typed /\ Locking /\ Marking /\ Scheduling /\ Listing /\
Holding /\ Linking /\ Erasing`. `Typed` adds to `TypeOK` what a thread's AnyExecutable
and coroutine hold at each pc (`Control`, `Running`). `Locking`: a thread in the critical
section owns `wait_mutex_`. `Marking`: while a thread has taken a callback of a mutually
exclusive group without timers, the group is closed and nobody else has taken one of it.
`Scheduling`: a timer that is being executed is in `scheduled_timers_`, for one thread.
`Listing`: a subscription that is being chosen is not on the list. For
`ReturnedIsErased`, `Holding` says that one thread only has dispatched a coroutine,
`Linking` that what it and `return_value` have stored in the promise stays, and `Erasing`
that the later of the two, which finds what the other has stored, has erased the
subscription. `LInv` adds what `OneCoroutine` needs. A coroutine keeps the subscription it
was made for (`Naming`). Unless a sleep of it ended early, it is in one place (`Passing`)
and recorded before it is resumed (`Recording`). As long as no coroutine of a subscription
had such a sleep, its entry in the suspend list is its own (`Claiming`): an early sleep lets
the second erasure of a coroutine hit the entry of the next. `Waking` is for `StopNotMissed`: the thread that reads
`spinning` and `ok` under `wait_mutex_` before it looks for work, and not again, reaches
`rcl_wait` past a stop only if the stop has not triggered the guard condition yet, or has
and nobody has consumed it, since only `rcl_wait` does and one thread at a time is there;
after it, `get_next_executable` does not wait a second time. `WInv` is for the other two:
without `cancel()`, `spinning` holds whatever a thread runs (`Spun`), so who keeps a group
closed goes on until it opens it, who has opened it until it has triggered the guard
condition (`Steady`), and what was left out of a wait set had its group kept when the wait
set was filled (`ClosedIsKept`). A coroutine goes from its runner to the Scheduler, the
queue and a runner again without a gap (`CarriedOn`).

**Generator.** `GenInv` is about a stage and the one before it. `Link`: what a stage has
given, followed by what its inner generator has left, is `Meant`, what its operation makes
of what the stage before has handed over; a stage is done only if its operation takes no
more (`Closed`) or its source is done; and `take` has counted what it was handed, and one
more while it waits. `Control` says that between `run` and the consumer every stage waits
without a value, and that a value waits nowhere but before the stage that has asked for
it: this is what a second resume without a fetch would break. `Left` keeps what destroyed
generators have given. A step changes the stage that runs and at most fetches from the one
before (`Touches`), so two links are to be shown and the others stay (`SuspendedKeeps`,
`StaysKeeps`). From the links to the streams it is one lemma about `Meant`: it grows at the
end with its list, and not at all once closed (`MeantExtends`); so, stage by stage, each
has given a prefix of its stream (`LazyIsExact`). `Meant` is a recursive
function, unfolded by `Iterates` and `UpTo`.

**Scheduler.** `IInv`: `Heap` (the top is among the earliest), `Called` (what is
queued or copied was pushed, so its time no longer changes) and `Due` (the worker
waits until its copy is due). It gives `NotEarly`. For the refinement, `SleepInv` adds
that the copy stays queued while the worker waits for it, and that only a sleep that
began no earlier and is over sooner can get before it (`Awaited`), which rests on nothing
queued having begun later than now (`Horizon`); so what is popped after the wait is the
copy or one it may overtake. `Shutdown`, `Locked` and `Fresh` account for a cleared
queue, the holder of the lock and items not pushed yet. `TakeTopSleeps` and
`WaitForTakes` are the steps on the queue, `SleepStep` all of them. `NoLostNotification`, for any delays: a worker that waits although an item
is queued, or for longer than until the top is due, is notified or about to be. `execute`
notifies only for a new top, so its proof needs that who pushes without a notification
found an earlier item at the top, which the lock keeps there (`Urgent`).

**Channel.** `IInv = TypeOK /\ NobodyWaitsInVain /\ Fresh`, `Fresh` saying that the value
of a write that has not been made is nowhere. Under the mapping `pending = buffer \o
writer_list` every step is a step of `Fifo` or a stutter: a refill moves a value
across the boundary of the two and changes nothing. `Resuming`: who is in a list or due
to be resumed is suspended, nobody is both, and nobody is either twice. `NobodyIsLost` is
the other direction: who is suspended is in a list or due to be resumed (`Accounted`), and
after `clean_up` the lists are empty. `Closed` says that `close()` lowers the flag first,
so nobody enters a list later; `Unbegun`, that no caller is given resumes over others that
it has still to make.

**NodeRegistration.** `RegistrationSpec` lets any number of threads make any calls on any
number of executors and nodes, with callbacks taken and released at any time; the steps
of every program are steps of it (`ProgramsRegister`), so what holds of it holds of them.
`RegistrationInv = Shapes /\ Told /\ OneClaim`. `Told`: what a wait does not yet see, of a
node added, a node removed or an entity created, is either about to be told by the call
that did it, which is at its trigger or before its `remove_node` ends, or has been told:
the guard condition is triggered. A step keeps it if it keeps what it may tell (`Tells`),
which is shown action by action. `OneClaim`: a node whose flag is set is listed by one
executor or moved by one call, between the exchange of the flag and the push or between
the erase and the store, and never both.

**ProgramRuns.** `ScriptsAssumption` says of the scripts that a node is given to one
executor, once (by `add_node` or `alloc_exe`), and removed afterwards, by all but
`executor_nodelet` from that executor; that a thread is joined before its executor is spun
again, and all before main ends; and that only `exp0_interexe` and `exp0_co_interexe` spin
an executor of several threads twice. `EndInv` carries this through the interleavings:
`Calling` ties main's call to its position in the script, and every other thread to a
`spawn` that is not yet joined; `Flagging` and `Placing` tie each flag and each entry of
`weak_nodes_` to the call that gave the node, and exclude the nodes removed so far;
`Spinning` says that who spins an executor is one thread; `Returning`, that
an executor has been spun only by calls behind main. So the exceptions of `add_node` and
of `spin()` are never raised, joining throws only in the two programs, and at the end
`OneClaim` turns "no flag is set" into "no executor lists a node".

**GpuTuner.** `TunerInv`: while the tuner records, its sums are at most as many kernels as
there were rounds; afterwards the time and the base latency are below some kernel, and the
best time, if it was ever set, is at least 20 us below one, because a round steers only
when it had as much left to wait for. So adding `rand() % 10` to it stays below, as does a
step up: of exp1 and exp6 below the kernel just measured, of exp2 below the base.

**DistrThreadedExecutor.** `alloc_exe` raises layers until a turn changes nothing. `Sound`
holds at any moment, so it says that no layer is too high: a node keeps its first layer
or is reached from layer 0 in as many steps as its layer says. `LaidOut` says that none is
too low: each turn lays out one more step. Without a cycle no node is reached in as many
steps as there are nodes (`ReachEnds`), so after that many turns all is laid out and no
turn changes anything (`LaidOutRests`): the loop ends, and what it arrives at is the depth
of each node (`LayersAreDepths`). The rest of the threads is divided with a remainder
(`RoundOf`), and what the nodelets get is summed one after the other
(`AllThreadsDealt`); that the shares alone do not exceed the threads is the guard of
`Allocate`, since otherwise the code does not go on. The model's recursive functions are
unfolded by `Iterates` and `UpTo`: what a step makes of a set, and a least number at which
a claim would fail. `PlanInv` carries the plan through the run: `Planning` and `Planned`
say what was computed, `Before` that nothing is registered until main goes on from
`alloc_exe`, and `Housed` that then the nodelet computed from a node's layer, and no other
executor, lists the node.

**ThreadPool.** `IInv = TypeOK /\ Frame /\ Order /\ Left`. `Frame`: workers start in order,
who pushes holds the lock, shutdown lowers the flag first. `Order` and `Left` say why
order and emptiness survive the Looper's clearing: no push can follow it (`Quiet`).
`NoLostNotification` needs no more: all workers share one condition variable, and a worker
tests its queue under the lock before it waits.

**TaskCompletion.** `IInv = TypeOK /\ Resulting /\ Listing /\ Counting`. `Resulting`: there
is no result before the coroutine ends, and who calls its function itself has seen one.
`Listing` ties the list of callbacks to where each registration stands: in the list once,
from its registration to its call. `Counting`: the number of runs of a function follows
from where its registration stands. `NobodyIsForgotten` is what the end of a task owes:
no registration is left in the list when `notify_callbacks` is through, no reader waits
for a result that is there (`Blocking`), and a callback that is through has run exactly
when the result is one it is for (`Running`).

**GraphListener.** `GraphInv = Owning /\ Iterating /\ Belonging /\ Failing /\ Waiting`.
`Owning`: `shutdown_mutex_` has one owner, and from the flag to the join it is the
thread that shuts down; so a flag that is seen with the mutex free means that the thread
has exited. `Iterating`: the listener holds the nodes mutex while the wait set or the
iteration has a node, so the list changes only when neither has. `Belonging`: a node is
to be added, being added by one user, listed, or refused, and who destroys a node is its
only user. `Waiting`: a user that waits although its event is set has been notified, or the
listener stands at its node, about to notify it.

**IntraProcess.** The invariant is about a number `q` of a publisher. `Numbering` and
`Ringing`: at most one message and one element of the ring have it. `Locking`: one taker
fetches at a time, because `take_mutex_` is held from the choice of the target to the
fetch. `Fetched` and `Having`: a subscription that fetches has taken its name off the
targets of `q`, which never grow once the message can be fetched. `Owning`: what is
in the ring as a unique pointer was given to nobody. `Keeping` and `Freeing`: what
somebody has still to fetch is in the ring or was displaced, and what everybody has
fetched is not there.

**Context.** `Holding`: a shutdown that calls the callbacks owns the mutex of a context
that it has made invalid. `Calling` counts the calls of a callback against the iterator of
that loop. `Slumber` remembers what a sleeper saw of its context. `Installing`: the
handler thread runs only between install and uninstall, whose mutex is held by one
thread, so that a second one never takes its place. For `NoLostSignal`, `Hitting` says
where the contexts are that a SIGINT has to shut down: they are valid and listed, and the
deferred handler has still to come to each (it has yet to take the list, has it in hand, or
the flag is raised). `Standing`: the handler thread runs while the handler is installed, and
then there is a semaphore. `Posting`: a signal that it has not seen is posted or about to
be, and who joins the thread has posted. It is `uninstall` that makes this delicate: it
stops the thread with the same semaphore that a signal posts.

**ParameterSystem.** What a call does to the map is proved of the operators, for every
sound map and every list: `Storing` only adds that the map stays sound. For the requests:
each is in one place between the sending and the future (`OnePlace`), its promise is
known until the future is set, except while the caller that is to store it holds the mutex
(`Promises`), and without a future it or its answer is on the way (`Underway`);
`ServesOne` counts the results of the one-by-one loop against the rest of its list. For
the clocks `ClockInv`: no callback runs while `attachNode` changes them (`Excluding`),
and whoever is about to change them agrees with `ros_time_active_` (`Switching`). For `use_sim_time`
`SimInv`, whose part `Agreeing` says where its value is: the last event in the queue that
tells one tells it; without such an event `on_parameter_event` has it in hand; and
otherwise `ros_time_active_` is as it says. Every step of the store is `Quiet` (the value
stays, or no event tells the change) or `Loud` (the last event that is published tells the
new value); `Subscribing` keeps the clock subscription a step behind `ros_time_active_`.
What an event tells is a fact about its lists (`LastUnique`, `LastOfBoth`, `ListWithNames`),
for lists of every length, by the least index at which it would fail (`UpTo`).

**TimeArithmetic.** Case analysis over the signs of the operands; `ScaleCorrect` rests on
`AboveQuotient` (being above a quotient that is rounded down is being above the
quotient) and `QuotBounded`, `ConversionsCorrect` on lemmas about the remainder.

**Only model-checked:**

- every liveness property: fairness and ENABLED are out of the prover's reach;
- `TypeOK` of `IntraProcess`, `Context`, `ParameterSystem` and `GraphListener`: their
  invariants prove the types their own steps need, and no more.

## 5. Plan

What is left, in order:

1. An entity destroyed while its node lives and an executor chooses; the time limit of
   `spin_some`.

## 6. Not modelled

- **Timers and clocks** as objects: the constructors, `is_ready`, `time_until_trigger`
  and the jump callbacks hand on to rcl, whose source is not here. A timer's readiness
  and call are in `RosExecutor`, the clocks that a time source drives in `TimeSource`.
- **Node, publisher, subscription and QoS objects**: construction of rcl handles and
  forwarding. What they change in executors, groups, the intra-process manager and
  parameters is in those modules.
- **Topic names, logging, exceptions, type support, options**: text processing and
  adapters without state of their own.
- **Parts of modelled components**: a Generator whose source is destroyed or moved
  before what is derived from it, whose body keeps `this`; errors returned by rcl where
  the code only rethrows them; floating-point values, ranges and comparisons; jump
  callbacks; CUDA kernels, whose duration is one of `KernelTimes`; the middleware,
  which is the choices of the environment.
