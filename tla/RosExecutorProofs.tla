-------------------------- MODULE RosExecutorProofs --------------------------
(***************************************************************************)
(* Proofs about RosExecutor, for any number of threads, groups, entities   *)
(* and coroutines and for any bounds.                                      *)
(*                                                                         *)
(* The properties are not inductive.  Control ties a thread's pc to what   *)
(* its AnyExecutable holds; Locking says that a thread in the critical     *)
(* section owns wait_mutex_; Marking and Scheduling relate the pc to       *)
(* can_be_taken_from and to scheduled_timers_; Holding, Linking and        *)
(* Erasing follow a coroutine through promise_executor_init and            *)
(* return_value.  Of a coroutine whose sleeps all ended after              *)
(* promise_executor_init, Passing says that it is in one place, Recording  *)
(* that it is recorded before it is resumed, and Claiming, of a            *)
(* subscription with such coroutines only, that the entry in the suspend   *)
(* list belongs to one of them.  Naming keeps the others off that entry.   *)
(*                                                                         *)
(* Who waits for whom: Waking follows a thread on its way to rcl_wait past *)
(* a stop.  Without cancel(), Spun says that spinning holds whatever a     *)
(* thread runs, and Steady what a step leaves to the threads that others   *)
(* wait for.                                                               *)
(***************************************************************************)
EXTENDS RosExecutor, SequenceTheorems, TLAPS

\* The updates of a promise that the actions make keep its type.
LEMMA PromiseUpdates ==
  ASSUME NEW f \in [Coros -> Promise], NEW c
  PROVE  /\ \A x \in CoroStates : [f EXCEPT ![c].st = x] \in [Coros -> Promise]
         /\ \A x \in CoroStates :
              [f EXCEPT ![c].st = x, ![c].awaits = @ + 1] \in [Coros -> Promise]
         /\ \A x \in CoroStates :
              [f EXCEPT ![c].lock = None, ![c].st = x] \in [Coros -> Promise]
         /\ [f EXCEPT ![c].returned = TRUE] \in [Coros -> Promise]
         /\ \A a \in Actors : [f EXCEPT ![c].lock = a] \in [Coros -> Promise]
         /\ [f EXCEPT ![c].exe = TRUE] \in [Coros -> Promise]
         /\ \A a \in Actors : [f EXCEPT ![c].exe = TRUE, ![c].lock = a] \in [Coros -> Promise]
         /\ \A n \in Int : [f EXCEPT ![c].id = n, ![c].lock = None] \in [Coros -> Promise]
         /\ \A s \in CoSubs : [f EXCEPT ![c].sub_ptr = s] \in [Coros -> Promise]
         /\ [f EXCEPT ![c].re_execute = TRUE] \in [Coros -> Promise]
         /\ \A x \in CoroStates :
              [f EXCEPT ![c].st = x, ![c].early = TRUE] \in [Coros -> Promise]
<1>1. ASSUME NEW x \in CoroStates
      PROVE  [f EXCEPT ![c].st = x] \in [Coros -> Promise]
  BY ZenonT(60) DEF Promise
<1>2. ASSUME NEW x \in CoroStates
      PROVE  [f EXCEPT ![c].st = x, ![c].awaits = @ + 1] \in [Coros -> Promise]
  <2>1. CASE c \in Coros
    <3>1. f[c] \in Promise
      BY <2>1
    <3>2. f[c].awaits + 1 \in Nat
      BY <3>1 DEF Promise
    <3> QED
      BY <2>1, <3>1, <3>2 DEF Promise
  <2>2. CASE c \notin Coros
    BY <2>2
  <2> QED
    BY <2>1, <2>2
<1>3. ASSUME NEW x \in CoroStates
      PROVE  [f EXCEPT ![c].lock = None, ![c].st = x] \in [Coros -> Promise]
  BY ZenonT(60) DEF Promise
<1>4. [f EXCEPT ![c].returned = TRUE] \in [Coros -> Promise]
  BY ZenonT(60) DEF Promise
<1>5. ASSUME NEW a \in Actors
      PROVE  /\ [f EXCEPT ![c].lock = a] \in [Coros -> Promise]
             /\ [f EXCEPT ![c].exe = TRUE, ![c].lock = a] \in [Coros -> Promise]
  BY ZenonT(60) DEF Promise
<1>6. [f EXCEPT ![c].exe = TRUE] \in [Coros -> Promise]
  BY ZenonT(60) DEF Promise
<1>7. ASSUME NEW n \in Int
      PROVE  [f EXCEPT ![c].id = n, ![c].lock = None] \in [Coros -> Promise]
  BY ZenonT(60) DEF Promise
<1>8. ASSUME NEW s \in CoSubs
      PROVE  [f EXCEPT ![c].sub_ptr = s] \in [Coros -> Promise]
  BY ZenonT(60) DEF Promise
<1>9. [f EXCEPT ![c].re_execute = TRUE] \in [Coros -> Promise]
  BY ZenonT(60) DEF Promise
<1>10. ASSUME NEW x \in CoroStates
       PROVE  [f EXCEPT ![c].st = x, ![c].early = TRUE] \in [Coros -> Promise]
  BY ZenonT(60) DEF Promise
<1> QED
  BY <1>1, <1>2, <1>3, <1>4, <1>5, <1>6, <1>7, <1>8, <1>9, <1>10

USE ActorsAssumption, EntitiesAssumption, GroupsAssumption, BoundsAssumption
    DEF Actors, Entities, Handled

\* Before an executable is found the AnyExecutable is empty.
EmptyPcs == {"idle", "loop", "lock", "stopped", "rest", "timer", "handle",
             "wait", "rcl_wait", "waited"}

\* From the marking of the group to its release.
HoldPcs == {"exec"} \cup ExecPcs

\* From the insertion in scheduled_timers_ to the erasure.
ScheduledPcs == {"exec", "notify", "post"} \cup ExecPcs

Control ==
  \A t \in Threads :
    /\ pc[t] \in EmptyPcs => any_exec[t] = None
    /\ pc[t] \in {"register"} \cup InitPcs => any_exec[t] \in CoSubs
    /\ pc[t] \in {"body"} \cup ReturnPcs => any_exec[t] \in CoSubs \cup {None}
    /\ pc[t] = "dup" => any_exec[t] \in Timers

\* Who runs a coroutine, or is about to call through coroutine_ptr, has one.
Running ==
  /\ \A a \in Actors : pc[a] \in {"body"} \cup ReturnPcs \cup InitPcs => cur[a] \in Coros
  /\ \A t \in Threads :
       pc[t] \in {"got", "exec"} /\ any_exec[t] = None => cur[t] \in Coros

Locking == \A t \in Threads : pc[t] \in WaitPcs => wait_mutex = t

\* Thread t keeps group g closed.
Keeps(t, g) == pc[t] \in HoldPcs /\ any_exec[t] # None /\ GroupOf[any_exec[t]] = g

Guarded(g) == g \in MutuallyExclusive /\ Timerless(g)

Marking ==
  /\ \A g \in Groups \ MutuallyExclusive : taken_from[g]
  /\ \A t \in Threads :
       pc[t] \in {"register", "got"} /\ any_exec[t] # None
         => taken_from[GroupOf[any_exec[t]]]
  /\ \A g \in Groups, t \in Threads : Guarded(g) /\ Keeps(t, g) => ~taken_from[g]
  /\ \A g \in Groups, t, u \in Threads :
       Guarded(g) /\ Keeps(t, g) /\ Keeps(u, g) => t = u

Scheduling ==
  /\ \A t \in Threads :
       pc[t] \in ScheduledPcs /\ any_exec[t] \in Timers => any_exec[t] \in scheduled_timers
  /\ \A t, u \in Threads :
       /\ pc[t] \in ScheduledPcs /\ pc[u] \in ScheduledPcs
       /\ any_exec[t] \in Timers /\ any_exec[t] = any_exec[u]
       => t = u

Listing ==
  /\ \A s \in CoSubs : suspended[s] <= 1
  /\ \A t \in Threads : pc[t] = "register" => suspended[any_exec[t]] = 0

------------------------------------------------------------------------------
(* Types.                                                                   *)

LEMMA NewPromiseTyped ==
  ASSUME NEW s \in CoSubs \cup {None}
  PROVE  NewPromise(s) \in Promise
  BY DEF NewPromise, Promise, CoroStates

LEMMA UnbornTyped == Unborn \in Promise
  BY NewPromiseTyped DEF Unborn, NewPromise, Promise, CoroStates

LEMMA InitTyped == Init => TypeOK /\ Control /\ Running
<1> SUFFICES ASSUME Init PROVE TypeOK /\ Control /\ Running
  OBVIOUS
<1>1. ExecutorTypes
  BY DEF Init, ExecutorTypes
<1>2. ThreadTypes
  BY DEF Init, ThreadTypes, Pcs
<1>3. CoroutineTypes
  <2>1. coro \in [Coros -> Promise]
    BY UnbornTyped DEF Init
  <2> QED
    BY <2>1 DEF Init, CoroutineTypes
<1>4. Control
  BY DEF Init, Control, EmptyPcs, ReturnPcs, InitPcs
<1>5. Running
  BY DEF Init, Running, ReturnPcs, InitPcs
<1> QED
  BY <1>1, <1>2, <1>3, <1>4, <1>5 DEF TypeOK

\* Every step keeps the types of the executor's own variables.
LEMMA ExecutorTyped ==
  ASSUME TypeOK, Control, [Next]_vars
  PROVE  ExecutorTypes'
<1> USE DEF TypeOK, ExecutorTypes, execVars, lockVars, grpVars, thrVars, envVars, coVars
<1>1. CASE UserStep
  <2>1. CASE Spin
    BY <2>1 DEF Spin
  <2>2. CASE SpinReturns
    BY <2>2 DEF SpinReturns
  <2>3. CASE Cancel \/ Shutdown \/ StopTriggers
    BY <2>3 DEF Cancel, Shutdown, StopTriggers
  <2> QED
    BY <1>1, <2>1, <2>2, <2>3 DEF UserStep
<1>2. CASE Environment
  BY <1>2 DEF Environment, Arrive, TimerElapses
<1>3. CASE SchedStep
  BY <1>3 DEF SchedStep, CoroutineStep, Await, BodyThrows, ReturnValue, ReturnLock,
              ReturnVec, SleepEnds
<1>4. ASSUME NEW t \in Threads, ThreadStep(t)
      PROVE  ExecutorTypes'
  <2>1. CASE LoopTest(t) \/ Lock(t) \/ GetRestCoroutine(t) \/ GetNextTimer(t)
    BY <2>1 DEF LoopTest, Lock, GetRestCoroutine, GetNextTimer, Found
  <2>2. CASE GetNextHandle(t) \/ Register(t)
    BY <2>2 DEF GetNextHandle, Register, Found
  <2>3. CASE WaitFree(t) \/ PopFreeThread(t) \/ WaitForWork(t) \/ RclWait(t) \/ AfterWait(t)
    BY <2>3 DEF WaitFree, PopFreeThread, WaitForWork, RclWait, AfterWait, Collected
  <2>4. CASE Mark(t)
    BY <2>4 DEF Mark
  <2>5. CASE Destroy(t)
    BY <2>5 DEF Destroy
  <2>6. CASE \/ ExecuteCancelled(t) \/ ExecuteCoroutine(t) \/ ExecuteTimer(t)
             \/ TakeFails(t) \/ MessageIgnored(t) \/ ExecuteCallback(t)
             \/ ExecuteCoSubscription(t)
    BY <2>6 DEF ExecuteCancelled, ExecuteCoroutine, ExecuteTimer, TakeFails,
                MessageIgnored, ExecuteCallback, ExecuteCoSubscription
  <2>7. CASE CallbackReturns(t) \/ Release(t) \/ Notify(t) \/ Post(t)
    BY <2>7 DEF CallbackReturns, Release, Notify, Post
  <2>8. CASE InitLock(t) \/ InitVec(t) \/ InitSub(t) \/ InitCheck(t) \/ InitExec(t)
    BY <2>8 DEF InitLock, InitVec, InitSub, InitCheck, InitExec
  <2>9. CASE CoroutineStep(t)
    BY <2>9 DEF CoroutineStep, Await, BodyThrows, ReturnValue, ReturnLock, ReturnVec
  <2> QED
    BY <1>4, <2>1, <2>2, <2>3, <2>4, <2>5, <2>6, <2>7, <2>8, <2>9 DEF ThreadStep
<1>5. CASE UNCHANGED vars
  BY <1>5 DEF vars
<1> QED
  BY <1>1, <1>2, <1>3, <1>4, <1>5 DEF Next

\* Every step keeps the types of the threads' variables.
LEMMA ThreadTyped ==
  ASSUME TypeOK, Control, [Next]_vars
  PROVE  ThreadTypes'
<1> USE DEF TypeOK, ThreadTypes, Goto, Pcs, execVars, lockVars, grpVars, thrVars, envVars, coVars
<1> USE DEF WaitPcs, ExecPcs, ReturnPcs, InitPcs
<1>0. ASSUME NEW a \in Actors, Leave(a)
      PROVE  pc' \in [Actors -> Pcs] /\ cur' \in [Actors -> Coros \cup {None}]
  BY <1>0 DEF Leave, AfterSegment
<1>1. ASSUME NEW a \in Actors, CoroutineStep(a)
      PROVE  ThreadTypes'
  <2>1. CASE Await(a) \/ BodyThrows(a)
    BY <2>1, <1>0 DEF Await, BodyThrows
  <2>2. CASE ReturnValue(a)
    BY <2>2 DEF ReturnValue
  <2>3. CASE ReturnLock(a)
    BY <2>3, <1>0 DEF ReturnLock
  <2>4. CASE ReturnVec(a)
    BY <2>4, <1>0 DEF ReturnVec
  <2> QED
    BY <1>1, <2>1, <2>2, <2>3, <2>4 DEF CoroutineStep
<1>2. CASE UserStep
  <2>1. CASE Spin
    BY <2>1 DEF Spin
  <2>2. CASE SpinReturns
    BY <2>2 DEF SpinReturns
  <2>3. CASE Cancel \/ Shutdown \/ StopTriggers
    BY <2>3 DEF Cancel, Shutdown, StopTriggers
  <2> QED
    BY <1>2, <2>1, <2>2, <2>3 DEF UserStep
<1>3. CASE Environment
  BY <1>3 DEF Environment, Arrive, TimerElapses
<1>4. ASSUME NEW c \in Coros, SleepEnds(c)
      PROVE  ThreadTypes'
  BY <1>4 DEF SleepEnds
<1>5. ASSUME NEW t \in Threads, ThreadStep(t)
      PROVE  ThreadTypes'
  <2>1. CASE LoopTest(t) \/ Lock(t)
    BY <2>1 DEF LoopTest, Lock
  <2>2. CASE GetRestCoroutine(t)
    <3>1. CASE coroutine_queue # <<>>
      <4>1. Head(coroutine_queue) \in Coros
        BY <3>1 DEF CoroutineTypes
      <4>2. pc' \in [Actors -> Pcs] /\ cur' \in [Actors -> Coros \cup {None}]
        BY <2>2, <3>1, <4>1, SMTT(30) DEF GetRestCoroutine
      <4>3. retry' \in [Threads -> BOOLEAN] /\ any_exec' = any_exec
        BY <2>2, <3>1 DEF GetRestCoroutine, Found
      <4> QED
        BY <4>2, <4>3
    <3>2. CASE coroutine_queue = <<>>
      BY <2>2, <3>2 DEF GetRestCoroutine
    <3> QED
      BY <3>1, <3>2
  <2>3. CASE GetNextTimer(t)
    <3>1. pc' \in [Actors -> Pcs] /\ cur' = cur
      BY <2>3 DEF GetNextTimer
    <3>2. any_exec' \in [Actors -> Entities \cup {None}]
      BY <2>3 DEF GetNextTimer, TakeableTimers, ExecutorTypes
    <3>3. retry' \in [Threads -> BOOLEAN]
      BY <2>3 DEF GetNextTimer, Found
    <3> QED
      BY <3>1, <3>2, <3>3
  <2>4. CASE GetNextHandle(t)
    <3>1. pc' \in [Actors -> Pcs] /\ cur' = cur
      BY <2>4 DEF GetNextHandle
    <3>2. any_exec' \in [Actors -> Entities \cup {None}]
      BY <2>4 DEF GetNextHandle, NextHandles, TakeableHandles
    <3>3. retry' \in [Threads -> BOOLEAN]
      BY <2>4 DEF GetNextHandle, Found
    <3> QED
      BY <3>1, <3>2, <3>3
  <2>5. CASE Register(t)
    BY <2>5 DEF Register, Found
  <2>6. CASE WaitFree(t) \/ PopFreeThread(t) \/ WaitForWork(t) \/ RclWait(t) \/ AfterWait(t)
    BY <2>6, ZenonT(60) DEF WaitFree, PopFreeThread, WaitForWork, RclWait, AfterWait
  <2>7. CASE Mark(t) \/ Destroy(t)
    BY <2>7 DEF Mark, Destroy
  <2>8. CASE \/ ExecuteCancelled(t) \/ ExecuteCoroutine(t) \/ ExecuteTimer(t)
             \/ TakeFails(t) \/ MessageIgnored(t) \/ ExecuteCallback(t)
    BY <2>8 DEF ExecuteCancelled, ExecuteCoroutine, ExecuteTimer, TakeFails,
                MessageIgnored, ExecuteCallback
  <2>9. CASE ExecuteCoSubscription(t)
    BY <2>9 DEF ExecuteCoSubscription
  <2>10. CASE CallbackReturns(t) \/ Release(t) \/ Notify(t) \/ Post(t)
    BY <2>10 DEF CallbackReturns, Release, Notify, Post
  <2>11. CASE InitLock(t) \/ InitVec(t) \/ InitSub(t) \/ InitCheck(t) \/ InitExec(t)
    BY <2>11, ZenonT(60) DEF InitLock, InitVec, InitSub, InitCheck, InitExec
  <2>12. CASE CoroutineStep(t)
    BY <2>12, <1>1
  <2> QED
    BY <1>5, <2>1, <2>2, <2>3, <2>4, <2>5, <2>6, <2>7, <2>8, <2>9, <2>10, <2>11, <2>12
       DEF ThreadStep
<1>6. CASE UNCHANGED vars
  BY <1>6 DEF vars
<1> QED
  BY <1>1, <1>2, <1>3, <1>4, <1>5, <1>6 DEF Next, SchedStep

\* Every step keeps what Control says of the AnyExecutable of each thread.
LEMMA ControlKept ==
  ASSUME TypeOK, Control, [Next]_vars
  PROVE  Control'
<1> USE DEF TypeOK, ThreadTypes, Control, Goto, execVars, lockVars, grpVars, thrVars,
            envVars, coVars
<1> USE DEF EmptyPcs, ReturnPcs, InitPcs
<1>0. ASSUME NEW a \in Actors, Leave(a), pc[a] \in {"body"} \cup ReturnPcs,
             any_exec' = any_exec
      PROVE  Control'
  BY <1>0 DEF Leave, AfterSegment
<1>1. ASSUME NEW a \in Actors, CoroutineStep(a)
      PROVE  Control'
  <2>1. CASE Await(a) \/ BodyThrows(a)
    BY <2>1, <1>0 DEF Await, BodyThrows
  <2>2. CASE ReturnValue(a)
    BY <2>2 DEF ReturnValue
  <2>3. CASE ReturnLock(a)
    BY <2>3, <1>0 DEF ReturnLock
  <2>4. CASE ReturnVec(a)
    BY <2>4, <1>0 DEF ReturnVec
  <2> QED
    BY <1>1, <2>1, <2>2, <2>3, <2>4 DEF CoroutineStep
<1>2. CASE UserStep
  <2>1. CASE Spin
    BY <2>1 DEF Spin
  <2>2. CASE SpinReturns
    BY <2>2 DEF SpinReturns
  <2>3. CASE Cancel \/ Shutdown \/ StopTriggers
    BY <2>3 DEF Cancel, Shutdown, StopTriggers
  <2> QED
    BY <1>2, <2>1, <2>2, <2>3 DEF UserStep
<1>3. CASE Environment
  BY <1>3 DEF Environment, Arrive, TimerElapses
<1>4. ASSUME NEW c \in Coros, SleepEnds(c)
      PROVE  Control'
  BY <1>4 DEF SleepEnds
<1>5. ASSUME NEW t \in Threads, ThreadStep(t)
      PROVE  Control'
  <2>1. CASE LoopTest(t) \/ Lock(t)
    BY <2>1 DEF LoopTest, Lock
  <2>2. CASE GetRestCoroutine(t)
    BY <2>2 DEF GetRestCoroutine
  <2>3. CASE GetNextTimer(t)
    BY <2>3 DEF GetNextTimer
  <2>4. CASE GetNextHandle(t)
    BY <2>4 DEF GetNextHandle
  <2>5. CASE Register(t)
    BY <2>5 DEF Register
  <2>6. CASE WaitFree(t) \/ PopFreeThread(t) \/ WaitForWork(t) \/ RclWait(t) \/ AfterWait(t)
    BY <2>6 DEF WaitFree, PopFreeThread, WaitForWork, RclWait, AfterWait
  <2>7. CASE Mark(t)
    BY <2>7 DEF Mark, ExecutorTypes
  <2>8. CASE Destroy(t)
    BY <2>8 DEF Destroy
  <2>9. CASE \/ ExecuteCancelled(t) \/ ExecuteCoroutine(t) \/ ExecuteTimer(t)
             \/ TakeFails(t) \/ MessageIgnored(t) \/ ExecuteCallback(t)
             \/ ExecuteCoSubscription(t)
    BY <2>9 DEF ExecuteCancelled, ExecuteCoroutine, ExecuteTimer, TakeFails,
                MessageIgnored, ExecuteCallback, ExecuteCoSubscription
  <2>10. CASE CallbackReturns(t) \/ Release(t) \/ Notify(t) \/ Post(t)
    BY <2>10 DEF CallbackReturns, Release, Notify, Post
  <2>11. CASE InitLock(t) \/ InitVec(t)
    <3>1. CASE InitLock(t)
      BY <3>1 DEF InitLock
    <3>2. CASE InitVec(t)
      BY <3>2 DEF InitVec
    <3> QED
      BY <2>11, <3>1, <3>2
  <2>12. CASE InitSub(t) \/ InitCheck(t) \/ InitExec(t)
    <3>1. CASE InitSub(t)
      BY <3>1 DEF InitSub
    <3>2. CASE InitCheck(t)
      BY <3>2 DEF InitCheck
    <3>3. CASE InitExec(t)
      BY <3>3 DEF InitExec
    <3> QED
      BY <2>12, <3>1, <3>2, <3>3
  <2>13. CASE CoroutineStep(t)
    BY <2>13, <1>1
  <2> QED
    BY <1>5, <2>1, <2>2, <2>3, <2>4, <2>5, <2>6, <2>7, <2>8, <2>9, <2>10, <2>11, <2>12, <2>13
       DEF ThreadStep
<1>6. CASE UNCHANGED vars
  BY <1>6 DEF vars
<1> QED
  BY <1>1, <1>2, <1>3, <1>4, <1>5, <1>6 DEF Next, SchedStep

\* Every step keeps what Running says.
LEMMA RunningKept ==
  ASSUME TypeOK, Control, Running, [Next]_vars
  PROVE  Running'
<1> USE DEF TypeOK, ThreadTypes, Running, Goto, execVars, lockVars, grpVars, thrVars,
            envVars, coVars
<1> USE DEF ReturnPcs, InitPcs
<1>0. ASSUME NEW a \in Actors, Leave(a), pc[a] \in {"body"} \cup ReturnPcs,
             any_exec' = any_exec
      PROVE  Running'
  BY <1>0 DEF Leave, AfterSegment
<1>1. ASSUME NEW a \in Actors, CoroutineStep(a)
      PROVE  Running'
  <2>1. CASE Await(a) \/ BodyThrows(a)
    BY <2>1, <1>0 DEF Await, BodyThrows
  <2>2. CASE ReturnValue(a)
    BY <2>2 DEF ReturnValue
  <2>3. CASE ReturnLock(a)
    BY <2>3, <1>0 DEF ReturnLock
  <2>4. CASE ReturnVec(a)
    BY <2>4, <1>0 DEF ReturnVec
  <2> QED
    BY <1>1, <2>1, <2>2, <2>3, <2>4 DEF CoroutineStep
<1>2. CASE UserStep
  <2>1. CASE Spin
    BY <2>1 DEF Spin
  <2>2. CASE SpinReturns
    BY <2>2 DEF SpinReturns
  <2>3. CASE Cancel \/ Shutdown \/ StopTriggers
    BY <2>3 DEF Cancel, Shutdown, StopTriggers
  <2> QED
    BY <1>2, <2>1, <2>2, <2>3 DEF UserStep
<1>3. CASE Environment
  BY <1>3 DEF Environment, Arrive, TimerElapses
<1>4. ASSUME NEW c \in Coros, SleepEnds(c)
      PROVE  Running'
  BY <1>4 DEF SleepEnds
<1>5. ASSUME NEW t \in Threads, ThreadStep(t)
      PROVE  Running'
  <2>1. CASE LoopTest(t) \/ Lock(t)
    BY <2>1 DEF LoopTest, Lock
  <2>2. CASE GetRestCoroutine(t)
    <3>1. CASE coroutine_queue # <<>>
      <4>1. Head(coroutine_queue) \in Coros
        BY <3>1 DEF CoroutineTypes
      <4>2. /\ pc' = [pc EXCEPT ![t] = "got"]
            /\ cur' = [cur EXCEPT ![t] = Head(coroutine_queue)]
            /\ any_exec' = any_exec
        BY <2>2, <3>1 DEF GetRestCoroutine
      <4> QED
        BY <4>1, <4>2
    <3>2. CASE coroutine_queue = <<>>
      BY <2>2, <3>2 DEF GetRestCoroutine
    <3> QED
      BY <3>1, <3>2
  <2>3. CASE GetNextTimer(t)
    BY <2>3 DEF GetNextTimer, TakeableTimers, ExecutorTypes
  <2>4. CASE GetNextHandle(t)
    BY <2>4 DEF GetNextHandle, NextHandles, TakeableHandles
  <2>5. CASE Register(t)
    BY <2>5 DEF Register, Control
  <2>6. CASE WaitFree(t) \/ PopFreeThread(t) \/ WaitForWork(t) \/ RclWait(t) \/ AfterWait(t)
    BY <2>6 DEF WaitFree, PopFreeThread, WaitForWork, RclWait, AfterWait
  <2>7. CASE Mark(t)
    BY <2>7 DEF Mark
  <2>8. CASE Destroy(t)
    BY <2>8 DEF Destroy
  <2>9. CASE \/ ExecuteCancelled(t) \/ ExecuteCoroutine(t) \/ ExecuteTimer(t)
             \/ TakeFails(t) \/ MessageIgnored(t) \/ ExecuteCallback(t)
    BY <2>9 DEF ExecuteCancelled, ExecuteCoroutine, ExecuteTimer, TakeFails,
                MessageIgnored, ExecuteCallback
  <2>10. CASE ExecuteCoSubscription(t)
    BY <2>10 DEF ExecuteCoSubscription
  <2>11. CASE CallbackReturns(t) \/ Release(t) \/ Notify(t) \/ Post(t)
    BY <2>11 DEF CallbackReturns, Release, Notify, Post
  <2>12. CASE InitLock(t) \/ InitVec(t)
    <3>1. CASE InitLock(t)
      BY <3>1 DEF InitLock
    <3>2. CASE InitVec(t)
      BY <3>2 DEF InitVec
    <3> QED
      BY <2>12, <3>1, <3>2
  <2>13. CASE InitSub(t) \/ InitCheck(t) \/ InitExec(t)
    <3>1. CASE InitSub(t)
      BY <3>1 DEF InitSub
    <3>2. CASE InitCheck(t)
      BY <3>2 DEF InitCheck
    <3>3. CASE InitExec(t)
      BY <3>3 DEF InitExec
    <3> QED
      BY <2>13, <3>1, <3>2, <3>3
  <2>14. CASE CoroutineStep(t)
    BY <2>14, <1>1
  <2> QED
    BY <1>5, <2>1, <2>2, <2>3, <2>4, <2>5, <2>6, <2>7, <2>8, <2>9, <2>10, <2>11, <2>12,
       <2>13, <2>14 DEF ThreadStep
<1>6. CASE UNCHANGED vars
  BY <1>6 DEF vars
<1> QED
  BY <1>1, <1>2, <1>3, <1>4, <1>5, <1>6 DEF Next, SchedStep

\* Every step keeps the types of the coroutines' variables.
LEMMA CoroutineTyped ==
  ASSUME TypeOK, Control, Running, [Next]_vars
  PROVE  CoroutineTypes'
<1> USE DEF execVars, lockVars, grpVars, thrVars, envVars, coVars
<1>a. CoroutineTypes /\ coro \in [Coros -> Promise]
  BY DEF TypeOK, CoroutineTypes
<1>b. ASSUME NEW s \in CoSubs \cup {None}, EraseSuspended(s)
      PROVE  suspended' \in [CoSubs -> Nat]
  BY <1>a, <1>b DEF EraseSuspended, CoroutineTypes
<1>c. ASSUME NEW c, EraseSuspended(coro[c].sub_ptr), c \in Coros
      PROVE  suspended' \in [CoSubs -> Nat]
  BY <1>a, <1>b, <1>c DEF Promise
<1>1. ASSUME NEW a \in Actors, CoroutineStep(a)
      PROVE  CoroutineTypes'
  <2>1. CASE Await(a)
    BY <2>1, <1>a, PromiseUpdates DEF Await, CoroStates, CoroutineTypes
  <2>2. CASE BodyThrows(a)
    BY <2>2, <1>a, PromiseUpdates DEF BodyThrows, CoroStates, CoroutineTypes
  <2>3. CASE ReturnValue(a)
    BY <2>3, <1>a, PromiseUpdates DEF ReturnValue, CoroutineTypes
  <2>4. CASE ReturnLock(a)
    <3>1. coro' \in [Coros -> Promise]
      <4>1. CASE coro[cur[a]].exe
        <5>1. coro' = [coro EXCEPT ![cur[a]].lock = a]
          BY <2>4, <4>1 DEF ReturnLock
        <5> QED
          BY <1>a, <5>1, PromiseUpdates
      <4>2. CASE ~coro[cur[a]].exe
        <5>1. coro' = [coro EXCEPT ![cur[a]].st = "done"]
          BY <2>4, <4>2 DEF ReturnLock
        <5> QED
          BY <1>a, <5>1, PromiseUpdates DEF CoroStates
      <4> QED
        BY <4>1, <4>2
    <3>2. suspended' \in [CoSubs -> Nat]
      BY <2>4, <1>a, <1>c DEF ReturnLock, CoroutineTypes, Running, ReturnPcs
    <3> QED
      BY <2>4, <1>a, <3>1, <3>2 DEF ReturnLock, CoroutineTypes
  <2>5. CASE ReturnVec(a)
    <3>1. coro' \in [Coros -> Promise]
      BY <2>5, <1>a, PromiseUpdates DEF ReturnVec, CoroStates
    <3>2. coro[cur[a]].id \in Int /\ ready_vec \in Seq(BOOLEAN)
      BY <2>5, <1>a DEF ReturnVec, CoroutineTypes, Running, ReturnPcs, Promise
    <3>3. ready_vec' \in Seq(BOOLEAN)
      <4>1. CASE coro[cur[a]].id + 1 \in 1 .. Len(ready_vec)
        BY <2>5, <3>2, <4>1, ExceptSeq DEF ReturnVec
      <4>2. CASE coro[cur[a]].id + 1 \notin 1 .. Len(ready_vec)
        <5>1. ready_vec' = ready_vec
          BY <2>5, <3>2, <4>2 DEF ReturnVec
        <5> QED
          BY <3>2, <5>1
      <4> QED
        BY <4>1, <4>2
    <3> QED
      BY <2>5, <1>a, <3>1, <3>3, SMTT(30) DEF ReturnVec, CoroutineTypes
  <2> QED
    BY <1>1, <2>1, <2>2, <2>3, <2>4, <2>5 DEF CoroutineStep
<1>2. CASE UserStep
  BY <1>2, <1>a DEF UserStep, Spin, SpinReturns, Cancel, Shutdown, StopTriggers, CoroutineTypes
<1>3. CASE Environment
  BY <1>3, <1>a DEF Environment, Arrive, TimerElapses, CoroutineTypes
<1>4. ASSUME NEW c \in Coros, SleepEnds(c)
      PROVE  CoroutineTypes'
  <2>1. \/ coro' = [coro EXCEPT ![c].st = "queued"]
        \/ coro' = [coro EXCEPT ![c].st = "running", ![c].early = TRUE]
    BY <1>4 DEF SleepEnds
  <2>2. coro' \in [Coros -> Promise]
    <3>1. coro[c] \in Promise
      BY <1>a
    <3>2. /\ [coro[c] EXCEPT !.st = "queued"] \in Promise
          /\ [coro[c] EXCEPT !.st = "running", !.early = TRUE] \in Promise
      BY <3>1 DEF Promise, CoroStates
    <3> QED
      BY <1>a, <2>1, <3>2
  <2>3. coroutine_queue \in Seq(Coros) /\ Append(coroutine_queue, c) \in Seq(Coros)
    BY <1>a DEF CoroutineTypes
  <2>4. coroutine_queue' \in Seq(Coros)
    BY <1>4, <2>3 DEF SleepEnds
  <2> QED
    BY <1>4, <1>a, <2>2, <2>4 DEF SleepEnds, CoroutineTypes
<1>5. ASSUME NEW t \in Threads, ThreadStep(t)
      PROVE  CoroutineTypes'
  <2>1. CASE GetRestCoroutine(t)
    <3>1. coroutine_queue' \in Seq(Coros)
      <4>1. CASE coroutine_queue # <<>>
        <5>1. coroutine_queue' = Tail(coroutine_queue)
          BY <2>1, <4>1 DEF GetRestCoroutine
        <5> QED
          BY <1>a, <4>1, <5>1 DEF CoroutineTypes
      <4>2. CASE coroutine_queue = <<>>
        BY <2>1, <1>a, <4>2 DEF GetRestCoroutine, CoroutineTypes
      <4> QED
        BY <4>1, <4>2
    <3> QED
      BY <2>1, <1>a, <3>1 DEF GetRestCoroutine, CoroutineTypes
  <2>2. CASE Register(t)
    <3>1. any_exec[t] \in CoSubs
      BY <2>2 DEF Register, Control
    <3>2. suspended[any_exec[t]] + 1 \in Nat
      BY <1>a, <3>1 DEF CoroutineTypes
    <3>3. suspended' \in [CoSubs -> Nat]
      BY <2>2, <1>a, <3>1, <3>2 DEF Register, CoroutineTypes
    <3> QED
      BY <2>2, <1>a, <3>3 DEF Register, CoroutineTypes
  <2>3. CASE PopFreeThread(t)
    BY <2>3, <1>a DEF PopFreeThread, FreeThread, CoroutineTypes
  <2>4. CASE ExecuteCoroutine(t)
    BY <2>4, <1>a, PromiseUpdates DEF ExecuteCoroutine, CoroStates, CoroutineTypes
  <2>5. CASE ExecuteCoSubscription(t)
    <3>1. NewPromise(any_exec[t]) \in Promise
      BY <2>5, NewPromiseTyped DEF ExecuteCoSubscription
    <3> QED
      BY <2>5, <1>a, <3>1 DEF ExecuteCoSubscription, CoroutineTypes
  <2>6. CASE InitLock(t)
    <3>1. coro' \in [Coros -> Promise]
      <4>1. CASE coro[cur[t]].returned
        <5>1. coro' = [coro EXCEPT ![cur[t]].exe = TRUE]
          BY <2>6, <4>1 DEF InitLock
        <5> QED
          BY <1>a, <5>1, PromiseUpdates
      <4>2. CASE ~coro[cur[t]].returned
        <5>1. coro' = [coro EXCEPT ![cur[t]].exe = TRUE, ![cur[t]].lock = t]
          BY <2>6, <4>2 DEF InitLock
        <5> QED
          BY <1>a, <5>1, PromiseUpdates
      <4> QED
        BY <4>1, <4>2
    <3> QED
      BY <2>6, <1>a, <3>1 DEF InitLock, CoroutineTypes
  <2>7. CASE InitVec(t)
    <3>1. Len(ready_vec) \in Int
      BY <1>a DEF CoroutineTypes
    <3>2. coro' \in [Coros -> Promise]
      BY <2>7, <1>a, <3>1, PromiseUpdates DEF InitVec
    <3>3. pid_queue' \in Seq(Threads \X Int) /\ ready_vec' \in Seq(BOOLEAN)
      BY <2>7, <1>a, <3>1 DEF InitVec, CoroutineTypes
    <3> QED
      BY <2>7, <1>a, <3>2, <3>3 DEF InitVec, CoroutineTypes
  <2>8. CASE InitSub(t)
    BY <2>8, <1>a, PromiseUpdates DEF InitSub, Control, InitPcs, CoroutineTypes
  <2>9. CASE InitCheck(t)
    <3>1. cur[t] \in Coros
      BY <2>9 DEF InitCheck, Running, InitPcs
    <3>2. suspended' \in [CoSubs -> Nat]
      BY <2>9, <1>a, <1>c, <3>1 DEF InitCheck, CoroutineTypes
    <3> QED
      BY <2>9, <1>a, <3>2 DEF InitCheck, CoroutineTypes
  <2>10. CASE InitExec(t)
    BY <2>10, <1>a, PromiseUpdates DEF InitExec, CoroutineTypes
  <2>11. CASE \/ LoopTest(t) \/ Lock(t) \/ GetNextTimer(t) \/ GetNextHandle(t)
              \/ WaitFree(t) \/ WaitForWork(t) \/ RclWait(t) \/ AfterWait(t)
              \/ Mark(t) \/ Destroy(t)
    <3>1. UNCHANGED coVars
      BY <2>11 DEF LoopTest, Lock, GetNextTimer, GetNextHandle, WaitFree, WaitForWork,
                   RclWait, AfterWait, Mark, Destroy
    <3> QED
      BY <1>a, <3>1 DEF CoroutineTypes
  <2>12. CASE \/ ExecuteCancelled(t) \/ ExecuteTimer(t) \/ TakeFails(t)
              \/ MessageIgnored(t) \/ ExecuteCallback(t)
              \/ CallbackReturns(t) \/ Release(t) \/ Notify(t) \/ Post(t)
    <3>1. UNCHANGED coVars
      BY <2>12 DEF ExecuteCancelled, ExecuteTimer, TakeFails, MessageIgnored,
                   ExecuteCallback, CallbackReturns, Release, Notify, Post
    <3> QED
      BY <1>a, <3>1 DEF CoroutineTypes
  <2>13. CASE CoroutineStep(t)
    BY <2>13, <1>1
  <2> QED
    BY <1>5, <2>1, <2>2, <2>3, <2>4, <2>5, <2>6, <2>7, <2>8, <2>9, <2>10, <2>11,
       <2>12, <2>13 DEF ThreadStep
<1>6. CASE UNCHANGED vars
  BY <1>6, <1>a DEF vars, CoroutineTypes
<1> QED
  BY <1>1, <1>2, <1>3, <1>4, <1>5, <1>6 DEF Next, SchedStep

\* The part of the inductive invariant that the types need.
Typed == TypeOK /\ Control /\ Running

LEMMA TypedKept == Typed /\ [Next]_vars => Typed'
  BY ExecutorTyped, ThreadTyped, CoroutineTyped, ControlKept, RunningKept
     DEF Typed, TypeOK

\* Every reachable state is well typed: no thread runs off its AnyExecutable,
\* calls through an empty coroutine_ptr or leaves a promise half updated,
\* whatever the other threads and the Scheduler do in between.
THEOREM TypeCorrect == Spec => []TypeOK
<1>1. Init => Typed
  BY InitTyped DEF Typed
<1>2. Typed => TypeOK
  BY DEF Typed
<1> QED
  BY <1>1, <1>2, TypedKept, PTL DEF Spec

------------------------------------------------------------------------------
(* The critical section of wait_mutex_.                                     *)

\* What a step does to wait_mutex_ and to the pcs inside its section.
LEMMA LockingKept ==
  ASSUME TypeOK, Locking, [Next]_vars
  PROVE  Locking'
<1> USE DEF TypeOK, ThreadTypes, Locking, Goto, WaitPcs, execVars, lockVars, grpVars,
            thrVars, envVars, coVars
<1>0. ASSUME NEW a \in Actors, Leave(a), wait_mutex' = wait_mutex
      PROVE  Locking'
  BY <1>0 DEF Leave, AfterSegment
<1>1. ASSUME NEW a \in Actors, CoroutineStep(a)
      PROVE  Locking'
  <2>1. CASE Await(a) \/ BodyThrows(a)
    BY <2>1, <1>0 DEF Await, BodyThrows
  <2>2. CASE ReturnValue(a)
    BY <2>2 DEF ReturnValue
  <2>3. CASE ReturnLock(a)
    BY <2>3, <1>0 DEF ReturnLock
  <2>4. CASE ReturnVec(a)
    BY <2>4, <1>0 DEF ReturnVec
  <2> QED
    BY <1>1, <2>1, <2>2, <2>3, <2>4 DEF CoroutineStep
<1>2. CASE UserStep
  <2>1. CASE Spin
    BY <2>1 DEF Spin
  <2>2. CASE SpinReturns
    BY <2>2 DEF SpinReturns
  <2>3. CASE Cancel \/ Shutdown \/ StopTriggers
    BY <2>3 DEF Cancel, Shutdown, StopTriggers
  <2> QED
    BY <1>2, <2>1, <2>2, <2>3 DEF UserStep
<1>3. CASE Environment
  BY <1>3 DEF Environment, Arrive, TimerElapses
<1>4. ASSUME NEW c \in Coros, SleepEnds(c)
      PROVE  Locking'
  BY <1>4 DEF SleepEnds
<1>5. ASSUME NEW t \in Threads, ThreadStep(t)
      PROVE  Locking'
  <2>1. CASE LoopTest(t) \/ Lock(t)
    BY <2>1 DEF LoopTest, Lock
  <2>2. CASE GetRestCoroutine(t) \/ GetNextTimer(t)
    BY <2>2 DEF GetRestCoroutine, GetNextTimer
  <2>3. CASE GetNextHandle(t)
    BY <2>3 DEF GetNextHandle
  <2>4. CASE Register(t) \/ WaitFree(t) \/ PopFreeThread(t)
    BY <2>4 DEF Register, WaitFree, PopFreeThread
  <2>5. CASE WaitForWork(t) \/ RclWait(t) \/ AfterWait(t)
    BY <2>5 DEF WaitForWork, RclWait, AfterWait
  <2>6. CASE Mark(t) \/ Destroy(t)
    BY <2>6 DEF Mark, Destroy
  <2>7. CASE \/ ExecuteCancelled(t) \/ ExecuteCoroutine(t) \/ ExecuteTimer(t)
             \/ TakeFails(t) \/ MessageIgnored(t) \/ ExecuteCallback(t)
             \/ ExecuteCoSubscription(t)
    BY <2>7 DEF ExecuteCancelled, ExecuteCoroutine, ExecuteTimer, TakeFails,
                MessageIgnored, ExecuteCallback, ExecuteCoSubscription
  <2>8. CASE CallbackReturns(t) \/ Release(t) \/ Notify(t) \/ Post(t)
    BY <2>8 DEF CallbackReturns, Release, Notify, Post
  <2>9. CASE InitLock(t) \/ InitVec(t)
    <3>1. CASE InitLock(t)
      BY <3>1 DEF InitLock
    <3>2. CASE InitVec(t)
      BY <3>2 DEF InitVec
    <3> QED
      BY <2>9, <3>1, <3>2
  <2>10. CASE InitSub(t) \/ InitCheck(t) \/ InitExec(t)
    <3>1. CASE InitSub(t)
      BY <3>1 DEF InitSub
    <3>2. CASE InitCheck(t)
      BY <3>2 DEF InitCheck
    <3>3. CASE InitExec(t)
      BY <3>3 DEF InitExec
    <3> QED
      BY <2>10, <3>1, <3>2, <3>3
  <2>11. CASE CoroutineStep(t)
    BY <2>11, <1>1
  <2> QED
    BY <1>5, <2>1, <2>2, <2>3, <2>4, <2>5, <2>6, <2>7, <2>8, <2>9, <2>10, <2>11
       DEF ThreadStep
<1>6. CASE UNCHANGED vars
  BY <1>6 DEF vars
<1> QED
  BY <1>1, <1>2, <1>3, <1>4, <1>5, <1>6 DEF Next, SchedStep

------------------------------------------------------------------------------
(* Groups, timers and the suspend list.                                     *)

\* A step that touches neither can_be_taken_from nor scheduled_timers_ nor an
\* AnyExecutable, lists no subscription, and moves no thread into a region
\* where it holds one of them.
Quiet ==
  /\ UNCHANGED <<taken_from, scheduled_timers, any_exec>>
  /\ suspended' \in [CoSubs -> Nat]
  /\ \A s \in CoSubs : suspended'[s] <= suspended[s]
  /\ \A t \in Threads :
       /\ pc'[t] \in HoldPcs => pc[t] \in HoldPcs
       /\ pc'[t] \in ScheduledPcs => pc[t] \in ScheduledPcs
       /\ pc'[t] = "register" => pc[t] = "register"
       /\ pc'[t] = "got" => pc[t] = "got" \/ any_exec[t] = None

\* The steps of thread t that are not quiet.
Busy(t) == \/ GetNextTimer(t) \/ GetNextHandle(t) \/ Register(t) \/ Mark(t)
           \/ Destroy(t) \/ Release(t) \/ Post(t)

LEMMA QuietOrBusy ==
  ASSUME Typed, [Next]_vars
  PROVE  Quiet \/ \E t \in Threads : Busy(t)
<1> USE DEF Quiet, HoldPcs, ScheduledPcs, ExecPcs, ReturnPcs, InitPcs, Goto
<1> USE DEF execVars, lockVars, grpVars, thrVars, envVars, coVars
<1>a. /\ pc \in [Actors -> Pcs]
      /\ suspended \in [CoSubs -> Nat]
      /\ suspended' \in [CoSubs -> Nat]
      /\ coro \in [Coros -> Promise]
  BY TypedKept DEF Typed, TypeOK, ThreadTypes, CoroutineTypes
<1>b. \A s \in CoSubs : suspended[s] <= suspended[s]
  BY <1>a
<1>c. ASSUME NEW s \in CoSubs \cup {None}, EraseSuspended(s), NEW r \in CoSubs
      PROVE  suspended'[r] <= suspended[r]
  BY <1>a, <1>c DEF EraseSuspended
<1>d. ASSUME NEW a \in Actors, Leave(a), pc[a] \in {"body"} \cup ReturnPcs,
             UNCHANGED <<taken_from, scheduled_timers, any_exec>>,
             \A s \in CoSubs : suspended'[s] <= suspended[s]
      PROVE  Quiet
  BY <1>a, <1>d DEF Leave, AfterSegment
<1>1. ASSUME NEW a \in Actors, CoroutineStep(a)
      PROVE  Quiet
  <2>1. CASE Await(a) \/ BodyThrows(a)
    BY <2>1, <1>b, <1>d DEF Await, BodyThrows
  <2>2. CASE ReturnValue(a)
    BY <2>2, <1>a, <1>b DEF ReturnValue
  <2>3. CASE ReturnLock(a)
    <3>1. CASE coro[cur[a]].exe
      <4>1. coro[cur[a]].sub_ptr \in CoSubs \cup {None}
        BY <2>3, <1>a DEF ReturnLock, Typed, Running, Promise
      <4>2. \A s \in CoSubs : suspended'[s] <= suspended[s]
        BY <2>3, <3>1, <4>1, <1>c DEF ReturnLock
      <4> QED
        BY <2>3, <3>1, <4>2, <1>a DEF ReturnLock
    <3>2. CASE ~coro[cur[a]].exe
      BY <2>3, <3>2, <1>b, <1>d DEF ReturnLock
    <3> QED
      BY <3>1, <3>2
  <2>4. CASE ReturnVec(a)
    BY <2>4, <1>b, <1>d DEF ReturnVec
  <2> QED
    BY <1>1, <2>1, <2>2, <2>3, <2>4 DEF CoroutineStep
<1>2. CASE UserStep
  <2>1. CASE Spin
    BY <2>1, <1>a, <1>b DEF Spin
  <2>2. CASE SpinReturns
    BY <2>2, <1>a, <1>b DEF SpinReturns
  <2>3. CASE Cancel \/ Shutdown \/ StopTriggers
    BY <2>3, <1>a, <1>b DEF Cancel, Shutdown, StopTriggers
  <2> QED
    BY <1>2, <2>1, <2>2, <2>3 DEF UserStep
<1>3. CASE Environment
  BY <1>3, <1>a, <1>b DEF Environment, Arrive, TimerElapses
<1>4. ASSUME NEW c \in Coros, SleepEnds(c)
      PROVE  Quiet
  BY <1>4, <1>a, <1>b DEF SleepEnds
<1>5. ASSUME NEW t \in Threads, ThreadStep(t)
      PROVE  Quiet \/ Busy(t)
  <2>1. CASE LoopTest(t) \/ Lock(t)
    BY <2>1, <1>a, <1>b DEF LoopTest, Lock
  <2>2. CASE GetRestCoroutine(t)
    BY <2>2, <1>a, <1>b DEF GetRestCoroutine, Typed, Control, EmptyPcs
  <2>3. CASE WaitFree(t) \/ PopFreeThread(t)
    BY <2>3, <1>a, <1>b DEF WaitFree, PopFreeThread
  <2>4. CASE WaitForWork(t) \/ RclWait(t) \/ AfterWait(t)
    BY <2>4, <1>a, <1>b DEF WaitForWork, RclWait, AfterWait
  <2>5. CASE ExecuteCancelled(t) \/ ExecuteCoroutine(t) \/ ExecuteTimer(t)
    BY <2>5, <1>a, <1>b DEF ExecuteCancelled, ExecuteCoroutine, ExecuteTimer
  <2>6. CASE TakeFails(t) \/ MessageIgnored(t) \/ ExecuteCallback(t)
    BY <2>6, <1>a, <1>b DEF TakeFails, MessageIgnored, ExecuteCallback
  <2>7. CASE ExecuteCoSubscription(t)
    BY <2>7, <1>a, <1>b DEF ExecuteCoSubscription
  <2>8. CASE CallbackReturns(t) \/ Notify(t)
    BY <2>8, <1>a, <1>b DEF CallbackReturns, Notify
  <2>9. CASE InitLock(t)
    BY <2>9, <1>a, <1>b DEF InitLock
  <2>10. CASE InitVec(t)
    BY <2>10, <1>a, <1>b DEF InitVec
  <2>11. CASE InitSub(t)
    BY <2>11, <1>a, <1>b DEF InitSub
  <2>12. CASE InitCheck(t)
    <3>1. coro[cur[t]].sub_ptr \in CoSubs \cup {None}
      BY <2>12, <1>a DEF InitCheck, Typed, Running, Promise
    <3>2. \A s \in CoSubs : suspended'[s] <= suspended[s]
      BY <2>12, <3>1, <1>b, <1>c DEF InitCheck
    <3> QED
      BY <2>12, <3>2, <1>a DEF InitCheck
  <2>13. CASE InitExec(t)
    BY <2>13, <1>a, <1>b DEF InitExec
  <2>14. CASE CoroutineStep(t)
    BY <2>14, <1>1
  <2> QED
    BY <1>5, <2>1, <2>2, <2>3, <2>4, <2>5, <2>6, <2>7, <2>8, <2>9, <2>10, <2>11, <2>12,
       <2>13, <2>14 DEF ThreadStep, Busy
<1>6. CASE UNCHANGED vars
  BY <1>6, <1>a, <1>b DEF vars
<1> QED
  BY <1>1, <1>2, <1>3, <1>4, <1>5, <1>6 DEF Next, SchedStep

\* Every step keeps what Marking says of can_be_taken_from: groups are closed
\* only under wait_mutex_, and opened only by the thread that holds them.
LEMMA MarkingKept ==
  ASSUME Typed, Locking, Marking, [Next]_vars
  PROVE  Marking'
<1> USE DEF Marking, Keeps, Guarded, Goto
<1> USE DEF execVars, lockVars, grpVars, thrVars, envVars, coVars
<1>a. /\ pc \in [Actors -> Pcs]
      /\ any_exec \in [Actors -> Entities \cup {None}]
      /\ taken_from \in [Groups -> BOOLEAN]
  BY DEF Typed, TypeOK, ThreadTypes, ExecutorTypes
<1>b. \A e \in Entities : GroupOf[e] \in Groups
  OBVIOUS
<1>1. CASE Quiet
  BY <1>1, <1>a DEF Quiet
<1>2. ASSUME NEW t \in Threads, GetNextTimer(t)
      PROVE  Marking'
  <2>1. pc[t] = "timer" /\ taken_from' = taken_from /\ any_exec[t] = None
    BY <1>2 DEF GetNextTimer, Typed, Control, EmptyPcs
  <2>2. PICK l \in {"got", "handle"}, x \in Entities \cup {None} :
          /\ pc' = [pc EXCEPT ![t] = l]
          /\ any_exec' = [any_exec EXCEPT ![t] = x]
          /\ l = "got" => x # None /\ taken_from[GroupOf[x]]
    <3>1. CASE TakeableTimers = {}
      BY <1>2, <2>1, <3>1, <1>a DEF GetNextTimer
    <3>2. CASE TakeableTimers # {}
      BY <1>2, <3>2 DEF GetNextTimer, TakeableTimers, Typed, TypeOK, ExecutorTypes
    <3> QED
      BY <3>1, <3>2
  <2> QED
    BY <2>1, <2>2, <1>a DEF HoldPcs, ExecPcs, ReturnPcs, InitPcs
<1>3. ASSUME NEW t \in Threads, GetNextHandle(t)
      PROVE  Marking'
  <2>1. pc[t] = "handle" /\ taken_from' = taken_from /\ any_exec[t] = None
    BY <1>3 DEF GetNextHandle, Typed, Control, EmptyPcs
  <2>2. PICK l \in {"got", "register", "wait", "loop"}, x \in Entities \cup {None} :
          /\ pc' = [pc EXCEPT ![t] = l]
          /\ any_exec' = [any_exec EXCEPT ![t] = x]
          /\ l \in {"got", "register"} => x # None /\ taken_from[GroupOf[x]]
    <3>1. CASE NextHandles = {}
      <4>1. any_exec' = [any_exec EXCEPT ![t] = None]
        BY <1>3, <2>1, <3>1, <1>a DEF GetNextHandle
      <4>2. PICK l \in {"wait", "loop"} : pc' = [pc EXCEPT ![t] = l]
        BY <1>3, <3>1 DEF GetNextHandle
      <4> QED
        BY <4>1, <4>2
    <3>2. CASE NextHandles # {}
      <4>1. PICK e \in NextHandles :
              /\ any_exec' = [any_exec EXCEPT ![t] = e]
              /\ pc' = [pc EXCEPT ![t] = IF e \in CoSubs THEN "register" ELSE "got"]
        BY <1>3, <3>2 DEF GetNextHandle
      <4>2. e \in Entities /\ e # None /\ taken_from[GroupOf[e]]
        BY DEF NextHandles, TakeableHandles
      <4> QED
        BY <4>1, <4>2
    <3> QED
      BY <3>1, <3>2
  <2> QED
    BY <2>1, <2>2, <1>a DEF HoldPcs, ExecPcs, ReturnPcs, InitPcs
<1>4. ASSUME NEW t \in Threads, Register(t)
      PROVE  Marking'
  BY <1>4, <1>a DEF Register, HoldPcs, ExecPcs, ReturnPcs, InitPcs
<1>5. ASSUME NEW t \in Threads, Mark(t)
      PROVE  Marking'
  <2>1. pc[t] = "got" /\ any_exec' = any_exec
    BY <1>5 DEF Mark
  <2>2. \A u \in Threads : pc[u] \in {"register", "got"} => u = t
    BY <2>1 DEF Locking, WaitPcs
  <2>3. CASE any_exec[t] = None
    BY <1>5, <2>1, <2>2, <2>3, <1>a DEF Mark
  <2>4. CASE any_exec[t] \in scheduled_timers
    <3>1. /\ taken_from' = [taken_from EXCEPT ![GroupOf[any_exec[t]]] = TRUE]
          /\ pc' = [pc EXCEPT ![t] = "dup"]
      BY <1>5, <2>4 DEF Mark, Typed, TypeOK, ExecutorTypes
    <3>2. ~Timerless(GroupOf[any_exec[t]])
      BY <2>4 DEF Timerless, Typed, TypeOK, ExecutorTypes
    <3> QED
      BY <2>1, <3>1, <3>2, <1>a DEF HoldPcs, ExecPcs, ReturnPcs, InitPcs
  <2>5. CASE any_exec[t] # None /\ any_exec[t] \notin scheduled_timers
    <3> DEFINE g == GroupOf[any_exec[t]]
    <3>1. /\ pc' = [pc EXCEPT ![t] = "exec"]
          /\ taken_from' = [taken_from EXCEPT ![g] = @ /\ g \notin MutuallyExclusive]
      BY <1>5, <2>5 DEF Mark
    <3>2. g \in Groups /\ taken_from[g]
      BY <2>1, <2>5, <1>a
    <3>3. \A h \in Groups :
            /\ h # g => taken_from'[h] = taken_from[h]
            /\ h = g /\ g \in MutuallyExclusive => ~taken_from'[h]
            /\ h = g /\ g \notin MutuallyExclusive => taken_from'[h]
      BY <3>1, <3>2, <1>a
    <3>4. \A h \in Groups, u \in Threads :
            Guarded(h) /\ Keeps(u, h)' => IF u = t THEN h = g ELSE h # g /\ Keeps(u, h)
      BY <2>1, <3>1, <3>2, <1>a
    <3>5. \A u \in Threads : pc'[u] \notin {"register", "got"}
      BY <2>2, <3>1, <1>a
    <3>6. \A h \in Groups \ MutuallyExclusive : taken_from'[h]
      BY <3>3
    <3>7. \A h \in Groups, u \in Threads : Guarded(h) /\ Keeps(u, h)' => ~taken_from'[h]
      BY <3>3, <3>4
    <3>8. \A h \in Groups, u, v \in Threads :
            Guarded(h) /\ Keeps(u, h)' /\ Keeps(v, h)' => u = v
      BY <3>4
    <3> QED
      BY <3>5, <3>6, <3>7, <3>8
  <2> QED
    BY <2>3, <2>4, <2>5 DEF Typed, TypeOK, ExecutorTypes
<1>6. ASSUME NEW t \in Threads, Destroy(t)
      PROVE  Marking'
  <2>1. any_exec[t] \in Timers
    BY <1>6 DEF Destroy, Typed, Control
  <2>2. ~Timerless(GroupOf[any_exec[t]])
    BY <2>1 DEF Timerless
  <2> QED
    BY <1>6, <2>1, <2>2, <1>a DEF Destroy, HoldPcs, ExecPcs, ReturnPcs, InitPcs
<1>7. ASSUME NEW t \in Threads, Release(t)
      PROVE  Marking'
  <2>1. CASE any_exec[t] = None
    BY <1>7, <2>1, <1>a DEF Release, HoldPcs, ExecPcs, ReturnPcs, InitPcs
  <2>2. CASE any_exec[t] # None
    <3>1. Keeps(t, GroupOf[any_exec[t]])
      BY <1>7, <2>2 DEF Release, HoldPcs, ExecPcs
    <3> QED
      BY <1>7, <2>2, <3>1, <1>a DEF Release, HoldPcs, ExecPcs, ReturnPcs, InitPcs
  <2> QED
    BY <2>1, <2>2
<1>8. ASSUME NEW t \in Threads, Post(t)
      PROVE  Marking'
  BY <1>8, <1>a DEF Post, HoldPcs, ExecPcs, ReturnPcs, InitPcs
<1> QED
  BY <1>1, <1>2, <1>3, <1>4, <1>5, <1>6, <1>7, <1>8, QuietOrBusy DEF Busy

\* Every step keeps what Scheduling says of scheduled_timers_: a timer enters
\* under wait_mutex_, and only the thread that entered it takes it out.
LEMMA SchedulingKept ==
  ASSUME Typed, Locking, Scheduling, [Next]_vars
  PROVE  Scheduling'
<1> USE DEF Scheduling, Goto
<1> USE DEF execVars, lockVars, grpVars, thrVars, envVars, coVars
<1>a. pc \in [Actors -> Pcs] /\ any_exec \in [Actors -> Entities \cup {None}]
  BY DEF Typed, TypeOK, ThreadTypes
<1>1. CASE Quiet
  BY <1>1, <1>a DEF Quiet
<1>2. ASSUME NEW t \in Threads, GetNextTimer(t) \/ GetNextHandle(t)
      PROVE  Scheduling'
  <2>1. scheduled_timers' = scheduled_timers
    BY <1>2 DEF GetNextTimer, GetNextHandle
  <2>2. PICK l \in {"got", "register", "handle", "wait", "loop"} : pc' = [pc EXCEPT ![t] = l]
    BY <1>2 DEF GetNextTimer, GetNextHandle
  <2>3. \A u \in Threads \ {t} : any_exec'[u] = any_exec[u]
    BY <1>2, <1>a DEF GetNextTimer, GetNextHandle
  <2> QED
    BY <2>1, <2>2, <2>3, <1>a DEF ScheduledPcs, ExecPcs, ReturnPcs, InitPcs
<1>3. ASSUME NEW t \in Threads, Register(t)
      PROVE  Scheduling'
  BY <1>3, <1>a DEF Register, ScheduledPcs, ExecPcs, ReturnPcs, InitPcs
<1>4. ASSUME NEW t \in Threads, Mark(t)
      PROVE  Scheduling'
  BY <1>4, <1>a DEF Mark, ScheduledPcs, ExecPcs, ReturnPcs, InitPcs
<1>5. ASSUME NEW t \in Threads, Destroy(t)
      PROVE  Scheduling'
  BY <1>5, <1>a DEF Destroy, ScheduledPcs, ExecPcs, ReturnPcs, InitPcs
<1>6. ASSUME NEW t \in Threads, Release(t)
      PROVE  Scheduling'
  BY <1>6, <1>a DEF Release, ScheduledPcs, ExecPcs, ReturnPcs, InitPcs
<1>7. ASSUME NEW t \in Threads, Post(t)
      PROVE  Scheduling'
  BY <1>7, <1>a DEF Post, ScheduledPcs, ExecPcs, ReturnPcs, InitPcs
<1> QED
  BY <1>1, <1>2, <1>3, <1>4, <1>5, <1>6, <1>7, QuietOrBusy DEF Busy

\* Every step keeps what Listing says of suspend_coroutine_list_: the test
\* for membership and push_back are both made under wait_mutex_.
LEMMA ListingKept ==
  ASSUME Typed, Locking, Listing, [Next]_vars
  PROVE  Listing'
<1> USE DEF Listing, Goto
<1> USE DEF execVars, lockVars, grpVars, thrVars, envVars, coVars
<1>a. /\ pc \in [Actors -> Pcs] /\ any_exec \in [Actors -> Entities \cup {None}]
      /\ suspended \in [CoSubs -> Nat]
      /\ \A t \in Threads : pc[t] = "register" => any_exec[t] \in CoSubs
  BY DEF Typed, TypeOK, ThreadTypes, CoroutineTypes, Control
<1>1. CASE Quiet
  BY <1>1, <1>a DEF Quiet
<1>2. ASSUME NEW t \in Threads, GetNextTimer(t)
      PROVE  Listing'
  BY <1>2, <1>a DEF GetNextTimer
<1>3. ASSUME NEW t \in Threads, GetNextHandle(t)
      PROVE  Listing'
  <2>1. suspended' = suspended
    BY <1>3 DEF GetNextHandle
  <2>2. \A u \in Threads \ {t} : pc'[u] = pc[u] /\ any_exec'[u] = any_exec[u]
    BY <1>3, <1>a DEF GetNextHandle
  <2>3. pc'[t] = "register" => suspended[any_exec'[t]] = 0
    BY <1>3, <1>a DEF GetNextHandle, NextHandles, TakeableHandles
  <2> QED
    BY <2>1, <2>2, <2>3
<1>4. ASSUME NEW t \in Threads, Register(t)
      PROVE  Listing'
  <2>1. pc[t] = "register" /\ any_exec' = any_exec /\ pc' = [pc EXCEPT ![t] = "got"]
    BY <1>4 DEF Register
  <2>2. \A u \in Threads : pc[u] = "register" => u = t
    BY <2>1 DEF Locking, WaitPcs
  <2>3. \A u \in Threads : pc'[u] # "register"
    BY <2>1, <2>2, <1>a
  <2>4. suspended' = [suspended EXCEPT ![any_exec[t]] = 1]
    <3>1. suspended[any_exec[t]] = 0
      BY <2>1
    <3>2. suspended' = [suspended EXCEPT ![any_exec[t]] = suspended[any_exec[t]] + 1]
      BY <1>4 DEF Register
    <3> QED
      BY <3>1, <3>2
  <2>5. \A s \in CoSubs : suspended'[s] <= 1
    BY <2>4, <1>a
  <2> QED
    BY <2>3, <2>5
<1>5. ASSUME NEW t \in Threads, Mark(t) \/ Release(t)
      PROVE  Listing'
  BY <1>5, <1>a DEF Mark, Release
<1>6. ASSUME NEW t \in Threads, Destroy(t) \/ Post(t)
      PROVE  Listing'
  BY <1>6, <1>a DEF Destroy, Post
<1> QED
  BY <1>1, <1>2, <1>3, <1>4, <1>5, <1>6, QuietOrBusy DEF Busy

------------------------------------------------------------------------------
(* What a step does to a promise.                                           *)

\* The step leaves every promise but that of c, and c's has these values.
Becomes(c, st, returned, exe, sub_ptr, re_execute) ==
  /\ \A d \in Coros \ {c} : coro'[d] = coro[d]
  /\ coro'[c].sub = coro[c].sub
  /\ coro'[c].st = st /\ coro'[c].returned = returned /\ coro'[c].exe = exe
  /\ coro'[c].sub_ptr = sub_ptr /\ coro'[c].re_execute = re_execute

LEMMA BodyUpdates ==
  ASSUME Typed, NEW a \in Actors, NEW c, c = cur[a]
  PROVE  /\ CoroutineStep(a) => c \in Coros
         /\ Await(a) =>
              Becomes(c, "sleeping", coro[c].returned, coro[c].exe, coro[c].sub_ptr,
                      coro[c].re_execute)
         /\ BodyThrows(a) =>
              Becomes(c, "failed", coro[c].returned, coro[c].exe, coro[c].sub_ptr,
                      coro[c].re_execute)
         /\ ReturnValue(a) =>
              Becomes(c, coro[c].st, TRUE, coro[c].exe, coro[c].sub_ptr, coro[c].re_execute)
         /\ ReturnLock(a) =>
              Becomes(c, IF coro[c].exe THEN coro[c].st ELSE "done", coro[c].returned,
                      coro[c].exe, coro[c].sub_ptr, coro[c].re_execute)
         /\ ReturnVec(a) =>
              Becomes(c, "done", coro[c].returned, coro[c].exe, coro[c].sub_ptr,
                      coro[c].re_execute)
<1> USE DEF Becomes
<1>a. coro \in [Coros -> Promise]
  BY DEF Typed, TypeOK, CoroutineTypes
<1>b. pc[a] \in {"body"} \cup ReturnPcs => c \in Coros /\ coro[c] \in Promise
  BY <1>a DEF Typed, Running
<1>1. ASSUME Await(a)
      PROVE  Becomes(c, "sleeping", coro[c].returned, coro[c].exe, coro[c].sub_ptr,
                     coro[c].re_execute)
  BY <1>1, <1>a, <1>b DEF Await, Promise
<1>2. ASSUME BodyThrows(a)
      PROVE  Becomes(c, "failed", coro[c].returned, coro[c].exe, coro[c].sub_ptr,
                     coro[c].re_execute)
  BY <1>2, <1>a, <1>b DEF BodyThrows, Promise
<1>3. ASSUME ReturnValue(a)
      PROVE  Becomes(c, coro[c].st, TRUE, coro[c].exe, coro[c].sub_ptr, coro[c].re_execute)
  BY <1>3, <1>a, <1>b DEF ReturnValue, Promise
<1>4. ASSUME ReturnLock(a)
      PROVE  Becomes(c, IF coro[c].exe THEN coro[c].st ELSE "done", coro[c].returned,
                     coro[c].exe, coro[c].sub_ptr, coro[c].re_execute)
  <2>1. CASE coro[c].exe
    <3>1. coro' = [coro EXCEPT ![c].lock = a] /\ pc[a] \in ReturnPcs
      BY <1>4, <2>1 DEF ReturnLock, ReturnPcs
    <3> QED
      BY <2>1, <3>1, <1>a, <1>b DEF Promise
  <2>2. CASE ~coro[c].exe
    BY <1>4, <2>2, <1>a, <1>b DEF ReturnLock, ReturnPcs, Promise
  <2> QED
    BY <2>1, <2>2
<1>5. ASSUME ReturnVec(a)
      PROVE  Becomes(c, "done", coro[c].returned, coro[c].exe, coro[c].sub_ptr,
                     coro[c].re_execute)
  BY <1>5, <1>a, <1>b DEF ReturnVec, ReturnPcs, Promise
<1>6. CoroutineStep(a) => c \in Coros
  BY <1>b DEF CoroutineStep, Await, BodyThrows, ReturnValue, ReturnLock, ReturnVec, ReturnPcs
<1> QED
  BY <1>1, <1>2, <1>3, <1>4, <1>5, <1>6

LEMMA ThreadUpdates ==
  ASSUME Typed, NEW t \in Threads, NEW c, c = cur[t]
  PROVE  /\ ExecuteCoroutine(t) \/ InitLock(t) \/ InitVec(t) \/ InitSub(t) \/ InitCheck(t)
              \/ InitExec(t) => c \in Coros
         /\ ExecuteCoroutine(t) =>
              Becomes(c, "running", coro[c].returned, coro[c].exe, coro[c].sub_ptr,
                      coro[c].re_execute)
         /\ InitLock(t) =>
              Becomes(c, coro[c].st, coro[c].returned, TRUE, coro[c].sub_ptr,
                      coro[c].re_execute)
         /\ InitVec(t) \/ InitCheck(t) =>
              Becomes(c, coro[c].st, coro[c].returned, coro[c].exe, coro[c].sub_ptr,
                      coro[c].re_execute)
         /\ InitSub(t) =>
              Becomes(c, coro[c].st, coro[c].returned, coro[c].exe, any_exec[t],
                      coro[c].re_execute)
         /\ InitExec(t) =>
              Becomes(c, coro[c].st, coro[c].returned, coro[c].exe, coro[c].sub_ptr, TRUE)
<1> USE DEF Becomes, coVars
<1>a. coro \in [Coros -> Promise]
  BY DEF Typed, TypeOK, CoroutineTypes
<1>b. pc[t] \in InitPcs \/ (pc[t] = "exec" /\ any_exec[t] = None)
        => c \in Coros /\ coro[c] \in Promise
  BY <1>a DEF Typed, Running
<1>1. ASSUME ExecuteCoroutine(t)
      PROVE  Becomes(c, "running", coro[c].returned, coro[c].exe, coro[c].sub_ptr,
                     coro[c].re_execute)
  BY <1>1, <1>a, <1>b DEF ExecuteCoroutine, Promise
<1>2. ASSUME InitLock(t)
      PROVE  Becomes(c, coro[c].st, coro[c].returned, TRUE, coro[c].sub_ptr,
                     coro[c].re_execute)
  <2>1. CASE coro[c].returned
    <3>1. coro' = [coro EXCEPT ![c].exe = TRUE] /\ pc[t] \in InitPcs
      BY <1>2, <2>1 DEF InitLock, InitPcs
    <3> QED
      BY <3>1, <1>a, <1>b DEF Promise
  <2>2. CASE ~coro[c].returned
    BY <1>2, <2>2, <1>a, <1>b DEF InitLock, InitPcs, Promise
  <2> QED
    BY <2>1, <2>2
<1>3. ASSUME InitVec(t)
      PROVE  Becomes(c, coro[c].st, coro[c].returned, coro[c].exe, coro[c].sub_ptr,
                     coro[c].re_execute)
  BY <1>3, <1>a, <1>b DEF InitVec, InitPcs, Promise
<1>4. ASSUME InitCheck(t)
      PROVE  Becomes(c, coro[c].st, coro[c].returned, coro[c].exe, coro[c].sub_ptr,
                     coro[c].re_execute)
  BY <1>4, <1>a, <1>b DEF InitCheck, InitPcs, Promise
<1>5. ASSUME InitSub(t)
      PROVE  Becomes(c, coro[c].st, coro[c].returned, coro[c].exe, any_exec[t],
                     coro[c].re_execute)
  BY <1>5, <1>a, <1>b DEF InitSub, InitPcs, Promise
<1>6. ASSUME InitExec(t)
      PROVE  Becomes(c, coro[c].st, coro[c].returned, coro[c].exe, coro[c].sub_ptr, TRUE)
  BY <1>6, <1>a, <1>b DEF InitExec, InitPcs, Promise
<1>7. ExecuteCoroutine(t) \/ InitLock(t) \/ InitVec(t) \/ InitSub(t) \/ InitCheck(t)
        \/ InitExec(t) => c \in Coros
  BY <1>b DEF ExecuteCoroutine, InitLock, InitVec, InitSub, InitCheck, InitExec, InitPcs
<1> QED
  BY <1>1, <1>2, <1>3, <1>4, <1>5, <1>6, <1>7

\* The steps of thread t that write to the promise of the coroutine it holds,
\* but for those of the coroutine's body.
Writes(t) == \/ ExecuteCoroutine(t) \/ InitLock(t) \/ InitVec(t) \/ InitSub(t)
             \/ InitCheck(t) \/ InitExec(t)

\* Where they take the thread.
LEMMA WritesMove ==
  ASSUME Typed, NEW t \in Threads, Writes(t)
  PROVE  /\ UNCHANGED <<any_exec, cur>> /\ cur[t] \in Coros
         /\ \A a \in Actors : a # t => pc'[a] = pc[a]
         /\ \/ ExecuteCoroutine(t) /\ pc[t] = "exec" /\ pc'[t] = "body"
            \/ InitLock(t) /\ pc[t] = "init" /\ pc'[t] \in {"init_sub", "init_vec"}
            \/ InitVec(t) /\ pc[t] = "init_vec" /\ pc'[t] = "init_sub"
            \/ InitSub(t) /\ pc[t] = "init_sub" /\ pc'[t] = "init_check"
            \/ InitCheck(t) /\ pc[t] = "init_check" /\ pc'[t] = "init_exec"
            \/ InitExec(t) /\ pc[t] = "init_exec" /\ pc'[t] = "release"
<1>a. pc \in [Actors -> Pcs] /\ t \in Actors
  BY DEF Typed, TypeOK, ThreadTypes, Actors
<1>b. cur[t] \in Coros
  BY ThreadUpdates DEF Writes
<1>c. ASSUME NEW l, pc' = [pc EXCEPT ![t] = l]
      PROVE  pc'[t] = l /\ \A a \in Actors : a # t => pc'[a] = pc[a]
  BY <1>a, <1>c
<1> USE DEF Goto
<1>1. CASE ExecuteCoroutine(t)
  <2>1. pc' = [pc EXCEPT ![t] = "body"] /\ pc[t] = "exec" /\ UNCHANGED <<any_exec, cur>>
    BY <1>1 DEF ExecuteCoroutine
  <2> QED
    BY <1>1, <1>b, <1>c, <2>1
<1>2. CASE InitLock(t)
  <2>1. PICK l \in {"init_sub", "init_vec"} : pc' = [pc EXCEPT ![t] = l]
    BY <1>2 DEF InitLock
  <2>2. pc[t] = "init" /\ UNCHANGED <<any_exec, cur>>
    BY <1>2 DEF InitLock
  <2> QED
    BY <1>2, <1>b, <1>c, <2>1, <2>2
<1>3. CASE InitVec(t)
  <2>1. pc' = [pc EXCEPT ![t] = "init_sub"] /\ pc[t] = "init_vec" /\ UNCHANGED <<any_exec, cur>>
    BY <1>3 DEF InitVec
  <2> QED
    BY <1>3, <1>b, <1>c, <2>1
<1>4. CASE InitSub(t)
  <2>1. pc' = [pc EXCEPT ![t] = "init_check"] /\ pc[t] = "init_sub" /\ UNCHANGED <<any_exec, cur>>
    BY <1>4 DEF InitSub
  <2> QED
    BY <1>4, <1>b, <1>c, <2>1
<1>5. CASE InitCheck(t)
  <2>1. pc' = [pc EXCEPT ![t] = "init_exec"] /\ pc[t] = "init_check" /\ UNCHANGED <<any_exec, cur>>
    BY <1>5 DEF InitCheck
  <2> QED
    BY <1>5, <1>b, <1>c, <2>1
<1>6. CASE InitExec(t)
  <2>1. pc' = [pc EXCEPT ![t] = "release"] /\ pc[t] = "init_exec" /\ UNCHANGED <<any_exec, cur>>
    BY <1>6 DEF InitExec
  <2> QED
    BY <1>6, <1>b, <1>c, <2>1
<1> QED
  BY <1>1, <1>2, <1>3, <1>4, <1>5, <1>6 DEF Writes

\* What they write.
LEMMA WritesKeep ==
  ASSUME Typed, NEW t \in Threads, Writes(t)
  PROVE  /\ \A d \in Coros : d # cur[t] => coro'[d] = coro[d]
         /\ coro'[cur[t]].returned = coro[cur[t]].returned
         /\ coro'[cur[t]].st = IF ExecuteCoroutine(t) THEN "running" ELSE coro[cur[t]].st
         /\ coro[cur[t]].exe \/ InitLock(t) => coro'[cur[t]].exe
         /\ coro'[cur[t]].sub_ptr = IF InitSub(t) THEN any_exec[t] ELSE coro[cur[t]].sub_ptr
<1> DEFINE c == cur[t]
<1>1. CASE ExecuteCoroutine(t)
  <2>1. Becomes(c, "running", coro[c].returned, coro[c].exe, coro[c].sub_ptr,
                coro[c].re_execute)
    BY <1>1, ThreadUpdates
  <2>2. ~InitSub(t) /\ ~InitLock(t)
    BY <1>1 DEF ExecuteCoroutine, InitSub, InitLock
  <2> HIDE DEF c
  <2>3. /\ \A d \in Coros : d # c => coro'[d] = coro[d]
        /\ coro'[c].returned = coro[c].returned /\ coro'[c].st = "running"
        /\ coro'[c].exe = coro[c].exe /\ coro'[c].sub_ptr = coro[c].sub_ptr
    BY <2>1 DEF Becomes
  <2> QED
    BY <1>1, <2>2, <2>3 DEF c
<1>2. CASE InitLock(t)
  <2>1. Becomes(c, coro[c].st, coro[c].returned, TRUE, coro[c].sub_ptr, coro[c].re_execute)
    BY <1>2, ThreadUpdates
  <2>2. ~InitSub(t) /\ ~ExecuteCoroutine(t)
    BY <1>2 DEF ExecuteCoroutine, InitSub, InitLock
  <2> HIDE DEF c
  <2>3. /\ \A d \in Coros : d # c => coro'[d] = coro[d]
        /\ coro'[c].returned = coro[c].returned /\ coro'[c].st = coro[c].st
        /\ coro'[c].exe /\ coro'[c].sub_ptr = coro[c].sub_ptr
    BY <2>1 DEF Becomes
  <2> QED
    BY <1>2, <2>2, <2>3 DEF c
<1>3. CASE InitVec(t) \/ InitCheck(t)
  <2>1. Becomes(c, coro[c].st, coro[c].returned, coro[c].exe, coro[c].sub_ptr,
                coro[c].re_execute)
    BY <1>3, ThreadUpdates
  <2>2. ~InitSub(t) /\ ~ExecuteCoroutine(t) /\ ~InitLock(t)
    BY <1>3 DEF ExecuteCoroutine, InitSub, InitLock, InitVec, InitCheck
  <2> HIDE DEF c
  <2>3. /\ \A d \in Coros : d # c => coro'[d] = coro[d]
        /\ coro'[c].returned = coro[c].returned /\ coro'[c].st = coro[c].st
        /\ coro'[c].exe = coro[c].exe /\ coro'[c].sub_ptr = coro[c].sub_ptr
    BY <2>1 DEF Becomes
  <2> QED
    BY <2>2, <2>3 DEF c
<1>4. CASE InitSub(t)
  <2>1. Becomes(c, coro[c].st, coro[c].returned, coro[c].exe, any_exec[t], coro[c].re_execute)
    BY <1>4, ThreadUpdates
  <2>2. ~InitLock(t) /\ ~ExecuteCoroutine(t)
    BY <1>4 DEF ExecuteCoroutine, InitSub, InitLock
  <2> HIDE DEF c
  <2>3. /\ \A d \in Coros : d # c => coro'[d] = coro[d]
        /\ coro'[c].returned = coro[c].returned /\ coro'[c].st = coro[c].st
        /\ coro'[c].exe = coro[c].exe /\ coro'[c].sub_ptr = any_exec[t]
    BY <2>1 DEF Becomes
  <2> QED
    BY <1>4, <2>2, <2>3 DEF c
<1>5. CASE InitExec(t)
  <2>1. Becomes(c, coro[c].st, coro[c].returned, coro[c].exe, coro[c].sub_ptr, TRUE)
    BY <1>5, ThreadUpdates
  <2>2. ~InitSub(t) /\ ~ExecuteCoroutine(t) /\ ~InitLock(t)
    BY <1>5 DEF ExecuteCoroutine, InitSub, InitLock, InitExec
  <2> HIDE DEF c
  <2>3. /\ \A d \in Coros : d # c => coro'[d] = coro[d]
        /\ coro'[c].returned = coro[c].returned /\ coro'[c].st = coro[c].st
        /\ coro'[c].exe = coro[c].exe /\ coro'[c].sub_ptr = coro[c].sub_ptr
    BY <2>1 DEF Becomes
  <2> QED
    BY <2>2, <2>3 DEF c
<1> QED
  BY <1>1, <1>2, <1>3, <1>4, <1>5 DEF Writes

LEMMA SleepUpdates ==
  ASSUME Typed, NEW c \in Coros, SleepEnds(c)
  PROVE  Becomes(c, IF coro[c].re_execute THEN "queued" ELSE "running", coro[c].returned,
                 coro[c].exe, coro[c].sub_ptr, coro[c].re_execute)
<1>a. coro \in [Coros -> Promise] /\ coro[c] \in Promise
  BY DEF Typed, TypeOK, CoroutineTypes
<1>1. CASE coro[c].re_execute
  <2>1. coro' = [coro EXCEPT ![c].st = "queued"]
    BY <1>1 DEF SleepEnds
  <2> QED
    BY <1>1, <2>1, <1>a DEF Promise, Becomes
<1>2. CASE ~coro[c].re_execute
  BY <1>2, <1>a DEF SleepEnds, Promise, Becomes
<1> QED
  BY <1>1, <1>2

------------------------------------------------------------------------------
(* Who holds a coroutine.                                                   *)

\* A coroutine that a thread or the queue refers to exists.  A thread without
\* an executable, or that takes or runs something else, refers to none; and
\* one thread only has dispatched a coroutine.
Holding ==
  /\ \A a \in Actors : cur[a] # None => coro[cur[a]].st # "unborn"
  /\ \A i \in 1 .. Len(coroutine_queue) : coro[coroutine_queue[i]].st # "unborn"
  /\ \A t \in Threads :
       /\ pc[t] \in EmptyPcs \cup {"register", "dup", "callback"} => cur[t] = None
       /\ pc[t] \in {"got", "exec"} /\ any_exec[t] # None => cur[t] = None
  /\ \A t, u \in Threads :
       /\ any_exec[t] # None /\ any_exec[u] # None
       /\ cur[t] # None /\ cur[t] = cur[u]
       => t = u

\* A step that changes nothing of the coroutines, of who refers to them or of
\* the suspend list, and moves no thread to a place where one matters.
Apart ==
  /\ UNCHANGED <<any_exec, cur, coro, coroutine_queue, suspended>>
  /\ pc' \in [Actors -> Pcs] /\ pc'[Sched] = pc[Sched]
  /\ \A t \in Threads :
       \/ pc'[t] = pc[t]
       \/ pc[t] \in EmptyPcs /\ pc'[t] \in EmptyPcs
       \/ pc[t] = "got" /\ pc'[t] = "exec"
       \/ pc'[t] \in {"notify", "post"}
       \/ cur[t] = None /\ pc'[t] \in {"dup", "callback", "release"}

\* The other steps of thread t, but for those of a coroutine's body.
Touches(t) ==
  \/ GetRestCoroutine(t) \/ GetNextTimer(t) \/ GetNextHandle(t) \/ Register(t)
  \/ Destroy(t) \/ ExecuteCoroutine(t) \/ ExecuteCoSubscription(t) \/ Post(t)
  \/ InitLock(t) \/ InitVec(t) \/ InitSub(t) \/ InitCheck(t) \/ InitExec(t)

LEMMA ApartOrNot ==
  ASSUME Typed, Holding, [Next]_vars
  PROVE  \/ Apart
         \/ \E t \in Threads : Touches(t)
         \/ \E a \in Actors : CoroutineStep(a)
         \/ \E c \in Coros : SleepEnds(c)
<1> USE DEF Apart, EmptyPcs, Goto
<1> USE DEF execVars, lockVars, grpVars, thrVars, envVars, coVars
<1>a. pc \in [Actors -> Pcs] /\ pc' \in [Actors -> Pcs]
  BY TypedKept DEF Typed, TypeOK, ThreadTypes
<1>1. CASE UserStep
  <2>1. CASE Spin
    BY <2>1, <1>a DEF Spin
  <2>2. CASE SpinReturns
    BY <2>2, <1>a DEF SpinReturns
  <2>3. CASE Cancel \/ Shutdown \/ StopTriggers
    BY <2>3, <1>a DEF Cancel, Shutdown, StopTriggers
  <2> QED
    BY <1>1, <2>1, <2>2, <2>3 DEF UserStep
<1>2. CASE Environment
  BY <1>2, <1>a DEF Environment, Arrive, TimerElapses
<1>3. ASSUME NEW t \in Threads, ThreadStep(t)
      PROVE  Apart \/ Touches(t) \/ CoroutineStep(t)
  <2>1. CASE LoopTest(t) \/ Lock(t)
    BY <2>1, <1>a DEF LoopTest, Lock
  <2>2. CASE WaitFree(t) \/ PopFreeThread(t) \/ WaitForWork(t)
    BY <2>2, <1>a DEF WaitFree, PopFreeThread, WaitForWork
  <2>3. CASE RclWait(t) \/ AfterWait(t)
    BY <2>3, <1>a DEF RclWait, AfterWait
  <2>4. CASE Mark(t)
    <3>1. /\ pc[t] = "got" /\ UNCHANGED <<any_exec, cur, coro, coroutine_queue, suspended>>
          /\ pc' = [pc EXCEPT ![t] = IF any_exec[t] \in scheduled_timers THEN "dup" ELSE "exec"]
      BY <2>4 DEF Mark
    <3>2. any_exec[t] \in scheduled_timers => cur[t] = None
      BY <3>1 DEF Typed, TypeOK, ExecutorTypes, Holding
    <3> QED
      BY <3>1, <3>2, <1>a
  <2>5. CASE ExecuteCancelled(t)
    BY <2>5, <1>a DEF ExecuteCancelled
  <2>6. CASE ExecuteTimer(t) \/ TakeFails(t) \/ MessageIgnored(t) \/ ExecuteCallback(t)
    BY <2>6, <1>a DEF ExecuteTimer, TakeFails, MessageIgnored, ExecuteCallback, Holding
  <2>7. CASE CallbackReturns(t)
    BY <2>7, <1>a DEF CallbackReturns, Holding
  <2>8. CASE Release(t) \/ Notify(t)
    BY <2>8, <1>a DEF Release, Notify
  <2> QED
    BY <1>3, <2>1, <2>2, <2>3, <2>4, <2>5, <2>6, <2>7, <2>8 DEF ThreadStep, Touches
<1>4. CASE UNCHANGED vars
  BY <1>4, <1>a DEF vars
<1> QED
  BY <1>1, <1>2, <1>3, <1>4 DEF Next, SchedStep

LEMMA HoldingKept ==
  ASSUME Typed, Holding, [Next]_vars
  PROVE  Holding'
<1> USE DEF Holding, EmptyPcs, ReturnPcs, InitPcs, Goto
<1> USE DEF execVars, lockVars, grpVars, thrVars, envVars, coVars
<1>a. /\ pc \in [Actors -> Pcs] /\ any_exec \in [Actors -> Entities \cup {None}]
      /\ cur \in [Actors -> Coros \cup {None}] /\ coro \in [Coros -> Promise]
      /\ coroutine_queue \in Seq(Coros)
      /\ coro' \in [Coros -> Promise] /\ cur' \in [Actors -> Coros \cup {None}]
      /\ None \notin Coros
  BY TypedKept DEF Typed, TypeOK, ThreadTypes, CoroutineTypes
<1>b. \A i \in 1 .. Len(coroutine_queue) : coroutine_queue[i] \in Coros
  BY <1>a
<1>c. \A t \in Threads : pc[t] \in EmptyPcs => any_exec[t] = None
  BY DEF Typed, Control
<1>1. CASE Apart
  BY <1>1, <1>a DEF Apart
<1>2. ASSUME NEW t \in Threads, GetRestCoroutine(t)
      PROVE  Holding'
  <2>1. CASE coroutine_queue = <<>>
    BY <1>2, <2>1, <1>a DEF GetRestCoroutine
  <2>2. CASE coroutine_queue # <<>>
    <3>1. /\ pc' = [pc EXCEPT ![t] = "got"] /\ pc[t] = "rest"
          /\ cur' = [cur EXCEPT ![t] = coroutine_queue[1]]
          /\ coroutine_queue' = Tail(coroutine_queue)
          /\ UNCHANGED <<any_exec, coro>>
      BY <1>2, <2>2 DEF GetRestCoroutine
    <3>2. 1 \in 1 .. Len(coroutine_queue)
      BY <2>2, <1>a
    <3>3. \A i \in 1 .. Len(coroutine_queue') :
            i + 1 \in 1 .. Len(coroutine_queue) /\ coroutine_queue'[i] = coroutine_queue[i + 1]
      BY <3>1, <2>2, <1>a
    <3> QED
      BY <3>1, <3>2, <3>3, <1>a, <1>c
  <2> QED
    BY <2>1, <2>2
<1>3. ASSUME NEW t \in Threads, GetNextTimer(t) \/ GetNextHandle(t)
      PROVE  Holding'
  <2>1. /\ pc[t] \in {"timer", "handle"} /\ cur[t] = None
        /\ UNCHANGED <<cur, coro, coroutine_queue>>
    BY <1>3 DEF GetNextTimer, GetNextHandle
  <2>2. \A u \in Threads \ {t} : pc'[u] = pc[u] /\ any_exec'[u] = any_exec[u]
    BY <1>3, <1>a DEF GetNextTimer, GetNextHandle
  <2> QED
    BY <2>1, <2>2
<1>4. ASSUME NEW t \in Threads, Register(t) \/ Destroy(t) \/ Post(t)
      PROVE  Holding'
  <2>1. CASE Register(t) \/ Destroy(t)
    BY <2>1, <1>a DEF Register, Destroy
  <2>2. CASE Post(t)
    BY <2>2, <1>a DEF Post
  <2> QED
    BY <1>4, <2>1, <2>2
<1>5. ASSUME NEW t \in Threads, ExecuteCoSubscription(t)
      PROVE  Holding'
  <2>1. PICK c \in Coros :
          /\ coro[c].st = "unborn"
          /\ coro' = [coro EXCEPT ![c] = NewPromise(any_exec[t])]
          /\ cur' = [cur EXCEPT ![t] = c]
    BY <1>5 DEF ExecuteCoSubscription
  <2>2. /\ pc[t] = "exec" /\ pc' = [pc EXCEPT ![t] = "body"]
        /\ UNCHANGED <<any_exec, coroutine_queue>>
    BY <1>5 DEF ExecuteCoSubscription
  <2>3. \A a \in Actors : cur[a] # c
    BY <2>1, <1>a
  <2>4. coro'[c].st # "unborn" /\ \A d \in Coros \ {c} : coro'[d] = coro[d]
    BY <2>1, <1>a DEF NewPromise
  <2>5. \A a \in Actors : cur'[a] # None => coro'[cur'[a]].st # "unborn"
    BY <2>1, <2>4, <1>a
  <2>6. \A i \in 1 .. Len(coroutine_queue) : coro'[coroutine_queue[i]].st # "unborn"
    BY <2>4, <1>a, <1>b
  <2> QED
    BY <2>1, <2>2, <2>3, <2>5, <2>6, <1>a
<1>6. ASSUME NEW t \in Threads,
             \/ ExecuteCoroutine(t) \/ InitLock(t) \/ InitVec(t) \/ InitSub(t)
             \/ InitCheck(t) \/ InitExec(t)
      PROVE  Holding'
  <2>1. /\ pc[t] \in {"exec"} \cup InitPcs
        /\ UNCHANGED <<any_exec, coroutine_queue, cur>>
    BY <1>6 DEF ExecuteCoroutine, InitLock, InitVec, InitSub, InitCheck, InitExec
  <2>2. PICK l \in {"body", "init_sub", "init_vec", "init_check", "init_exec", "release"} :
          pc' = [pc EXCEPT ![t] = l]
    BY <1>6 DEF ExecuteCoroutine, InitLock, InitVec, InitSub, InitCheck, InitExec
  <2>3. \A c \in Coros : coro[c].st # "unborn" => coro'[c].st # "unborn"
    <3>1. \A d \in Coros \ {cur[t]} : coro'[d] = coro[d]
      BY <1>6, WritesKeep DEF Writes
    <3>2. coro'[cur[t]].st \in {coro[cur[t]].st, "running"}
      BY <1>6, WritesKeep DEF Writes
    <3> QED
      BY <3>1, <3>2
  <2> QED
    BY <2>1, <2>2, <2>3, <1>a, <1>b
<1>7. ASSUME NEW a \in Actors, CoroutineStep(a)
      PROVE  Holding'
  <2>1. /\ pc[a] \in {"body"} \cup ReturnPcs
        /\ UNCHANGED <<any_exec, coroutine_queue>>
    BY <1>7 DEF CoroutineStep, Await, BodyThrows, ReturnValue, ReturnLock, ReturnVec
  <2>2. PICK l \in {"asleep", "ret_lock", "ret_vec", "release", "init"} :
          pc' = [pc EXCEPT ![a] = l]
    BY <1>7 DEF CoroutineStep, Await, BodyThrows, ReturnValue, ReturnLock, ReturnVec,
                Leave, AfterSegment
  <2>3. cur' = cur \/ cur' = [cur EXCEPT ![a] = None]
    BY <1>7 DEF CoroutineStep, Await, BodyThrows, ReturnValue, ReturnLock, ReturnVec, Leave
  <2>4. \A c \in Coros : coro[c].st # "unborn" => coro'[c].st # "unborn"
    <3> DEFINE b == cur[a]
    <3>0. PICK st, returned, exe, sub_ptr, re_execute :
            /\ Becomes(b, st, returned, exe, sub_ptr, re_execute)
            /\ st \in {coro[b].st, "sleeping", "failed", "done"}
      BY <1>7, BodyUpdates DEF CoroutineStep
    <3> HIDE DEF b
    <3>1. \A d \in Coros \ {b} : coro'[d] = coro[d]
      BY <3>0 DEF Becomes
    <3>2. coro'[b].st \in {coro[b].st, "sleeping", "failed", "done"}
      BY <3>0 DEF Becomes
    <3> QED
      BY <3>1, <3>2
  <2>5. \A u \in Actors : cur'[u] # None => cur'[u] = cur[u]
    BY <2>3, <1>a
  <2> QED
    BY <2>1, <2>2, <2>4, <2>5, <1>a, <1>b
<1>8. ASSUME NEW c \in Coros, SleepEnds(c)
      PROVE  Holding'
  <2>1. \A d \in Coros : coro[d].st # "unborn" => coro'[d].st # "unborn"
    BY <1>8, SleepUpdates DEF Becomes
  <2>2. coro[c].st = "sleeping" /\ any_exec' = any_exec
    BY <1>8 DEF SleepEnds
  <2>3. CASE coro[c].re_execute
    <3>1. coroutine_queue' = Append(coroutine_queue, c) /\ UNCHANGED <<pc, cur>>
      BY <1>8, <2>3 DEF SleepEnds
    <3>2. \A i \in 1 .. Len(coroutine_queue') :
            \/ i \in 1 .. Len(coroutine_queue) /\ coroutine_queue'[i] = coroutine_queue[i]
            \/ coroutine_queue'[i] = c
      BY <3>1, <1>a
    <3> QED
      BY <2>1, <2>2, <3>1, <3>2, <1>a, <1>b
  <2>4. CASE ~coro[c].re_execute
    <3>1. /\ cur' = [cur EXCEPT ![Sched] = c] /\ pc' = [pc EXCEPT ![Sched] = "body"]
          /\ coroutine_queue' = coroutine_queue
      BY <1>8, <2>4 DEF SleepEnds
    <3> QED
      BY <2>1, <2>2, <3>1, <1>a, <1>b
  <2> QED
    BY <2>3, <2>4
<1> QED
  BY <1>1, <1>2, <1>3, <1>4, <1>5, <1>6, <1>7, <1>8, ApartOrNot DEF Touches

------------------------------------------------------------------------------
(* promise_executor_init against return_value.                              *)

\* A coroutine that is done has stored has_returned; what the thread that
\* dispatched it has written in promise_executor_init stays.
Linking ==
  /\ \A c \in Coros : coro[c].st = "done" => coro[c].returned
  /\ \A a \in Actors : pc[a] \in ReturnPcs => coro[cur[a]].returned
  /\ \A t \in Threads :
       any_exec[t] \in CoSubs /\ cur[t] # None =>
         /\ pc[t] \in (InitPcs \ {"init"}) \cup {"release"} => coro[cur[t]].exe
         /\ pc[t] \in {"init_check", "init_exec", "release"}
              => coro[cur[t]].sub_ptr = any_exec[t]

LEMMA LinkingKept ==
  ASSUME Typed, Holding, Linking, [Next]_vars
  PROVE  Linking'
<1> USE DEF Linking, ReturnPcs, InitPcs, Goto
<1> USE DEF execVars, lockVars, grpVars, thrVars, envVars, coVars
<1>a. /\ pc \in [Actors -> Pcs] /\ any_exec \in [Actors -> Entities \cup {None}]
      /\ cur \in [Actors -> Coros \cup {None}] /\ coro \in [Coros -> Promise]
      /\ coro' \in [Coros -> Promise] /\ cur' \in [Actors -> Coros \cup {None}]
      /\ None \notin Coros
  BY TypedKept DEF Typed, TypeOK, ThreadTypes, CoroutineTypes
<1>1. CASE Apart
  BY <1>1, <1>a DEF Apart, EmptyPcs
<1>2. ASSUME NEW t \in Threads, GetRestCoroutine(t)
      PROVE  Linking'
  <2>1. coro' = coro /\ any_exec' = any_exec
    BY <1>2 DEF GetRestCoroutine
  <2>2. \A a \in Actors \ {t} : pc'[a] = pc[a] /\ cur'[a] = cur[a]
    BY <1>2, <1>a DEF GetRestCoroutine
  <2>3. pc'[t] \in {"got", "timer"}
    BY <1>2, <1>a DEF GetRestCoroutine
  <2> QED
    BY <2>1, <2>2, <2>3
<1>3. ASSUME NEW t \in Threads, GetNextTimer(t) \/ GetNextHandle(t)
      PROVE  Linking'
  <2>1. coro' = coro /\ cur' = cur
    BY <1>3 DEF GetNextTimer, GetNextHandle
  <2>2. \A a \in Actors \ {t} : pc'[a] = pc[a] /\ any_exec'[a] = any_exec[a]
    BY <1>3, <1>a DEF GetNextTimer, GetNextHandle
  <2>3. pc'[t] \in {"got", "handle", "register", "wait", "loop"}
    BY <1>3, <1>a DEF GetNextTimer, GetNextHandle
  <2> QED
    BY <2>1, <2>2, <2>3
<1>4. ASSUME NEW t \in Threads, Register(t) \/ Destroy(t) \/ Post(t)
      PROVE  Linking'
  BY <1>4, <1>a DEF Register, Destroy, Post
<1>5. ASSUME NEW t \in Threads, ExecuteCoSubscription(t)
      PROVE  Linking'
  <2>1. PICK c \in Coros :
          /\ coro[c].st = "unborn"
          /\ coro' = [coro EXCEPT ![c] = NewPromise(any_exec[t])]
          /\ cur' = [cur EXCEPT ![t] = c]
    BY <1>5 DEF ExecuteCoSubscription
  <2>2. pc' = [pc EXCEPT ![t] = "body"] /\ any_exec' = any_exec
    BY <1>5 DEF ExecuteCoSubscription
  <2>3. \A a \in Actors : cur[a] # c
    BY <2>1, <1>a DEF Holding
  <2>4. coro'[c].st = "running" /\ \A d \in Coros \ {c} : coro'[d] = coro[d]
    BY <2>1, <1>a DEF NewPromise
  <2>5. \A a \in Actors : pc[a] \in ReturnPcs => cur[a] \in Coros
    BY DEF Typed, Running
  <2> QED
    BY <2>1, <2>2, <2>3, <2>4, <2>5, <1>a
<1>6. ASSUME NEW t \in Threads,
             \/ ExecuteCoroutine(t) \/ InitLock(t) \/ InitVec(t) \/ InitSub(t)
             \/ InitCheck(t) \/ InitExec(t)
      PROVE  Linking'
  <2> DEFINE c == cur[t]
  <2>0. any_exec' = any_exec /\ cur' = cur /\ c \in Coros
    BY <1>6, ThreadUpdates DEF ExecuteCoroutine, InitLock, InitVec, InitSub, InitCheck, InitExec
  <2>1. ASSUME NEW u \in Threads, u # t, any_exec[u] # None, any_exec[t] # None
        PROVE  cur[u] # c
    BY <2>0, <2>1, <1>a DEF Holding
  <2>2. \A u \in Actors \ {t} : pc'[u] = pc[u]
    BY <1>6, WritesMove DEF Writes
  <2>3. /\ pc'[t] \in (InitPcs \ {"init"}) \cup {"release"} => coro'[c].exe
        /\ pc'[t] \in {"init_check", "init_exec", "release"}
             => coro'[c].sub_ptr = any_exec[t]
        /\ pc'[t] \notin ReturnPcs
    <3>1. CASE ExecuteCoroutine(t)
      BY <3>1, <1>a DEF ExecuteCoroutine
    <3>2. CASE ~ExecuteCoroutine(t)
      <4>1. /\ pc'[t] \in (InitPcs \ {"init"}) \cup {"release"}
            /\ pc[t] \in InitPcs /\ (pc[t] = "init" => InitLock(t))
            /\ pc'[t] \in {"init_check", "init_exec", "release"}
                 => InitSub(t) \/ pc[t] \in {"init_check", "init_exec"}
        BY <1>6, <3>2, WritesMove DEF Writes
      <4>2. any_exec[t] \in CoSubs
        BY <4>1 DEF Typed, Control
      <4>3. /\ pc[t] # "init" => coro[c].exe
            /\ pc[t] \in {"init_check", "init_exec"} => coro[c].sub_ptr = any_exec[t]
        BY <4>1, <4>2, <2>0, <1>a
      <4>4. /\ coro[c].exe \/ InitLock(t) => coro'[c].exe
            /\ coro'[c].sub_ptr = IF InitSub(t) THEN any_exec[t] ELSE coro[c].sub_ptr
        BY <1>6, WritesKeep DEF Writes
      <4> QED
        BY <4>1, <4>3, <4>4
    <3> QED
      BY <3>1, <3>2
  <2>4. /\ \A d \in Coros \ {c} : coro'[d] = coro[d]
        /\ coro'[c].returned = coro[c].returned
        /\ coro'[c].st = "done" => coro[c].st = "done"
        /\ coro[c].exe => coro'[c].exe
        /\ any_exec[t] = None => coro'[c].sub_ptr = coro[c].sub_ptr
    <3>1. any_exec[t] = None => ~InitSub(t)
      BY EntitiesAssumption DEF InitSub, Typed, Control, Entities, Handled
    <3> QED
      BY <1>6, <3>1, WritesKeep DEF Writes
  <2>5. \A d \in Coros : coro'[d].st = "done" => coro'[d].returned
    BY <2>4
  <2>6. \A u \in Actors : pc'[u] \in ReturnPcs => coro'[cur'[u]].returned
    <3> SUFFICES ASSUME NEW u \in Actors, pc'[u] \in ReturnPcs
                 PROVE  coro'[cur'[u]].returned
      OBVIOUS
    <3>1. pc[u] \in ReturnPcs /\ cur'[u] = cur[u] /\ cur[u] \in Coros
      BY <2>0, <2>2, <2>3 DEF Typed, Running
    <3> QED
      BY <2>4, <3>1
  <2>7. ASSUME NEW u \in Threads, any_exec'[u] \in CoSubs, cur'[u] # None
        PROVE  /\ pc'[u] \in (InitPcs \ {"init"}) \cup {"release"} => coro'[cur'[u]].exe
               /\ pc'[u] \in {"init_check", "init_exec", "release"}
                    => coro'[cur'[u]].sub_ptr = any_exec'[u]
    <3>1. CASE u = t
      BY <2>0, <2>3, <3>1
    <3>2. CASE u # t
      <4>1. /\ pc'[u] = pc[u] /\ cur'[u] = cur[u] /\ cur[u] \in Coros
            /\ any_exec[u] # None /\ any_exec'[u] = any_exec[u]
        BY <2>0, <2>2, <2>7, <3>2, <1>a
      <4>2. cur[u] # c \/ coro'[c].sub_ptr = coro[c].sub_ptr
        BY <2>1, <2>4, <3>2, <4>1
      <4> QED
        BY <2>0, <2>4, <2>7, <4>1, <4>2
    <3> QED
      BY <3>1, <3>2
  <2> QED
    BY <2>5, <2>6, <2>7
<1>7. ASSUME NEW a \in Actors, CoroutineStep(a)
      PROVE  Linking'
  <2> DEFINE c == cur[a]
  <2>1. /\ pc[a] \in {"body"} \cup ReturnPcs /\ c \in Coros
        /\ UNCHANGED <<any_exec, coroutine_queue>>
    BY <1>7, BodyUpdates
       DEF CoroutineStep, Await, BodyThrows, ReturnValue, ReturnLock, ReturnVec
  <2>2. cur' = cur \/ (a = Sched /\ cur' = [cur EXCEPT ![a] = None])
    BY <1>7 DEF CoroutineStep, Await, BodyThrows, ReturnValue, ReturnLock, ReturnVec, Leave
  <2>3. \A u \in Actors \ {a} : pc'[u] = pc[u]
    BY <1>7, <1>a DEF CoroutineStep, Await, BodyThrows, ReturnValue, ReturnLock, ReturnVec,
                      Leave, AfterSegment
  <2>4. \/ pc'[a] \in ReturnPcs /\ cur' = cur
        \/ pc'[a] \in {"asleep", "init"}
        \/ pc'[a] = "release" /\ any_exec[a] = None
    BY <1>7, <1>a DEF CoroutineStep, Await, BodyThrows, ReturnValue, ReturnLock, ReturnVec,
                      Leave, AfterSegment
  <2>5. /\ \A d \in Coros \ {c} : coro'[d] = coro[d]
        /\ coro'[c].exe = coro[c].exe /\ coro'[c].sub_ptr = coro[c].sub_ptr
        /\ coro[c].returned => coro'[c].returned
        /\ pc'[a] \in ReturnPcs => coro'[c].returned
        /\ coro'[c].st = "done" => coro'[c].returned
    <3>1. CASE Await(a) \/ BodyThrows(a)
      <4>1. pc'[a] \notin ReturnPcs
        BY <3>1, <1>a DEF Await, BodyThrows, Leave, AfterSegment
      <4> QED
        BY <3>1, <4>1, BodyUpdates DEF Becomes
    <3>2. CASE ReturnValue(a)
      BY <3>2, BodyUpdates DEF Becomes
    <3>3. CASE ReturnLock(a) \/ ReturnVec(a)
      <4>1. coro[c].returned
        BY <3>3 DEF ReturnLock, ReturnVec
      <4> QED
        BY <3>3, <4>1, BodyUpdates DEF Becomes
    <3> QED
      BY <1>7, <3>1, <3>2, <3>3 DEF CoroutineStep
  <2>6. \A d \in Coros : coro'[d].st = "done" => coro'[d].returned
    BY <2>5
  <2>7. \A u \in Actors : pc'[u] \in ReturnPcs => coro'[cur'[u]].returned
    <3> SUFFICES ASSUME NEW u \in Actors, pc'[u] \in ReturnPcs
                 PROVE  coro'[cur'[u]].returned
      OBVIOUS
    <3>1. CASE u = a
      BY <2>4, <2>5, <3>1
    <3>2. CASE u # a
      <4>1. pc[u] \in ReturnPcs /\ cur'[u] = cur[u] /\ cur[u] \in Coros
        BY <2>2, <2>3, <3>2, <1>a DEF Typed, Running
      <4> QED
        BY <2>5, <4>1
    <3> QED
      BY <3>1, <3>2
  <2>8. ASSUME NEW u \in Threads, any_exec'[u] \in CoSubs, cur'[u] # None
        PROVE  /\ pc'[u] \in (InitPcs \ {"init"}) \cup {"release"} => coro'[cur'[u]].exe
               /\ pc'[u] \in {"init_check", "init_exec", "release"}
                    => coro'[cur'[u]].sub_ptr = any_exec'[u]
    <3>1. CASE u = a
      BY <2>1, <2>4, <2>8, <3>1
    <3>2. CASE u # a
      <4>1. pc'[u] = pc[u] /\ cur'[u] = cur[u] /\ cur[u] \in Coros
        BY <2>2, <2>3, <2>8, <3>2, <1>a
      <4> QED
        BY <2>1, <2>5, <2>8, <4>1
    <3> QED
      BY <3>1, <3>2
  <2> QED
    BY <2>6, <2>7, <2>8
<1>8. ASSUME NEW c \in Coros, SleepEnds(c)
      PROVE  Linking'
  <2>1. Becomes(c, IF coro[c].re_execute THEN "queued" ELSE "running", coro[c].returned,
                coro[c].exe, coro[c].sub_ptr, coro[c].re_execute)
    BY <1>8, SleepUpdates
  <2>2. /\ any_exec' = any_exec /\ pc[Sched] = "asleep" /\ pc'[Sched] \notin ReturnPcs
        /\ \A u \in Threads : pc'[u] = pc[u] /\ cur'[u] = cur[u]
    BY <1>8, <1>a DEF SleepEnds
  <2>3. \A u \in Actors : pc[u] \in ReturnPcs => cur[u] \in Coros
    BY DEF Typed, Running
  <2> QED
    BY <2>1, <2>2, <2>3, <1>a DEF Becomes
<1> QED
  BY <1>1, <1>2, <1>3, <1>4, <1>5, <1>6, <1>7, <1>8, ApartOrNot DEF Touches

\* The thread at init_exec or release looked at has_returned after it had
\* stored sub_node_ptr; the one at ret_vec looked at executer_ptr after it had
\* stored has_returned.  The later of the two erases the subscription, and it
\* is not listed again while its group is closed.
Erasing ==
  \A t \in Threads :
    /\ pc[t] \in {"init_exec", "release"} /\ any_exec[t] \in CoSubs /\ cur[t] # None
    /\ Guarded(GroupOf[any_exec[t]])
    /\ coro[cur[t]].st = "done" \/ \E a \in Actors : pc[a] = "ret_vec" /\ cur[a] = cur[t]
    => suspended[any_exec[t]] = 0

\* A step that lists no subscription and after which no thread is newly past
\* its second look, or its coroutine newly past return_value's, keeps Erasing.
LEMMA ErasingKept ==
  ASSUME Typed, Locking, Marking, Listing, Holding, Linking, Erasing, [Next]_vars
  PROVE  Erasing'
<1> USE DEF Erasing, Guarded, Timerless, ReturnPcs, InitPcs, Goto
<1> USE DEF execVars, lockVars, grpVars, thrVars, envVars, coVars
<1>a. /\ pc \in [Actors -> Pcs] /\ any_exec \in [Actors -> Entities \cup {None}]
      /\ cur \in [Actors -> Coros \cup {None}] /\ coro \in [Coros -> Promise]
      /\ coro' \in [Coros -> Promise] /\ cur' \in [Actors -> Coros \cup {None}]
      /\ pc' \in [Actors -> Pcs]
      /\ suspended \in [CoSubs -> Nat] /\ suspended' \in [CoSubs -> Nat]
      /\ None \notin Coros /\ None \notin CoSubs
  BY TypedKept DEF Typed, TypeOK, ThreadTypes, CoroutineTypes
\* It is enough that the premise of Erasing is not new and that the
\* subscription stays off the list, or that it is erased by the step.
<1>b. SUFFICES ASSUME NEW t \in Threads,
                      pc'[t] \in {"init_exec", "release"}, any_exec'[t] \in CoSubs,
                      cur'[t] # None, Guarded(GroupOf[any_exec'[t]]),
                      \/ coro'[cur'[t]].st = "done"
                      \/ \E a \in Actors : pc'[a] = "ret_vec" /\ cur'[a] = cur'[t]
               PROVE  suspended'[any_exec'[t]] = 0
  OBVIOUS
<1> DEFINE Past == /\ pc[t] \in {"init_exec", "release"} /\ any_exec[t] = any_exec'[t]
                   /\ cur[t] = cur'[t]
           Over == \/ coro[cur[t]].st = "done"
                   \/ \E a \in Actors : pc[a] = "ret_vec" /\ cur[a] = cur[t]
<1>c. Past /\ Over => suspended[any_exec[t]] = 0
  BY <1>b
<1>1. CASE Apart
  <2>1. Past
    BY <1>1, <1>b DEF Apart, EmptyPcs
  <2>2. \A a \in Actors : pc'[a] = "ret_vec" => pc[a] = "ret_vec"
    BY <1>1 DEF Apart, EmptyPcs
  <2> QED
    BY <1>1, <1>b, <1>c, <2>1, <2>2 DEF Apart
<1>2. ASSUME NEW u \in Threads,
             \/ GetRestCoroutine(u) \/ GetNextTimer(u) \/ GetNextHandle(u) \/ Destroy(u)
             \/ Post(u)
      PROVE  suspended'[any_exec'[t]] = 0
  <2>1. coro' = coro /\ suspended' = suspended
    BY <1>2 DEF GetRestCoroutine, GetNextTimer, GetNextHandle, Destroy, Post
  <2>2. /\ pc'[u] \in {"got", "timer", "handle", "register", "wait", "loop"}
        /\ \A a \in Actors \ {u} :
             pc'[a] = pc[a] /\ any_exec'[a] = any_exec[a] /\ cur'[a] = cur[a]
    BY <1>2, <1>a DEF GetRestCoroutine, GetNextTimer, GetNextHandle, Destroy, Post
  <2> QED
    BY <1>b, <1>c, <2>1, <2>2
<1>3. ASSUME NEW u \in Threads, Register(u)
      PROVE  suspended'[any_exec'[t]] = 0
  <2>1. /\ pc[u] = "register" /\ pc' = [pc EXCEPT ![u] = "got"]
        /\ UNCHANGED <<any_exec, cur, coro>>
        /\ suspended' = [suspended EXCEPT ![any_exec[u]] = @ + 1]
    BY <1>3 DEF Register
  <2>2. t # u /\ Past /\ Over
    BY <1>b, <2>1, <1>a
  <2>3. any_exec[u] # any_exec[t]
    <3>1. any_exec[u] \in CoSubs /\ taken_from[GroupOf[any_exec[u]]]
      BY <2>1, <1>a DEF Typed, Control, Marking
    <3>2. Keeps(t, GroupOf[any_exec[t]])
      BY <2>2, <1>b DEF Keeps, HoldPcs, ExecPcs
    <3>3. any_exec[t] \in Entities /\ GroupOf[any_exec[t]] \in Groups
      BY <2>2, <1>b
    <3>4. ~taken_from[GroupOf[any_exec[t]]]
      BY <2>2, <3>2, <3>3, <1>b DEF Marking
    <3> QED
      BY <3>1, <3>4
  <2> QED
    BY <1>c, <2>1, <2>2, <2>3, <1>a, <1>b
<1>4. ASSUME NEW u \in Threads, ExecuteCoSubscription(u)
      PROVE  suspended'[any_exec'[t]] = 0
  <2>1. PICK c \in Coros :
          /\ coro[c].st = "unborn"
          /\ coro' = [coro EXCEPT ![c] = NewPromise(any_exec[u])]
          /\ cur' = [cur EXCEPT ![u] = c]
    BY <1>4 DEF ExecuteCoSubscription
  <2>2. /\ pc' = [pc EXCEPT ![u] = "body"] /\ UNCHANGED <<any_exec, suspended>>
    BY <1>4 DEF ExecuteCoSubscription
  <2>3. Past
    BY <1>b, <2>1, <2>2, <1>a
  <2>4. Over
    <3>1. cur[t] \in Coros /\ cur[t] # c
      BY <2>1, <2>3, <1>a, <1>b DEF Holding
    <3> QED
      BY <1>b, <2>1, <2>2, <2>3, <3>1, <1>a
  <2> QED
    BY <1>c, <2>2, <2>3, <2>4
<1>5. ASSUME NEW u \in Threads,
             ExecuteCoroutine(u) \/ InitLock(u) \/ InitVec(u) \/ InitSub(u) \/ InitExec(u)
      PROVE  suspended'[any_exec'[t]] = 0
  <2>1. /\ UNCHANGED <<any_exec, cur, suspended>>
        /\ \A d \in Coros : coro'[d].st = "done" => coro[d].st = "done"
    <3>1. UNCHANGED suspended
      BY <1>5 DEF ExecuteCoroutine, InitLock, InitVec, InitSub, InitExec
    <3>2. UNCHANGED <<any_exec, cur>>
      BY <1>5, WritesMove DEF Writes
    <3>3. /\ \A d \in Coros : d # cur[u] => coro'[d] = coro[d]
          /\ coro'[cur[u]].st \in {"running", coro[cur[u]].st}
      BY <1>5, WritesKeep DEF Writes
    <3> QED
      BY <3>1, <3>2, <3>3
  <2>2. /\ \A a \in Actors \ {u} : pc'[a] = pc[a]
        /\ pc'[u] \in {"body", "init_vec", "init_sub", "init_check"}
             \/ (pc[u] = "init_exec" /\ pc'[u] = "release")
    <3>1. ~InitCheck(u)
      BY <1>5 DEF ExecuteCoroutine, InitLock, InitVec, InitSub, InitExec, InitCheck
    <3> QED
      BY <1>5, <3>1, WritesMove DEF Writes
  <2> QED
    BY <1>b, <1>c, <2>1, <2>2, <1>a
<1>6. ASSUME NEW u \in Threads, InitCheck(u)
      PROVE  suspended'[any_exec'[t]] = 0
  <2>1. /\ pc[u] = "init_check" /\ pc' = [pc EXCEPT ![u] = "init_exec"]
        /\ UNCHANGED <<any_exec, cur, coro>>
    BY <1>6 DEF InitCheck
  <2>2. Over /\ any_exec'[t] = any_exec[t] /\ cur'[t] = cur[t] /\ cur[t] \in Coros
    BY <1>b, <2>1, <1>a
  <2>3. CASE t = u
    <3>1. coro[cur[t]].returned
      BY <2>2 DEF Linking
    <3>2. coro[cur[t]].sub_ptr = any_exec[t]
      BY <2>1, <2>2, <2>3, <1>b DEF Linking
    <3>3. EraseSuspended(any_exec[t])
      BY <1>6, <2>3, <3>1, <3>2 DEF InitCheck
    <3>4. any_exec[t] \in CoSubs /\ suspended[any_exec[t]] <= 1
      BY <2>2, <1>b DEF Listing
    <3> QED
      BY <2>2, <3>3, <3>4, <1>a DEF EraseSuspended
  <2>4. CASE t # u
    <3>1. suspended[any_exec[t]] = 0
      BY <1>b, <1>c, <2>1, <2>2, <2>4, <1>a
    <3>2. suspended'[any_exec[t]] <= suspended[any_exec[t]]
      BY <1>6, <2>2, <1>a, <1>b DEF InitCheck, EraseSuspended
    <3> QED
      BY <2>2, <3>1, <3>2, <1>a, <1>b
  <2> QED
    BY <2>3, <2>4
<1>7. ASSUME NEW a \in Actors, CoroutineStep(a)
      PROVE  suspended'[any_exec'[t]] = 0
  <2> DEFINE c == cur[a]
  <2>1. pc[a] \in {"body"} \cup ReturnPcs /\ c \in Coros /\ any_exec' = any_exec
    BY <1>7, BodyUpdates
       DEF CoroutineStep, Await, BodyThrows, ReturnValue, ReturnLock, ReturnVec
  <2>2. cur' = cur \/ (a = Sched /\ cur' = [cur EXCEPT ![a] = None])
    BY <1>7 DEF CoroutineStep, Await, BodyThrows, ReturnValue, ReturnLock, ReturnVec, Leave
  <2>3. \A u \in Actors \ {a} : pc'[u] = pc[u]
    BY <1>7, <1>a DEF CoroutineStep, Await, BodyThrows, ReturnValue, ReturnLock, ReturnVec,
                      Leave, AfterSegment
  <2>4. pc'[a] \in {"init_exec", "release"} => any_exec[a] = None
    BY <1>7, <1>a DEF CoroutineStep, Await, BodyThrows, ReturnValue, ReturnLock, ReturnVec,
                      Leave, AfterSegment
  <2>5. t # a /\ Past /\ cur[t] \in Coros
    BY <1>b, <2>1, <2>2, <2>3, <2>4, <1>a
  <2>6. coro[cur[t]].exe /\ coro[cur[t]].sub_ptr = any_exec[t]
    BY <2>5, <1>b DEF Linking
  <2>7. /\ \A d \in Coros \ {c} : coro'[d] = coro[d]
        /\ coro'[c].st \in {"sleeping", "failed", coro[c].st} \/ ReturnLock(a) \/ ReturnVec(a)
    BY <1>7, BodyUpdates DEF CoroutineStep, Becomes
  <2>8. CASE Await(a) \/ BodyThrows(a) \/ ReturnValue(a) \/ ReturnVec(a)
    <3>1. suspended' = suspended /\ pc'[a] # "ret_vec"
      BY <2>8, <1>a DEF Await, BodyThrows, ReturnValue, ReturnVec, Leave, AfterSegment
    <3>2. Over
      <4>1. CASE \E b \in Actors : pc'[b] = "ret_vec" /\ cur'[b] = cur'[t]
        BY <4>1, <2>2, <2>3, <2>5, <3>1, <1>a
      <4>2. CASE coro'[cur'[t]].st = "done" /\ coro[cur[t]].st # "done"
        <5>1. cur[t] = c /\ ReturnVec(a)
          BY <2>1, <2>5, <2>8, <2>7, <4>2 DEF ReturnLock, Await, BodyThrows, ReturnValue, ReturnPcs
        <5>2. pc[a] = "ret_vec"
          BY <5>1 DEF ReturnVec
        <5> QED
          BY <5>1, <5>2
      <4> QED
        BY <4>1, <4>2, <1>b
    <3> QED
      BY <1>c, <2>5, <3>1, <3>2
  <2>9. CASE ReturnLock(a)
    <3>1. CASE coro[c].exe
      <4>1. suspended'[any_exec[t]] <= suspended[any_exec[t]]
        <5>1. EraseSuspended(coro[c].sub_ptr) /\ coro[c].sub_ptr \in CoSubs \cup {None}
          BY <2>1, <2>9, <3>1, <1>a DEF ReturnLock, Promise
        <5> QED
          BY <5>1, <2>5, <1>a, <1>b DEF EraseSuspended
      <4>2. CASE cur[t] = c
        <5>1. EraseSuspended(any_exec[t])
          BY <2>6, <2>9, <3>1, <4>2 DEF ReturnLock
        <5>2. any_exec[t] \in CoSubs /\ suspended[any_exec[t]] <= 1
          BY <2>5, <1>b DEF Listing
        <5> QED
          BY <2>5, <5>1, <5>2, <1>a DEF EraseSuspended
      <4>3. CASE cur[t] # c
        <5>1. coro'[cur[t]] = coro[cur[t]] /\ cur' = cur
          BY <2>5, <2>9, <2>7, <3>1, <4>3 DEF ReturnLock
        <5>2. Over
          BY <1>b, <2>3, <2>5, <4>3, <5>1
        <5>3. suspended[any_exec[t]] = 0
          BY <1>c, <2>5, <5>2
        <5> QED
          BY <2>5, <4>1, <5>3, <1>a, <1>b
      <4> QED
        BY <4>2, <4>3
    <3>2. CASE ~coro[c].exe
      <4>1. suspended' = suspended /\ pc'[a] # "ret_vec" /\ cur[t] # c
        BY <2>6, <2>9, <3>2, <1>a DEF ReturnLock, Leave, AfterSegment
      <4>2. coro'[cur[t]] = coro[cur[t]]
        BY <2>5, <2>7, <4>1
      <4>3. Over
        BY <1>b, <2>2, <2>3, <2>5, <4>1, <4>2, <1>a
      <4> QED
        BY <1>c, <2>5, <4>1, <4>3
    <3> QED
      BY <3>1, <3>2
  <2> QED
    BY <1>7, <2>8, <2>9 DEF CoroutineStep
<1>8. ASSUME NEW c \in Coros, SleepEnds(c)
      PROVE  suspended'[any_exec'[t]] = 0
  <2>1. \A d \in Coros : coro'[d].st = "done" => coro[d].st = "done"
    BY <1>8, SleepUpdates DEF Becomes
  <2>2. /\ UNCHANGED <<any_exec, suspended>> /\ pc'[Sched] # "ret_vec"
        /\ \A u \in Threads : pc'[u] = pc[u] /\ cur'[u] = cur[u]
    BY <1>8, <1>a DEF SleepEnds
  <2> QED
    BY <1>b, <1>c, <2>1, <2>2, <1>a
<1> QED
  BY <1>1, <1>2, <1>3, <1>4, <1>5, <1>6, <1>7, <1>8, ApartOrNot DEF Touches

------------------------------------------------------------------------------
(* One coroutine per subscription, while no sleep ends before               *)
(* promise_executor_init does.                                              *)

RunPcs == {"body"} \cup ReturnPcs

\* Thread t runs the body of coroutine c, or has taken c from the queue.
Runs(t, c)    == pc[t] \in RunPcs /\ cur[t] = c
Resumes(t, c) == pc[t] \in {"got", "exec"} /\ any_exec[t] = None /\ cur[t] = c

Queued(c) == \E i \in 1 .. Len(coroutine_queue) : coroutine_queue[i] = c
Once(c)   == \A i, j \in 1 .. Len(coroutine_queue) :
               coroutine_queue[i] = c /\ coroutine_queue[j] = c => i = j

\* A coroutine is in one place: it runs on one thread, or it sleeps, or it is
\* once in the queue, or one thread has taken it from there.
Alone(c) ==
  /\ \A t \in Threads :
       Runs(t, c) => coro[c].st = "running" /\ (pc[t] = "body" => ~coro[c].returned)
  /\ \A t, u \in Threads : Runs(t, c) /\ Runs(u, c) => t = u
  /\ \A t \in Threads : Resumes(t, c) => coro[c].st = "queued" /\ ~Queued(c)
  /\ \A t, u \in Threads : Resumes(t, c) /\ Resumes(u, c) => t = u
  /\ Queued(c) => coro[c].st = "queued"
  /\ Once(c)
  /\ coro[c].st \in {"sleeping", "queued"} => ~coro[c].returned

\* The Scheduler's thread runs only coroutines whose sleep ended too early.
Passing ==
  /\ pc[Sched] # "asleep" => cur[Sched] \in Coros /\ coro[cur[Sched]].early
  /\ \A c \in Coros : coro[c].st = "unborn" => ~coro[c].early
  /\ \A c \in Coros : ~coro[c].early => Alone(c)

\* A step that leaves coroutine c alone.
LEMMA StaysAlone ==
  ASSUME NEW c \in Coros, Alone(c),
         coro'[c].st = coro[c].st, coro'[c].returned = coro[c].returned,
         \A u \in Threads : Runs(u, c)' => Runs(u, c) /\ (pc'[u] = "body" => pc[u] = "body"),
         \A u \in Threads : Resumes(u, c)' => Resumes(u, c),
         Queued(c)' => Queued(c), Once(c)'
  PROVE  Alone(c)'
  BY DEF Alone

\* What a coroutine was created for, and an early end of a sleep, are not
\* forgotten.
LEMMA EarlyStays ==
  ASSUME Typed, NEW a \in Actors, CoroutineStep(a) \/ (a \in Threads /\ Writes(a)),
         NEW d \in Coros
  PROVE  coro'[d].early = coro[d].early /\ coro'[d].sub = coro[d].sub
<1>a. coro \in [Coros -> Promise] /\ coro[d] \in Promise
  BY DEF Typed, TypeOK, CoroutineTypes
<1> DEFINE Goal == coro'[d].early = coro[d].early /\ coro'[d].sub = coro[d].sub
<1>1. Await(a) \/ BodyThrows(a) \/ ReturnValue(a) => Goal
  BY <1>a DEF Await, BodyThrows, ReturnValue, Promise
<1>2. ReturnLock(a) => Goal
  BY <1>a DEF ReturnLock, Promise
<1>3. ReturnVec(a) => Goal
  BY <1>a DEF ReturnVec, Promise
<1>4. ExecuteCoroutine(a) \/ InitSub(a) \/ InitExec(a) => Goal
  BY <1>a DEF ExecuteCoroutine, InitSub, InitExec, Promise
<1>5. InitLock(a) => Goal
  BY <1>a DEF InitLock, Promise
<1>6. InitVec(a) => Goal
  BY <1>a DEF InitVec, Promise
<1>7. InitCheck(a) => Goal
  BY DEF InitCheck
<1> QED
  BY <1>1, <1>2, <1>3, <1>4, <1>5, <1>6, <1>7 DEF CoroutineStep, Writes

\* An end of a sleep that is not early.
LEMMA SleepEarly ==
  ASSUME Typed, NEW c \in Coros, SleepEnds(c)
  PROVE  /\ coro'[c].early = (coro[c].early \/ ~coro[c].re_execute)
         /\ \A d \in Coros \ {c} : coro'[d] = coro[d]
         /\ \A d \in Coros : coro'[d].sub = coro[d].sub
<1>a. coro \in [Coros -> Promise] /\ coro[c] \in Promise
  BY DEF Typed, TypeOK, CoroutineTypes
<1>1. CASE coro[c].re_execute
  <2>1. coro' = [coro EXCEPT ![c].st = "queued"]
    BY <1>1 DEF SleepEnds
  <2> QED
    BY <1>1, <2>1, <1>a DEF Promise
<1>2. CASE ~coro[c].re_execute
  <2>1. coro' = [coro EXCEPT ![c].st = "running", ![c].early = TRUE]
    BY <1>2 DEF SleepEnds
  <2> QED
    BY <1>2, <2>1, <1>a DEF Promise
<1> QED
  BY <1>1, <1>2

\* Where a step of the body of a coroutine takes the actor that runs it.
LEMMA BodyMoves ==
  ASSUME Typed, NEW a \in Actors, CoroutineStep(a)
  PROVE  /\ pc[a] \in RunPcs /\ cur[a] \in Coros /\ UNCHANGED <<any_exec, coroutine_queue>>
         /\ \A u \in Actors \ {a} : pc'[u] = pc[u] /\ cur'[u] = cur[u]
         /\ a \in Threads =>
              /\ cur'[a] = cur[a]
              /\ \/ pc'[a] = "ret_lock" /\ pc[a] = "body" /\ ReturnValue(a)
                 \/ pc'[a] = "ret_vec" /\ ReturnLock(a) /\ coro[cur[a]].exe
                 \/ pc'[a] = "init" /\ any_exec[a] # None
                 \/ pc'[a] = "release"
         /\ a = Sched =>
              \/ cur'[a] = cur[a]
              \/ pc'[a] = "asleep"
<1> USE DEF Goto
<1>a. /\ pc \in [Actors -> Pcs] /\ cur \in [Actors -> Coros \cup {None}] /\ Sched \notin Threads
      /\ a \in Threads \/ a = Sched
  BY DEF Typed, TypeOK, ThreadTypes
<1>1. /\ pc[a] \in RunPcs /\ UNCHANGED <<any_exec, coroutine_queue>>
  BY DEF CoroutineStep, Await, BodyThrows, ReturnValue, ReturnLock, ReturnVec, RunPcs, ReturnPcs
<1>2. cur[a] \in Coros
  BY BodyUpdates
<1>3. ASSUME Leave(a)
      PROVE  /\ \A u \in Actors \ {a} : pc'[u] = pc[u] /\ cur'[u] = cur[u]
             /\ a \in Threads =>
                  /\ cur'[a] = cur[a]
                  /\ \/ pc'[a] = "init" /\ any_exec[a] # None
                     \/ pc'[a] = "release"
             /\ a = Sched => pc'[a] = "asleep"
  BY <1>3, <1>a DEF Leave, AfterSegment
<1>4. CASE Await(a) \/ BodyThrows(a) \/ ReturnVec(a)
  <2>1. Leave(a)
    BY <1>4 DEF Await, BodyThrows, ReturnVec
  <2> QED
    BY <1>1, <1>2, <1>3, <2>1
<1>5. CASE ReturnValue(a)
  <2>1. pc[a] = "body" /\ pc' = [pc EXCEPT ![a] = "ret_lock"] /\ cur' = cur
    BY <1>5 DEF ReturnValue
  <2> QED
    BY <1>1, <1>2, <1>5, <1>a, <2>1
<1>6. CASE ReturnLock(a)
  <2>1. CASE coro[cur[a]].exe
    <3>1. pc' = [pc EXCEPT ![a] = "ret_vec"] /\ cur' = cur
      BY <1>6, <2>1 DEF ReturnLock
    <3> QED
      BY <1>1, <1>2, <1>6, <1>a, <2>1, <3>1
  <2>2. CASE ~coro[cur[a]].exe
    <3>1. Leave(a)
      BY <1>6, <2>2 DEF ReturnLock
    <3> QED
      BY <1>1, <1>2, <1>3, <3>1
  <2> QED
    BY <2>1, <2>2
<1> QED
  BY <1>4, <1>5, <1>6 DEF CoroutineStep

\* Who had no early end of a sleep after a step had none before.
LEMMA WasNotEarly ==
  ASSUME Typed, Holding, Passing, [Next]_vars
  PROVE  /\ \A d \in Coros : ~coro'[d].early => ~coro[d].early
         /\ pc'[Sched] # "asleep" => cur'[Sched] \in Coros /\ coro'[cur'[Sched]].early
         /\ \A d \in Coros : coro'[d].st = "unborn" => ~coro'[d].early
<1> USE DEF execVars, lockVars, grpVars, thrVars, envVars, coVars
<1> DEFINE Goal == /\ \A d \in Coros : ~coro'[d].early => ~coro[d].early
                   /\ pc'[Sched] # "asleep" => cur'[Sched] \in Coros /\ coro'[cur'[Sched]].early
                   /\ \A d \in Coros : coro'[d].st = "unborn" => ~coro'[d].early
<1>a. /\ pc \in [Actors -> Pcs] /\ cur \in [Actors -> Coros \cup {None}]
      /\ coro \in [Coros -> Promise] /\ Sched \in Actors /\ Sched \notin Threads
  BY DEF Typed, TypeOK, ThreadTypes, CoroutineTypes
<1>b. pc[Sched] # "asleep" => cur[Sched] \in Coros /\ coro[cur[Sched]].early
  BY DEF Passing
<1>c. \A d \in Coros : coro[d].st = "unborn" => ~coro[d].early
  BY DEF Passing
<1>1. CASE Apart
  BY <1>1, <1>b, <1>c DEF Apart
<1>2. ASSUME NEW t \in Threads,
             \/ GetRestCoroutine(t) \/ GetNextTimer(t) \/ GetNextHandle(t)
             \/ Register(t) \/ Destroy(t) \/ Post(t)
      PROVE  Goal
  <2>1. coro' = coro
    BY <1>2 DEF GetRestCoroutine, GetNextTimer, GetNextHandle, Register, Destroy, Post
  <2>2. pc'[Sched] = pc[Sched] /\ cur'[Sched] = cur[Sched]
    BY <1>2, <1>a DEF GetRestCoroutine, GetNextTimer, GetNextHandle, Register, Destroy, Post, Goto
  <2> QED
    BY <2>1, <2>2, <1>b, <1>c
<1>3. ASSUME NEW t \in Threads, ExecuteCoSubscription(t)
      PROVE  Goal
  <2>1. PICK c \in Coros :
          /\ coro[c].st = "unborn"
          /\ coro' = [coro EXCEPT ![c] = NewPromise(any_exec[t])]
          /\ cur' = [cur EXCEPT ![t] = c]
    BY <1>3 DEF ExecuteCoSubscription
  <2>2. coro'[c].st = "running" /\ ~coro'[c].early /\ \A e \in Coros \ {c} : coro'[e] = coro[e]
    BY <2>1, <1>a DEF NewPromise
  <2>3. pc'[Sched] = pc[Sched] /\ cur'[Sched] = cur[Sched] /\ cur[Sched] # c
    BY <1>3, <2>1, <1>a DEF ExecuteCoSubscription, Goto, Holding
  <2>4. pc[Sched] # "asleep" => coro'[cur[Sched]] = coro[cur[Sched]]
    BY <2>1, <2>3
  <2>5. ~coro[c].early
    BY <2>1 DEF Passing
  <2> QED
    BY <2>2, <2>3, <2>4, <2>5, <1>b, <1>c
<1>4. ASSUME NEW t \in Threads, Writes(t)
      PROVE  Goal
  <2>1. pc'[Sched] = pc[Sched] /\ cur' = cur /\ cur[t] \in Coros
    BY <1>4, <1>a, WritesMove
  <2>2. \A e \in Coros : coro'[e].early = coro[e].early
    BY <1>4, EarlyStays
  <2>4. \A d \in Coros : coro'[d].st = "unborn" => coro[d].st = "unborn"
    BY <1>4, WritesKeep
  <2> QED
    BY <2>1, <2>2, <2>4, <1>b, <1>c
<1>5. ASSUME NEW a \in Actors, CoroutineStep(a)
      PROVE  Goal
  <2>1. \A e \in Coros : coro'[e].early = coro[e].early
    BY <1>5, EarlyStays
  <2>2. \A d \in Coros : coro'[d].st = "unborn" => coro[d].st = "unborn"
    BY <1>5, BodyUpdates DEF CoroutineStep, Becomes
  <2>3. pc'[Sched] # "asleep" => pc[Sched] # "asleep" /\ cur'[Sched] = cur[Sched]
    <3>1. CASE a = Sched
      BY <1>5, <3>1, BodyMoves DEF RunPcs, ReturnPcs
    <3>2. CASE a # Sched
      BY <1>5, <3>2, <1>a, BodyMoves
    <3> QED
      BY <3>1, <3>2
  <2> QED
    BY <2>1, <2>2, <2>3, <1>b, <1>c
<1>6. ASSUME NEW c \in Coros, SleepEnds(c)
      PROVE  Goal
  <2>1. /\ coro'[c].early = (coro[c].early \/ ~coro[c].re_execute)
        /\ \A e \in Coros \ {c} : coro'[e] = coro[e]
    BY <1>6, SleepEarly
  <2>2. coro'[c].st # "unborn"
    BY <1>6, SleepUpdates DEF Becomes
  <2>3. pc[Sched] = "asleep"
    BY <1>6 DEF SleepEnds
  <2>4. pc'[Sched] # "asleep" => cur'[Sched] = c /\ ~coro[c].re_execute
    BY <1>6, <2>3, <1>a DEF SleepEnds
  <2> QED
    BY <2>1, <2>2, <2>4, <1>c
<1> QED
  BY <1>1, <1>2, <1>3, <1>4, <1>5, <1>6, ApartOrNot DEF Touches, Writes

LEMMA PassingKept ==
  ASSUME Typed, Holding, Passing, [Next]_vars
  PROVE  Passing'
<1> USE DEF Runs, Resumes, RunPcs, ReturnPcs, InitPcs, Goto
<1> USE DEF execVars, lockVars, grpVars, thrVars, envVars, coVars
<1> SUFFICES ASSUME NEW d \in Coros, ~coro'[d].early, ~coro[d].early, Alone(d)
             PROVE  Alone(d)'
  BY WasNotEarly DEF Passing
<1>a. /\ pc \in [Actors -> Pcs] /\ any_exec \in [Actors -> Entities \cup {None}]
      /\ cur \in [Actors -> Coros \cup {None}] /\ coro \in [Coros -> Promise]
      /\ coroutine_queue \in Seq(Coros)
      /\ coro' \in [Coros -> Promise] /\ cur' \in [Actors -> Coros \cup {None}]
      /\ None \notin Coros /\ None \notin CoSubs
  BY TypedKept DEF Typed, TypeOK, ThreadTypes, CoroutineTypes
<1>b. coroutine_queue' = coroutine_queue => (Queued(d)' <=> Queued(d)) /\ Once(d)'
  BY DEF Queued, Once, Alone
<1>1. CASE Apart
  <2>1. UNCHANGED <<any_exec, cur, coro, coroutine_queue>>
    BY <1>1 DEF Apart
  <2>2. \A u \in Threads : Runs(u, d)' => Runs(u, d) /\ pc'[u] = pc[u]
    BY <1>1 DEF Apart, EmptyPcs
  <2>3. \A u \in Threads : Resumes(u, d)' => Resumes(u, d)
    BY <1>1 DEF Apart, EmptyPcs
  <2> QED
    BY <2>1, <2>2, <2>3, <1>b, StaysAlone
<1>2. ASSUME NEW t \in Threads, GetRestCoroutine(t)
      PROVE  Alone(d)'
  <2>1. CASE coroutine_queue = <<>>
    <3>1. /\ UNCHANGED <<any_exec, cur, coro, coroutine_queue>>
          /\ pc' = [pc EXCEPT ![t] = "timer"]
      BY <1>2, <2>1 DEF GetRestCoroutine
    <3> QED
      BY <3>1, <1>a, <1>b, StaysAlone
  <2>2. CASE coroutine_queue # <<>>
    <3> DEFINE c == coroutine_queue[1]
    <3>1. /\ pc' = [pc EXCEPT ![t] = "got"] /\ pc[t] = "rest"
          /\ cur' = [cur EXCEPT ![t] = c]
          /\ coroutine_queue' = Tail(coroutine_queue)
          /\ UNCHANGED <<any_exec, coro>>
      BY <1>2, <2>2 DEF GetRestCoroutine
    <3>2. 1 \in 1 .. Len(coroutine_queue) /\ c \in Coros
      BY <2>2, <1>a
    <3>3. \A i \in 1 .. Len(coroutine_queue') :
            /\ i + 1 \in 1 .. Len(coroutine_queue) /\ i + 1 # 1
            /\ coroutine_queue'[i] = coroutine_queue[i + 1]
      BY <3>1, <2>2, <1>a
    <3>4. Once(d)'
      <4> SUFFICES ASSUME NEW i \in 1 .. Len(coroutine_queue'),
                          NEW j \in 1 .. Len(coroutine_queue'),
                          coroutine_queue'[i] = d, coroutine_queue'[j] = d
                   PROVE  i = j
        BY DEF Once
      <4>1. i + 1 = j + 1
        BY <3>3 DEF Alone, Once
      <4> QED
        BY <4>1
    <3>5. Queued(d)' => Queued(d) /\ d # c
      BY <3>2, <3>3 DEF Queued, Alone, Once
    <3>6. Queued(c)
      BY <3>2 DEF Queued
    <3>7. \A u \in Threads : Runs(u, d)' => Runs(u, d) /\ pc'[u] = pc[u]
      BY <3>1, <1>a
    <3>8. \A u \in Threads : Resumes(u, d)' => IF u = t THEN d = c ELSE Resumes(u, d)
      BY <3>1, <1>a
    <3>9. CASE d # c
      BY <3>1, <3>4, <3>5, <3>7, <3>8, <3>9, StaysAlone
    <3>10. CASE d = c
      <4>1. coro[d].st = "queued" /\ \A u \in Threads : ~Resumes(u, d)
        BY <3>6, <3>10 DEF Alone
      <4> QED
        BY <3>1, <3>4, <3>5, <3>7, <3>8, <3>10, <4>1 DEF Alone
    <3> QED
      BY <3>9, <3>10
  <2> QED
    BY <2>1, <2>2
<1>3. ASSUME NEW t \in Threads, GetNextTimer(t) \/ GetNextHandle(t)
      PROVE  Alone(d)'
  <2>1. pc[t] \in {"timer", "handle"} /\ UNCHANGED <<cur, coro, coroutine_queue>>
    BY <1>3 DEF GetNextTimer, GetNextHandle
  <2>2. \A u \in Actors \ {t} : pc'[u] = pc[u] /\ any_exec'[u] = any_exec[u]
    BY <1>3, <1>a DEF GetNextTimer, GetNextHandle
  <2>3. /\ pc'[t] \in {"got", "handle", "register", "wait", "loop"}
        /\ pc'[t] = "got" => any_exec'[t] # None
    BY <1>3, <1>a DEF GetNextTimer, GetNextHandle, TakeableTimers, NextHandles,
                      TakeableHandles, Typed, TypeOK, ExecutorTypes
  <2> QED
    BY <2>1, <2>2, <2>3, <1>b, StaysAlone
<1>4. ASSUME NEW t \in Threads, Register(t) \/ Destroy(t) \/ Post(t)
      PROVE  Alone(d)'
  <2>1. UNCHANGED <<coro, coroutine_queue>>
    BY <1>4 DEF Register, Destroy, Post
  <2>2. \A u \in Actors \ {t} :
          pc'[u] = pc[u] /\ any_exec'[u] = any_exec[u] /\ cur'[u] = cur[u]
    BY <1>4, <1>a DEF Register, Destroy, Post
  <2>3. pc'[t] = "loop" \/ (pc'[t] = "got" /\ any_exec'[t] # None)
    BY <1>4, <1>a DEF Register, Destroy, Post, Typed, Control
  <2> QED
    BY <2>1, <2>2, <2>3, <1>b, StaysAlone
<1>5. ASSUME NEW t \in Threads, ExecuteCoSubscription(t)
      PROVE  Alone(d)'
  <2>1. PICK c \in Coros :
          /\ coro[c].st = "unborn"
          /\ coro' = [coro EXCEPT ![c] = NewPromise(any_exec[t])]
          /\ cur' = [cur EXCEPT ![t] = c]
    BY <1>5 DEF ExecuteCoSubscription
  <2>2. /\ pc[t] = "exec" /\ pc' = [pc EXCEPT ![t] = "body"] /\ any_exec[t] # None
        /\ UNCHANGED <<any_exec, coroutine_queue>>
    BY <1>5, <1>a DEF ExecuteCoSubscription
  <2>3. \A a \in Actors : cur[a] # c
    BY <2>1, <1>a DEF Holding
  <2>4. /\ coro'[c].st = "running" /\ ~coro'[c].returned
        /\ \A e \in Coros \ {c} : coro'[e] = coro[e]
    BY <2>1, <1>a DEF NewPromise
  <2>5. ~Queued(c)
    BY <2>1 DEF Holding, Queued
  <2>6. \A u \in Threads :
          Runs(u, d)' => IF u = t THEN d = c ELSE d # c /\ Runs(u, d) /\ pc'[u] = pc[u]
    BY <2>1, <2>2, <2>3, <1>a
  <2>7. \A u \in Threads : Resumes(u, d)' => Resumes(u, d) /\ d # c
    BY <2>1, <2>2, <2>3, <1>a
  <2>8. CASE d # c
    BY <2>2, <2>4, <2>6, <2>7, <2>8, <1>b, StaysAlone
  <2>9. CASE d = c
    BY <2>2, <2>4, <2>5, <2>6, <2>7, <2>9, <1>b DEF Alone
  <2> QED
    BY <2>8, <2>9
<1>6. ASSUME NEW t \in Threads, ExecuteCoroutine(t)
      PROVE  Alone(d)'
  <2> DEFINE c == cur[t]
  <2>1. /\ c \in Coros
        /\ Becomes(c, "running", coro[c].returned, coro[c].exe, coro[c].sub_ptr,
                   coro[c].re_execute)
    BY <1>6, ThreadUpdates
  <2>2. /\ pc' = [pc EXCEPT ![t] = "body"] /\ UNCHANGED <<any_exec, cur, coroutine_queue>>
        /\ Resumes(t, c)
    BY <1>6 DEF ExecuteCoroutine
  <2>3. CASE d # c
    <3>1. \A u \in Threads : Runs(u, d)' => Runs(u, d) /\ pc'[u] = pc[u]
      BY <2>2, <2>3, <1>a
    <3>2. \A u \in Threads : Resumes(u, d)' => Resumes(u, d)
      BY <2>2, <2>3, <1>a
    <3>3. coro'[d] = coro[d]
      BY <2>1, <2>3 DEF Becomes
    <3> QED
      BY <2>2, <3>1, <3>2, <3>3, <1>b, StaysAlone
  <2>4. CASE d = c
    <3>1. coro[d].st = "queued" /\ ~Queued(d) /\ ~coro[d].returned
      BY <2>2, <2>4 DEF Alone
    <3>2. \A u \in Threads : ~Runs(u, d) /\ (u # t => ~Resumes(u, d))
      BY <2>2, <2>4, <3>1 DEF Alone
    <3>3. \A u \in Threads : (Runs(u, d)' => u = t) /\ ~Resumes(u, d)'
      BY <2>2, <3>2, <1>a
    <3>4. coro'[d].st = "running" /\ ~coro'[d].returned
      BY <2>1, <2>4, <3>1 DEF Becomes
    <3> QED
      BY <2>2, <3>1, <3>3, <3>4, <1>b DEF Alone
  <2> QED
    BY <2>3, <2>4
<1>7. ASSUME NEW t \in Threads,
             InitLock(t) \/ InitVec(t) \/ InitSub(t) \/ InitCheck(t) \/ InitExec(t)
      PROVE  Alone(d)'
  <2>1. ~ExecuteCoroutine(t)
    BY <1>7 DEF ExecuteCoroutine, InitLock, InitVec, InitSub, InitCheck, InitExec
  <2>2. coro'[d].st = coro[d].st /\ coro'[d].returned = coro[d].returned
    BY <1>7, <2>1, WritesKeep DEF Writes
  <2>3. /\ UNCHANGED <<any_exec, cur, coroutine_queue>>
        /\ \A u \in Actors \ {t} : pc'[u] = pc[u]
        /\ pc'[t] \in InitPcs \cup {"release"}
    BY <1>7, <1>a DEF InitLock, InitVec, InitSub, InitCheck, InitExec
  <2> QED
    BY <2>2, <2>3, <1>b, StaysAlone
<1>8. ASSUME NEW a \in Actors, CoroutineStep(a)
      PROVE  Alone(d)'
  <2> DEFINE c == cur[a]
  <2>1. /\ pc[a] \in RunPcs /\ c \in Coros /\ UNCHANGED <<any_exec, coroutine_queue>>
        /\ \A u \in Actors \ {a} : pc'[u] = pc[u] /\ cur'[u] = cur[u]
    BY <1>8, BodyMoves
  <2>2. /\ \A e \in Coros \ {c} : coro'[e] = coro[e]
    BY <1>8, BodyUpdates DEF CoroutineStep, Becomes
  <2>3. CASE d # c
    <3>1. cur'[a] # d \/ pc'[a] = "asleep"
      BY <1>8, <2>3, <1>a, BodyMoves
    <3>2. \A u \in Threads : Runs(u, d)' => Runs(u, d) /\ pc'[u] = pc[u]
      BY <2>1, <3>1
    <3>3. \A u \in Threads : Resumes(u, d)' => Resumes(u, d)
      BY <2>1, <3>1
    <3> QED
      BY <2>1, <2>2, <2>3, <3>2, <3>3, <1>b, StaysAlone
  <2>4. CASE d = c
    <3>1. a \in Threads /\ Runs(a, d)
      BY <2>1, <2>4, <1>a DEF Passing
    <3>2. /\ cur'[a] = c
          /\ \/ pc'[a] \in {"init", "release"}
             \/ pc'[a] = "ret_lock" /\ ReturnValue(a)
             \/ pc'[a] = "ret_vec" /\ ReturnLock(a) /\ coro[c].exe
      BY <1>8, <3>1, BodyMoves
    <3>3. /\ coro[d].st = "running" /\ ~Queued(d)
          /\ \A u \in Threads : ~Resumes(u, d) /\ (u # a => ~Runs(u, d))
      BY <3>1 DEF Alone
    <3>4. coro'[d].st # "queued" /\ (coro'[d].st = "sleeping" => ~coro'[d].returned)
      <4>1. CASE Await(a)
        <5>1. ~coro[d].returned
          BY <3>1, <4>1 DEF Alone, Await
        <5> QED
          BY <2>4, <4>1, <5>1, BodyUpdates DEF Becomes
      <4>2. CASE ~Await(a)
        BY <1>8, <2>4, <3>3, <4>2, BodyUpdates DEF CoroutineStep, Becomes
      <4> QED
        BY <4>1, <4>2
    <3>5. pc'[a] \in RunPcs => coro'[d].st = "running" /\ pc'[a] # "body"
      BY <2>4, <3>2, <3>3, BodyUpdates DEF Becomes
    <3>6. \A u \in Threads : (Runs(u, d)' => u = a) /\ ~Resumes(u, d)'
      BY <2>1, <3>2, <3>3
    <3> QED
      BY <2>1, <3>3, <3>4, <3>5, <3>6, <1>b DEF Alone
  <2> QED
    BY <2>3, <2>4
<1>9. ASSUME NEW c \in Coros, SleepEnds(c)
      PROVE  Alone(d)'
  <2>1. /\ coro[c].st = "sleeping" /\ any_exec' = any_exec
        /\ \A u \in Threads : pc'[u] = pc[u] /\ cur'[u] = cur[u]
    BY <1>9, <1>a DEF SleepEnds
  <2>2. /\ coro[c].re_execute => coroutine_queue' = Append(coroutine_queue, c)
        /\ ~coro[c].re_execute => coroutine_queue' = coroutine_queue
    BY <1>9 DEF SleepEnds
  <2>3. CASE d # c
    <3>1. coro'[d] = coro[d]
      BY <1>9, <2>3, SleepEarly
    <3>2. (Queued(d)' => Queued(d)) /\ Once(d)'
      <4>1. CASE coro[c].re_execute
        <5>1. \A i \in 1 .. Len(coroutine_queue') : coroutine_queue'[i] = d =>
                i \in 1 .. Len(coroutine_queue) /\ coroutine_queue[i] = d
          BY <2>2, <2>3, <4>1, <1>a
        <5> QED
          BY <5>1 DEF Queued, Once, Alone
      <4>2. CASE ~coro[c].re_execute
        BY <2>2, <4>2, <1>b
      <4> QED
        BY <4>1, <4>2
    <3> QED
      BY <2>1, <3>1, <3>2, StaysAlone
  <2>4. CASE d = c
    <3>1. coro[d].re_execute
      BY <1>9, <2>4, SleepEarly
    <3>2. coro'[d].st = "queued" /\ coro'[d].returned = coro[d].returned
      BY <1>9, <2>4, <3>1, SleepUpdates DEF Becomes
    <3>3. /\ ~Queued(d) /\ ~coro[d].returned
          /\ \A t \in Threads : ~Runs(t, d) /\ ~Resumes(t, d)
      BY <2>1, <2>4 DEF Alone
    <3>4. Once(d)'
      <4>1. \A i \in 1 .. Len(coroutine_queue') : coroutine_queue'[i] = d =>
              \/ i = Len(coroutine_queue) + 1
              \/ i \in 1 .. Len(coroutine_queue) /\ coroutine_queue[i] = d
        BY <2>2, <2>4, <3>1, <1>a
      <4>2. \A i \in 1 .. Len(coroutine_queue') :
              coroutine_queue'[i] = d => i = Len(coroutine_queue) + 1
        BY <3>3, <4>1 DEF Queued
      <4> QED
        BY <4>2 DEF Once
    <3>5. \A t \in Threads : ~Runs(t, d)' /\ ~Resumes(t, d)'
      BY <2>1, <3>3
    <3> QED
      BY <3>2, <3>3, <3>4, <3>5 DEF Alone
  <2> QED
    BY <2>3, <2>4
<1> QED
  BY <1>1, <1>2, <1>3, <1>4, <1>5, <1>6, <1>7, <1>8, <1>9, ApartOrNot DEF Touches

\* A coroutine keeps the subscription it was dispatched for, and can erase no
\* other from the suspend list.
Naming ==
  /\ \A t \in Threads :
       any_exec[t] \in CoSubs /\ cur[t] # None => coro[cur[t]].sub = any_exec[t]
  /\ \A c \in Coros : coro[c].sub_ptr \in {None, coro[c].sub}

LEMMA NamingKept ==
  ASSUME Typed, Holding, Naming, [Next]_vars
  PROVE  Naming'
<1> USE DEF execVars, lockVars, grpVars, thrVars, envVars, coVars
<1>a. /\ pc \in [Actors -> Pcs] /\ any_exec \in [Actors -> Entities \cup {None}]
      /\ cur \in [Actors -> Coros \cup {None}] /\ coro \in [Coros -> Promise]
      /\ cur' \in [Actors -> Coros \cup {None}]
      /\ None \notin Coros /\ None \notin CoSubs
  BY TypedKept DEF Typed, TypeOK, ThreadTypes, CoroutineTypes
<1>1. CASE Apart
  BY <1>1 DEF Apart, Naming
<1>2. ASSUME NEW t \in Threads,
             \/ GetRestCoroutine(t) \/ GetNextTimer(t) \/ GetNextHandle(t)
             \/ Register(t) \/ Destroy(t) \/ Post(t)
      PROVE  Naming'
  <2>1. coro' = coro
    BY <1>2 DEF GetRestCoroutine, GetNextTimer, GetNextHandle, Register, Destroy, Post
  <2>2. \A u \in Actors \ {t} : any_exec'[u] = any_exec[u] /\ cur'[u] = cur[u]
    BY <1>2, <1>a
       DEF GetRestCoroutine, GetNextTimer, GetNextHandle, Register, Destroy, Post
  <2>3. any_exec'[t] = None \/ cur'[t] = None
    <3>1. CASE GetRestCoroutine(t)
      BY <3>1 DEF GetRestCoroutine, Typed, Control, EmptyPcs
    <3>2. CASE GetNextTimer(t) \/ GetNextHandle(t)
      BY <3>2 DEF GetNextTimer, GetNextHandle, Holding, EmptyPcs
    <3>3. CASE Register(t) \/ Destroy(t) \/ Post(t)
      BY <3>3, <1>a DEF Register, Destroy, Post, Holding, EmptyPcs
    <3> QED
      BY <1>2, <3>1, <3>2, <3>3
  <2> QED
    BY <2>1, <2>2, <2>3 DEF Naming
<1>3. ASSUME NEW t \in Threads, ExecuteCoSubscription(t)
      PROVE  Naming'
  <2>1. PICK c \in Coros :
          /\ coro[c].st = "unborn"
          /\ coro' = [coro EXCEPT ![c] = NewPromise(any_exec[t])]
          /\ cur' = [cur EXCEPT ![t] = c]
    BY <1>3 DEF ExecuteCoSubscription
  <2>2. any_exec' = any_exec /\ \A a \in Actors : cur[a] # c
    BY <1>3, <2>1, <1>a DEF ExecuteCoSubscription, Holding
  <2>3. /\ coro'[c].sub = any_exec[t] /\ coro'[c].sub_ptr = None
        /\ \A d \in Coros \ {c} : coro'[d] = coro[d]
    BY <2>1, <1>a DEF NewPromise
  <2>4. cur'[t] = c /\ \A u \in Threads \ {t} : cur'[u] = cur[u]
    BY <2>1, <1>a
  <2> QED
    BY <2>2, <2>3, <2>4, <1>a DEF Naming
<1>4. ASSUME NEW t \in Threads, Writes(t)
      PROVE  Naming'
  <2>1. UNCHANGED <<any_exec, cur>> /\ cur[t] \in Coros
    BY <1>4, WritesMove
  <2>2. \A d \in Coros : coro'[d].sub = coro[d].sub
    BY <1>4, EarlyStays
  <2>3. \A d \in Coros : d # cur[t] => coro'[d] = coro[d]
    BY <1>4, WritesKeep
  <2>4. coro'[cur[t]].sub_ptr = IF InitSub(t) THEN any_exec[t] ELSE coro[cur[t]].sub_ptr
    BY <1>4, WritesKeep
  <2>5. InitSub(t) => any_exec[t] \in CoSubs
    BY DEF InitSub, Typed, Control, InitPcs
  <2> QED
    BY <2>1, <2>2, <2>3, <2>4, <2>5, <1>a DEF Naming
<1>5. ASSUME NEW a \in Actors, CoroutineStep(a)
      PROVE  Naming'
  <2>1. \A d \in Coros : coro'[d].sub = coro[d].sub
    BY <1>5, EarlyStays
  <2>2. \A d \in Coros : coro'[d].sub_ptr = coro[d].sub_ptr
    <3> SUFFICES ASSUME NEW d \in Coros
                 PROVE  coro'[d].sub_ptr = coro[d].sub_ptr
      OBVIOUS
    <3>1. CASE d = cur[a]
      BY <1>5, <3>1, BodyUpdates DEF CoroutineStep, Becomes
    <3>2. CASE d # cur[a]
      BY <1>5, <3>2, BodyUpdates DEF CoroutineStep, Becomes
    <3> QED
      BY <3>1, <3>2
  <2>3. any_exec' = any_exec /\ \A t \in Threads : cur'[t] = cur[t]
    BY <1>5, <1>a, BodyMoves
  <2> QED
    BY <2>1, <2>2, <2>3, <1>a DEF Naming
<1>6. ASSUME NEW c \in Coros, SleepEnds(c)
      PROVE  Naming'
  <2>1. any_exec' = any_exec /\ \A t \in Threads : cur'[t] = cur[t]
    BY <1>6, <1>a DEF SleepEnds
  <2>2. \A d \in Coros : coro'[d].sub = coro[d].sub /\ coro'[d].sub_ptr = coro[d].sub_ptr
    BY <1>6, SleepUpdates DEF Becomes
  <2> QED
    BY <2>1, <2>2, <1>a DEF Naming
<1> QED
  BY <1>1, <1>2, <1>3, <1>4, <1>5, <1>6, ApartOrNot DEF Touches, Writes

\* What the thread that dispatched a coroutine writes in its promise is there
\* before the coroutine is resumed, and not before its first part has ended.
Recorded(c) ==
  /\ \A t \in Threads : Runs(t, c) =>
       IF any_exec[t] = None THEN coro[c].re_execute
       ELSE ~coro[c].exe /\ ~coro[c].re_execute /\ pc[t] # "ret_vec"
  /\ coro[c].st = "queued" => coro[c].re_execute
  /\ coro[c].re_execute =>
       /\ coro[c].exe /\ coro[c].sub_ptr = coro[c].sub
       /\ \A t \in Threads : cur[t] = c => pc[t] \notin InitPcs

Recording == \A c \in Coros : ~coro[c].early => Recorded(c)

\* A step that does not touch the promise of coroutine c.
LEMMA StaysRecorded ==
  ASSUME NEW c \in Coros, Recorded(c), coro'[c] = coro[c],
         \A u \in Threads : Runs(u, c)' => /\ Runs(u, c) /\ any_exec'[u] = any_exec[u]
                                           /\ pc'[u] = "ret_vec" => pc[u] = "ret_vec",
         \A u \in Threads : cur'[u] = c /\ pc'[u] \in InitPcs => cur[u] = c /\ pc[u] \in InitPcs
  PROVE  Recorded(c)'
  BY DEF Recorded

LEMMA RecordingKept ==
  ASSUME Typed, Holding, Linking, Passing, Naming, Recording, [Next]_vars
  PROVE  Recording'
<1> USE DEF Runs, RunPcs, ReturnPcs, InitPcs, Goto
<1> USE DEF execVars, lockVars, grpVars, thrVars, envVars, coVars
<1> SUFFICES ASSUME NEW d \in Coros, ~coro'[d].early, ~coro[d].early, Recorded(d), Alone(d)
             PROVE  Recorded(d)'
  BY WasNotEarly DEF Recording, Passing
<1>a. /\ pc \in [Actors -> Pcs] /\ any_exec \in [Actors -> Entities \cup {None}]
      /\ cur \in [Actors -> Coros \cup {None}] /\ coro \in [Coros -> Promise]
      /\ coro' \in [Coros -> Promise] /\ cur' \in [Actors -> Coros \cup {None}]
      /\ None \notin Coros /\ None \notin CoSubs
  BY TypedKept DEF Typed, TypeOK, ThreadTypes, CoroutineTypes
<1>1. CASE Apart
  <2>1. UNCHANGED <<any_exec, cur, coro>>
    BY <1>1 DEF Apart
  <2>2. \A t \in Threads : pc'[t] \in RunPcs \cup InitPcs => pc'[t] = pc[t]
    BY <1>1 DEF Apart, EmptyPcs
  <2> QED
    BY <2>1, <2>2, StaysRecorded
<1>2. ASSUME NEW t \in Threads,
             \/ GetRestCoroutine(t) \/ GetNextTimer(t) \/ GetNextHandle(t)
             \/ Register(t) \/ Destroy(t) \/ Post(t)
      PROVE  Recorded(d)'
  <2>1. coro' = coro
    BY <1>2 DEF GetRestCoroutine, GetNextTimer, GetNextHandle, Register, Destroy, Post
  <2>2. /\ \A u \in Actors \ {t} :
             pc'[u] = pc[u] /\ any_exec'[u] = any_exec[u] /\ cur'[u] = cur[u]
        /\ pc'[t] \in {"got", "timer", "handle", "register", "wait", "loop"}
    BY <1>2, <1>a
       DEF GetRestCoroutine, GetNextTimer, GetNextHandle, Register, Destroy, Post
  <2> QED
    BY <2>1, <2>2, StaysRecorded
<1>3. ASSUME NEW t \in Threads, ExecuteCoSubscription(t)
      PROVE  Recorded(d)'
  <2>1. PICK c \in Coros :
          /\ coro[c].st = "unborn"
          /\ coro' = [coro EXCEPT ![c] = NewPromise(any_exec[t])]
          /\ cur' = [cur EXCEPT ![t] = c]
    BY <1>3 DEF ExecuteCoSubscription
  <2>2. /\ pc[t] = "exec" /\ pc' = [pc EXCEPT ![t] = "body"] /\ any_exec[t] # None
        /\ any_exec' = any_exec
    BY <1>3, <1>a DEF ExecuteCoSubscription
  <2>3. \A a \in Actors : cur[a] # c
    BY <2>1, <1>a DEF Holding
  <2>4. /\ coro'[c].st = "running" /\ ~coro'[c].re_execute /\ ~coro'[c].exe
        /\ \A e \in Coros \ {c} : coro'[e] = coro[e]
    BY <2>1, <1>a DEF NewPromise
  <2>5. /\ \A u \in Threads \ {t} : pc'[u] = pc[u] /\ cur'[u] = cur[u]
        /\ pc'[t] = "body" /\ cur'[t] = c
    BY <2>1, <2>2, <1>a
  <2>6. CASE d # c
    BY <2>2, <2>4, <2>5, <2>6, StaysRecorded
  <2>7. CASE d = c
    BY <2>2, <2>3, <2>4, <2>5, <2>7 DEF Recorded
  <2> QED
    BY <2>6, <2>7
<1>4. ASSUME NEW t \in Threads, Writes(t), cur[t] # d
      PROVE  Recorded(d)'
  <2>1. /\ UNCHANGED <<any_exec, cur>>
        /\ \A a \in Actors : a # t => pc'[a] = pc[a]
    BY <1>4, WritesMove
  <2>2. coro'[d] = coro[d]
    BY <1>4, WritesKeep
  <2> QED
    BY <1>4, <2>1, <2>2, StaysRecorded
<1>5. ASSUME NEW t \in Threads, ExecuteCoroutine(t), cur[t] = d
      PROVE  Recorded(d)'
  <2>1. Becomes(d, "running", coro[d].returned, coro[d].exe, coro[d].sub_ptr,
                coro[d].re_execute)
    BY <1>5, ThreadUpdates
  <2>2. /\ pc' = [pc EXCEPT ![t] = "body"] /\ UNCHANGED <<any_exec, cur>>
        /\ Resumes(t, d) /\ any_exec[t] = None
    BY <1>5 DEF ExecuteCoroutine, Resumes
  <2>3. coro[d].st = "queued" /\ coro[d].re_execute
    BY <2>2 DEF Alone, Recorded
  <2>4. /\ coro'[d].st = "running" /\ coro'[d].re_execute /\ coro'[d].exe = coro[d].exe
        /\ coro'[d].sub = coro[d].sub /\ coro'[d].sub_ptr = coro[d].sub_ptr
    BY <2>1, <2>3 DEF Becomes
  <2>5. pc'[t] = "body" /\ \A u \in Threads \ {t} : pc'[u] = pc[u]
    BY <2>2, <1>a
  <2>6. \A u \in Threads : ~Runs(u, d)
    BY <2>3 DEF Alone
  <2>7. \A u \in Threads : Runs(u, d)' => u = t
    BY <2>2, <2>5, <2>6
  <2>8. \A u \in Threads : cur'[u] = d => pc'[u] \notin InitPcs
    BY <2>2, <2>3, <2>5 DEF Recorded
  <2> QED
    BY <2>2, <2>3, <2>4, <2>7, <2>8 DEF Recorded
<1>6. ASSUME NEW t \in Threads, Writes(t), ~ExecuteCoroutine(t), cur[t] = d
      PROVE  Recorded(d)'
  <2>0. /\ UNCHANGED <<any_exec, cur>> /\ pc[t] \in InitPcs
        /\ any_exec[t] \in CoSubs
        /\ \A u \in Threads \ {t} : pc'[u] = pc[u]
        /\ pc'[t] \in InitPcs \cup {"release"}
        /\ InitExec(t) => pc'[t] = "release"
    <3>1. pc[t] \in InitPcs /\ pc'[t] \in InitPcs \cup {"release"}
      BY <1>6, WritesMove
    <3>2. InitExec(t) => pc'[t] = "release"
      BY <1>a DEF InitExec
    <3>3. any_exec[t] \in CoSubs
      BY <3>1 DEF Typed, Control
    <3> QED
      BY <1>6, <3>1, <3>2, <3>3, WritesMove
  <2>1. ~coro[d].re_execute /\ coro[d].sub = any_exec[t]
    BY <1>6, <2>0, <1>a DEF Recorded, Naming
  <2>2. /\ coro'[d].st = coro[d].st /\ coro'[d].sub = coro[d].sub
        /\ coro'[d].re_execute =>
             InitExec(t) /\ coro'[d].exe = coro[d].exe /\ coro'[d].sub_ptr = coro[d].sub_ptr
    <3>1. CASE InitLock(t)
      BY <1>6, <2>1, <3>1, ThreadUpdates, ZenonT(30) DEF Becomes
    <3>2. CASE InitVec(t) \/ InitCheck(t)
      BY <1>6, <2>1, <3>2, ThreadUpdates, ZenonT(30) DEF Becomes
    <3>3. CASE InitSub(t)
      BY <1>6, <2>1, <3>3, ThreadUpdates, ZenonT(30) DEF Becomes
    <3>4. CASE InitExec(t)
      BY <1>6, <3>4, ThreadUpdates, ZenonT(30) DEF Becomes
    <3> QED
      BY <1>6, <3>1, <3>2, <3>3, <3>4 DEF Writes
  \* No thread runs d: one that resumed it would show that it was recorded.
  <2>3. \A u \in Threads : ~Runs(u, d)
    <3> SUFFICES ASSUME NEW u \in Threads, Runs(u, d) PROVE FALSE
      OBVIOUS
    <3>1. any_exec[u] # None
      BY <2>1 DEF Recorded
    <3> QED
      BY <1>6, <2>0, <3>1, <1>a DEF Holding
  <2>4. InitExec(t) => coro[d].exe /\ coro[d].sub_ptr = coro[d].sub
    BY <1>6, <2>0, <2>1, <1>a DEF InitExec, Linking
  <2>5. coro[d].st # "queued"
    BY <2>1 DEF Recorded
  <2>6. ASSUME NEW u \in Threads, u # t, cur[u] = d
        PROVE  pc[u] \notin InitPcs
    BY <1>6, <2>0, <2>6, <1>a DEF Holding, Typed, Control
  <2>7. \A u \in Threads : ~Runs(u, d)'
    BY <2>0, <2>3
  <2>8. ASSUME coro'[d].re_execute
        PROVE  /\ coro'[d].exe /\ coro'[d].sub_ptr = coro'[d].sub
               /\ \A u \in Threads : cur'[u] = d => pc'[u] \notin InitPcs
    BY <2>0, <2>2, <2>4, <2>6, <2>8
  <2> QED
    BY <2>2, <2>5, <2>7, <2>8 DEF Recorded
<1>7. ASSUME NEW a \in Actors, CoroutineStep(a)
      PROVE  Recorded(d)'
  <2> DEFINE c == cur[a]
  <2>1. /\ pc[a] \in RunPcs /\ c \in Coros /\ any_exec' = any_exec
        /\ \A u \in Actors \ {a} : pc'[u] = pc[u] /\ cur'[u] = cur[u]
    BY <1>7, BodyMoves
  <2>2. CASE d # c
    <3>1. cur'[a] # d \/ a = Sched
      BY <1>7, <2>2, BodyMoves
    <3>2. coro'[d] = coro[d]
      <4>1. \A e \in Coros \ {c} : coro'[e] = coro[e]
        BY <1>7, BodyUpdates DEF CoroutineStep, Becomes
      <4> QED
        BY <2>2, <4>1
    <3>3. Sched \notin Threads
      BY ActorsAssumption
    <3> QED
      BY <2>1, <3>1, <3>2, <3>3, StaysRecorded
  <2>3. CASE d = c
    <3>1. a \in Threads /\ Runs(a, d)
      BY <2>1, <2>3, <1>a DEF Passing
    <3>2. /\ cur'[a] = d
          /\ \/ pc'[a] = "ret_lock" \/ (pc'[a] = "ret_vec" /\ coro[d].exe)
             \/ (pc'[a] = "init" /\ any_exec[a] # None) \/ pc'[a] = "release"
      BY <1>7, <2>3, <3>1, BodyMoves
    <3>3. /\ coro'[d].exe = coro[d].exe /\ coro'[d].sub_ptr = coro[d].sub_ptr
          /\ coro'[d].sub = coro[d].sub /\ coro'[d].re_execute = coro[d].re_execute
          /\ coro'[d].st # "queued"
      <4>1. coro[d].st # "queued"
        BY <3>1 DEF Alone
      <4> QED
        BY <1>7, <2>3, <4>1, BodyUpdates DEF CoroutineStep, Becomes
    <3>4. IF any_exec[a] = None THEN coro[d].re_execute ELSE ~coro[d].exe /\ ~coro[d].re_execute
      BY <3>1 DEF Recorded
    <3>5. ASSUME NEW u \in Threads, Runs(u, d)'
          PROVE  u = a
      BY <2>1, <3>1, <3>5 DEF Alone
    <3>6. ASSUME NEW u \in Threads, cur'[u] = d, coro[d].re_execute
          PROVE  pc'[u] \notin InitPcs
      BY <2>1, <3>2, <3>4, <3>6 DEF Recorded
    <3> QED
      BY <2>1, <3>2, <3>3, <3>4, <3>5, <3>6 DEF Recorded
  <2> QED
    BY <2>2, <2>3
<1>8. ASSUME NEW c \in Coros, SleepEnds(c)
      PROVE  Recorded(d)'
  <2>1. any_exec' = any_exec /\ \A t \in Threads : pc'[t] = pc[t] /\ cur'[t] = cur[t]
    BY <1>8, <1>a DEF SleepEnds
  <2>2. CASE d # c
    <3>1. coro'[d] = coro[d]
      BY <1>8, <2>2, SleepEarly
    <3> QED
      BY <2>1, <3>1, StaysRecorded
  <2>3. CASE d = c
    <3>1. coro[d].re_execute /\ coro[d].st = "sleeping"
      BY <1>8, <2>3, SleepEarly DEF SleepEnds
    <3>2. /\ coro'[d].exe = coro[d].exe /\ coro'[d].sub_ptr = coro[d].sub_ptr
          /\ coro'[d].sub = coro[d].sub /\ coro'[d].re_execute = coro[d].re_execute
      BY <1>8, <2>3, SleepUpdates DEF Becomes
    <3> QED
      BY <2>1, <3>1, <3>2 DEF Recorded
  <2> QED
    BY <2>2, <2>3
<1> QED
  BY <1>1, <1>2, <1>3, <1>4, <1>5, <1>6, <1>7, <1>8, ApartOrNot DEF Touches, Writes

\* No sleep of a coroutine of subscription s has ended too early.
Calm(s) == \A c \in Coros : coro[c].sub = s => ~coro[c].early

\* Coroutine c needs the entry of its subscription in the suspend list: it is
\* live, or return_value or promise_executor_init may still erase the entry.
Claims(c) ==
  /\ Calm(coro[c].sub)
  /\ \/ Live(c)
     \/ \E t \in Threads :
          /\ cur[t] = c
          /\ pc[t] \in {"body", "ret_lock", "init", "init_vec", "init_sub", "init_check"}

\* Thread t has listed subscription s and is about to start a coroutine.
Takes(t, s) == Calm(s) /\ pc[t] \in {"got", "exec"} /\ any_exec[t] = s

\* One claim on an entry at most, and who claims one finds it.
Claiming ==
  /\ \A c \in Coros : Claims(c) => coro[c].sub \in CoSubs /\ suspended[coro[c].sub] = 1
  /\ \A t \in Threads, s \in CoSubs : Takes(t, s) => suspended[s] = 1
  /\ \A c, d \in Coros : Claims(c) /\ Claims(d) /\ SameSub(c, d) => c = d
  /\ \A t, u \in Threads, s \in CoSubs : Takes(t, s) /\ Takes(u, s) => t = u
  /\ \A c \in Coros, t \in Threads : Claims(c) => ~Takes(t, coro[c].sub)

\* Claims that go away do no harm.
LEMMA FewerClaims ==
  ASSUME Claiming,
         \A c \in Coros : Claims(c)' =>
           /\ Claims(c) /\ coro'[c].sub = coro[c].sub
           /\ suspended'[coro[c].sub] = suspended[coro[c].sub],
         \A t \in Threads, s \in CoSubs :
           Takes(t, s)' => Takes(t, s) /\ suspended'[s] = suspended[s]
  PROVE  Claiming'
<1>1. \A c \in Coros : Claims(c)' =>
        /\ coro'[c].sub \in CoSubs /\ suspended'[coro'[c].sub] = 1
        /\ Claims(c) /\ coro'[c].sub = coro[c].sub
  BY DEF Claiming
<1>2. \A c, d \in Coros : Claims(c)' /\ Claims(d)' /\ SameSub(c, d)' => c = d
  BY <1>1 DEF Claiming, SameSub
<1>3. \A t \in Threads, s \in CoSubs : Takes(t, s)' => suspended'[s] = 1
  BY DEF Claiming
<1>4. \A t, u \in Threads, s \in CoSubs : Takes(t, s)' /\ Takes(u, s)' => t = u
  BY DEF Claiming
<1>5. \A c \in Coros, t \in Threads : Claims(c)' => ~Takes(t, coro[c].sub)'
  BY <1>1 DEF Claiming
<1> QED
  BY <1>1, <1>2, <1>3, <1>4, <1>5 DEF Claiming

LEMMA ClaimingKept ==
  ASSUME Typed, Locking, Listing, Holding, Linking, Passing, Naming, Recording,
         Claiming, [Next]_vars
  PROVE  Claiming'
<1> USE DEF Claims, Takes, Live, Goto
<1> USE DEF execVars, lockVars, grpVars, thrVars, envVars, coVars
<1>a. /\ pc \in [Actors -> Pcs] /\ any_exec \in [Actors -> Entities \cup {None}]
      /\ cur \in [Actors -> Coros \cup {None}] /\ coro \in [Coros -> Promise]
      /\ coro' \in [Coros -> Promise] /\ cur' \in [Actors -> Coros \cup {None}]
      /\ suspended \in [CoSubs -> Nat] /\ suspended' \in [CoSubs -> Nat]
      /\ None \notin Coros /\ None \notin CoSubs
  BY TypedKept DEF Typed, TypeOK, ThreadTypes, CoroutineTypes
<1>1. CASE Apart
  <2>1. UNCHANGED <<any_exec, cur, coro, suspended>> /\ \A s : Calm(s)' <=> Calm(s)
    BY <1>1 DEF Apart, Calm
  <2>2. \A c \in Coros : Claims(c)' => Claims(c)
    BY <1>1, <2>1 DEF Apart, EmptyPcs
  <2>3. \A t \in Threads, s \in CoSubs : Takes(t, s)' => Takes(t, s)
    BY <1>1, <2>1 DEF Apart, EmptyPcs
  <2> QED
    BY <2>1, <2>2, <2>3, FewerClaims
<1>2. ASSUME NEW t \in Threads,
             GetRestCoroutine(t) \/ GetNextTimer(t) \/ GetNextHandle(t) \/ Destroy(t) \/ Post(t)
      PROVE  Claiming'
  <2>1. coro' = coro /\ suspended' = suspended /\ \A s : Calm(s)' <=> Calm(s)
    BY <1>2 DEF GetRestCoroutine, GetNextTimer, GetNextHandle, Destroy, Post, Calm
  <2>2. /\ \A u \in Actors \ {t} :
             pc'[u] = pc[u] /\ any_exec'[u] = any_exec[u] /\ cur'[u] = cur[u]
        /\ pc'[t] \in {"got", "timer", "handle", "register", "wait", "loop"}
    BY <1>2, <1>a DEF GetRestCoroutine, GetNextTimer, GetNextHandle, Destroy, Post
  <2>3. pc'[t] = "got" => any_exec'[t] \notin CoSubs
    <3>1. CASE GetRestCoroutine(t)
      BY <3>1, <1>a DEF GetRestCoroutine, Typed, Control, EmptyPcs
    <3>2. CASE GetNextTimer(t)
      BY <3>2, <1>a DEF GetNextTimer, TakeableTimers, Typed, TypeOK, ExecutorTypes
    <3>3. CASE GetNextHandle(t)
      BY <3>3, <1>a DEF GetNextHandle
    <3>4. CASE Destroy(t) \/ Post(t)
      BY <3>4, <1>a DEF Destroy, Post
    <3> QED
      BY <1>2, <3>1, <3>2, <3>3, <3>4
  <2>4. \A c \in Coros : Claims(c)' => Claims(c)
    BY <2>1, <2>2
  <2>5. \A u \in Threads, s \in CoSubs : Takes(u, s)' => Takes(u, s)
    BY <2>1, <2>2, <2>3
  <2> QED
    BY <2>1, <2>4, <2>5, FewerClaims
<1>3. ASSUME NEW t \in Threads, Register(t)
      PROVE  Claiming'
  <2> DEFINE s == any_exec[t]
  <2>1. /\ pc[t] = "register" /\ pc' = [pc EXCEPT ![t] = "got"]
        /\ UNCHANGED <<any_exec, cur, coro>> /\ s \in CoSubs
        /\ suspended' = [suspended EXCEPT ![s] = @ + 1]
        /\ \A r : Calm(r)' <=> Calm(r)
    BY <1>3 DEF Register, Typed, Control, Calm
  <2>2. suspended[s] = 0 /\ suspended'[s] = 1
    BY <2>1, <1>a DEF Listing
  <2>3. \A r \in CoSubs \ {s} : suspended'[r] = suspended[r]
    BY <2>1, <1>a
  <2>4. \A c \in Coros : Claims(c)' => Claims(c) /\ coro[c].sub # s
    BY <2>1, <2>2, <1>a DEF Claiming
  <2>5. \A u \in Threads, r \in CoSubs :
          Takes(u, r)' => Calm(r) /\ IF u = t THEN r = s ELSE Takes(u, r) /\ r # s
    BY <2>1, <2>2, <1>a DEF Claiming
  <2>6. \A c, d \in Coros : Claims(c)' /\ Claims(d)' /\ SameSub(c, d)' => c = d
    BY <2>1, <2>4 DEF Claiming, SameSub
  <2>7. \A c \in Coros :
          Claims(c)' => coro'[c].sub \in CoSubs /\ suspended'[coro'[c].sub] = 1
    BY <2>1, <2>3, <2>4 DEF Claiming
  <2>8. \A u \in Threads, r \in CoSubs : Takes(u, r)' => suspended'[r] = 1
    BY <2>2, <2>3, <2>5 DEF Claiming
  <2>9. \A u, v \in Threads, r \in CoSubs : Takes(u, r)' /\ Takes(v, r)' => u = v
    BY <2>5 DEF Claiming
  <2>10. \A c \in Coros, u \in Threads : Claims(c)' => ~Takes(u, coro[c].sub)'
    BY <2>1, <2>4, <2>5, <2>7 DEF Claiming
  <2> QED
    BY <2>6, <2>7, <2>8, <2>9, <2>10 DEF Claiming
<1>4. ASSUME NEW t \in Threads, ExecuteCoSubscription(t)
      PROVE  Claiming'
  <2> DEFINE s == any_exec[t]
  <2>1. PICK c \in Coros :
          /\ coro[c].st = "unborn"
          /\ coro' = [coro EXCEPT ![c] = NewPromise(s)]
          /\ cur' = [cur EXCEPT ![t] = c]
    BY <1>4 DEF ExecuteCoSubscription
  <2>2. /\ pc[t] = "exec" /\ pc' = [pc EXCEPT ![t] = "body"] /\ s \in CoSubs
        /\ UNCHANGED <<any_exec, suspended>>
    BY <1>4 DEF ExecuteCoSubscription
  <2>3. \A a \in Actors : cur[a] # c
    BY <2>1, <1>a DEF Holding
  <2>4. coro'[c].sub = s /\ \A d \in Coros \ {c} : coro'[d] = coro[d]
    BY <2>1, <1>a DEF NewPromise
  <2>0. \A r : Calm(r)' => Calm(r)
    <3>1. ~coro[c].early
      BY <2>1 DEF Passing
    <3> QED
      BY <2>4, <3>1 DEF Calm
  <2>5. Calm(s) => Takes(t, s) /\ suspended[s] = 1
    BY <2>2 DEF Claiming
  <2>6. \A d \in Coros \ {c} : Claims(d)' => Claims(d) /\ coro[d].sub # s
    <3>1. \A d \in Coros \ {c} : Claims(d)' => Claims(d)
      BY <2>0, <2>1, <2>2, <2>4, <1>a
    <3> QED
      BY <2>5, <3>1 DEF Claiming
  <2>7. \A u \in Threads, r \in CoSubs : Takes(u, r)' => Takes(u, r) /\ r # s
    <3>1. \A u \in Threads, r \in CoSubs : Takes(u, r)' => Takes(u, r) /\ u # t
      BY <2>0, <2>2, <1>a
    <3> QED
      BY <2>5, <3>1 DEF Claiming
  <2>8. \A d \in Coros :
          Claims(d)' => coro'[d].sub \in CoSubs /\ suspended'[coro'[d].sub] = 1
    BY <2>0, <2>2, <2>4, <2>5, <2>6 DEF Claiming
  <2>9. \A d, e \in Coros : Claims(d)' /\ Claims(e)' /\ SameSub(d, e)' => d = e
    BY <2>4, <2>6 DEF Claiming, SameSub
  <2>10. \A u \in Threads, r \in CoSubs : Takes(u, r)' => suspended'[r] = 1
    BY <2>2, <2>7 DEF Claiming
  <2>11. \A u, v \in Threads, r \in CoSubs : Takes(u, r)' /\ Takes(v, r)' => u = v
    BY <2>7 DEF Claiming
  <2>12. \A d \in Coros, u \in Threads : Claims(d)' => ~Takes(u, coro[d].sub)'
    BY <2>2, <2>4, <2>6, <2>7, <2>8 DEF Claiming
  <2> QED
    BY <2>8, <2>9, <2>10, <2>11, <2>12 DEF Claiming
<1>5. ASSUME NEW t \in Threads, Writes(t), ~InitCheck(t)
      PROVE  Claiming'
  <2> DEFINE c == cur[t]
  <2>1. UNCHANGED <<any_exec, cur, suspended>> /\ c \in Coros
    <3>1. suspended' = suspended
      BY <1>5 DEF Writes, ExecuteCoroutine, InitLock, InitVec, InitSub, InitExec
    <3> QED
      BY <1>5, <3>1, WritesMove
  <2>2. /\ \A u \in Threads \ {t} : pc'[u] = pc[u]
        /\ \/ ExecuteCoroutine(t) /\ pc'[t] = "body" /\ pc[t] = "exec"
           \/ /\ ~ExecuteCoroutine(t)
              /\ pc[t] \in {"init", "init_vec", "init_sub"}
              /\ pc'[t] \in {"init_vec", "init_sub", "init_check"}
           \/ ~ExecuteCoroutine(t) /\ pc'[t] = "release"
    <3>1. \A u \in Threads \ {t} : pc'[u] = pc[u]
      BY <1>5, WritesMove
    <3>2. ExecuteCoroutine(t) => pc[t] = "exec"
      BY DEF ExecuteCoroutine
    <3> QED
      BY <1>5, <3>1, <3>2, WritesMove
  <2>3. /\ \A d \in Coros \ {c} : coro'[d] = coro[d]
        /\ coro'[c].returned = coro[c].returned
        /\ \A d \in Coros : coro'[d].sub = coro[d].sub /\ coro'[d].early = coro[d].early
    BY <1>5, WritesKeep, EarlyStays
  <2>4. \A r : Calm(r)' <=> Calm(r)
    BY <2>3 DEF Calm
  <2>5. ASSUME Claims(c)'
        PROVE  Claims(c)
    <3>1. Calm(coro[c].sub)
      BY <2>1, <2>3, <2>4, <2>5
    <3>2. CASE ExecuteCoroutine(t)
      <4>1. Resumes(t, c)
        BY <3>2 DEF ExecuteCoroutine, Resumes
      <4>2. Alone(c)
        BY <2>1, <3>1 DEF Calm, Passing
      <4> QED
        BY <3>1, <4>1, <4>2 DEF Alone
    <3>3. CASE ~ExecuteCoroutine(t)
      <4>1. coro'[c].st = coro[c].st
        BY <1>5, <3>3, WritesKeep
      <4> QED
        BY <2>1, <2>2, <2>3, <2>5, <3>1, <3>3, <4>1
    <3> QED
      BY <3>2, <3>3
  <2>6. \A d \in Coros : Claims(d)' => Claims(d)
    <3> SUFFICES ASSUME NEW d \in Coros PROVE Claims(d)' => Claims(d)
      OBVIOUS
    <3>1. CASE d = c
      BY <2>1, <2>5, <3>1
    <3>2. CASE d # c
      BY <2>1, <2>2, <2>3, <2>4, <3>2
    <3> QED
      BY <3>1, <3>2
  <2>7. \A u \in Threads, r \in CoSubs : Takes(u, r)' => Takes(u, r)
    BY <2>1, <2>2, <2>4
  <2> QED
    BY <2>1, <2>3, <2>6, <2>7, FewerClaims
<1>6. ASSUME NEW t \in Threads, InitCheck(t)
      PROVE  Claiming'
  <2> DEFINE c == cur[t]
             s == any_exec[t]
  <2>1. /\ pc[t] = "init_check" /\ pc' = [pc EXCEPT ![t] = "init_exec"]
        /\ UNCHANGED <<any_exec, cur, coro>> /\ s \in CoSubs /\ c \in Coros
        /\ \A r : Calm(r)' <=> Calm(r)
    BY <1>6, ThreadUpdates DEF InitCheck, Typed, Control, InitPcs, Calm
  <2>2. coro[c].sub = s /\ coro[c].sub_ptr = s
    BY <2>1, <1>a DEF Naming, Linking
  <2>3. \A d \in Coros : Claims(d)' => Claims(d)
    BY <2>1, <1>a
  <2>4. \A u \in Threads, r \in CoSubs : Takes(u, r)' => Takes(u, r)
    BY <2>1, <1>a
  <2>5. \A r \in CoSubs \ {s} : suspended'[r] = suspended[r]
    BY <1>6, <2>1, <2>2, <1>a DEF InitCheck, EraseSuspended
  <2>6. CASE ~coro[c].returned
    <3>1. suspended' = suspended
      BY <1>6, <2>6 DEF InitCheck
    <3> QED
      BY <2>1, <2>3, <2>4, <3>1, FewerClaims
  <2>7. CASE ~Calm(s)
    <3>1. \A d \in Coros : Claims(d)' => coro[d].sub \in CoSubs \ {s}
      BY <2>3, <2>7 DEF Claiming
    <3>2. \A u \in Threads, r \in CoSubs : Takes(u, r)' => r # s
      BY <2>4, <2>7
    <3> QED
      BY <2>1, <2>3, <2>4, <2>5, <3>1, <3>2, FewerClaims
  <2>8. CASE coro[c].returned /\ Calm(s)
    <3>1. Claims(c) /\ Alone(c) /\ Recorded(c)
      BY <2>1, <2>2, <2>8, <1>a DEF Calm, Passing, Recording
    \* No thread runs c, so nothing of it is left to be erased.
    <3>2. ~Claims(c)'
      <4>1. ASSUME NEW u \in Threads, cur[u] = c, u # t
            PROVE  pc[u] \notin {"body", "ret_lock"} \cup InitPcs
        <5>1. ~coro[c].re_execute
          BY <2>1, <3>1 DEF Recorded, InitPcs
        <5>2. any_exec[u] = None
          BY <2>1, <4>1, <1>a DEF Holding
        <5>3. pc[u] \notin InitPcs
          BY <5>2, <1>a DEF Typed, Control
        <5>4. pc[u] \notin {"body", "ret_lock"}
          BY <2>1, <3>1, <4>1, <5>1, <5>2 DEF Recorded, Runs, RunPcs, ReturnPcs
        <5> QED
          BY <5>3, <5>4
      <4> QED
        BY <2>1, <2>8, <4>1, <1>a DEF InitPcs
    <3>3. \A d \in Coros : Claims(d)' => d # c /\ coro[d].sub \in CoSubs \ {s}
      BY <2>1, <2>2, <2>3, <3>1, <3>2 DEF Claiming, SameSub
    <3>4. \A u \in Threads, r \in CoSubs : Takes(u, r)' => r # s
      BY <2>1, <2>2, <2>4, <3>1 DEF Claiming
    <3> QED
      BY <2>1, <2>3, <2>4, <2>5, <3>3, <3>4, FewerClaims
  <2> QED
    BY <2>6, <2>7, <2>8
<1>7. ASSUME NEW a \in Actors, CoroutineStep(a)
      PROVE  Claiming'
  <2> DEFINE c == cur[a]
             s == coro[c].sub
  <2>1. /\ pc[a] \in RunPcs /\ c \in Coros /\ any_exec' = any_exec
        /\ \A u \in Actors \ {a} : pc'[u] = pc[u] /\ cur'[u] = cur[u]
    BY <1>7, BodyMoves
  <2>2. a \in Threads =>
          /\ cur'[a] = c
          /\ \/ pc'[a] = "ret_lock" /\ pc[a] = "body"
             \/ pc'[a] = "ret_vec" /\ ReturnLock(a)
             \/ pc'[a] = "init" /\ any_exec[a] # None
             \/ pc'[a] = "release"
    BY <1>7, BodyMoves
  <2>3. /\ \A d \in Coros \ {c} : coro'[d] = coro[d]
        /\ coro[c].returned => coro'[c].returned
    BY <1>7, BodyUpdates DEF CoroutineStep, Becomes
  <2>4. \A d \in Coros : coro'[d].sub = coro[d].sub /\ coro'[d].early = coro[d].early
    BY <1>7, EarlyStays
  <2>5. \A r : Calm(r)' <=> Calm(r)
    BY <2>4 DEF Calm
  <2>6. \A d \in Coros \ {c} : Claims(d)' => Claims(d)
    BY <2>1, <2>2, <2>3, <2>5
  <2>7. \A u \in Threads, r \in CoSubs : Takes(u, r)' => Takes(u, r)
    BY <2>1, <2>2, <2>5
  <2>8. /\ suspended' = suspended \/ (ReturnLock(a) /\ coro[c].exe)
        /\ \A r \in CoSubs \ {s} : suspended'[r] = suspended[r]
    <3>1. suspended' = suspended \/ (ReturnLock(a) /\ coro[c].exe)
      BY <1>7 DEF CoroutineStep, Await, BodyThrows, ReturnValue, ReturnLock, ReturnVec
    <3>2. ReturnLock(a) /\ coro[c].exe =>
            EraseSuspended(coro[c].sub_ptr)
      BY DEF ReturnLock
    <3>3. coro[c].sub_ptr \in {None, s}
      BY <2>1 DEF Naming
    <3> QED
      BY <3>1, <3>2, <3>3, <1>a DEF EraseSuspended
  <2>9. CASE coro[c].early
    <3>1. ~Calm(s)
      BY <2>1, <2>9 DEF Calm
    <3>2. \A d \in Coros : Claims(d)' => Claims(d) /\ coro[d].sub \in CoSubs \ {s}
      BY <2>1, <2>4, <2>5, <2>6, <3>1 DEF Claiming
    <3>3. \A u \in Threads, r \in CoSubs : Takes(u, r)' => r # s
      BY <2>7, <3>1
    <3> QED
      BY <2>4, <2>7, <2>8, <3>2, <3>3, FewerClaims
  <2>10. CASE ~coro[c].early
    <3>1. a \in Threads /\ a # Sched /\ Runs(a, c) /\ Alone(c) /\ Recorded(c)
      BY <2>1, <2>10 DEF Passing, Recording, Runs, RunPcs, ReturnPcs
    <3>2. Claims(c)' => Claims(c)
      <4>1. CASE pc[a] \in {"body", "ret_lock"}
        BY <2>1, <2>2, <2>4, <2>5, <3>1, <4>1
      <4>2. CASE pc[a] = "ret_vec"
        <5>1. any_exec[a] = None /\ coro[c].returned
          BY <2>1, <3>1, <4>2 DEF Recorded, Linking, ReturnPcs
        <5>2. pc'[a] = "release"
          BY <2>2, <3>1, <4>2, <5>1 DEF ReturnLock
        <5> QED
          BY <2>1, <2>2, <2>3, <2>4, <2>5, <3>1, <5>1, <5>2
      <4> QED
        BY <2>1, <4>1, <4>2 DEF RunPcs, ReturnPcs
    <3>3. \A d \in Coros : Claims(d)' => Claims(d)
      BY <2>2, <2>6, <3>1, <3>2
    <3>4. CASE suspended' = suspended
      BY <2>4, <2>7, <3>3, <3>4, FewerClaims
    <3>5. CASE ReturnLock(a) /\ coro[c].exe
      <4>1. any_exec[a] = None /\ coro[c].re_execute
        BY <2>1, <3>1, <3>5 DEF Recorded
      <4>2. ~Claims(c)'
        <5>1. coro'[c].returned
          BY <2>1, <2>3, <3>1, <3>5 DEF ReturnLock, Linking, ReturnPcs
        <5>2. ASSUME NEW u \in Threads, cur[u] = c, u # a
              PROVE  pc[u] \notin {"body", "ret_lock"} \cup InitPcs
          <6>1. pc[u] \notin InitPcs
            BY <2>1, <3>1, <4>1, <5>2 DEF Recorded
          <6>2. ~Runs(u, c)
            BY <2>1, <3>1, <5>2 DEF Alone
          <6> QED
            BY <5>2, <6>1, <6>2 DEF Runs, RunPcs, ReturnPcs
        <5>3. pc'[a] \in {"ret_vec", "release"}
          BY <2>2, <3>1, <3>5, <4>1 DEF ReturnLock
        <5> QED
          BY <2>1, <2>2, <3>1, <5>1, <5>2, <5>3 DEF InitPcs
      <4>3. Calm(s) => Claims(c)
        BY <2>1, <3>1, <3>5 DEF ReturnLock
      <4>4. \A d \in Coros : Claims(d)' => coro[d].sub \in CoSubs \ {s}
        <5> SUFFICES ASSUME NEW d \in Coros, Claims(d)'
                     PROVE  coro[d].sub \in CoSubs /\ coro[d].sub # s
          OBVIOUS
        <5>1. d # c /\ Claims(d) /\ coro[d].sub \in CoSubs
          BY <2>2, <3>1, <3>3, <4>2 DEF Claiming
        <5>2. coro[d].sub # s
          BY <2>1, <4>3, <5>1 DEF Claiming, SameSub
        <5> QED
          BY <5>1, <5>2
      <4>5. \A u \in Threads, r \in CoSubs : Takes(u, r)' => r # s
        BY <2>1, <2>7, <4>2, <4>3 DEF Claiming
      <4> QED
        BY <2>4, <2>7, <2>8, <3>3, <4>4, <4>5, FewerClaims
    <3> QED
      BY <2>8, <3>4, <3>5
  <2> QED
    BY <2>9, <2>10
<1>8. ASSUME NEW c \in Coros, SleepEnds(c)
      PROVE  Claiming'
  <2>1. suspended' = suspended /\ any_exec' = any_exec /\ coro[c].st = "sleeping"
        /\ \A t \in Threads : pc'[t] = pc[t] /\ cur'[t] = cur[t]
    BY <1>8, <1>a DEF SleepEnds
  <2>2. /\ coro'[c].early = (coro[c].early \/ ~coro[c].re_execute)
        /\ \A d \in Coros \ {c} : coro'[d] = coro[d]
        /\ \A d \in Coros : coro'[d].sub = coro[d].sub
    BY <1>8, SleepEarly
  <2>3. coro'[c].returned = coro[c].returned
    BY <1>8, SleepUpdates DEF Becomes
  <2>4. \A r : Calm(r)' => Calm(r)
    BY <2>2 DEF Calm
  <2>5. \A d \in Coros : Claims(d)' => Claims(d)
    BY <2>1, <2>2, <2>3, <2>4
  <2>6. \A t \in Threads, r \in CoSubs : Takes(t, r)' => Takes(t, r)
    BY <2>1, <2>4
  <2> QED
    BY <2>1, <2>2, <2>5, <2>6, FewerClaims
<1> QED
  BY <1>1, <1>2, <1>3, <1>4, <1>5, <1>6, <1>7, <1>8, ApartOrNot DEF Touches, Writes

------------------------------------------------------------------------------
(* Who is waited for: stops, groups and coroutines.                         *)

\* After a wait get_next_executable does not wait a second time.  A thread
\* that has seen no stop and is on its way to rcl_wait, or in it, will find
\* the guard condition triggered if there is one.
Waking ==
  /\ \A t \in Threads : retry[t] => pc[t] \in {"rest", "timer", "handle", "register"}
  /\ \A t \in Threads :
       /\ pc[t] \in {"rest", "timer", "handle", "wait", "rcl_wait"} /\ ~retry[t]
       /\ ~(ok /\ spinning)
       => interrupt \/ stopping

\* A stop is not slept over: a thread stays in rcl_wait after cancel() or a
\* shutdown of the context only until the call that stored the flag has
\* triggered the guard condition.
StopNotMissed ==
  \A t \in Threads :
    pc[t] = "rcl_wait" /\ ~(ok /\ spinning) => interrupt \/ stopping

\* While nobody calls cancel(), spinning holds whatever a thread runs.
Spun == \A t \in Threads : pc[t] \notin {"idle", "stopped"} => spinning

\* Thread t has opened group g and is about to wake the waiting thread.
Opens(t, g) == pc[t] = "notify" /\ any_exec[t] # None /\ GroupOf[any_exec[t]] = g

\* A group is closed only while a thread executes one of its entities.
ClosedIsKept == \A g \in Groups : ~taken_from[g] => \E t \in Threads : Keeps(t, g)

\* No entity is forgotten: one that the thread in rcl_wait has not in its wait
\* set, because the group was closed, belongs to a group that is still executed
\* or just opened, unless the thread is to start over anyway.
NothingForgotten ==
  \A t \in Threads, e \in Entities :
    pc[t] = "rcl_wait" /\ e \notin handles =>
      interrupt \/ \E u \in Threads : Keeps(u, GroupOf[e]) \/ Opens(u, GroupOf[e])

\* No coroutine is lost: one that runs does so on a thread or on the Scheduler,
\* one whose sleep is over is in coroutine_queue_ or taken from it by a thread
\* that will resume it.
CoroutineKept ==
  \A c \in Coros :
    /\ coro[c].st = "running" => \E a \in Actors : pc[a] \in RunPcs /\ cur[a] = c
    /\ coro[c].st = "queued" => Queued(c) \/ \E t \in Threads : Resumes(t, c)

LEMMA WakingKept ==
  ASSUME Typed, Locking, Waking, [Next]_vars
  PROVE  Waking'
<1> USE DEF Waking, Goto, execVars, lockVars, grpVars, thrVars, envVars, coVars
<1>a. pc \in [Actors -> Pcs] /\ retry \in [Threads -> BOOLEAN] /\ Sched \notin Threads
  BY ActorsAssumption DEF Typed, TypeOK, ThreadTypes
<1>b. \A t, u \in Threads : pc[t] \in WaitPcs /\ pc[u] \in WaitPcs => t = u
  BY ActorsAssumption, EntitiesAssumption DEF Locking
<1>1. ASSUME NEW a \in Actors, CoroutineStep(a)
      PROVE  Waking'
  <2>1. /\ UNCHANGED <<retry, ok, spinning, interrupt, stopping>>
        /\ \A t \in Threads : t # a => pc'[t] = pc[t]
        /\ pc[a] \notin {"rest", "timer", "handle", "register"}
        /\ pc'[a] \in {"asleep", "release", "init"} \cup ReturnPcs
    BY <1>1, <1>a DEF CoroutineStep, Await, BodyThrows, ReturnValue, ReturnLock, ReturnVec,
                      Leave, AfterSegment, ReturnPcs
  <2> QED
    BY <2>1 DEF ReturnPcs
<1>2. CASE UserStep
  <2>1. CASE Spin
    BY <2>1, <1>a DEF Spin
  <2>2. CASE SpinReturns
    BY <2>2, <1>a DEF SpinReturns
  <2>3. CASE Cancel \/ Shutdown \/ StopTriggers
    BY <2>3, <1>a DEF Cancel, Shutdown, StopTriggers
  <2> QED
    BY <1>2, <2>1, <2>2, <2>3 DEF UserStep
<1>3. CASE Environment
  BY <1>3 DEF Environment, Arrive, TimerElapses
<1>4. ASSUME NEW c \in Coros, SleepEnds(c)
      PROVE  Waking'
  BY <1>4, <1>a DEF SleepEnds
<1>5. ASSUME NEW t \in Threads, ThreadStep(t)
      PROVE  Waking'
  <2>1. CASE LoopTest(t) \/ Lock(t)
    BY <2>1, <1>a DEF LoopTest, Lock
  <2>2. CASE GetRestCoroutine(t) \/ GetNextTimer(t)
    BY <2>2, <1>a DEF GetRestCoroutine, GetNextTimer, Found
  <2>3. CASE GetNextHandle(t) \/ Register(t)
    BY <2>3, <1>a DEF GetNextHandle, Register, Found
  <2>4. CASE WaitFree(t) \/ PopFreeThread(t) \/ WaitForWork(t)
    BY <2>4, <1>a DEF WaitFree, PopFreeThread, WaitForWork
  <2>5. CASE RclWait(t)
    <3>1. pc[t] = "rcl_wait" /\ pc' = [pc EXCEPT ![t] = "waited"]
          /\ UNCHANGED <<retry, ok, spinning, stopping>>
      BY <2>5 DEF RclWait
    <3>2. \A u \in Threads :
            u # t => pc'[u] \notin {"rest", "timer", "handle", "wait", "rcl_wait"}
      BY <3>1, <1>a, <1>b DEF WaitPcs
    <3> QED
      BY <3>1, <3>2, <1>a
  <2>6. CASE AfterWait(t)
    BY <2>6, <1>a DEF AfterWait
  <2>7. CASE Mark(t) \/ Destroy(t)
    BY <2>7, <1>a DEF Mark, Destroy
  <2>8. CASE \/ ExecuteCancelled(t) \/ ExecuteCoroutine(t) \/ ExecuteTimer(t)
             \/ TakeFails(t) \/ MessageIgnored(t) \/ ExecuteCallback(t)
             \/ ExecuteCoSubscription(t)
    BY <2>8, <1>a DEF ExecuteCancelled, ExecuteCoroutine, ExecuteTimer, TakeFails,
                      MessageIgnored, ExecuteCallback, ExecuteCoSubscription
  <2>9. CASE CallbackReturns(t) \/ Release(t) \/ Notify(t) \/ Post(t)
    BY <2>9, <1>a DEF CallbackReturns, Release, Notify, Post
  <2>10. CASE InitLock(t) \/ InitVec(t) \/ InitSub(t) \/ InitCheck(t) \/ InitExec(t)
    <3>1. /\ UNCHANGED <<retry, ok, spinning, interrupt, stopping>>
          /\ \A u \in Threads : u # t => pc'[u] = pc[u]
          /\ pc[t] \in InitPcs /\ pc'[t] \in InitPcs \cup {"release"}
      BY <2>10, <1>a DEF InitLock, InitVec, InitSub, InitCheck, InitExec, InitPcs
    <3> QED
      BY <3>1 DEF InitPcs
  <2>11. CASE CoroutineStep(t)
    BY <2>11, <1>1 DEF Actors
  <2> QED
    BY <1>5, <2>1, <2>2, <2>3, <2>4, <2>5, <2>6, <2>7, <2>8, <2>9, <2>10, <2>11
       DEF ThreadStep
<1>6. CASE UNCHANGED vars
  BY <1>6 DEF vars
<1> QED
  BY <1>1, <1>2, <1>3, <1>4, <1>5, <1>6 DEF Next, SchedStep, Actors

LEMMA SpunKept ==
  ASSUME "cancel" \notin StopCalls, Typed, Spun, [Next]_vars
  PROVE  Spun'
<1> USE DEF Spun, Goto, execVars, lockVars, grpVars, thrVars, envVars, coVars
<1>a. pc \in [Actors -> Pcs] /\ Sched \notin Threads
  BY ActorsAssumption DEF Typed, TypeOK, ThreadTypes
<1>1. ASSUME NEW a \in Actors, CoroutineStep(a)
      PROVE  Spun'
  <2>1. /\ pc[a] \notin {"idle", "stopped"} /\ spinning' = spinning
        /\ \A t \in Threads : t # a => pc'[t] = pc[t]
    BY <1>1, <1>a DEF CoroutineStep, Await, BodyThrows, ReturnValue, ReturnLock, ReturnVec,
                      Leave, AfterSegment
  <2> QED
    BY <2>1
<1>2. CASE UserStep
  <2>1. CASE Spin
    BY <2>1 DEF Spin
  <2>2. CASE SpinReturns
    BY <2>2, <1>a DEF SpinReturns, Actors
  <2>3. CASE Shutdown \/ StopTriggers
    BY <2>3 DEF Shutdown, StopTriggers
  <2> QED
    BY <1>2, <2>1, <2>2, <2>3 DEF UserStep, Cancel
<1>3. CASE Environment
  BY <1>3 DEF Environment, Arrive, TimerElapses
<1>4. ASSUME NEW c \in Coros, SleepEnds(c)
      PROVE  Spun'
  BY <1>4, <1>a DEF SleepEnds
<1>5. ASSUME NEW t \in Threads, ThreadStep(t)
      PROVE  Spun'
  <2> SUFFICES /\ pc[t] \notin {"idle", "stopped"} /\ spinning' = spinning
               /\ \A u \in Threads : u # t => pc'[u] = pc[u]
    OBVIOUS
  <2>1. CASE LoopTest(t) \/ Lock(t) \/ GetRestCoroutine(t) \/ GetNextTimer(t)
    BY <2>1, <1>a DEF LoopTest, Lock, GetRestCoroutine, GetNextTimer
  <2>2. CASE GetNextHandle(t) \/ Register(t) \/ WaitFree(t) \/ PopFreeThread(t)
    BY <2>2, <1>a DEF GetNextHandle, Register, WaitFree, PopFreeThread
  <2>3. CASE WaitForWork(t) \/ RclWait(t) \/ AfterWait(t) \/ Mark(t) \/ Destroy(t)
    BY <2>3, <1>a DEF WaitForWork, RclWait, AfterWait, Mark, Destroy
  <2>4. CASE \/ ExecuteCancelled(t) \/ ExecuteCoroutine(t) \/ ExecuteTimer(t)
             \/ TakeFails(t) \/ MessageIgnored(t) \/ ExecuteCallback(t)
             \/ ExecuteCoSubscription(t)
    BY <2>4, <1>a DEF ExecuteCancelled, ExecuteCoroutine, ExecuteTimer, TakeFails,
                      MessageIgnored, ExecuteCallback, ExecuteCoSubscription
  <2>5. CASE CallbackReturns(t) \/ Release(t) \/ Notify(t) \/ Post(t)
    BY <2>5, <1>a DEF CallbackReturns, Release, Notify, Post
  <2>6. CASE InitLock(t) \/ InitVec(t) \/ InitSub(t) \/ InitCheck(t) \/ InitExec(t)
    BY <2>6, <1>a DEF InitLock, InitVec, InitSub, InitCheck, InitExec
  <2>7. CASE CoroutineStep(t)
    BY <2>7, <1>a DEF CoroutineStep, Await, BodyThrows, ReturnValue, ReturnLock, ReturnVec,
                      Leave, AfterSegment
  <2> QED
    BY <1>5, <2>1, <2>2, <2>3, <2>4, <2>5, <2>6, <2>7 DEF ThreadStep
<1>6. CASE UNCHANGED vars
  BY <1>6 DEF vars
<1> QED
  BY <1>1, <1>2, <1>3, <1>4, <1>5, <1>6 DEF Next, SchedStep, Actors

\* What a step leaves to threads that others wait for, while spin() goes on: who
\* keeps a group closed goes on or opens it, who has opened it goes on or wakes
\* the waiting thread, and that one has its handles and its trigger to itself.
Steady ==
  \A t \in Threads :
    /\ pc[t] \in HoldPcs /\ any_exec[t] # None =>
         (pc'[t] \in HoldPcs /\ any_exec'[t] = any_exec[t]) \/ Release(t)
    /\ pc[t] = "notify" => (pc'[t] = "notify" /\ any_exec'[t] = any_exec[t]) \/ interrupt'
    /\ pc[t] = "rcl_wait" /\ pc'[t] = "rcl_wait" => handles' = handles /\ (interrupt => interrupt')
    /\ pc'[t] = "rcl_wait" => pc[t] = "rcl_wait" \/ WaitForWork(t)

LEMMA SteadySteps ==
  ASSUME Typed, Locking, Spun, [Next]_vars
  PROVE  Steady
<1> USE DEF Steady, Goto, HoldPcs, ExecPcs, ReturnPcs, InitPcs
<1> USE DEF execVars, lockVars, grpVars, thrVars, envVars, coVars
<1>a. pc \in [Actors -> Pcs] /\ any_exec \in [Actors -> Entities \cup {None}]
      /\ Sched \notin Threads
  BY ActorsAssumption DEF Typed, TypeOK, ThreadTypes
<1>b. \A t, u \in Threads : pc[t] \in WaitPcs /\ pc[u] = "rcl_wait" => t = u
  BY ActorsAssumption, EntitiesAssumption DEF Locking, WaitPcs
<1>1. ASSUME NEW a \in Actors, CoroutineStep(a)
      PROVE  Steady
  <2>1. /\ UNCHANGED <<any_exec, handles, interrupt>>
        /\ \A t \in Threads : t # a => pc'[t] = pc[t]
        /\ pc[a] \in {"body"} \cup ReturnPcs
        /\ a \in Threads => pc'[a] \in HoldPcs
    BY <1>1, <1>a DEF CoroutineStep, Await, BodyThrows, ReturnValue, ReturnLock, ReturnVec,
                      Leave, AfterSegment
  <2> QED
    BY <2>1
<1>2. CASE UserStep
  <2>1. CASE Spin
    BY <2>1 DEF Spin
  <2>2. CASE SpinReturns
    BY <2>2 DEF SpinReturns
  <2>3. CASE Cancel \/ Shutdown \/ StopTriggers
    BY <2>3 DEF Cancel, Shutdown, StopTriggers
  <2> QED
    BY <1>2, <2>1, <2>2, <2>3 DEF UserStep
<1>3. CASE Environment
  BY <1>3 DEF Environment, Arrive, TimerElapses
<1>4. ASSUME NEW c \in Coros, SleepEnds(c)
      PROVE  Steady
  BY <1>4, <1>a DEF SleepEnds
<1>5. ASSUME NEW t \in Threads, ThreadStep(t)
      PROVE  Steady
  <2>1. CASE LoopTest(t) \/ Lock(t)
    BY <2>1, <1>a DEF LoopTest, Lock
  <2>2. CASE GetRestCoroutine(t) \/ GetNextTimer(t)
    BY <2>2, <1>a DEF GetRestCoroutine, GetNextTimer
  <2>3. CASE GetNextHandle(t) \/ Register(t) \/ WaitFree(t) \/ PopFreeThread(t)
    <3>1. \A u \in Threads : u # t => pc[u] # "rcl_wait"
      BY <2>3, <1>b DEF GetNextHandle, Register, WaitFree, PopFreeThread, WaitPcs
    <3>2. /\ pc[t] \in {"handle", "register", "wait"} /\ pc'[t] # "rcl_wait"
          /\ \A u \in Threads : u # t => pc'[u] = pc[u] /\ any_exec'[u] = any_exec[u]
      BY <2>3, <1>a DEF GetNextHandle, Register, WaitFree, PopFreeThread
    <3> QED
      BY <3>1, <3>2
  <2>4. CASE WaitForWork(t) \/ RclWait(t)
    <3>1. \A u \in Threads : u # t => pc[u] # "rcl_wait"
      BY <2>4, <1>b DEF WaitForWork, RclWait, WaitPcs
    <3>2. /\ pc[t] \in {"wait", "rcl_wait"} /\ (pc'[t] = "rcl_wait" => WaitForWork(t))
          /\ any_exec' = any_exec /\ \A u \in Threads : u # t => pc'[u] = pc[u]
          /\ pc[t] = "rcl_wait" => pc'[t] = "waited"
      BY <2>4, <1>a DEF WaitForWork, RclWait
    <3> QED
      BY <3>1, <3>2
  <2>5. CASE AfterWait(t) \/ Mark(t) \/ Destroy(t)
    BY <2>5, <1>a DEF AfterWait, Mark, Destroy
  <2>6. CASE ExecuteCancelled(t)
    BY <2>6 DEF ExecuteCancelled, Spun
  <2>7. CASE \/ ExecuteCoroutine(t) \/ ExecuteTimer(t) \/ TakeFails(t) \/ MessageIgnored(t)
             \/ ExecuteCallback(t) \/ ExecuteCoSubscription(t) \/ CallbackReturns(t)
    BY <2>7, <1>a DEF ExecuteCoroutine, ExecuteTimer, TakeFails, MessageIgnored,
                      ExecuteCallback, ExecuteCoSubscription, CallbackReturns
  <2>8. CASE Release(t)
    <3>1. /\ pc[t] = "release" /\ pc'[t] = "notify" /\ UNCHANGED <<any_exec, handles, interrupt>>
          /\ \A u \in Threads : u # t => pc'[u] = pc[u]
      BY <2>8, <1>a DEF Release
    <3> QED
      BY <2>8, <3>1
  <2>9. CASE Notify(t) \/ Post(t)
    BY <2>9, <1>a DEF Notify, Post
  <2>10. CASE InitLock(t) \/ InitVec(t) \/ InitSub(t) \/ InitCheck(t) \/ InitExec(t)
    <3>1. /\ UNCHANGED <<any_exec, handles, interrupt>>
          /\ \A u \in Threads : u # t => pc'[u] = pc[u]
          /\ pc[t] \in InitPcs /\ pc'[t] \in InitPcs \cup {"release"}
      BY <2>10, <1>a DEF InitLock, InitVec, InitSub, InitCheck, InitExec
    <3> QED
      BY <3>1
  <2>11. CASE CoroutineStep(t)
    BY <2>11, <1>1 DEF Actors
  <2> QED
    BY <1>5, <2>1, <2>2, <2>3, <2>4, <2>5, <2>6, <2>7, <2>8, <2>9, <2>10, <2>11
       DEF ThreadStep
<1>6. CASE UNCHANGED vars
  BY <1>6 DEF vars
<1> QED
  BY <1>1, <1>2, <1>3, <1>4, <1>5, <1>6 DEF Next, SchedStep, Actors

LEMMA ClosedIsKeptKept ==
  ASSUME Typed, Locking, Spun, ClosedIsKept, [Next]_vars
  PROVE  ClosedIsKept'
<1> SUFFICES ASSUME NEW g \in Groups, ~taken_from'[g]
             PROVE  \E t \in Threads : Keeps(t, g)'
  BY DEF ClosedIsKept
<1>a. /\ pc \in [Actors -> Pcs] /\ any_exec \in [Actors -> Entities \cup {None}]
      /\ taken_from \in [Groups -> BOOLEAN] /\ GroupOf \in [Entities -> Groups]
      /\ scheduled_timers \subseteq Timers /\ None \notin Timers
  BY EntitiesAssumption, GroupsAssumption
     DEF Typed, TypeOK, ThreadTypes, ExecutorTypes, Entities
<1>1. CASE ~taken_from[g]
  <2>1. PICK t \in Threads : Keeps(t, g)
    BY <1>1 DEF ClosedIsKept
  <2>2. ~Release(t)
    BY <2>1, <1>a DEF Release, Keeps
  <2> QED
    BY <2>1, <2>2, SteadySteps DEF Steady, Keeps
<1>2. CASE taken_from[g]
  <2>1. PICK t \in Threads : Busy(t)
    BY <1>2, QuietOrBusy DEF Quiet
  <2>2. Mark(t)
    <3>1. CASE GetNextTimer(t) \/ GetNextHandle(t) \/ Register(t) \/ Post(t)
      BY <3>1, <1>2 DEF GetNextTimer, GetNextHandle, Register, Post, grpVars
    <3>2. CASE Destroy(t)
      BY <3>2, <1>2, <1>a DEF Destroy
    <3>3. CASE Release(t)
      BY <3>3, <1>2, <1>a DEF Release
    <3> QED
      BY <2>1, <3>1, <3>2, <3>3 DEF Busy
  <2>3. any_exec[t] # None /\ g = GroupOf[any_exec[t]] /\ any_exec[t] \notin scheduled_timers
    BY <2>2, <1>2, <1>a DEF Mark
  <2>4. pc'[t] = "exec" /\ any_exec' = any_exec
    BY <2>2, <2>3, <1>a DEF Mark, Goto, Actors
  <2> QED
    BY <2>3, <2>4 DEF Keeps, HoldPcs
<1> QED
  BY <1>1, <1>2, <1>a

LEMMA NothingForgottenKept ==
  ASSUME Typed, Locking, Spun, ClosedIsKept, NothingForgotten, [Next]_vars
  PROVE  NothingForgotten'
<1> SUFFICES ASSUME NEW t \in Threads, NEW e \in Entities,
                    pc'[t] = "rcl_wait", e \notin handles', ~interrupt'
             PROVE  \E u \in Threads : Keeps(u, GroupOf[e])' \/ Opens(u, GroupOf[e])'
  BY DEF NothingForgotten
<1> DEFINE g == GroupOf[e]
<1>a. g \in Groups
  BY GroupsAssumption
<1>b. ASSUME NEW u \in Threads, Keeps(u, g)
      PROVE  Keeps(u, g)' \/ Opens(u, g)'
  <2>1. CASE Release(u)
    BY <2>1, <1>b DEF Release, Goto, Keeps, Opens, Typed, TypeOK, ThreadTypes, Actors
  <2>2. CASE ~Release(u)
    BY <2>2, <1>b, SteadySteps DEF Steady, Keeps
  <2> QED
    BY <2>1, <2>2
<1>1. CASE pc[t] = "rcl_wait"
  <2>1. e \notin handles /\ ~interrupt
    BY <1>1, SteadySteps DEF Steady
  <2>2. PICK u \in Threads : Keeps(u, g) \/ Opens(u, g)
    BY <1>1, <2>1 DEF NothingForgotten
  <2>3. CASE Keeps(u, g)
    BY <2>3, <1>b
  <2>4. CASE Opens(u, g)
    BY <2>4, SteadySteps DEF Steady, Opens
  <2> QED
    BY <2>2, <2>3, <2>4
<1>2. CASE pc[t] # "rcl_wait"
  <2>1. WaitForWork(t)
    BY <1>2, SteadySteps DEF Steady
  <2>2. ~taken_from[g]
    BY <2>1 DEF WaitForWork, Collected
  <2>3. PICK u \in Threads : Keeps(u, g)
    BY <2>2, <1>a DEF ClosedIsKept
  <2> QED
    BY <2>3, <1>b
<1> QED
  BY <1>1, <1>2

\* Who runs or is to resume a coroutine goes on with it until it does.
LEMMA CarriedOn ==
  ASSUME Typed, Spun, [Next]_vars
  PROVE  /\ \A a \in Actors :
              pc[a] \in RunPcs => (pc'[a] = pc[a] /\ cur'[a] = cur[a]) \/ CoroutineStep(a)
         /\ \A t \in Threads, c \in Coros :
              Resumes(t, c) => Resumes(t, c)' \/ ExecuteCoroutine(t)
<1> DEFINE On == /\ \A a \in Actors :
                      pc[a] \in RunPcs =>
                        (pc'[a] = pc[a] /\ cur'[a] = cur[a]) \/ CoroutineStep(a)
                 /\ \A t \in Threads, c \in Coros :
                      Resumes(t, c) => Resumes(t, c)' \/ ExecuteCoroutine(t)
<1> SUFFICES On
  OBVIOUS
<1> USE DEF Resumes, RunPcs, ReturnPcs, Goto
<1> USE DEF execVars, lockVars, grpVars, thrVars, envVars, coVars
<1>a. /\ pc \in [Actors -> Pcs] /\ any_exec \in [Actors -> Entities \cup {None}]
      /\ cur \in [Actors -> Coros \cup {None}]
      /\ Sched \notin Threads /\ None \notin Entities /\ scheduled_timers \subseteq Timers
      /\ Timers \subseteq Entities /\ Handled \subseteq Entities /\ CoSubs \subseteq Entities
      /\ IntraSubs \subseteq Entities
  BY ActorsAssumption, EntitiesAssumption
     DEF Typed, TypeOK, ThreadTypes, ExecutorTypes, Entities, Handled
\* One actor moves, and it neither ran a coroutine nor was to resume one.
<1>b. ASSUME NEW b \in Actors, pc[b] \notin RunPcs,
             pc[b] \notin {"got", "exec"} \/ any_exec[b] # None,
             \A a \in Actors : a # b =>
               pc'[a] = pc[a] /\ cur'[a] = cur[a] /\ any_exec'[a] = any_exec[a]
      PROVE  On
  BY <1>b DEF Actors
<1>1. ASSUME NEW b \in Actors, CoroutineStep(b)
      PROVE  On
  <2>1. /\ any_exec' = any_exec /\ pc[b] \in RunPcs
        /\ \A a \in Actors : a # b => pc'[a] = pc[a] /\ cur'[a] = cur[a]
    BY <1>1, <1>a DEF CoroutineStep, Await, BodyThrows, ReturnValue, ReturnLock, ReturnVec,
                      Leave, AfterSegment
  <2> QED
    BY <1>1, <2>1 DEF Actors
<1>2. CASE UserStep
  <2>1. CASE Spin
    BY <2>1, <1>a DEF Spin, Actors
  <2>2. CASE SpinReturns
    BY <2>2, <1>a DEF SpinReturns, Actors
  <2>3. CASE Cancel \/ Shutdown \/ StopTriggers
    BY <2>3 DEF Cancel, Shutdown, StopTriggers
  <2> QED
    BY <1>2, <2>1, <2>2, <2>3 DEF UserStep
<1>3. CASE Environment
  BY <1>3 DEF Environment, Arrive, TimerElapses
<1>4. ASSUME NEW c \in Coros, SleepEnds(c)
      PROVE  On
  BY <1>4, <1>a DEF SleepEnds, Actors
<1>5. ASSUME NEW t \in Threads, ThreadStep(t)
      PROVE  On
  <2>0. t \in Actors
    BY DEF Actors
  <2>1. CASE LoopTest(t) \/ Lock(t) \/ GetRestCoroutine(t) \/ GetNextTimer(t)
    BY <2>0, <2>1, <1>a, <1>b DEF LoopTest, Lock, GetRestCoroutine, GetNextTimer
  <2>2. CASE GetNextHandle(t) \/ Register(t) \/ WaitFree(t) \/ PopFreeThread(t)
    BY <2>0, <2>2, <1>a, <1>b DEF GetNextHandle, Register, WaitFree, PopFreeThread
  <2>3. CASE WaitForWork(t) \/ RclWait(t) \/ AfterWait(t) \/ Destroy(t)
    BY <2>0, <2>3, <1>a, <1>b DEF WaitForWork, RclWait, AfterWait, Destroy
  <2>4. CASE Mark(t)
    <3>1. /\ pc[t] = "got" /\ UNCHANGED <<any_exec, cur>>
          /\ pc' = [pc EXCEPT ![t] = IF any_exec[t] \in scheduled_timers THEN "dup" ELSE "exec"]
      BY <2>4 DEF Mark
    <3>2. any_exec[t] = None => pc'[t] = "exec"
      BY <2>0, <3>1, <1>a
    <3> QED
      BY <2>0, <3>1, <3>2, <1>a DEF Actors
  <2>5. CASE ExecuteCancelled(t)
    BY <2>5 DEF ExecuteCancelled, Spun
  <2>6. CASE ExecuteCoroutine(t)
    <3>1. /\ pc[t] = "exec" /\ UNCHANGED <<any_exec, cur>>
          /\ \A a \in Actors : a # t => pc'[a] = pc[a]
      BY <2>6, <1>a DEF ExecuteCoroutine
    <3> QED
      BY <2>6, <3>1 DEF Actors
  <2>7. CASE ExecuteTimer(t) \/ TakeFails(t) \/ MessageIgnored(t)
             \/ ExecuteCallback(t) \/ ExecuteCoSubscription(t)
    <3>1. any_exec[t] # None /\ pc[t] = "exec"
      BY <2>7, <1>a DEF ExecuteTimer, TakeFails, MessageIgnored, ExecuteCallback,
                        ExecuteCoSubscription
    <3>2. \A a \in Actors : a # t =>
            pc'[a] = pc[a] /\ cur'[a] = cur[a] /\ any_exec'[a] = any_exec[a]
      BY <2>0, <2>7, <1>a DEF ExecuteTimer, TakeFails, MessageIgnored, ExecuteCallback,
                              ExecuteCoSubscription
    <3> QED
      BY <2>0, <3>1, <3>2, <1>b
  <2>8. CASE CallbackReturns(t) \/ Release(t) \/ Notify(t) \/ Post(t)
    BY <2>0, <2>8, <1>a, <1>b DEF CallbackReturns, Release, Notify, Post
  <2>9. CASE InitLock(t) \/ InitVec(t) \/ InitSub(t) \/ InitCheck(t) \/ InitExec(t)
    <3>1. /\ UNCHANGED <<any_exec, cur>> /\ pc[t] \in InitPcs
          /\ \A a \in Actors : a # t => pc'[a] = pc[a]
      BY <2>9, <1>a DEF InitLock, InitVec, InitSub, InitCheck, InitExec, InitPcs
    <3> QED
      BY <2>0, <3>1, <1>b DEF InitPcs
  <2>10. CASE CoroutineStep(t)
    BY <2>0, <2>10, <1>1
  <2> QED
    BY <1>5, <2>1, <2>2, <2>3, <2>4, <2>5, <2>6, <2>7, <2>8, <2>9, <2>10 DEF ThreadStep
<1>6. CASE UNCHANGED vars
  BY <1>6 DEF vars
<1> QED
  BY <1>1, <1>2, <1>3, <1>4, <1>5, <1>6 DEF Next, SchedStep, Actors

LEMMA CoroutineKeptKept ==
  ASSUME Typed, Holding, Spun, CoroutineKept, [Next]_vars
  PROVE  CoroutineKept'
<1> SUFFICES ASSUME NEW c \in Coros
             PROVE  /\ coro'[c].st = "running" =>
                         \E a \in Actors : pc'[a] \in RunPcs /\ cur'[a] = c
                    /\ coro'[c].st = "queued" =>
                         Queued(c)' \/ \E t \in Threads : Resumes(t, c)'
  BY DEF CoroutineKept
<1> DEFINE Kept == /\ coro'[c].st = "running" =>
                        \E a \in Actors : pc'[a] \in RunPcs /\ cur'[a] = c
                   /\ coro'[c].st = "queued" =>
                        Queued(c)' \/ \E t \in Threads : Resumes(t, c)'
<1> SUFFICES Kept
  OBVIOUS
<1>a. /\ pc \in [Actors -> Pcs] /\ any_exec \in [Actors -> Entities \cup {None}]
      /\ cur \in [Actors -> Coros \cup {None}] /\ coro \in [Coros -> Promise]
      /\ coroutine_queue \in Seq(Coros) /\ Threads \subseteq Actors /\ Sched \in Actors
  BY DEF Typed, TypeOK, ThreadTypes, CoroutineTypes, Actors
<1>b. /\ \A a \in Actors : CoroutineStep(a) => pc[a] \in RunPcs /\ pc'[a] # pc[a]
      /\ \A t \in Threads : ExecuteCoroutine(t) => pc[t] = "exec" /\ pc'[t] = "body"
  BY <1>a DEF CoroutineStep, Await, BodyThrows, ReturnValue, ReturnLock, ReturnVec,
              Leave, AfterSegment, Goto, RunPcs, ReturnPcs, ExecuteCoroutine
\* A step that neither starts nor ends anything of c, and leaves it in the queue.
<1>c. ASSUME coro'[c].st = coro[c].st,
             Queued(c) => Queued(c)' \/ \E t \in Threads : Resumes(t, c)',
             \A a \in Actors : cur[a] = c => ~CoroutineStep(a),
             \A t \in Threads : cur[t] = c => ~ExecuteCoroutine(t)
      PROVE  Kept
  <2>1. CASE coro[c].st = "running"
    <3>1. PICK a \in Actors : pc[a] \in RunPcs /\ cur[a] = c
      BY <2>1 DEF CoroutineKept
    <3> QED
      BY <1>c, <2>1, <3>1, CarriedOn
  <2>2. CASE coro[c].st = "queued"
    <3>1. CASE Queued(c)
      BY <1>c, <2>2, <3>1
    <3>2. CASE ~Queued(c)
      <4>1. PICK t \in Threads : Resumes(t, c)
        BY <2>2, <3>2 DEF CoroutineKept
      <4>2. ~ExecuteCoroutine(t)
        BY <4>1, <1>c DEF Resumes
      <4> QED
        BY <1>c, <2>2, <4>1, <4>2, CarriedOn
    <3> QED
      BY <3>1, <3>2
  <2> QED
    BY <1>c, <2>1, <2>2
\* The actor of a step is at none of the places where it could be such a step.
<1>d. ASSUME NEW b \in Actors, \A a \in Actors : a # b => pc'[a] = pc[a],
             pc[b] \notin RunPcs \cup {"exec"}
      PROVE  \A a \in Actors : ~CoroutineStep(a) /\ (a \in Threads => ~ExecuteCoroutine(a))
  BY <1>b, <1>d DEF RunPcs, ReturnPcs
<1>e. coroutine_queue' = coroutine_queue => (Queued(c) => Queued(c)')
  BY DEF Queued
<1> HIDE DEF Kept
<1>1. CASE Apart
  <2>1. \A a \in Actors : ~CoroutineStep(a)
    <3>1. ASSUME NEW a \in Actors, CoroutineStep(a)
          PROVE  FALSE
      <4>1. pc[a] \in RunPcs /\ pc'[a] # pc[a]
        BY <3>1, <1>b
      <4>2. cur[a] # None
        BY <4>1, EntitiesAssumption DEF Typed, Running, RunPcs
      <4>3. pc'[a] \notin {"notify", "post"}
        BY <3>1, <1>a
           DEF CoroutineStep, Await, BodyThrows, ReturnValue, ReturnLock, ReturnVec, Leave,
               AfterSegment, Goto
      <4> QED
        BY <4>1, <4>2, <4>3, <1>1 DEF Apart, Actors, EmptyPcs, RunPcs, ReturnPcs
    <3> QED
      BY <3>1
  <2>2. \A t \in Threads : ~ExecuteCoroutine(t)
    BY <1>1, <1>b DEF Apart, EmptyPcs
  <2>3. coro'[c].st = coro[c].st /\ (Queued(c) => Queued(c)')
    BY <1>1, <1>e DEF Apart
  <2> QED
    BY <2>1, <2>2, <2>3, <1>c
<1>2. ASSUME NEW t \in Threads, GetRestCoroutine(t)
      PROVE  Kept
  <2>1. /\ pc[t] = "rest" /\ coro' = coro
        /\ \A a \in Actors : a # t => pc'[a] = pc[a]
    BY <1>2, <1>a DEF GetRestCoroutine, Goto, coVars
  <2>2. \A a \in Actors : ~CoroutineStep(a) /\ (a \in Threads => ~ExecuteCoroutine(a))
    BY <2>1, <1>a, <1>d DEF RunPcs, ReturnPcs
  <2>3. ASSUME Queued(c), ~Queued(c)'
        PROVE  Resumes(t, c)'
    <3>1. coroutine_queue # <<>>
      BY <2>3, <1>e, <1>2 DEF GetRestCoroutine
    <3>2. /\ cur' = [cur EXCEPT ![t] = coroutine_queue[1]] /\ any_exec' = any_exec
          /\ coroutine_queue' = Tail(coroutine_queue) /\ pc' = [pc EXCEPT ![t] = "got"]
      BY <3>1, <1>2 DEF GetRestCoroutine, Goto
    <3>3. PICK i \in 1 .. Len(coroutine_queue) : coroutine_queue[i] = c
      BY <2>3 DEF Queued
    <3>4. i = 1
      <4>1. ASSUME i # 1
            PROVE  FALSE
        <5>1. i - 1 \in 1 .. Len(Tail(coroutine_queue)) /\ Tail(coroutine_queue)[i - 1] = c
          BY <1>a, <3>1, <3>3, <4>1
        <5> QED
          BY <5>1, <3>2, <2>3 DEF Queued
      <4> QED
        BY <4>1
    <3>5. any_exec[t] = None
      BY <2>1 DEF Typed, Control, EmptyPcs
    <3> QED
      BY <3>2, <3>3, <3>4, <3>5, <1>a DEF Resumes
  <2> QED
    BY <2>1, <2>2, <2>3, <1>a, <1>c
<1>3. ASSUME NEW t \in Threads,
             GetNextTimer(t) \/ GetNextHandle(t) \/ Register(t) \/ Destroy(t) \/ Post(t)
      PROVE  Kept
  <2>1. /\ pc[t] \in {"timer", "handle", "register", "dup", "post"}
        /\ UNCHANGED <<coro, coroutine_queue>>
        /\ \A a \in Actors : a # t => pc'[a] = pc[a]
    BY <1>3, <1>a DEF GetNextTimer, GetNextHandle, Register, Destroy, Post, Goto, coVars
  <2>2. \A a \in Actors : ~CoroutineStep(a) /\ (a \in Threads => ~ExecuteCoroutine(a))
    BY <2>1, <1>a, <1>d DEF RunPcs, ReturnPcs
  <2> QED
    BY <2>1, <2>2, <1>a, <1>c, <1>e
<1>4. ASSUME NEW t \in Threads, ExecuteCoSubscription(t)
      PROVE  Kept
  <2>1. PICK d \in Coros : /\ coro[d].st = "unborn"
                           /\ coro' = [coro EXCEPT ![d] = NewPromise(any_exec[t])]
                           /\ cur' = [cur EXCEPT ![t] = d]
    BY <1>4 DEF ExecuteCoSubscription
  <2>2. /\ pc[t] = "exec" /\ pc' = [pc EXCEPT ![t] = "body"] /\ any_exec[t] \in CoSubs
        /\ UNCHANGED coroutine_queue
    BY <1>4 DEF ExecuteCoSubscription, Goto
  <2>3. CASE c = d
    BY <2>1, <2>2, <2>3, <1>a DEF Kept, NewPromise, RunPcs
  <2>4. CASE c # d
    <3>1. \A a \in Actors : ~CoroutineStep(a)
      BY <2>2, <1>a, <1>b DEF RunPcs, ReturnPcs
    <3>2. \A u \in Threads : ~ExecuteCoroutine(u)
      <4>1. ~ExecuteCoroutine(t)
        BY <2>2, EntitiesAssumption DEF ExecuteCoroutine, Entities, Handled
      <4> QED
        BY <4>1, <2>2, <1>a, <1>b
    <3> QED
      BY <2>1, <2>2, <2>4, <3>1, <3>2, <1>a, <1>c, <1>e
  <2> QED
    BY <2>3, <2>4
<1>5. ASSUME NEW t \in Threads, ExecuteCoroutine(t)
      PROVE  Kept
  <2> DEFINE d == cur[t]
  <2>1. /\ d \in Coros
        /\ Becomes(d, "running", coro[d].returned, coro[d].exe, coro[d].sub_ptr,
                   coro[d].re_execute)
    BY <1>5, ThreadUpdates
  <2>2. pc' = [pc EXCEPT ![t] = "body"] /\ UNCHANGED <<cur, coroutine_queue>> /\ pc[t] = "exec"
    BY <1>5 DEF ExecuteCoroutine, Goto
  <2>3. CASE c = d
    BY <2>1, <2>2, <2>3, <1>a DEF Kept, Becomes, RunPcs
  <2>4. CASE c # d
    <3>1. \A a \in Actors : ~CoroutineStep(a)
      BY <2>2, <1>a, <1>b DEF RunPcs, ReturnPcs
    <3>2. \A u \in Threads : cur[u] = c => ~ExecuteCoroutine(u)
      BY <2>2, <2>4, <1>a, <1>b
    <3> QED
      BY <2>1, <2>2, <2>4, <3>1, <3>2, <1>c, <1>e DEF Becomes
  <2> QED
    BY <2>3, <2>4
<1>6. ASSUME NEW t \in Threads,
             InitLock(t) \/ InitVec(t) \/ InitSub(t) \/ InitCheck(t) \/ InitExec(t)
      PROVE  Kept
  <2>1. \A e \in Coros : coro'[e].st = coro[e].st
    <3>1. ~ExecuteCoroutine(t)
      BY <1>6 DEF ExecuteCoroutine, InitLock, InitVec, InitSub, InitExec, InitCheck
    <3> QED
      BY <1>6, <3>1, WritesKeep DEF Writes
  <2>2. /\ UNCHANGED coroutine_queue /\ pc[t] \in InitPcs
        /\ \A a \in Actors : a # t => pc'[a] = pc[a]
    <3>1. CASE InitLock(t)
      BY <3>1, <1>a DEF InitLock, InitPcs, Goto
    <3>2. CASE InitVec(t)
      BY <3>2, <1>a DEF InitVec, InitPcs, Goto
    <3>3. CASE InitSub(t) \/ InitCheck(t) \/ InitExec(t)
      BY <3>3, <1>a DEF InitSub, InitCheck, InitExec, InitPcs, Goto
    <3> QED
      BY <1>6, <3>1, <3>2, <3>3
  <2>3. \A a \in Actors : ~CoroutineStep(a) /\ (a \in Threads => ~ExecuteCoroutine(a))
    BY <2>2, <1>a, <1>d DEF RunPcs, ReturnPcs, InitPcs
  <2> QED
    BY <2>1, <2>2, <2>3, <1>a, <1>c, <1>e
<1>7. ASSUME NEW b \in Actors, CoroutineStep(b)
      PROVE  Kept
  <2> DEFINE d == cur[b]
  <2>1. /\ pc[b] \in RunPcs /\ d \in Coros /\ UNCHANGED coroutine_queue
        /\ \A a \in Actors : a # b => pc'[a] = pc[a]
    BY <1>7, <1>a, BodyUpdates
       DEF CoroutineStep, Await, BodyThrows, ReturnValue, ReturnLock, ReturnVec, Leave,
           Goto, RunPcs, ReturnPcs
  <2>2. CASE c # d
    <3>1. coro'[c] = coro[c]
      <4>1. \A e \in Coros \ {d} : coro'[e] = coro[e]
        BY <1>7, BodyUpdates DEF CoroutineStep, Becomes
      <4> QED
        BY <2>2, <4>1
    <3>2. \A a \in Actors : cur[a] = c => ~CoroutineStep(a)
      BY <2>1, <2>2, <1>b
    <3>3. \A u \in Threads : ~ExecuteCoroutine(u)
      BY <2>1, <1>a, <1>b DEF RunPcs, ReturnPcs
    <3> QED
      BY <2>1, <3>1, <3>2, <3>3, <1>c, <1>e
  <2>3. CASE c = d
    <3>1. coro'[c].st \notin {"running", "queued"} => Kept
      BY DEF Kept
    <3>2. CASE Await(b) \/ BodyThrows(b) \/ ReturnVec(b) \/ (ReturnLock(b) /\ ~coro[d].exe)
      BY <2>3, <3>1, <3>2, BodyUpdates DEF Becomes
    <3>3. CASE ReturnValue(b) \/ (ReturnLock(b) /\ coro[d].exe)
      <4>1. coro'[c].st = coro[c].st
        BY <2>3, <3>3, BodyUpdates DEF Becomes
      <4>2. pc'[b] \in RunPcs /\ cur'[b] = c
        BY <2>3, <3>3, <1>a DEF ReturnValue, ReturnLock, Goto, RunPcs, ReturnPcs
      <4>3. \A u \in Threads : ~ExecuteCoroutine(u)
        BY <2>1, <1>a, <1>b DEF RunPcs, ReturnPcs
      <4>4. coro[c].st = "queued" => Queued(c)' \/ \E t \in Threads : Resumes(t, c)'
        BY <2>1, <1>e, <4>3, CarriedOn DEF CoroutineKept
      <4> QED
        BY <4>1, <4>2, <4>4 DEF Kept
    <3> QED
      BY <1>7, <3>2, <3>3 DEF CoroutineStep
  <2> QED
    BY <2>2, <2>3
<1>8. ASSUME NEW d \in Coros, SleepEnds(d)
      PROVE  Kept
  <2>1. Becomes(d, IF coro[d].re_execute THEN "queued" ELSE "running", coro[d].returned,
                coro[d].exe, coro[d].sub_ptr, coro[d].re_execute)
    BY <1>8, SleepUpdates
  <2>2. CASE coro[d].re_execute
    <3>1. coroutine_queue' = Append(coroutine_queue, d) /\ UNCHANGED <<pc, cur>>
      BY <1>8, <2>2 DEF SleepEnds
    <3>2. Queued(d)' /\ (Queued(c) => Queued(c)')
      <4>1. /\ Len(coroutine_queue') = Len(coroutine_queue) + 1
            /\ coroutine_queue'[Len(coroutine_queue) + 1] = d
            /\ \A i \in 1 .. Len(coroutine_queue) : coroutine_queue'[i] = coroutine_queue[i]
            /\ Len(coroutine_queue) \in Nat
        BY <3>1, <1>a
      <4> QED
        BY <4>1 DEF Queued
    <3>3. CASE c = d
      BY <2>1, <2>2, <3>2, <3>3 DEF Kept, Becomes
    <3>4. CASE c # d
      BY <2>1, <3>1, <3>2, <3>4, <1>b, <1>c DEF Becomes
    <3> QED
      BY <3>3, <3>4
  <2>3. CASE ~coro[d].re_execute
    <3>1. /\ pc[Sched] = "asleep" /\ pc' = [pc EXCEPT ![Sched] = "body"]
          /\ cur' = [cur EXCEPT ![Sched] = d] /\ UNCHANGED coroutine_queue
      BY <1>8, <2>3 DEF SleepEnds, Goto
    <3>2. CASE c = d
      BY <2>1, <2>3, <3>1, <3>2, <1>a DEF Kept, Becomes, RunPcs
    <3>3. CASE c # d
      <4>1. \A a \in Actors : ~CoroutineStep(a) /\ (a \in Threads => ~ExecuteCoroutine(a))
        BY <3>1, <1>a, <1>d DEF RunPcs, ReturnPcs
      <4> QED
        BY <2>1, <3>1, <3>3, <4>1, <1>a, <1>c, <1>e DEF Becomes
    <3> QED
      BY <3>2, <3>3
  <2> QED
    BY <2>2, <2>3
<1>9. ASSUME NEW t \in Threads, Touches(t)
      PROVE  Kept
  BY <1>9, <1>2, <1>3, <1>4, <1>5, <1>6 DEF Touches
<1> QED
  BY <1>1, <1>7, <1>8, <1>9, ApartOrNot

------------------------------------------------------------------------------
(* The theorems.                                                            *)

IInv == /\ Typed /\ Locking /\ Marking /\ Scheduling /\ Listing
        /\ Holding /\ Linking /\ Erasing

LEMMA IInvInit == Init => IInv
<1> SUFFICES ASSUME Init PROVE IInv
  OBVIOUS
<1>1. Typed
  BY InitTyped DEF Typed
<1>2. \A t \in Threads : pc[t] = "idle"
  BY DEF Init
<1>3. Locking
  BY <1>2 DEF Locking, WaitPcs
<1>4. Marking
  BY <1>2 DEF Init, Marking, Keeps, HoldPcs, ExecPcs, ReturnPcs, InitPcs
<1>5. Scheduling
  BY <1>2 DEF Scheduling, ScheduledPcs, ExecPcs, ReturnPcs, InitPcs
<1>6. Listing
  BY <1>2 DEF Init, Listing
<1>7. Holding /\ Linking /\ Erasing
  <2>1. /\ \A a \in Actors : pc[a] \in {"idle", "asleep"} /\ cur[a] = None
        /\ \A c \in Coros : coro[c] = Unborn
        /\ Len(coroutine_queue) = 0
    BY DEF Init
  <2>2. Holding
    BY <1>2, <2>1 DEF Holding
  <2>3. Linking /\ Erasing
    BY <2>1 DEF Linking, Erasing, Unborn, NewPromise, ReturnPcs, InitPcs
  <2> QED
    BY <2>2, <2>3
<1> QED
  BY <1>1, <1>3, <1>4, <1>5, <1>6, <1>7 DEF IInv

LEMMA IInvKept == IInv /\ [Next]_vars => IInv'
  BY TypedKept, LockingKept, MarkingKept, SchedulingKept, ListingKept, HoldingKept,
     LinkingKept, ErasingKept DEF IInv, Typed

LEMMA IInvHolds == Spec => []IInv
  BY IInvInit, IInvKept, PTL DEF Spec

\* Two threads never run callbacks of one mutually exclusive group without
\* timers at once, for any number of threads and any placement of entities,
\* across cancel() and repeated spin().
THEOREM ExclusionOfGroups == Spec => []GroupExclusion
<1>1. IInv => GroupExclusion
  BY DEF IInv, Typed, TypeOK, ThreadTypes, Marking, Keeps, Guarded, HoldPcs,
         GroupExclusion, Executing
<1> QED
  BY <1>1, IInvHolds, PTL

\* No timer is executed by two threads at once, whatever the group's type.
THEOREM ExclusionOfTimers == Spec => []TimerExclusion
<1>1. IInv => TimerExclusion
  BY DEF IInv, Scheduling, ScheduledPcs, TimerExclusion
<1> QED
  BY <1>1, IInvHolds, PTL

\* The assertion in get_next_executable never fails.
THEOREM AssertionHolds == Spec => []AssertNotTaken
<1>1. IInv => AssertNotTaken
  BY DEF IInv, Marking, AssertNotTaken
<1> QED
  BY <1>1, IInvHolds, PTL

\* A subscription is on suspend_coroutine_list_ at most once, so that the
\* loops that erase it, which skip an element after each erasure, remove it.
THEOREM SubscriptionListedOnce == Spec => []ListedOnce
<1>1. IInv => ListedOnce
  BY DEF IInv, Listing, ListedOnce
<1> QED
  BY <1>1, IInvHolds, PTL

\* When a coroutine has returned and promise_executor_init of its message is
\* through, the subscription is off suspend_coroutine_list_, whichever of the
\* two threads saw the other's writes; otherwise it would never run again.
THEOREM ReturnedCoroutineErased == Spec => []ReturnedIsErased
<1>1. IInv => ReturnedIsErased
  BY DEF IInv, Erasing, Guarded, ReturnedIsErased
<1> QED
  BY <1>1, IInvHolds, PTL

\* What else holds of the coroutines while no sleep ends before
\* promise_executor_init does.
LInv == IInv /\ Passing /\ Naming /\ Recording /\ Claiming

LEMMA LInvInit == Init => LInv
<1> SUFFICES ASSUME Init PROVE LInv
  OBVIOUS
<1>1. /\ \A t \in Threads : pc[t] = "idle" /\ any_exec[t] = None /\ cur[t] = None
      /\ pc[Sched] = "asleep"
      /\ \A c \in Coros : coro[c] = Unborn
      /\ Len(coroutine_queue) = 0
      /\ None \notin Coros
  BY DEF Init
<1>2. /\ Unborn.st = "unborn" /\ Unborn.re_execute = FALSE
      /\ Unborn.early = FALSE /\ Unborn.sub_ptr = None
  BY DEF Unborn, NewPromise
<1>3. Passing
  BY <1>1, <1>2 DEF Passing, Alone, Once, Runs, Resumes, RunPcs, ReturnPcs, Queued
<1>4. Naming /\ Recording
  BY <1>1, <1>2 DEF Naming, Recording, Recorded, Runs, RunPcs, ReturnPcs
<1>5. Claiming
  BY <1>1, <1>2 DEF Claiming, Claims, Takes, Live
<1> QED
  BY <1>3, <1>4, <1>5, IInvInit DEF LInv

LEMMA LInvKept == LInv /\ [Next]_vars => LInv'
  BY IInvKept, PassingKept, NamingKept, RecordingKept, ClaimingKept DEF LInv, IInv

\* A subscription starts no second coroutine while one is suspended: the entry
\* in suspend_coroutine_list_ outlives every part of the first.  Only a sleep
\* of one of its own coroutines that ends before promise_executor_init does can
\* change that; the sleeps of other subscriptions cannot.
THEOREM OneCoroutine == Spec => []OneCoroutinePerSubscription
<1>1. LInv => OneCoroutinePerSubscription
  <2> SUFFICES ASSUME LInv, NEW c \in Coros, NEW d \in Coros,
                      Live(c), Live(d), SameSub(c, d),
                      \A b \in Coros : SameSub(b, c) => ~coro[b].early
               PROVE  c = d
    BY DEF OneCoroutinePerSubscription
  <2>1. Calm(coro[c].sub) /\ Calm(coro[d].sub)
    BY DEF Calm, SameSub
  <2>2. Claims(c) /\ Claims(d)
    BY <2>1 DEF Claims
  <2> QED
    BY <2>2 DEF LInv, Claiming
<1>2. Spec => []LInv
  BY LInvInit, LInvKept, PTL DEF Spec
<1> QED
  BY <1>1, <1>2, PTL

LEMMA WakingHolds == Spec => [](Typed /\ Locking /\ Waking)
<1>1. Init => Waking
  BY DEF Init, Waking, Typed, TypeOK, Actors
<1>2. Init => Typed /\ Locking
  BY IInvInit DEF IInv
<1>3. Typed /\ Locking /\ Waking /\ [Next]_vars => (Typed /\ Locking /\ Waking)'
  BY TypedKept, LockingKept, WakingKept DEF Typed
<1> QED
  BY <1>1, <1>2, <1>3, PTL DEF Spec

\* No stop is missed: cancel() and the shutdown of the context may come
\* between any two steps of a thread that has just seen that it is to go on,
\* and yet it does not sleep in rcl_wait when the call has triggered its guard
\* condition.  StopEndsSpin rests on it.
THEOREM NoStopIsMissed == Spec => []StopNotMissed
<1>1. Waking => StopNotMissed
  BY DEF Waking, StopNotMissed
<1> QED
  BY <1>1, WakingHolds, PTL

WInv == /\ Typed /\ Locking /\ Holding /\ Spun
        /\ ClosedIsKept /\ NothingForgotten /\ CoroutineKept

LEMMA WInvInit == Init => WInv
<1> SUFFICES ASSUME Init PROVE WInv
  OBVIOUS
<1>1. \A t \in Threads : pc[t] = "idle"
  BY ActorsAssumption DEF Init, Actors
<1>2. Spun /\ NothingForgotten
  BY <1>1 DEF Spun, NothingForgotten
<1>3. ClosedIsKept
  BY DEF Init, ClosedIsKept
<1>4. CoroutineKept
  BY DEF Init, CoroutineKept, Unborn, NewPromise
<1> QED
  BY <1>2, <1>3, <1>4, IInvInit DEF WInv, IInv

LEMMA WInvKept == "cancel" \notin StopCalls => (WInv /\ [Next]_vars => WInv')
  BY TypedKept, LockingKept, HoldingKept, SpunKept, ClosedIsKeptKept,
     NothingForgottenKept, CoroutineKeptKept DEF WInv, Typed

LEMMA WInvHolds == ASSUME "cancel" \notin StopCalls PROVE Spec => []WInv
  BY WInvInit, WInvKept, PTL DEF Spec

\* A group is closed only while a thread executes one of its entities, and no
\* thread sleeps in rcl_wait without an entity whose group nobody is about to
\* open: data that was left out of the wait set because its group was in use
\* makes the wait start over.  DataIsTaken rests on it.  After cancel() it may
\* fail: execute_any_executable returns early and leaves the group closed.
THEOREM NoDataIsForgotten ==
  ASSUME "cancel" \notin StopCalls
  PROVE  Spec => [](ClosedIsKept /\ NothingForgotten)
<1>1. WInv => ClosedIsKept /\ NothingForgotten
  BY DEF WInv
<1> QED
  BY <1>1, WInvHolds, PTL

\* However sleeps end, before promise_executor_init or after it, a coroutine
\* that has begun is somebody's to run: it sleeps, it runs on a thread or on
\* the Scheduler, or it waits in coroutine_queue_ or with the thread that took
\* it.  CoroutineReturns rests on it.  cancel() drops the one a thread holds.
THEOREM NoCoroutineIsLost ==
  ASSUME "cancel" \notin StopCalls
  PROVE  Spec => []CoroutineKept
<1>1. WInv => CoroutineKept
  BY DEF WInv
<1> QED
  BY <1>1, WInvHolds, PTL

==============================================================================
