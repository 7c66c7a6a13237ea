---------------------------- MODULE TaskCompletion ----------------------------
(***************************************************************************)
(* The end of a coroutine: TaskPromise (executor.hpp for values,            *)
(* task_void.hpp for void), Task (task.hpp) and TaskAwaiter (awaiter.hpp).  *)
(* The coroutine ends in one thread while others register callbacks, block  *)
(* in get_result or co_await the task.                                      *)
(*                                                                         *)
(* An action is one critical section of completion_lock or one step outside *)
(* it.  return_void and unhandled_exception keep the lock while they run    *)
(* the callbacks; return_value does not.                                    *)
(***************************************************************************)
EXTENDS Naturals, Sequences

CONSTANTS
  Flavours,   \* subset of {"value", "void"}: the result types considered
  Outcomes,   \* subset of {"value", "exception"}: how the coroutine may end
  Callbacks,  \* calls of then, catching and finally
  KindOf,     \* which of the three each is
  Awaiters,   \* coroutines that co_await the task
  InlineExec, \* the awaiting coroutine's executor runs inline (NoopExecutor)
  Getters,    \* threads that call get_result
  Owner,      \* the thread that ends the coroutine
  None

Registrants == Callbacks \cup Awaiters
Readers == Getters \cup Awaiters

ASSUME SetsAssumption ==
  /\ Flavours \subseteq {"value", "void"} /\ Outcomes \subseteq {"value", "exception"}
  /\ InlineExec \in BOOLEAN
  /\ KindOf \in [Callbacks -> {"then", "catching", "finally"}]
  /\ Callbacks \cap Awaiters = {} /\ Readers \cap Callbacks = {} /\ Getters \cap Awaiters = {}
  /\ None \notin Registrants /\ Owner # None

VARIABLES
  flavour,    \* the result type of this task
  result,     \* "none", or how the coroutine ended
  outcome,    \* how it is going to end
  completion_lock, \* Owner while it runs callbacks under the lock; else one step
  completion_callbacks,
  task,       \* the thread that ends the coroutine
  reg,        \* where each call of on_completed stands
  get,        \* where each call of get_result stands
  ran,        \* how often each user function ran
  alive       \* the promise exists

vars == <<flavour, result, outcome, completion_lock, completion_callbacks, task, reg, get, ran, alive>>

TypeOK ==
  /\ flavour \in Flavours
  /\ result \in {"none", "value", "exception"} /\ outcome \in {"none", "value", "exception"}
  /\ completion_lock \in {None, Owner} /\ completion_callbacks \in Seq(Registrants)
  /\ task \in {"body", "ending", "notify", "called", "returning", "suspended", "undefined"}
  /\ reg \in [Registrants -> {"new", "listed", "self", "calling", "done"}]
  /\ get \in [Readers -> {"new", "lock", "wait", "notified", "returned", "undefined", "terminate"}]
  /\ ran \in [Callbacks -> Nat] /\ alive \in BOOLEAN
  /\ task \notin {"body", "ending"} => result # "none"

Init ==
  /\ flavour \in Flavours /\ result = "none" /\ outcome = "none"
  /\ completion_lock = None /\ completion_callbacks = <<>> /\ task = "body"
  /\ reg = [c \in Registrants |-> "new"] /\ get = [g \in Readers |-> "new"]
  /\ ran = [c \in Callbacks |-> 0] /\ alive = TRUE

------------------------------------------------------------------------------
(* Running a callback.                                                      *)

\* then runs its function on a value, catching on an exception, finally always.
Applies(c, r) ==
  \/ KindOf[c] = "finally"
  \/ KindOf[c] = "then" /\ r = "value"
  \/ KindOf[c] = "catching" /\ r = "exception"

\* The callback of an awaiter resumes its coroutine, which calls get_result.
Call(c) ==
  IF c \in Awaiters
    THEN get' = [get EXCEPT ![c] = "lock"] /\ UNCHANGED ran
    ELSE /\ ran' = IF Applies(c, result) THEN [ran EXCEPT ![c] = @ + 1] ELSE ran
         /\ UNCHANGED get

\* ... and returns: at once, or when the coroutine that runs inline is through.
CallReturns(c) == c \in Awaiters /\ InlineExec => get[c] = "returned"

------------------------------------------------------------------------------
(* on_completed().                                                          *)

OnCompleted(c) ==
  /\ reg[c] = "new" /\ completion_lock = None /\ alive
  /\ \/ /\ result # "none"
        /\ reg' = [reg EXCEPT ![c] = "self"] /\ UNCHANGED completion_callbacks
     \/ /\ result = "none"
        /\ reg' = [reg EXCEPT ![c] = "listed"]
        /\ completion_callbacks' = Append(completion_callbacks, c)
  /\ UNCHANGED <<flavour, result, outcome, completion_lock, task, get, ran, alive>>

\* With a result, the caller runs the function itself, after the unlock.
CallSelf(c) ==
  /\ reg[c] = "self" /\ Call(c)
  /\ reg' = [reg EXCEPT ![c] = "calling"]
  /\ UNCHANGED <<flavour, result, outcome, completion_lock, completion_callbacks, task, alive>>

CallSelfReturns(c) ==
  /\ reg[c] = "calling" /\ CallReturns(c)
  /\ reg' = [reg EXCEPT ![c] = "done"]
  /\ UNCHANGED <<flavour, result, outcome, completion_lock, completion_callbacks, task, get, ran, alive>>

------------------------------------------------------------------------------
(* The end of the coroutine.                                                *)

CoReturn(r) ==
  /\ task = "body" /\ task' = "ending" /\ outcome' = r
  /\ UNCHANGED <<flavour, result, completion_lock, completion_callbacks, reg, get, ran, alive>>

HoldsLock == flavour = "void" \/ outcome = "exception"

\* return_value, return_void, unhandled_exception up to notify_callbacks.
Complete ==
  /\ task = "ending" /\ completion_lock = None
  /\ result' = outcome /\ task' = "notify"
  /\ get' = [g \in Readers |-> IF get[g] = "wait" THEN "notified" ELSE get[g]]
  /\ completion_lock' = IF HoldsLock THEN Owner ELSE None
  /\ UNCHANGED <<flavour, outcome, completion_callbacks, reg, ran, alive>>

\* notify_callbacks calls them in order ...
NotifyCallback ==
  /\ task = "notify" /\ alive /\ completion_callbacks # <<>>
  /\ Call(Head(completion_callbacks)) /\ task' = "called"
  /\ UNCHANGED <<flavour, result, outcome, completion_lock, completion_callbacks, reg, alive>>

\* Mutant: the iteration does not advance.
CallbackReturned_Again ==
  /\ task = "called" /\ alive /\ CallReturns(Head(completion_callbacks))
  /\ task' = "notify"
  /\ UNCHANGED <<flavour, result, outcome, completion_lock, completion_callbacks, reg, get, ran, alive>>

CallbackReturned ==
  /\ task = "called" /\ alive /\ CallReturns(Head(completion_callbacks))
  /\ reg' = [reg EXCEPT ![Head(completion_callbacks)] = "done"]
  /\ completion_callbacks' = Tail(completion_callbacks) /\ task' = "notify"
  /\ UNCHANGED <<flavour, result, outcome, completion_lock, get, ran, alive>>

\* ... the list is cleared, the lock released if it was held ...
NotifyEnds ==
  /\ task = "notify" /\ alive /\ completion_callbacks = <<>>
  /\ completion_lock' = None /\ task' = "returning"
  /\ UNCHANGED <<flavour, result, outcome, completion_callbacks, reg, get, ran, alive>>

\* ... and the coroutine reaches its final suspension.
FinalSuspend ==
  /\ task = "returning" /\ alive /\ task' = "suspended"
  /\ UNCHANGED <<flavour, result, outcome, completion_lock, completion_callbacks, reg, get, ran, alive>>

\* What follows a use of the promise after its destruction is not defined.
UsesDestroyed ==
  /\ task \in {"notify", "called", "returning"} /\ ~alive
  /\ task' = "undefined"
  /\ UNCHANGED <<flavour, result, outcome, completion_lock, completion_callbacks, reg, get, ran, alive>>

------------------------------------------------------------------------------
(* get_result(), and the end of the awaited task.                           *)

GetResult(g) ==
  /\ g \in Getters /\ get[g] = "new" /\ alive
  /\ get' = [get EXCEPT ![g] = "lock"]
  /\ UNCHANGED <<flavour, result, outcome, completion_lock, completion_callbacks, task, reg, ran, alive>>

\* The result or the exception; TaskAwaiter::await_resume is noexcept, so an
\* exception there ends the process.
Got(g) ==
  CASE result = "none" -> "undefined"
    [] result = "exception" /\ g \in Awaiters -> "terminate"
    [] OTHER -> "returned"

\* Mutant: the wait comes first.
GetLocked_AlwaysWaits(g) ==
  /\ get[g] = "lock" /\ completion_lock = None
  /\ get' = [get EXCEPT ![g] = "wait"]
  /\ UNCHANGED <<flavour, result, outcome, completion_lock, completion_callbacks, task, reg, ran, alive>>

GetLocked(g) ==
  /\ get[g] = "lock" /\ completion_lock = None
  /\ get' = [get EXCEPT ![g] = IF result = "none" THEN "wait" ELSE Got(g)]
  /\ UNCHANGED <<flavour, result, outcome, completion_lock, completion_callbacks, task, reg, ran, alive>>

\* completion.wait is not repeated: whatever ended it, a notification or a
\* spurious wake-up, the result is read.
WaitReturns(g) ==
  /\ get[g] \in {"notified", "wait"}
  /\ completion_lock = None
  /\ get' = [get EXCEPT ![g] = Got(g)]
  /\ UNCHANGED <<flavour, result, outcome, completion_lock, completion_callbacks, task, reg, ran, alive>>

\* After await_resume the TaskAwaiter goes, with it the Task and the promise;
\* the destructor for void takes the lock and waits if callbacks are left.
DestroyTask(a) ==
  /\ get[a] = "returned" /\ alive
  /\ flavour = "void" => completion_lock = None /\ completion_callbacks = <<>>
  /\ alive' = FALSE
  /\ UNCHANGED <<flavour, result, outcome, completion_lock, completion_callbacks, task, reg, get, ran>>

------------------------------------------------------------------------------
Step ==
  \/ \E c \in Registrants : CallSelf(c) \/ CallSelfReturns(c)
  \/ \E r \in Outcomes : CoReturn(r)
  \/ Complete \/ NotifyCallback \/ CallbackReturned \/ NotifyEnds \/ FinalSuspend \/ UsesDestroyed
  \/ \E g \in Readers : GetLocked(g) \/ (get[g] = "notified" /\ WaitReturns(g))

Terminated == \E a \in Awaiters : get[a] = "terminate"

Next ==
  /\ ~Terminated
  /\ \/ Step
     \/ \E c \in Registrants : OnCompleted(c)
     \/ \E g \in Readers : GetResult(g) \/ WaitReturns(g)
     \/ \E a \in Awaiters : DestroyTask(a)

Spec == Init /\ [][Next]_vars

\* Every thread that can take a step does; nobody need register or read.
FairSpec == Spec /\ WF_vars(~Terminated /\ Step)

------------------------------------------------------------------------------
(* Properties.                                                              *)

\* A user function runs at most once, and only on the result it is for, though
\* return_value goes through the list without the lock.
RunsAtMostOnce ==
  \A c \in Callbacks : ran[c] <= IF Applies(c, result) /\ result # "none" THEN 1 ELSE 0

\* Every callback that was registered, before or after the end of the
\* coroutine, is called: no registration falls between the result and the list.
\* Only an awaiting coroutine can prevent it, by destroying the promise or,
\* when the task threw, by ending the process.
CallbacksAreCalled ==
  \A c \in Callbacks :
    (reg[c] # "new") ~> \/ reg[c] = "done" /\ (Applies(c, result) => ran[c] = 1)
                       \/ ~alive \/ Terminated

\* get_result blocks no longer than the coroutine runs, whichever comes first.
GetReturns ==
  \A g \in Getters :
    (get[g] = "lock") ~> (get[g] \notin {"lock", "wait", "notified"} \/ Terminated)

\* "Use the executor to process handler": a coroutine that awaits the task is
\* resumed and gets through get_result.
AwaitReturns ==
  \A a \in Awaiters : (reg[a] # "new") ~> (get[a] = "returned" \/ Terminated)

\* The completion reaches everybody who waits for it: callbacks, get_result and co_await.
CompletionReachesAll == CallbacksAreCalled /\ GetReturns /\ AwaitReturns
===============================================================================
