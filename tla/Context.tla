------------------------------- MODULE Context -------------------------------
(***************************************************************************)
(* rclcpp::Context, the global SignalHandler and the functions of          *)
(* rclcpp/utilities.hpp that use both (context.cpp, signal_handler.cpp,    *)
(* utilities.cpp).  User threads initialise, shut down and destroy         *)
(* contexts, sleep, register on_shutdown callbacks, install and uninstall  *)
(* the signal handler; SIGINT is delivered at any time while the handler   *)
(* is set; the deferred handler thread shuts the contexts down.            *)
(***************************************************************************)
EXTENDS Integers, FiniteSets, Sequences, FiniteSetsExt, SequencesExt

CONSTANTS
  Contexts,          \* rclcpp::Context objects
  DefaultContext,    \* get_global_default_context()
  ShutdownOnSigint,  \* the contexts whose InitOptions say shutdown_on_sigint
  Callers,           \* user threads that set up and shut down
  Sleepers,          \* user threads that call sleep_for
  Callbacks,         \* on_shutdown callbacks, each registered at most once
  CallbackContext,   \* the context a callback is registered with
  MaxInits,          \* bound: successful inits
  MaxSignals,        \* bound: SIGINTs delivered
  MaxSleep           \* bound: length of a sleep_for

ASSUME ContextAssumption ==
  /\ DefaultContext \in Contexts
  /\ ShutdownOnSigint \subseteq Contexts
  /\ CallbackContext \in [Callbacks -> Contexts]

None == "none"
NoSem == -1            \* signal_handler_sem_ is not initialised
Handler == "handler"   \* signal_handler_thread_
Threads == Callers \cup Sleepers \cup {Handler}

ASSUME ThreadsAssumption == None \notin Callers \cup Sleepers

VARIABLES
  alive,       \* contexts that some shared_ptr still owns
  valid,       \* contexts whose rcl context is initialised and not shut down
  inits,       \* inits[c]: how often rcl_init succeeded
  init_mutex,  \* init_mutex[c]: the thread that holds init_mutex_
  g_contexts,  \* the global list of weak pointers
  callbacks,   \* callbacks[c]: on_shutdown_callbacks_
  iter,        \* iter[c]: callbacks called by the shutdown in progress
  called,      \* history: how often a callback was called since the last init
  pc, arg,     \* of each thread: where it is, and the context it works on
  left, began, \* time_left of a sleeper, and the init it began its sleep in
  notified,    \* sleepers whose condition variable was notified
  install_mutex, installed, handler_set, signal_received,
  is_setup,    \* wait_for_signal_is_setup_
  sem,         \* count of signal_handler_sem_, or NoSem
  todo,        \* contexts the deferred handler has still to shut down
  frame,       \* the frame of signal_handler on the thread SIGINT interrupted
  signals,     \* SIGINTs delivered
  hit,         \* history: contexts a delivered SIGINT has to shut down
  undefined    \* a data race or the use of a destroyed semaphore happened

ctxVars == <<alive, valid, inits, init_mutex, g_contexts, callbacks, iter, called>>
sleepVars == <<left, began, notified>>
sigVars == <<install_mutex, installed, handler_set, signal_received, is_setup, sem, todo, frame, signals>>
vars == <<ctxVars, pc, arg, sleepVars, sigVars, hit, undefined>>

Init ==
  /\ alive = Contexts /\ valid = {} /\ inits = [c \in Contexts |-> 0]
  /\ init_mutex = [c \in Contexts |-> None]
  /\ g_contexts = {}
  /\ callbacks = [c \in Contexts |-> <<>>] /\ iter = [c \in Contexts |-> 0]
  /\ called = [k \in Callbacks |-> 0]
  /\ pc = [t \in Threads |-> IF t = Handler THEN "exited" ELSE "idle"]
  /\ arg = [t \in Threads |-> None]
  /\ left = [t \in Sleepers |-> 0] /\ began = [t \in Sleepers |-> 0] /\ notified = {}
  /\ install_mutex = None /\ installed = FALSE /\ handler_set = FALSE
  /\ signal_received = FALSE /\ is_setup = FALSE /\ sem = NoSem
  /\ todo = {} /\ frame = "none" /\ signals = 0
  /\ hit = {} /\ undefined = FALSE

\* A thread goes on; it lets the context go when it no longer works on it.
Go(t, from, to) ==
  /\ pc[t] = from /\ pc' = [pc EXCEPT ![t] = to]
  /\ arg' = [arg EXCEPT ![t] = IF to \in {"idle", "install", "uninstall", "next"} THEN None ELSE @]
MayInit == MapThenSumSet(LAMBDA c : inits[c], Contexts) < MaxInits
Idle(t) == pc[t] = "idle"
Call(t, c, to) == Idle(t) /\ c \in alive /\ pc' = [pc EXCEPT ![t] = to] /\ arg' = [arg EXCEPT ![t] = c]
Free(c, t) == init_mutex[c] \in {None, t}

------------------------------------------------------------------------------
(* Context.                                                                 *)

\* Context::init, under init_mutex_: a valid context throws; rcl_init may fail.
\* rclcpp::init goes on to install the handler when nothing was thrown.
\* on_shutdown_callbacks_ stays.
CallInit(t, c) ==
  /\ MayInit /\ Call(t, c, "init")
  /\ UNCHANGED <<ctxVars, sleepVars, sigVars, hit, undefined>>

InitContext(t) == LET c == arg[t] IN
  /\ pc[t] = "init" /\ Free(c, t)
  /\ \/ /\ c \notin valid /\ MayInit
        /\ valid' = valid \cup {c} /\ inits' = [inits EXCEPT ![c] = @ + 1]
        /\ called' = [k \in Callbacks |-> IF CallbackContext[k] = c THEN 0 ELSE called[k]]
        /\ g_contexts' = g_contexts \cup {c}
        /\ Go(t, "init", IF c = DefaultContext THEN "install" ELSE "idle")
     \/ Go(t, "init", "idle") /\ UNCHANGED <<valid, inits, called, g_contexts>>
  /\ UNCHANGED <<alive, init_mutex, callbacks, iter, sleepVars, sigVars, hit, undefined>>

\* on_shutdown takes no lock: the vector may be reallocated under the loop of
\* a shutdown in progress.
OnShutdown(t, k) == LET c == CallbackContext[k] IN
  /\ Idle(t) /\ c \in alive /\ ~Contains(callbacks[c], k)
  /\ callbacks' = [callbacks EXCEPT ![c] = Append(@, k)]
  /\ undefined' = (undefined \/ \E u \in Threads : pc[u] = "callbacks" /\ arg[u] = c)
  /\ UNCHANGED <<alive, valid, inits, init_mutex, g_contexts, iter, called, pc, arg, sleepVars, sigVars, hit>>

\* rclcpp::shutdown(c), and the destructor once nobody else owns the context.
CallShutdown(t, c) ==
  /\ Call(t, c, "shutdown")
  /\ UNCHANGED <<ctxVars, sleepVars, sigVars, hit, undefined>>

CallDestroy(t, c) ==
  /\ c # DefaultContext /\ c \notin todo /\ \A u \in Threads : arg[u] # c
  /\ Call(t, c, "shutdown")
  /\ alive' = alive \ {c}
  /\ UNCHANGED <<valid, inits, init_mutex, g_contexts, callbacks, iter, called, sleepVars, sigVars, hit, undefined>>

\* Where a thread goes on when Context::shutdown returns: rclcpp::shutdown of
\* the default context uninstalls the handler.
AfterShutdown(t) ==
  IF t = Handler THEN "next" ELSE IF arg[t] = DefaultContext THEN "uninstall" ELSE "idle"

\* Mutant: the validity test is made before the lock is taken.
ShutdownContext_TestFirst(t) == LET c == arg[t] IN
  /\ pc[t] \in {"shutdown", "shutdown_lock"}
  /\ IF pc[t] = "shutdown"
     THEN /\ Go(t, "shutdown", IF c \in valid THEN "shutdown_lock" ELSE AfterShutdown(t))
          /\ UNCHANGED <<valid, init_mutex, iter, hit>>
     ELSE /\ Free(c, t) /\ Go(t, "shutdown_lock", "callbacks")
          /\ valid' = valid \ {c} /\ hit' = hit \ {c}
          /\ init_mutex' = [init_mutex EXCEPT ![c] = t] /\ iter' = [iter EXCEPT ![c] = 0]
  /\ UNCHANGED <<alive, inits, g_contexts, callbacks, called, sleepVars, sigVars, undefined>>

\* Context::shutdown: lock, test is_valid, rcl_shutdown.
ShutdownContext(t) == LET c == arg[t] IN
  /\ pc[t] = "shutdown" /\ Free(c, t)
  /\ \/ /\ c \in valid /\ Go(t, "shutdown", "callbacks")
        /\ valid' = valid \ {c} /\ hit' = hit \ {c}
        /\ init_mutex' = [init_mutex EXCEPT ![c] = t] /\ iter' = [iter EXCEPT ![c] = 0]
     \/ /\ c \notin valid /\ Go(t, "shutdown", AfterShutdown(t))
        /\ UNCHANGED <<valid, init_mutex, iter, hit>>
  /\ UNCHANGED <<alive, inits, g_contexts, callbacks, called, sleepVars, sigVars, undefined>>

\* The loop over on_shutdown_callbacks_.
RunCallback(t) == LET c == arg[t] IN
  /\ pc[t] = "callbacks" /\ iter[c] < Len(callbacks[c])
  /\ iter' = [iter EXCEPT ![c] = @ + 1]
  /\ called' = [called EXCEPT ![callbacks[c][iter[c] + 1]] = @ + 1]
  /\ UNCHANGED <<alive, valid, inits, init_mutex, g_contexts, callbacks, pc, arg, sleepVars, sigVars, hit, undefined>>

Waiting(c) == {s \in Sleepers : pc[s] = "sleep_wait" /\ arg[s] = c}

\* Mutant: the sleepers are not notified.
InterruptSleep_Not(t) ==
  /\ Go(t, "callbacks", "interrupted") /\ iter[arg[t]] = Len(callbacks[arg[t]])
  /\ UNCHANGED <<ctxVars, sleepVars, sigVars, hit, undefined>>

\* interrupt_all_sleep_for, without interrupt_mutex_: a sleeper that has not
\* begun to wait is not notified.  interrupt_all_wait_sets is in GraphListener.
InterruptSleep(t) == LET c == arg[t] IN
  /\ Go(t, "callbacks", "interrupted") /\ iter[c] = Len(callbacks[c])
  /\ notified' = notified \cup Waiting(c)
  /\ UNCHANGED <<ctxVars, left, began, sigVars, hit, undefined>>

\* The end of Context::shutdown: the context leaves g_contexts (a context in
\* its destructor is expired there and is not found) and init_mutex_ is free.
Unlist(t) == LET c == arg[t] IN
  /\ Go(t, "interrupted", AfterShutdown(t))
  /\ g_contexts' = IF c \in alive THEN g_contexts \ {c} ELSE g_contexts
  /\ init_mutex' = [init_mutex EXCEPT ![c] = None] /\ iter' = [iter EXCEPT ![c] = 0]
  /\ UNCHANGED <<alive, valid, inits, callbacks, called, sleepVars, sigVars, hit, undefined>>

------------------------------------------------------------------------------
(* Context::sleep_for.                                                      *)

\* rclcpp::sleep_for, whose context is the default one.
CallSleep(t) == LET c == DefaultContext IN
  /\ Call(t, c, "sleep") /\ \E n \in 1 .. MaxSleep : left' = [left EXCEPT ![t] = n]
  /\ began' = [began EXCEPT ![t] = inits[c]]
  /\ UNCHANGED <<ctxVars, notified, sigVars, hit, undefined>>

\* interrupt_mutex_ is taken and given back by wait_for.
SleepEnter(t) ==
  /\ Go(t, "sleep", "sleep_wait")
  /\ UNCHANGED <<ctxVars, sleepVars, sigVars, hit, undefined>>

\* wait_for returns: the time is over, or some time has passed when it was
\* notified or woke up for no reason.
SleepTimeout(t) ==
  /\ Go(t, "sleep_wait", "sleep_test")
  /\ left' = [left EXCEPT ![t] = 0] /\ notified' = notified \ {t}
  /\ UNCHANGED <<ctxVars, began, sigVars, hit, undefined>>

SleepNotified(t) ==
  /\ t \in notified /\ Go(t, "sleep_wait", "sleep_test")
  /\ \E n \in 0 .. left[t] : left' = [left EXCEPT ![t] = n]
  /\ notified' = notified \ {t}
  /\ UNCHANGED <<ctxVars, began, sigVars, hit, undefined>>

SleepSpurious(t) ==
  /\ Go(t, "sleep_wait", "sleep_test")
  /\ \E n \in 0 .. left[t] : left' = [left EXCEPT ![t] = n]
  /\ notified' = notified \ {t}
  /\ UNCHANGED <<ctxVars, began, sigVars, hit, undefined>>

\* Mutant: an early wake-up ends the sleep.
SleepTest_Once(t) ==
  /\ Go(t, "sleep_test", "sleep_return")
  /\ UNCHANGED <<ctxVars, sleepVars, sigVars, hit, undefined>>

\* time_left > 0 and valid: sleep again.
SleepTest(t) ==
  /\ Go(t, "sleep_test", IF left[t] > 0 /\ arg[t] \in valid THEN "sleep" ELSE "sleep_return")
  /\ UNCHANGED <<ctxVars, sleepVars, sigVars, hit, undefined>>

\* The second reading of is_valid is the result.
SleepReturn(t) ==
  /\ Go(t, "sleep_return", IF arg[t] \in valid THEN "slept" ELSE "not_slept")
  /\ UNCHANGED <<ctxVars, sleepVars, sigVars, hit, undefined>>

SleepDone(t) ==
  /\ \E from \in {"slept", "not_slept"} : Go(t, from, "idle")
  /\ left' = [left EXCEPT ![t] = 0]
  /\ began' = [began EXCEPT ![t] = 0]
  /\ UNCHANGED <<ctxVars, notified, sigVars, hit, undefined>>

------------------------------------------------------------------------------
(* SignalHandler::install and uninstall.                                    *)

Rest == UNCHANGED <<ctxVars, sleepVars, todo, frame, signals, undefined>>

\* rclcpp::install_signal_handlers, rclcpp::uninstall_signal_handlers.
CallInstall(t) ==
  /\ \E to \in {"install", "uninstall"} : Go(t, "idle", to)
  /\ UNCHANGED <<install_mutex, installed, handler_set, signal_received, is_setup, sem>> /\ Rest /\ UNCHANGED hit

\* install: installed_.exchange(true) under install_mutex_.
InstallLock(t) ==
  /\ install_mutex = None
  /\ IF installed THEN Go(t, "install", "idle") /\ UNCHANGED install_mutex
                  ELSE Go(t, "install", "setup") /\ install_mutex' = t
  /\ installed' = TRUE
  /\ UNCHANGED <<handler_set, signal_received, is_setup, sem>> /\ Rest /\ UNCHANGED hit

\* setup_wait_for_signal, and signal_received_.store(false).
SetupWaitForSignal(t) ==
  /\ Go(t, "setup", "set") /\ sem' = 0 /\ is_setup' = TRUE /\ signal_received' = FALSE
  /\ UNCHANGED <<install_mutex, installed, handler_set>> /\ Rest /\ UNCHANGED hit

\* set_signal_handler(SIGINT, signal_handler).
SetHandler(t) ==
  /\ Go(t, "set", "start") /\ handler_set' = TRUE
  /\ UNCHANGED <<install_mutex, installed, signal_received, is_setup, sem>> /\ Rest /\ UNCHANGED hit

\* Mutant: signal_received_ is cleared after the handler was set.
StartThread_Clears(t) ==
  /\ pc[t] = "start" /\ pc' = [pc EXCEPT ![t] = "idle", ![Handler] = "exchange"]
  /\ install_mutex' = None /\ signal_received' = FALSE /\ UNCHANGED arg
  /\ UNCHANGED <<installed, handler_set, is_setup, sem>> /\ Rest /\ UNCHANGED hit

\* The deferred handler thread is started.
StartThread(t) ==
  /\ pc[t] = "start" /\ pc' = [pc EXCEPT ![t] = "idle", ![Handler] = "exchange"]
  /\ install_mutex' = None /\ UNCHANGED arg
  /\ UNCHANGED <<installed, handler_set, signal_received, is_setup, sem>> /\ Rest /\ UNCHANGED hit

\* An exception in install(): installed_ is reset, the rest stays as it is.
InstallThrows(t) ==
  /\ \E from \in {"setup", "set", "start"} : Go(t, from, "idle")
  /\ installed' = FALSE /\ hit' = {} /\ install_mutex' = None
  /\ UNCHANGED <<handler_set, signal_received, is_setup, sem>> /\ Rest

\* uninstall: installed_.exchange(false) under install_mutex_.
UninstallLock(t) ==
  /\ install_mutex = None
  /\ IF installed THEN Go(t, "uninstall", "restore") /\ install_mutex' = t
                  ELSE Go(t, "uninstall", "idle") /\ UNCHANGED install_mutex
  /\ installed' = FALSE /\ hit' = {}
  /\ UNCHANGED <<handler_set, signal_received, is_setup, sem>> /\ Rest

\* set_signal_handler(SIGINT, old_signal_handler_).
RestoreHandler(t) ==
  /\ Go(t, "restore", "notify") /\ handler_set' = FALSE
  /\ UNCHANGED <<install_mutex, installed, signal_received, is_setup, sem>> /\ Rest /\ UNCHANGED hit

Post == IF sem = NoSem THEN NoSem ELSE sem + 1

\* notify_signal_handler, called by uninstall.
NotifyHandler(t) ==
  /\ Go(t, "notify", "join") /\ sem' = IF is_setup THEN Post ELSE sem
  /\ UNCHANGED <<install_mutex, installed, handler_set, signal_received, is_setup>> /\ Rest /\ UNCHANGED hit

\* signal_handler_thread_.join().
Join(t) ==
  /\ pc[Handler] = "exited" /\ Go(t, "join", "teardown")
  /\ UNCHANGED <<install_mutex, installed, handler_set, signal_received, is_setup, sem>> /\ Rest /\ UNCHANGED hit

\* teardown_wait_for_signal: is_setup is exchanged, then the semaphore destroyed.
TeardownWaitForSignal(t) ==
  /\ Go(t, "teardown", "destroy") /\ is_setup' = FALSE
  /\ UNCHANGED <<install_mutex, installed, handler_set, signal_received, sem>> /\ Rest /\ UNCHANGED hit

DestroySemaphore(t) ==
  /\ Go(t, "destroy", "idle") /\ sem' = NoSem /\ install_mutex' = None
  /\ UNCHANGED <<installed, handler_set, signal_received, is_setup>> /\ Rest /\ UNCHANGED hit

------------------------------------------------------------------------------
(* SIGINT and the deferred handler.                                         *)

Listening == g_contexts \cap alive \cap valid \cap ShutdownOnSigint

\* install has set the handler and is not uninstalled.
Installed == installed /\ (install_mutex = None \/ pc[install_mutex] = "start")

\* SIGINT is delivered: signal_handler_common stores signal_received_.
Signal ==
  /\ handler_set /\ frame = "none" /\ signals < MaxSignals
  /\ signals' = signals + 1 /\ frame' = "notify" /\ signal_received' = TRUE
  /\ hit' = IF Installed THEN hit \cup Listening ELSE hit
  /\ UNCHANGED <<ctxVars, pc, arg, sleepVars, install_mutex, installed, handler_set, is_setup, sem, todo, undefined>>

\* notify_signal_handler in the frame of the handler: is_setup is read ...
SignalReadsSetup ==
  /\ frame = "notify" /\ frame' = IF is_setup THEN "post" ELSE "none"
  /\ UNCHANGED <<ctxVars, pc, arg, sleepVars, install_mutex, installed, handler_set, signal_received, is_setup, sem, todo, signals, hit, undefined>>

\* ... and the semaphore is posted, which uninstall may have destroyed.
SignalPosts ==
  /\ frame = "post" /\ frame' = "none" /\ sem' = Post
  /\ undefined' = (undefined \/ sem = NoSem)
  /\ UNCHANGED <<ctxVars, pc, arg, sleepVars, install_mutex, installed, handler_set, signal_received, is_setup, todo, signals, hit>>

HandlerRest == UNCHANGED <<alive, valid, inits, init_mutex, callbacks, iter, called, sleepVars, install_mutex, installed, handler_set, is_setup, frame, signals, undefined>>

\* deferred_signal_handler: signal_received_.exchange(false) and get_contexts,
\* which prunes expired pointers.
Exchange ==
  /\ Go(Handler, "exchange", IF signal_received THEN "get" ELSE "installed?")
  /\ signal_received' = FALSE
  /\ UNCHANGED <<g_contexts, todo, sem, hit>> /\ HandlerRest

GetContexts ==
  /\ Go(Handler, "get", "next")
  /\ todo' = g_contexts \cap alive /\ g_contexts' = g_contexts \cap alive
  /\ UNCHANGED <<signal_received, sem, hit>> /\ HandlerRest

\* The loop over the contexts: shutdown("signal handler") for the ones that ask.
NextContext ==
  /\ pc[Handler] = "next"
  /\ \/ \E c \in todo :
          /\ todo' = todo \ {c}
          /\ IF c \in ShutdownOnSigint
             THEN pc' = [pc EXCEPT ![Handler] = "shutdown"] /\ arg' = [arg EXCEPT ![Handler] = c]
             ELSE arg' = [arg EXCEPT ![Handler] = None] /\ UNCHANGED pc
     \/ /\ todo = {} /\ UNCHANGED todo
        /\ pc' = [pc EXCEPT ![Handler] = "installed?"] /\ arg' = [arg EXCEPT ![Handler] = None]
  /\ UNCHANGED <<signal_received, g_contexts, sem, hit>> /\ HandlerRest

\* The thread ends when the handler is no longer installed.
TestInstalled ==
  /\ Go(Handler, "installed?", IF installed THEN "wait" ELSE "exited")
  /\ UNCHANGED <<signal_received, g_contexts, todo, sem, hit>> /\ HandlerRest

\* wait_for_signal.
WaitForSignal ==
  /\ sem > 0 /\ Go(Handler, "wait", "exchange") /\ sem' = sem - 1
  /\ UNCHANGED <<signal_received, g_contexts, todo, hit>> /\ HandlerRest

------------------------------------------------------------------------------

ShutdownStep(t) == ShutdownContext(t) \/ RunCallback(t) \/ InterruptSleep(t) \/ Unlist(t)

InstallStep(t) ==
  \/ InstallLock(t) \/ SetupWaitForSignal(t) \/ SetHandler(t) \/ StartThread(t)
  \/ UninstallLock(t) \/ RestoreHandler(t) \/ NotifyHandler(t) \/ Join(t)
  \/ TeardownWaitForSignal(t) \/ DestroySemaphore(t)

SleepStep(t) == SleepEnter(t) \/ SleepNotified(t) \/ SleepTest(t) \/ SleepReturn(t) \/ SleepDone(t)

HandlerStep == Exchange \/ GetContexts \/ NextContext \/ TestInstalled \/ WaitForSignal \/ ShutdownStep(Handler)

FrameStep == SignalReadsSetup \/ SignalPosts

CallerStep(t) ==
  \/ \E c \in Contexts : CallInit(t, c) \/ CallShutdown(t, c) \/ CallDestroy(t, c)
  \/ \E k \in Callbacks : OnShutdown(t, k)
  \/ CallInstall(t) \/ InstallThrows(t) \/ InitContext(t) \/ ShutdownStep(t) \/ InstallStep(t)

SleeperStep(t) ==
  \/ CallSleep(t) \/ SleepTimeout(t) \/ SleepSpurious(t) \/ SleepStep(t)

Next ==
  \/ \E t \in Callers : CallerStep(t)
  \/ \E t \in Sleepers : SleeperStep(t)
  \/ HandlerStep \/ FrameStep \/ Signal

\* Threads run on inside the library's calls; the deferred handler and the
\* frame of the signal handler run; nothing forces a sleep to end by its time,
\* a spurious wake-up, a failure or a new call.
Fairness ==
  /\ \A t \in Callers : WF_vars(InitContext(t)) /\ WF_vars(ShutdownStep(t)) /\ WF_vars(InstallStep(t))
  /\ \A t \in Sleepers : WF_vars(SleepStep(t))
  /\ WF_vars(HandlerStep) /\ WF_vars(FrameStep)

Spec == Init /\ [][Next]_vars /\ Fairness

------------------------------------------------------------------------------
(* Properties.                                                              *)

Locations == {"idle", "init", "shutdown", "callbacks", "interrupted",
  "sleep", "sleep_wait", "sleep_test", "sleep_return", "slept", "not_slept",
  "install", "setup", "set", "start", "uninstall", "restore", "notify", "join", "teardown", "destroy",
  "exchange", "get", "next", "installed?", "wait", "exited"}

\* The state of the contexts and of the signal handler keeps its type, and a
\* mutex is held by a thread that is inside the code it protects.
TypeOK ==
  /\ alive \subseteq Contexts /\ valid \subseteq Contexts /\ g_contexts \subseteq Contexts
  /\ inits \in [Contexts -> 0 .. MaxInits] /\ todo \subseteq Contexts /\ hit \subseteq Contexts
  /\ pc \in [Threads -> Locations] /\ arg \in [Threads -> Contexts \cup {None}]
  /\ \A c \in Contexts : init_mutex[c] # None => pc[init_mutex[c]] \in {"callbacks", "interrupted"} /\ arg[init_mutex[c]] = c
  /\ install_mutex # None => pc[install_mutex] \in {"setup", "set", "start", "restore", "notify", "join", "teardown", "destroy"}
  /\ left \in [Sleepers -> 0 .. MaxSleep] /\ notified \subseteq Sleepers
  /\ frame \in {"none", "notify", "post"} /\ signals \in 0 .. MaxSignals

\* However many threads and the signal handler shut a context down at once, a
\* callback of on_shutdown is called at most once between two inits, and when a
\* shutdown goes on to interrupt the sleepers it has called all of them
\* (Context::shutdown, "prevent races").
CallbacksCalledOnce ==
  ~undefined =>
    /\ \A k \in Callbacks : called[k] <= 1
    /\ \A t \in Threads : pc[t] = "interrupted" =>
         \A k \in Range(callbacks[arg[t]]) : called[k] = 1 \/ iter[arg[t]] < Len(callbacks[arg[t]])

\* A sleep_for that returns true has slept its whole time in a context that was
\* not initialised anew in the meantime (context.cpp, "Return true if the
\* timeout elapsed successfully, otherwise false").
SleptWholeTime ==
  \A t \in Sleepers : pc[t] = "slept" => left[t] = 0 \/ inits[arg[t]] # began[t]

\* A SIGINT that is delivered while the handler is installed shuts down every
\* listed context that asks for it, unless the handler is uninstalled first.
SignalShutsDown == \A c \in ShutdownOnSigint : c \in hit ~> (c \notin hit \/ undefined)

\* uninstall ends: the deferred handler is woken up and joined.
UninstallReturns == \A t \in Callers : pc[t] = "join" ~> (pc[t] = "idle" \/ undefined)

\* A sleeper that waits when shutdown reaches interrupt_all_sleep_for leaves its
\* wait, however long the sleep would have been.
ShutdownWakesSleeper ==
  \A s \in Sleepers :
    (pc[s] = "sleep_wait" /\ \E t \in Threads : pc[t] = "callbacks" /\ arg[t] = arg[s]) ~> (pc[s] # "sleep_wait" \/ undefined)

\* Nobody waits for ever on the shutdown: neither a sleeper nor uninstall.
WaitersLeave == UninstallReturns /\ ShutdownWakesSleeper
==============================================================================
