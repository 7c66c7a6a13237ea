---------------------------- MODULE ContextProofs ----------------------------
(***************************************************************************)
(* Proofs about Context, for any contexts, threads, callbacks and bounds.  *)
(*                                                                         *)
(* The properties are not inductive.  Holding says that a shutdown in      *)
(* progress owns its context's mutex and has made the context invalid,     *)
(* Calling counts the calls of each callback against the loop, Slumber      *)
(* remembers what a sleeper saw of its context, and Installing is needed   *)
(* because a second handler thread would overwrite the first one's place.  *)
(*                                                                         *)
(* That no SIGINT is lost follows from where the contexts it has to shut   *)
(* down are (Hitting), when there is a thread and a semaphore (Standing),  *)
(* and who has posted it (Posting).                                        *)
(***************************************************************************)
EXTENDS Context, TLAPS

ShutLocations == {"callbacks", "interrupted"}
SleepLocations == {"sleep", "sleep_wait", "sleep_test", "sleep_return", "slept"}
HandlerLocations == {"exchange", "get", "next", "shutdown", "callbacks", "interrupted",
                     "installed?", "wait", "exited"}
PreInstall == {"setup", "set", "start"}
PreUninstall == {"restore", "notify", "join"}
PostUninstall == {"teardown", "destroy"}
InstallLocations == PreInstall \cup PreUninstall \cup PostUninstall

Types ==
  /\ valid \subseteq Contexts /\ g_contexts \subseteq Contexts /\ todo \subseteq Contexts
  /\ inits \in [Contexts -> Nat] /\ init_mutex \in [Contexts -> Threads \cup {None}]
  /\ callbacks \in [Contexts -> Seq(Callbacks)] /\ iter \in [Contexts -> Nat]
  /\ called \in [Callbacks -> Nat]
  /\ pc \in [Threads -> Locations] /\ arg \in [Threads -> Contexts \cup {None}]
  /\ left \in [Sleepers -> Nat] /\ began \in [Sleepers -> Nat]
  /\ install_mutex \in Threads \cup {None} /\ installed \in BOOLEAN

\* A thread inside init, shutdown or sleep_for has a context.
Working ==
  \A t \in Threads :
    pc[t] \in {"init", "shutdown"} \cup ShutLocations \cup SleepLocations => arg[t] \in Contexts

\* install_mutex_ is held by who installs or uninstalls, and the deferred
\* handler runs only while it is installed or being uninstalled.
Installing ==
  /\ pc[Handler] \in HandlerLocations
  /\ \A t \in Threads :
       /\ pc[t] \in InstallLocations => install_mutex = t
       /\ pc[t] \in PreInstall => installed /\ pc[Handler] = "exited"
       /\ pc[t] \in PreUninstall \cup PostUninstall => ~installed
  /\ pc[Handler] # "exited" =>
       installed \/ (install_mutex \in Threads /\ pc[install_mutex] \in PreUninstall)

\* A shutdown that calls the callbacks holds init_mutex_ of an invalid context.
Holding ==
  /\ \A t \in Threads :
       pc[t] \in ShutLocations => init_mutex[arg[t]] = t /\ arg[t] \notin valid
  /\ \A c \in Contexts :
       init_mutex[c] # None => pc[init_mutex[c]] \in ShutLocations /\ arg[init_mutex[c]] = c

\* The loop of a shutdown has called the callbacks before its iterator and no
\* other; those of a valid context have not been called since its init.
Calling ==
  /\ \A c \in Contexts :
       /\ iter[c] <= Len(callbacks[c])
       /\ \A i \in 1 .. Len(callbacks[c]) : CallbackContext[callbacks[c][i]] = c
       /\ \A i, j \in 1 .. Len(callbacks[c]) : callbacks[c][i] = callbacks[c][j] => i = j
       /\ init_mutex[c] # None =>
            \A i \in 1 .. Len(callbacks[c]) :
              called[callbacks[c][i]] = IF i <= iter[c] THEN 1 ELSE 0
  /\ \A k \in Callbacks :
       /\ called[k] <= 1
       /\ CallbackContext[k] \in valid => called[k] = 0
       /\ k \notin Range(callbacks[CallbackContext[k]]) => called[k] = 0

\* A sleeper that gave up its rest did so because its context was shut down,
\* and if the context is valid again, there was a later init.
Slumber ==
  \A t \in Sleepers : pc[t] \in SleepLocations =>
    /\ began[t] <= inits[arg[t]]
    /\ pc[t] = "sleep_return" => left[t] = 0 \/ arg[t] \notin valid \/ began[t] < inits[arg[t]]
    /\ pc[t] = "slept" => left[t] = 0 \/ began[t] < inits[arg[t]]

IInv == Types /\ Working /\ Installing /\ Holding /\ Calling /\ Slumber

USE ContextAssumption, ThreadsAssumption DEF Threads, Handler, None

------------------------------------------------------------------------------
LEMMA InitIInv == Init => IInv
<1> SUFFICES ASSUME Init PROVE IInv
  OBVIOUS
<1>1. Types
  <2>1. /\ pc \in [Threads -> Locations] /\ arg \in [Threads -> Contexts \cup {None}]
        /\ init_mutex \in [Contexts -> Threads \cup {None}]
    BY DEF Init, Locations
  <2>2. callbacks \in [Contexts -> Seq(Callbacks)]
    BY DEF Init
  <2> QED
    BY <2>1, <2>2 DEF Init, Types
<1>2. Working /\ Installing /\ Holding /\ Slumber
  BY DEF Init, Working, Installing, Holding, Slumber, HandlerLocations, InstallLocations,
         PreInstall, PreUninstall, PostUninstall, ShutLocations, SleepLocations
<1>3. Calling
  BY DEF Init, Calling
<1> QED
  BY <1>1, <1>2, <1>3 DEF IInv

\* What a step of one thread does to the places of all.
LEMMA GoEffect ==
  ASSUME Types, NEW t \in Threads, NEW from, NEW to \in Locations, Go(t, from, to)
  PROVE  /\ pc[t] = from /\ pc'[t] = to
         /\ arg'[t] = IF to \in {"idle", "install", "uninstall", "next"} THEN None ELSE arg[t]
         /\ \A u \in Threads \ {t} : pc'[u] = pc[u] /\ arg'[u] = arg[u]
         /\ pc' \in [Threads -> Locations] /\ arg' \in [Threads -> Contexts \cup {None}]
  BY DEF Go, Types

LEMMA CallEffect ==
  ASSUME Types, NEW t \in Threads, NEW c \in Contexts, NEW to \in Locations, Call(t, c, to)
  PROVE  /\ pc[t] = "idle" /\ pc'[t] = to /\ arg'[t] = c
         /\ \A u \in Threads \ {t} : pc'[u] = pc[u] /\ arg'[u] = arg[u]
         /\ pc' \in [Threads -> Locations] /\ arg' \in [Threads -> Contexts \cup {None}]
  BY DEF Call, Idle, Types

\* Threads at one of the places S neither come nor go, nor change their context.
Keeps(S) ==
  \A u \in Threads : pc[u] \in S \/ pc'[u] \in S => pc'[u] = pc[u] /\ arg'[u] = arg[u]

CallVars == <<init_mutex, callbacks, iter, called>>

\* The steps outside Context::shutdown, init and sleep_for.
Outside ==
  \/ \E t \in Callers :
       \/ \E c \in Contexts : CallInit(t, c) \/ CallShutdown(t, c) \/ CallDestroy(t, c)
       \/ CallInstall(t) \/ InstallThrows(t) \/ InstallStep(t)
  \/ Exchange \/ GetContexts \/ NextContext \/ TestInstalled \/ WaitForSignal
  \/ FrameStep \/ Signal \/ UNCHANGED vars

\* They leave the contexts' state, the callbacks and the sleepers alone.
OutsideKeeps ==
  /\ UNCHANGED <<valid, inits, CallVars, left, began>> /\ Keeps(ShutLocations \cup SleepLocations)
  /\ pc' \in [Threads -> Locations] /\ arg' \in [Threads -> Contexts \cup {None}]
  /\ g_contexts' \subseteq Contexts /\ todo' \subseteq Contexts
  /\ install_mutex' \in Threads \cup {None} /\ installed' \in BOOLEAN
  /\ Working'

LEMMA OutsideSteps == Types /\ Working /\ Installing /\ Outside => OutsideKeeps
<1> SUFFICES ASSUME Types, Working, Installing, Outside PROVE OutsideKeeps
  OBVIOUS
<1> USE DEF ShutLocations, SleepLocations, CallVars, ctxVars, sleepVars, sigVars
<1>a. \A t \in Callers : t \in Threads
  OBVIOUS
<1>t. /\ g_contexts \subseteq Contexts /\ todo \subseteq Contexts
      /\ install_mutex \in Threads \cup {None} /\ installed \in BOOLEAN
  BY DEF Types
\* A Go between two places outside.
<1>g. ASSUME NEW t \in Threads, NEW from, NEW to \in Locations, Go(t, from, to),
             from \notin ShutLocations \cup SleepLocations,
             to \notin {"init", "shutdown"} \cup ShutLocations \cup SleepLocations
      PROVE  /\ Keeps(ShutLocations \cup SleepLocations) /\ Working'
             /\ pc' \in [Threads -> Locations] /\ arg' \in [Threads -> Contexts \cup {None}]
  <2>1. /\ pc[t] = from /\ pc'[t] = to
        /\ \A u \in Threads \ {t} : pc'[u] = pc[u] /\ arg'[u] = arg[u]
        /\ pc' \in [Threads -> Locations] /\ arg' \in [Threads -> Contexts \cup {None}]
    BY <1>g, GoEffect
  <2>2. Keeps(ShutLocations \cup SleepLocations)
    BY <1>g, <2>1 DEF Keeps
  <2>3. Working'
    BY <1>g, <2>1 DEF Working
  <2> QED
    BY <2>1, <2>2, <2>3
<1>c. ASSUME NEW t \in Callers, NEW c \in Contexts, NEW to \in {"init", "shutdown"}, Call(t, c, to)
      PROVE  /\ Keeps(ShutLocations \cup SleepLocations) /\ Working'
             /\ pc' \in [Threads -> Locations] /\ arg' \in [Threads -> Contexts \cup {None}]
  <2>1. /\ pc[t] = "idle" /\ pc'[t] = to /\ arg'[t] = c
        /\ \A u \in Threads \ {t} : pc'[u] = pc[u] /\ arg'[u] = arg[u]
        /\ pc' \in [Threads -> Locations] /\ arg' \in [Threads -> Contexts \cup {None}]
    <3>1. to \in Locations
      BY DEF Locations
    <3> QED
      BY <1>c, <1>a, <3>1, CallEffect
  <2>2. Keeps(ShutLocations \cup SleepLocations)
    BY <1>c, <2>1 DEF Keeps
  <2>3. Working'
    BY <1>c, <2>1 DEF Working
  <2> QED
    BY <2>1, <2>2, <2>3
<1>1. ASSUME NEW t \in Callers, NEW c \in Contexts,
             CallInit(t, c) \/ CallShutdown(t, c) \/ CallDestroy(t, c)
      PROVE  OutsideKeeps
  <2>1. \E to \in {"init", "shutdown"} : Call(t, c, to)
    BY <1>1 DEF CallInit, CallShutdown, CallDestroy
  <2> QED
    BY <1>1, <2>1, <1>c, <1>t DEF CallInit, CallShutdown, CallDestroy, OutsideKeeps
<1>2. ASSUME NEW t \in Callers, CallInstall(t) \/ InstallThrows(t)
      PROVE  OutsideKeeps
  <2> PICK from \in {"idle", "setup", "set", "start"}, to \in {"idle", "install", "uninstall"} :
         Go(t, from, to)
    BY <1>2 DEF CallInstall, InstallThrows
  <2>1. /\ from \notin ShutLocations \cup SleepLocations /\ to \in Locations
        /\ to \notin {"init", "shutdown"} \cup ShutLocations \cup SleepLocations
    BY DEF Locations
  <2>2. /\ Keeps(ShutLocations \cup SleepLocations) /\ Working'
        /\ pc' \in [Threads -> Locations] /\ arg' \in [Threads -> Contexts \cup {None}]
    BY <2>1, <1>g, <1>a
  <2> QED
    BY <1>2, <2>2, <1>t DEF CallInstall, InstallThrows, OutsideKeeps, Rest
<1>3. ASSUME NEW t \in Callers, InstallLock(t) \/ SetupWaitForSignal(t) \/ SetHandler(t)
      PROVE  OutsideKeeps
  <2> PICK from \in {"install", "setup", "set"}, to \in {"idle", "setup", "set", "start"} :
         Go(t, from, to)
    BY <1>3 DEF InstallLock, SetupWaitForSignal, SetHandler
  <2>1. /\ from \notin ShutLocations \cup SleepLocations /\ to \in Locations
        /\ to \notin {"init", "shutdown"} \cup ShutLocations \cup SleepLocations
    BY DEF Locations
  <2>2. /\ Keeps(ShutLocations \cup SleepLocations) /\ Working'
        /\ pc' \in [Threads -> Locations] /\ arg' \in [Threads -> Contexts \cup {None}]
    BY <2>1, <1>g, <1>a
  <2> QED
    BY <1>3, <2>2, <1>t DEF InstallLock, SetupWaitForSignal, SetHandler, OutsideKeeps, Rest
<1>4. ASSUME NEW t \in Callers, StartThread(t)
      PROVE  OutsideKeeps
  <2>1. /\ pc[t] = "start" /\ pc[Handler] = "exited" /\ arg' = arg
        /\ pc' = [pc EXCEPT ![t] = "idle", ![Handler] = "exchange"]
    BY <1>4 DEF StartThread, Installing, PreInstall
  <2>2. /\ Keeps(ShutLocations \cup SleepLocations) /\ Working'
        /\ pc' \in [Threads -> Locations] /\ arg' \in [Threads -> Contexts \cup {None}]
    BY <2>1 DEF Keeps, Working, Types, Locations
  <2> QED
    BY <1>4, <2>2, <1>t DEF StartThread, OutsideKeeps, Rest
<1>5. ASSUME NEW t \in Callers, UninstallLock(t) \/ RestoreHandler(t) \/ NotifyHandler(t)
      PROVE  OutsideKeeps
  <2> PICK from \in {"uninstall", "restore", "notify"}, to \in {"idle", "restore", "notify", "join"} :
         Go(t, from, to)
    BY <1>5 DEF UninstallLock, RestoreHandler, NotifyHandler
  <2>1. /\ from \notin ShutLocations \cup SleepLocations /\ to \in Locations
        /\ to \notin {"init", "shutdown"} \cup ShutLocations \cup SleepLocations
    BY DEF Locations
  <2>2. /\ Keeps(ShutLocations \cup SleepLocations) /\ Working'
        /\ pc' \in [Threads -> Locations] /\ arg' \in [Threads -> Contexts \cup {None}]
    BY <2>1, <1>g, <1>a
  <2> QED
    BY <1>5, <2>2, <1>t DEF UninstallLock, RestoreHandler, NotifyHandler, OutsideKeeps, Rest
<1>6. ASSUME NEW t \in Callers, Join(t) \/ TeardownWaitForSignal(t) \/ DestroySemaphore(t)
      PROVE  OutsideKeeps
  <2> PICK from \in {"join", "teardown", "destroy"}, to \in {"idle", "teardown", "destroy"} :
         Go(t, from, to)
    BY <1>6 DEF Join, TeardownWaitForSignal, DestroySemaphore
  <2>1. /\ from \notin ShutLocations \cup SleepLocations /\ to \in Locations
        /\ to \notin {"init", "shutdown"} \cup ShutLocations \cup SleepLocations
    BY DEF Locations
  <2>2. /\ Keeps(ShutLocations \cup SleepLocations) /\ Working'
        /\ pc' \in [Threads -> Locations] /\ arg' \in [Threads -> Contexts \cup {None}]
    BY <2>1, <1>g, <1>a
  <2> QED
    BY <1>6, <2>2, <1>t DEF Join, TeardownWaitForSignal, DestroySemaphore, OutsideKeeps, Rest
<1>7. CASE Exchange \/ GetContexts \/ TestInstalled \/ WaitForSignal
  <2> PICK from \in {"exchange", "get", "installed?", "wait"}, 
          to \in {"exchange", "get", "next", "installed?", "wait", "exited"} :
         Go(Handler, from, to)
    BY <1>7 DEF Exchange, GetContexts, TestInstalled, WaitForSignal
  <2>1. /\ from \notin ShutLocations \cup SleepLocations /\ to \in Locations
        /\ to \notin {"init", "shutdown"} \cup ShutLocations \cup SleepLocations
    BY DEF Locations, ShutLocations, SleepLocations
  <2>3. Handler \in Threads
    BY DEF Threads
  <2>2. /\ Keeps(ShutLocations \cup SleepLocations) /\ Working'
        /\ pc' \in [Threads -> Locations] /\ arg' \in [Threads -> Contexts \cup {None}]
    BY <2>1, <2>3, <1>g
  <2> QED
    BY <1>7, <2>2, <1>t
    DEF Exchange, GetContexts, TestInstalled, WaitForSignal, OutsideKeeps, HandlerRest
<1>8. CASE NextContext
  <2>1. /\ pc[Handler] = "next" /\ todo' \subseteq todo
        /\ \E l \in {"next", "shutdown", "installed?"}, c \in todo \cup {None} :
             /\ pc' = [pc EXCEPT ![Handler] = l] /\ arg' = [arg EXCEPT ![Handler] = c]
             /\ l = "shutdown" => c \in todo
    <3>1. pc = [pc EXCEPT ![Handler] = "next"] \/ pc[Handler] # "next"
      BY DEF Types
    <3> QED
      BY <1>8, <3>1 DEF NextContext
  <2>2. /\ Keeps(ShutLocations \cup SleepLocations) /\ Working'
        /\ pc' \in [Threads -> Locations] /\ arg' \in [Threads -> Contexts \cup {None}]
    BY <2>1, <1>t DEF Keeps, Working, Types, Locations
  <2> QED
    BY <1>8, <2>1, <2>2, <1>t DEF NextContext, OutsideKeeps, HandlerRest
<1>9. CASE FrameStep \/ Signal \/ UNCHANGED vars
  <2>1. UNCHANGED <<pc, arg, ctxVars, sleepVars, todo, install_mutex, installed>>
    BY <1>9 DEF FrameStep, SignalReadsSetup, SignalPosts, Signal, vars
  <2> QED
    BY <2>1, <1>t DEF OutsideKeeps, Keeps, Working, Types
<1> QED
  BY <1>1, <1>2, <1>3, <1>4, <1>5, <1>6, <1>7, <1>8, <1>9 DEF Outside, InstallStep

------------------------------------------------------------------------------
(* What a step must respect for each part of the invariant to stay.         *)

LEMMA HoldingKept ==
  ASSUME Types, Working, Holding, Keeps(ShutLocations), UNCHANGED <<valid, init_mutex>>
  PROVE  Holding'
<1>1. ASSUME NEW t \in Threads, pc'[t] \in ShutLocations
      PROVE  init_mutex'[arg'[t]] = t /\ arg'[t] \notin valid'
  BY <1>1 DEF Keeps, Holding
<1>2. ASSUME NEW c \in Contexts, init_mutex'[c] # None
      PROVE  pc'[init_mutex'[c]] \in ShutLocations /\ arg'[init_mutex'[c]] = c
  BY <1>2 DEF Keeps, Holding, Types
<1> QED
  BY <1>1, <1>2 DEF Holding

LEMMA SlumberKept ==
  ASSUME Types, Working, Slumber, Keeps(SleepLocations), UNCHANGED <<left, began, inits>>,
         valid' \subseteq valid
  PROVE  Slumber'
<1> SUFFICES ASSUME NEW t \in Sleepers, pc'[t] \in SleepLocations
             PROVE  /\ began[t] <= inits[arg'[t]]
                    /\ pc'[t] = "sleep_return" =>
                         left[t] = 0 \/ arg'[t] \notin valid' \/ began[t] < inits[arg'[t]]
                    /\ pc'[t] = "slept" => left[t] = 0 \/ began[t] < inits[arg'[t]]
  BY DEF Slumber
<1>1. pc'[t] = pc[t] /\ arg'[t] = arg[t]
  BY DEF Keeps
<1> QED
  BY <1>1 DEF Slumber

LEMMA CallingKept ==
  ASSUME Calling, UNCHANGED CallVars, valid' = valid
  PROVE  Calling'
  BY DEF Calling, CallVars

LEMMA InstallingKept ==
  ASSUME Types, Installing, UNCHANGED <<install_mutex, installed>>, Keeps(InstallLocations),
         pc'[Handler] \in HandlerLocations, pc'[Handler] = "exited" <=> pc[Handler] = "exited"
  PROVE  Installing'
<1>1. ASSUME NEW t \in Threads, pc'[t] \in InstallLocations
      PROVE  /\ install_mutex = t /\ (pc'[t] \in PreInstall => installed /\ pc'[Handler] = "exited")
             /\ pc'[t] \in PreUninstall \cup PostUninstall => ~installed
  BY <1>1 DEF Keeps, Installing
<1>2. ASSUME pc'[Handler] # "exited"
      PROVE  installed \/ (install_mutex \in Threads /\ pc'[install_mutex] \in PreUninstall)
  BY <1>2 DEF Keeps, Installing, InstallLocations
<1> QED
  BY <1>1, <1>2 DEF Installing, InstallLocations

------------------------------------------------------------------------------
(* sleep_for.                                                               *)

SleepSteps(t) ==
  CallSleep(t) \/ SleepTimeout(t) \/ SleepSpurious(t) \/ SleepStep(t)

LEMMA SleepKeeps ==
  ASSUME IInv, NEW t \in Sleepers, SleepSteps(t)
  PROVE  /\ Types' /\ Working' /\ Slumber' /\ Keeps(ShutLocations \cup InstallLocations)
         /\ UNCHANGED <<valid, CallVars, install_mutex, installed>>
         /\ pc'[Handler] = pc[Handler]
<1>0. Types /\ Working /\ Installing /\ Slumber /\ t \in Threads
  BY DEF IInv
<1> DEFINE S == ShutLocations \cup InstallLocations
           From == {"idle", "sleep", "sleep_wait", "sleep_test", "sleep_return", "slept", "not_slept"}
\* The step takes one sleeper on, and changes nothing but its times.
<1>1. /\ UNCHANGED <<valid, inits, g_contexts, todo, CallVars, install_mutex, installed>>
      /\ \A u \in Sleepers \ {t} : left'[u] = left[u] /\ began'[u] = began[u]
      /\ left' \in [Sleepers -> Nat] /\ began' \in [Sleepers -> Nat]
  <2>1. /\ left \in [Sleepers -> Nat] /\ began \in [Sleepers -> Nat]
        /\ \A c \in Contexts : inits[c] \in Nat
    BY <1>0 DEF Types
  <2>2. CASE CallSleep(t)
    BY <2>1, <2>2 DEF CallSleep, ctxVars, sigVars, CallVars
  <2>3. CASE SleepTimeout(t)
    BY <2>1, <2>3 DEF SleepTimeout, ctxVars, sigVars, CallVars
  <2>4. CASE SleepSpurious(t)
    BY <2>1, <2>4 DEF SleepSpurious, ctxVars, sigVars, CallVars
  <2>5. CASE SleepNotified(t)
    BY <2>1, <2>5 DEF SleepNotified, ctxVars, sigVars, CallVars
  <2>6. CASE SleepEnter(t) \/ SleepTest(t) \/ SleepReturn(t)
    BY <2>1, <2>6 DEF SleepEnter, SleepTest, SleepReturn, ctxVars, sigVars, sleepVars, CallVars
  <2>7. CASE SleepDone(t)
    BY <2>1, <2>7 DEF SleepDone, ctxVars, sigVars, CallVars
  <2> QED
    BY <2>2, <2>3, <2>4, <2>5, <2>6, <2>7 DEF SleepSteps, SleepStep
<1>2. ASSUME NEW from \in From, NEW to \in From, Go(t, from, to)
      PROVE  /\ pc[t] = from /\ pc'[t] = to /\ (to # "idle" => arg'[t] = arg[t])
             /\ \A u \in Threads \ {t} : pc'[u] = pc[u] /\ arg'[u] = arg[u]
             /\ pc' \in [Threads -> Locations] /\ arg' \in [Threads -> Contexts \cup {None}]
  <2>1. to \in Locations /\ to \notin {"install", "uninstall", "next"}
    BY DEF Locations
  <2> QED
    BY <1>0, <1>2, <2>1, GoEffect
\* Every step is of this form.
<1>3. ASSUME NEW from \in From, NEW to \in From, pc[t] = from, pc'[t] = to,
             \A u \in Threads \ {t} : pc'[u] = pc[u] /\ arg'[u] = arg[u],
             pc' \in [Threads -> Locations], arg' \in [Threads -> Contexts \cup {None}],
             to \in SleepLocations => arg'[t] \in Contexts
      PROVE  /\ Types' /\ Working' /\ Keeps(S) /\ pc'[Handler] = pc[Handler]
  <2>1. t # Handler
    BY <1>0, <1>3 DEF Installing, HandlerLocations
  <2>2. Types'
    BY <1>0, <1>1, <1>3 DEF Types, CallVars
  <2>3. Working'
    BY <1>0, <1>3 DEF Working, ShutLocations
  <2>4. Keeps(S)
    BY <1>3 DEF Keeps, ShutLocations, InstallLocations, PreInstall, PreUninstall, PostUninstall
  <2> QED
    BY <1>3, <2>1, <2>2, <2>3, <2>4
\* What the sleeper itself knows afterwards.
<1>4. ASSUME \A u \in Threads \ {t} : pc'[u] = pc[u] /\ arg'[u] = arg[u],
             pc'[t] \in SleepLocations =>
               /\ began'[t] <= inits[arg'[t]]
               /\ pc'[t] = "sleep_return" =>
                    left'[t] = 0 \/ arg'[t] \notin valid \/ began'[t] < inits[arg'[t]]
               /\ pc'[t] = "slept" => left'[t] = 0 \/ began'[t] < inits[arg'[t]]
      PROVE  Slumber'
  BY <1>0, <1>1, <1>4 DEF Slumber
<1>5. CASE CallSleep(t)
  <2>1. Call(t, DefaultContext, "sleep") /\ "sleep" \in Locations
    BY <1>5 DEF CallSleep, Locations
  <2>2. /\ pc[t] = "idle" /\ pc'[t] = "sleep" /\ arg'[t] = DefaultContext
        /\ \A u \in Threads \ {t} : pc'[u] = pc[u] /\ arg'[u] = arg[u]
        /\ pc' \in [Threads -> Locations] /\ arg' \in [Threads -> Contexts \cup {None}]
    BY <1>0, <2>1, CallEffect
  <2>3. began'[t] = inits[DefaultContext] /\ inits[DefaultContext] \in Nat
    BY <1>0, <1>5 DEF CallSleep, Types
  <2> QED
    BY <1>1, <1>3, <1>4, <2>2, <2>3
<1>6. CASE SleepEnter(t)
  <2>1. Go(t, "sleep", "sleep_wait") /\ UNCHANGED <<left, began>>
    BY <1>6 DEF SleepEnter, sleepVars
  <2>2. arg[t] \in Contexts /\ began[t] <= inits[arg[t]] /\ arg'[t] = arg[t]
    BY <1>0, <1>2, <2>1 DEF Working, Slumber, SleepLocations
  <2> QED
    BY <1>1, <1>2, <1>3, <1>4, <2>1, <2>2
<1>7. CASE SleepTimeout(t) \/ SleepNotified(t) \/ SleepSpurious(t)
  <2>1. Go(t, "sleep_wait", "sleep_test") /\ UNCHANGED began
    BY <1>7 DEF SleepTimeout, SleepNotified, SleepSpurious
  <2>2. arg[t] \in Contexts /\ began[t] <= inits[arg[t]] /\ arg'[t] = arg[t]
    BY <1>0, <1>2, <2>1 DEF Working, Slumber, SleepLocations
  <2> QED
    BY <1>1, <1>2, <1>3, <1>4, <2>1, <2>2
<1>8. CASE SleepTest(t)
  <2>1. /\ UNCHANGED <<left, began>>
        /\ Go(t, "sleep_test", IF left[t] > 0 /\ arg[t] \in valid THEN "sleep" ELSE "sleep_return")
    BY <1>8 DEF SleepTest, sleepVars
  <2> DEFINE to == IF left[t] > 0 /\ arg[t] \in valid THEN "sleep" ELSE "sleep_return"
  <2>2. /\ to \in From /\ to \in {"sleep", "sleep_return"} /\ left[t] \in Nat
        /\ to = "sleep_return" => left[t] = 0 \/ arg[t] \notin valid
    BY <1>0 DEF Types
  <2> HIDE DEF to
  <2>3. /\ pc[t] = "sleep_test" /\ pc'[t] = to /\ arg'[t] = arg[t]
        /\ \A u \in Threads \ {t} : pc'[u] = pc[u] /\ arg'[u] = arg[u]
        /\ pc' \in [Threads -> Locations] /\ arg' \in [Threads -> Contexts \cup {None}]
    BY <1>2, <2>1, <2>2 DEF to
  <2>4. arg[t] \in Contexts /\ began[t] <= inits[arg[t]]
    BY <1>0, <2>3 DEF Working, Slumber, SleepLocations
  <2>5. Slumber'
    BY <1>1, <1>4, <2>1, <2>2, <2>3, <2>4
  <2> QED
    BY <1>1, <1>3, <2>2, <2>3, <2>4, <2>5
<1>9. CASE SleepReturn(t)
  <2>1. /\ UNCHANGED <<left, began>>
        /\ Go(t, "sleep_return", IF arg[t] \in valid THEN "slept" ELSE "not_slept")
    BY <1>9 DEF SleepReturn, sleepVars
  <2> DEFINE to == IF arg[t] \in valid THEN "slept" ELSE "not_slept"
  <2>2. /\ to \in From /\ to \in {"slept", "not_slept"} /\ (to = "slept" => arg[t] \in valid)
    OBVIOUS
  <2> HIDE DEF to
  <2>3. /\ pc[t] = "sleep_return" /\ pc'[t] = to /\ arg'[t] = arg[t]
        /\ \A u \in Threads \ {t} : pc'[u] = pc[u] /\ arg'[u] = arg[u]
        /\ pc' \in [Threads -> Locations] /\ arg' \in [Threads -> Contexts \cup {None}]
    BY <1>2, <2>1, <2>2 DEF to
  <2>4. /\ arg[t] \in Contexts /\ began[t] <= inits[arg[t]]
        /\ left[t] = 0 \/ arg[t] \notin valid \/ began[t] < inits[arg[t]]
    BY <1>0, <2>3 DEF Working, Slumber, SleepLocations
  <2>5. Slumber'
    BY <1>1, <1>4, <2>1, <2>2, <2>3, <2>4
  <2> QED
    BY <1>1, <1>3, <2>2, <2>3, <2>4, <2>5
<1>10. CASE SleepDone(t)
  <2> PICK from \in {"slept", "not_slept"} : Go(t, from, "idle")
    BY <1>10 DEF SleepDone
  <2>1. from \in From
    OBVIOUS
  <2> QED
    BY <1>1, <1>2, <1>3, <1>4, <2>1 DEF SleepLocations
<1> QED
  BY <1>5, <1>6, <1>7, <1>8, <1>9, <1>10 DEF SleepSteps, SleepStep

------------------------------------------------------------------------------
(* init, on_shutdown and shutdown.                                          *)

\* Every part of the invariant but Installing.
Rests == Types' /\ Working' /\ Holding' /\ Calling' /\ Slumber'

LEMMA InitContextKeeps ==
  ASSUME IInv, NEW t \in Threads, InitContext(t)
  PROVE  Rests
<1> DEFINE c == arg[t]  to == IF c = DefaultContext THEN "install" ELSE "idle"
<1>0. Types /\ Working /\ Holding /\ Calling /\ Slumber
  BY DEF IInv
<1>1. /\ UNCHANGED <<init_mutex, callbacks, iter, left, began, todo, install_mutex, installed>>
      /\ pc[t] = "init" /\ c \in Contexts /\ Free(c, t)
  BY <1>0 DEF InitContext, sleepVars, sigVars, Working
<1>2. init_mutex[c] = None
  BY <1>0, <1>1 DEF Free, Holding, Types, ShutLocations
<1>3. ASSUME NEW l \in {"install", "idle"}, Go(t, "init", l)
      PROVE  /\ Keeps(ShutLocations \cup SleepLocations) /\ Working'
             /\ pc' \in [Threads -> Locations] /\ arg' \in [Threads -> Contexts \cup {None}]
  <2>1. l \in Locations
    BY DEF Locations
  <2>2. /\ pc[t] = "init" /\ pc'[t] = l
        /\ \A u \in Threads \ {t} : pc'[u] = pc[u] /\ arg'[u] = arg[u]
        /\ pc' \in [Threads -> Locations] /\ arg' \in [Threads -> Contexts \cup {None}]
    BY <1>0, <1>3, <2>1, GoEffect
  <2>3. Keeps(ShutLocations \cup SleepLocations)
    BY <2>2 DEF Keeps, ShutLocations, SleepLocations
  <2>4. Working'
    BY <1>0, <2>2 DEF Working, ShutLocations, SleepLocations
  <2> QED
    BY <2>2, <2>3, <2>4
<1>4. CASE Go(t, "init", "idle") /\ UNCHANGED <<valid, inits, called, g_contexts>>
  <2>1. /\ Keeps(ShutLocations \cup SleepLocations) /\ Working'
        /\ pc' \in [Threads -> Locations] /\ arg' \in [Threads -> Contexts \cup {None}]
    BY <1>3, <1>4
  <2>2. Keeps(ShutLocations) /\ Keeps(SleepLocations)
    BY <2>1 DEF Keeps
  <2>3. Types'
    BY <1>0, <1>1, <1>4, <2>1 DEF Types
  <2> QED
    BY <1>0, <1>1, <1>4, <2>1, <2>2, <2>3, HoldingKept, SlumberKept, CallingKept DEF Rests, CallVars
<1>5. CASE /\ c \notin valid
           /\ valid' = valid \cup {c} /\ inits' = [inits EXCEPT ![c] = inits[c] + 1]
           /\ called' = [k \in Callbacks |-> IF CallbackContext[k] = c THEN 0 ELSE called[k]]
           /\ g_contexts' = g_contexts \cup {c} /\ Go(t, "init", to)
  <2>1. /\ Keeps(ShutLocations \cup SleepLocations) /\ Working'
        /\ pc' \in [Threads -> Locations] /\ arg' \in [Threads -> Contexts \cup {None}]
    BY <1>3, <1>5
  <2>2. inits' \in [Contexts -> Nat] /\ called' \in [Callbacks -> Nat]
    BY <1>0, <1>1, <1>5 DEF Types
  <2>3. Types'
    BY <1>0, <1>1, <1>5, <2>1, <2>2 DEF Types
  <2>4. Holding'
    <3>1. ASSUME NEW u \in Threads, pc'[u] \in ShutLocations
          PROVE  init_mutex'[arg'[u]] = u /\ arg'[u] \notin valid'
      <4>1. pc[u] \in ShutLocations /\ arg'[u] = arg[u]
        BY <2>1, <3>1 DEF Keeps
      <4>2. init_mutex[arg[u]] = u /\ arg[u] \notin valid /\ u # None
        BY <1>0, <4>1 DEF Holding
      <4> QED
        BY <1>1, <1>2, <1>5, <4>1, <4>2
    <3>2. ASSUME NEW d \in Contexts, init_mutex'[d] # None
          PROVE  pc'[init_mutex'[d]] \in ShutLocations /\ arg'[init_mutex'[d]] = d
      BY <1>0, <1>1, <2>1, <3>2 DEF Holding, Keeps, Types
    <3> QED
      BY <3>1, <3>2 DEF Holding
  <2>5. Calling'
    <3>1. ASSUME NEW d \in Contexts
          PROVE  /\ iter[d] <= Len(callbacks[d])
                 /\ \A i \in 1 .. Len(callbacks[d]) : CallbackContext[callbacks[d][i]] = d
                 /\ \A i, j \in 1 .. Len(callbacks[d]) : callbacks[d][i] = callbacks[d][j] => i = j
                 /\ init_mutex[d] # None =>
                      \A i \in 1 .. Len(callbacks[d]) :
                        called'[callbacks[d][i]] = IF i <= iter[d] THEN 1 ELSE 0
      <4>1. \A i \in 1 .. Len(callbacks[d]) : callbacks[d][i] \in Callbacks
        BY <1>0 DEF Types
      <4> QED
        BY <1>0, <1>2, <1>5, <4>1 DEF Calling
    <3>2. ASSUME NEW k \in Callbacks
          PROVE  /\ called'[k] <= 1 /\ (CallbackContext[k] \in valid' => called'[k] = 0)
                 /\ k \notin Range(callbacks[CallbackContext[k]]) => called'[k] = 0
      BY <1>0, <1>5 DEF Calling
    <3> QED
      BY <1>1, <3>1, <3>2 DEF Calling
  <2>6. Slumber'
    <3> SUFFICES ASSUME NEW u \in Sleepers, pc'[u] \in SleepLocations
                 PROVE  /\ began[u] <= inits'[arg'[u]]
                        /\ pc'[u] = "sleep_return" =>
                             left[u] = 0 \/ arg'[u] \notin valid' \/ began[u] < inits'[arg'[u]]
                        /\ pc'[u] = "slept" => left[u] = 0 \/ began[u] < inits'[arg'[u]]
      BY <1>1 DEF Slumber
    <3>1. pc'[u] = pc[u] /\ arg'[u] = arg[u] /\ u \in Threads
      BY <2>1 DEF Keeps
    <3>2. /\ began[u] \in Nat /\ inits[arg[u]] \in Nat /\ arg[u] \in Contexts
          /\ inits' = [inits EXCEPT ![c] = inits[c] + 1] /\ inits \in [Contexts -> Nat]
      BY <1>0, <1>5, <3>1 DEF Types, Working
    <3>3. CASE arg[u] = c
      BY <1>0, <3>1, <3>2, <3>3 DEF Slumber
    <3>4. CASE arg[u] # c
      BY <1>0, <1>5, <3>1, <3>2, <3>4 DEF Slumber
    <3> QED
      BY <3>3, <3>4
  <2> QED
    BY <2>1, <2>3, <2>4, <2>5, <2>6 DEF Rests
<1> QED
  BY <1>4, <1>5 DEF InitContext

\* on_shutdown: a new callback has not been called, and a loop in progress goes
\* on to it.
LEMMA OnShutdownKeeps ==
  ASSUME IInv, NEW t \in Threads, NEW k \in Callbacks, OnShutdown(t, k)
  PROVE  Rests
<1> DEFINE c == CallbackContext[k]  q == callbacks[c]
<1>0. /\ Types /\ Working /\ Holding /\ Calling /\ Slumber /\ c \in Contexts
      /\ callbacks \in [Contexts -> Seq(Callbacks)]
  BY DEF IInv, Types
<1>1. /\ UNCHANGED <<valid, inits, init_mutex, g_contexts, iter, called, pc, arg, left, began,
                     todo, install_mutex, installed>>
      /\ callbacks' = [callbacks EXCEPT ![c] = Append(q, k)] /\ ~Contains(q, k)
  BY DEF OnShutdown, sleepVars, sigVars
<1>2. /\ q \in Seq(Callbacks) /\ Append(q, k) \in Seq(Callbacks) /\ Len(q) \in Nat
      /\ Len(Append(q, k)) = Len(q) + 1 /\ Append(q, k)[Len(q) + 1] = k
      /\ \A i \in 1 .. Len(q) : Append(q, k)[i] = q[i] /\ q[i] # k
      /\ k \notin Range(q)
  BY <1>0, <1>1 DEF Contains, Range
<1>3. /\ callbacks' \in [Contexts -> Seq(Callbacks)] /\ callbacks'[c] = Append(q, k)
      /\ \A d \in Contexts \ {c} : callbacks'[d] = callbacks[d]
  BY <1>0, <1>1, <1>2
<1>4. Types'
  BY <1>0, <1>1, <1>3 DEF Types
<1>5. Working' /\ Holding' /\ Slumber'
  BY <1>0, <1>1 DEF Working, Holding, Slumber
<1>6. Calling'
  <2>1. called[k] = 0
    BY <1>0, <1>2 DEF Calling
  <2>2. ASSUME NEW d \in Contexts
        PROVE  /\ iter[d] <= Len(callbacks'[d])
               /\ \A i \in 1 .. Len(callbacks'[d]) : CallbackContext[callbacks'[d][i]] = d
               /\ \A i, j \in 1 .. Len(callbacks'[d]) : callbacks'[d][i] = callbacks'[d][j] => i = j
               /\ init_mutex[d] # None =>
                    \A i \in 1 .. Len(callbacks'[d]) :
                      called[callbacks'[d][i]] = IF i <= iter[d] THEN 1 ELSE 0
    <3>1. CASE d # c
      <4>1. callbacks'[d] = callbacks[d]
        BY <1>3, <3>1
      <4>2. /\ iter[d] <= Len(callbacks[d])
            /\ \A i \in 1 .. Len(callbacks[d]) : CallbackContext[callbacks[d][i]] = d
            /\ \A i, j \in 1 .. Len(callbacks[d]) : callbacks[d][i] = callbacks[d][j] => i = j
            /\ init_mutex[d] # None =>
                 \A i \in 1 .. Len(callbacks[d]) :
                   called[callbacks[d][i]] = IF i <= iter[d] THEN 1 ELSE 0
        BY <1>0 DEF Calling
      <4> QED
        BY <4>1, <4>2
    <3>2. CASE d = c
      <4>1. iter[c] \in Nat /\ iter[c] <= Len(q)
        BY <1>0 DEF Types, Calling
      <4>2. \A i \in 1 .. Len(q) + 1 : i \in 1 .. Len(q) \/ i = Len(q) + 1
        BY <1>2
      <4> HIDE DEF c, q
      <4>3. \A i \in 1 .. Len(q) :
              /\ CallbackContext[q[i]] = c
              /\ \A j \in 1 .. Len(q) : q[i] = q[j] => i = j
              /\ init_mutex[c] # None => called[q[i]] = IF i <= iter[c] THEN 1 ELSE 0
        BY <1>0 DEF Calling, c, q
      <4>4. CallbackContext[k] = c
        BY DEF c
      <4>5. /\ Len(callbacks'[d]) = Len(q) + 1
            /\ \A i \in 1 .. Len(callbacks'[d]) :
                 \/ i \in 1 .. Len(q) /\ callbacks'[d][i] = q[i] /\ q[i] # k
                 \/ i = Len(q) + 1 /\ callbacks'[d][i] = k
        <5>1. callbacks'[d] = Append(q, k)
          BY <1>3, <3>2
        <5> QED
          BY <1>2, <4>2, <5>1
      <4>6. iter[d] <= Len(callbacks'[d])
        BY <1>2, <3>2, <4>1, <4>5
      <4>7. \A i \in 1 .. Len(callbacks'[d]) : CallbackContext[callbacks'[d][i]] = d
        BY <3>2, <4>3, <4>4, <4>5
      <4>8. \A i, j \in 1 .. Len(callbacks'[d]) : callbacks'[d][i] = callbacks'[d][j] => i = j
        BY <4>3, <4>5
      <4>9. ASSUME init_mutex[d] # None, NEW i \in 1 .. Len(callbacks'[d])
            PROVE  called[callbacks'[d][i]] = IF i <= iter[d] THEN 1 ELSE 0
        <5>1. CASE i \in 1 .. Len(q) /\ callbacks'[d][i] = q[i]
          BY <3>2, <4>3, <4>9, <5>1
        <5>2. CASE i = Len(q) + 1 /\ callbacks'[d][i] = k
          BY <1>2, <2>1, <3>2, <4>1, <5>2
        <5> QED
          BY <4>5, <5>1, <5>2
      <4> QED
        BY <4>6, <4>7, <4>8, <4>9
    <3> QED
      BY <3>1, <3>2
  <2>3. ASSUME NEW j \in Callbacks
        PROVE  /\ called[j] <= 1 /\ (CallbackContext[j] \in valid => called[j] = 0)
               /\ j \notin Range(callbacks'[CallbackContext[j]]) => called[j] = 0
    <3>1. called[j] <= 1 /\ (CallbackContext[j] \in valid => called[j] = 0)
      BY <1>0 DEF Calling
    <3>2. ASSUME j \notin Range(callbacks'[CallbackContext[j]])
          PROVE  j \notin Range(callbacks[CallbackContext[j]])
      <4>1. CASE CallbackContext[j] # c
        BY <1>3, <3>2, <4>1
      <4>2. CASE CallbackContext[j] = c
        <5>1. \A i \in 1 .. Len(q) : i \in 1 .. Len(q) + 1
          BY <1>2
        <5>2. DOMAIN q = 1 .. Len(q) /\ DOMAIN Append(q, k) = 1 .. Len(q) + 1
          BY <1>2
        <5>3. Range(q) \subseteq Range(Append(q, k))
          BY <1>2, <5>1, <5>2 DEF Range
        <5> QED
          BY <1>3, <3>2, <4>2, <5>3
      <4> QED
        BY <4>1, <4>2
    <3> QED
      BY <1>0, <3>1, <3>2 DEF Calling
  <2> QED
    BY <1>1, <2>2, <2>3 DEF Calling
<1> QED
  BY <1>4, <1>5, <1>6 DEF Rests

\* The places of a shutdown, one step of which thread t makes.
LEMMA ShutdownGo ==
  ASSUME Types, Working, NEW t \in Threads,
         NEW from \in {"shutdown", "callbacks", "interrupted"},
         NEW to \in {"callbacks", "interrupted", "next", "uninstall", "idle"}, Go(t, from, to)
  PROVE  /\ pc[t] = from /\ pc'[t] = to /\ arg[t] \in Contexts
         /\ to \in ShutLocations => arg'[t] = arg[t]
         /\ \A u \in Threads \ {t} : pc'[u] = pc[u] /\ arg'[u] = arg[u]
         /\ pc' \in [Threads -> Locations] /\ arg' \in [Threads -> Contexts \cup {None}]
         /\ Working' /\ Keeps(SleepLocations)
<1>1. to \in Locations
  BY DEF Locations
<1>2. /\ pc[t] = from /\ pc'[t] = to
      /\ arg'[t] = IF to \in {"idle", "install", "uninstall", "next"} THEN None ELSE arg[t]
      /\ \A u \in Threads \ {t} : pc'[u] = pc[u] /\ arg'[u] = arg[u]
      /\ pc' \in [Threads -> Locations] /\ arg' \in [Threads -> Contexts \cup {None}]
  BY <1>1, GoEffect
<1>3. arg[t] \in Contexts
  BY <1>2 DEF Working, ShutLocations
<1>4. Working'
  BY <1>2, <1>3 DEF Working, ShutLocations, SleepLocations
<1>5. Keeps(SleepLocations)
  BY <1>2 DEF Keeps, SleepLocations
<1> QED
  BY <1>2, <1>3, <1>4, <1>5 DEF ShutLocations

LEMMA ShutdownContextKeeps ==
  ASSUME IInv, NEW t \in Threads, ShutdownContext(t)
  PROVE  Rests
<1> DEFINE c == arg[t]
<1>0. Types /\ Working /\ Holding /\ Calling /\ Slumber /\ t # None
  BY DEF IInv
<1>1. /\ UNCHANGED <<inits, g_contexts, callbacks, called, left, began, todo, install_mutex, installed>>
      /\ pc[t] = "shutdown" /\ c \in Contexts /\ Free(c, t)
  BY <1>0 DEF ShutdownContext, sleepVars, sigVars, Working
<1>2. init_mutex[c] = None
  BY <1>0, <1>1 DEF Free, Holding, ShutLocations
<1>3. CASE /\ c \notin valid /\ Go(t, "shutdown", AfterShutdown(t))
           /\ UNCHANGED <<valid, init_mutex, iter>>
  <2> DEFINE to == AfterShutdown(t)
  <2>1. to \in {"next", "uninstall", "idle"}
    BY DEF AfterShutdown
  <2> HIDE DEF to
  <2>2. /\ pc'[t] = to /\ \A u \in Threads \ {t} : pc'[u] = pc[u] /\ arg'[u] = arg[u]
        /\ pc' \in [Threads -> Locations] /\ arg' \in [Threads -> Contexts \cup {None}]
        /\ Working' /\ Keeps(SleepLocations)
    BY <1>0, <1>3, <2>1, ShutdownGo DEF to
  <2>3. Keeps(ShutLocations)
    BY <1>1, <2>1, <2>2 DEF Keeps, ShutLocations
  <2>4. Types'
    BY <1>0, <1>1, <1>3, <2>2 DEF Types
  <2> QED
    BY <1>0, <1>1, <1>3, <2>2, <2>3, <2>4, HoldingKept, SlumberKept, CallingKept DEF Rests, CallVars
<1>4. CASE /\ c \in valid /\ Go(t, "shutdown", "callbacks")
           /\ valid' = valid \ {c}
           /\ init_mutex' = [init_mutex EXCEPT ![c] = t] /\ iter' = [iter EXCEPT ![c] = 0]
  <2>1. /\ pc'[t] = "callbacks" /\ arg'[t] = c
        /\ \A u \in Threads \ {t} : pc'[u] = pc[u] /\ arg'[u] = arg[u]
        /\ pc' \in [Threads -> Locations] /\ arg' \in [Threads -> Contexts \cup {None}]
        /\ Working' /\ Keeps(SleepLocations)
    BY <1>0, <1>4, ShutdownGo DEF ShutLocations
  <2>2. /\ init_mutex' \in [Contexts -> Threads \cup {None}] /\ iter' \in [Contexts -> Nat]
        /\ init_mutex'[c] = t /\ iter'[c] = 0
        /\ \A d \in Contexts \ {c} : init_mutex'[d] = init_mutex[d] /\ iter'[d] = iter[d]
    BY <1>0, <1>1, <1>4 DEF Types
  <2>3. Types'
    BY <1>0, <1>1, <1>4, <2>1, <2>2 DEF Types
  <2>4. Holding'
    <3>1. ASSUME NEW u \in Threads, pc'[u] \in ShutLocations
          PROVE  init_mutex'[arg'[u]] = u /\ arg'[u] \notin valid'
      <4>1. CASE u = t
        BY <1>4, <2>1, <2>2, <4>1
      <4>2. CASE u # t
        <5>1. pc[u] \in ShutLocations /\ arg'[u] = arg[u] /\ arg[u] \in Contexts /\ u # None
          BY <1>0, <2>1, <3>1, <4>2 DEF Working
        <5>2. init_mutex[arg[u]] = u /\ arg[u] \notin valid
          BY <1>0, <5>1 DEF Holding
        <5> QED
          BY <1>2, <1>4, <2>2, <5>1, <5>2
      <4> QED
        BY <4>1, <4>2
    <3>2. ASSUME NEW d \in Contexts, init_mutex'[d] # None
          PROVE  pc'[init_mutex'[d]] \in ShutLocations /\ arg'[init_mutex'[d]] = d
      <4>1. CASE d = c
        BY <2>1, <2>2, <4>1 DEF ShutLocations
      <4>2. CASE d # c
        <5>1. pc[init_mutex[d]] \in ShutLocations /\ arg[init_mutex[d]] = d
          BY <1>0, <2>2, <3>2, <4>2 DEF Holding
        <5>2. init_mutex[d] \in Threads \ {t}
          BY <1>0, <1>1, <2>2, <3>2, <4>2, <5>1 DEF Types, ShutLocations
        <5> QED
          BY <2>1, <2>2, <4>2, <5>1, <5>2
      <4> QED
        BY <4>1, <4>2
    <3> QED
      BY <3>1, <3>2 DEF Holding
  <2>5. Calling'
    <3>1. \A i \in 1 .. Len(callbacks[c]) : callbacks[c][i] \in Callbacks /\ called[callbacks[c][i]] = 0
      <4>1. callbacks[c] \in Seq(Callbacks)
        BY <1>0, <1>1 DEF Types
      <4> SUFFICES ASSUME NEW i \in 1 .. Len(callbacks[c])
                   PROVE  callbacks[c][i] \in Callbacks /\ called[callbacks[c][i]] = 0
        OBVIOUS
      <4>2. callbacks[c][i] \in Callbacks
        BY <4>1
      <4>3. CallbackContext[callbacks[c][i]] = c
        BY <1>0, <1>1 DEF Calling
      <4>4. CallbackContext[callbacks[c][i]] \in valid
        BY <4>3, <1>4
      <4> QED
        BY <1>0, <4>2, <4>4 DEF Calling
    <3>2. ASSUME NEW d \in Contexts
          PROVE  /\ iter'[d] <= Len(callbacks[d])
                 /\ \A i \in 1 .. Len(callbacks[d]) : CallbackContext[callbacks[d][i]] = d
                 /\ \A i, j \in 1 .. Len(callbacks[d]) : callbacks[d][i] = callbacks[d][j] => i = j
                 /\ init_mutex'[d] # None =>
                      \A i \in 1 .. Len(callbacks[d]) :
                        called[callbacks[d][i]] = IF i <= iter'[d] THEN 1 ELSE 0
      <4>1. CASE d = c
        <5>1. Len(callbacks[c]) \in Nat
          BY <1>0, <1>1 DEF Types
        <5> QED
          BY <1>0, <2>2, <3>1, <4>1, <5>1 DEF Calling
      <4>2. CASE d # c
        BY <1>0, <2>2, <4>2 DEF Calling
      <4> QED
        BY <4>1, <4>2
    <3>3. \A k \in Callbacks : CallbackContext[k] \in valid' => called[k] = 0
      BY <1>0, <1>4 DEF Calling
    <3> QED
      BY <1>0, <1>1, <3>2, <3>3 DEF Calling
  <2>6. valid' \subseteq valid
    BY <1>4
  <2> QED
    BY <1>0, <1>1, <2>1, <2>3, <2>4, <2>5, <2>6, SlumberKept DEF Rests
<1> QED
  BY <1>3, <1>4 DEF ShutdownContext

LEMMA RunCallbackKeeps ==
  ASSUME IInv, NEW t \in Threads, RunCallback(t)
  PROVE  Rests
<1> DEFINE c == arg[t]  q == callbacks[c]  k == q[iter[c] + 1]
<1>0. Types /\ Working /\ Holding /\ Calling /\ Slumber /\ t # None
  BY DEF IInv
<1>1. /\ UNCHANGED <<valid, inits, init_mutex, g_contexts, callbacks, pc, arg, left, began, todo,
                     install_mutex, installed>>
      /\ pc[t] = "callbacks" /\ iter[c] < Len(q) /\ c \in Contexts
      /\ iter' = [iter EXCEPT ![c] = iter[c] + 1]
      /\ called' = [called EXCEPT ![k] = called[k] + 1]
  BY <1>0 DEF RunCallback, sleepVars, sigVars, Working, ShutLocations
<1>2. /\ init_mutex[c] = t /\ c \notin valid
  BY <1>0, <1>1 DEF Holding, ShutLocations
<1>3. /\ iter[c] \in Nat /\ Len(q) \in Nat /\ iter[c] + 1 \in 1 .. Len(q) /\ k \in Callbacks
      /\ \A d \in Contexts : \A i \in 1 .. Len(callbacks[d]) : callbacks[d][i] \in Callbacks
      /\ DOMAIN q = 1 .. Len(q)
  <2>1. iter[c] \in Nat /\ q \in Seq(Callbacks) /\ Len(q) \in Nat
    BY <1>0, <1>1 DEF Types
  <2>2. iter[c] + 1 \in 1 .. Len(q)
    BY <1>1, <2>1
  <2>3. k \in Callbacks
    BY <2>1, <2>2
  <2>4. \A d \in Contexts : \A i \in 1 .. Len(callbacks[d]) : callbacks[d][i] \in Callbacks
    BY <1>0 DEF Types
  <2> QED
    BY <2>1, <2>2, <2>3, <2>4
<1>4. /\ called[k] = 0 /\ CallbackContext[k] = c /\ called \in [Callbacks -> Nat]
  <2>1. \A i \in 1 .. Len(q) : CallbackContext[q[i]] = c /\ called[q[i]] = IF i <= iter[c] THEN 1 ELSE 0
    BY <1>0, <1>1, <1>2 DEF Calling
  <2> HIDE DEF q
  <2>2. ~(iter[c] + 1 <= iter[c])
    BY <1>3
  <2> QED
    BY <1>0, <1>3, <2>1, <2>2 DEF Types
<1> HIDE DEF k
<1>5. /\ called'[k] = 1 /\ \A j \in Callbacks \ {k} : called'[j] = called[j]
      /\ called' \in [Callbacks -> Nat]
      /\ iter'[c] = iter[c] + 1 /\ \A d \in Contexts \ {c} : iter'[d] = iter[d]
      /\ iter' \in [Contexts -> Nat]
  <2>1. /\ iter \in [Contexts -> Nat] /\ c \in Contexts /\ iter[c] + 1 \in Nat
        /\ iter' = [iter EXCEPT ![c] = iter[c] + 1]
    <3>1. iter \in [Contexts -> Nat]
      BY <1>0 DEF Types
    <3>2. c \in Contexts /\ iter' = [iter EXCEPT ![c] = iter[c] + 1]
      BY <1>1
    <3>3. iter[c] \in Nat
      BY <1>3
    <3> HIDE DEF c, q
    <3>4. iter[c] + 1 \in Nat
      BY <3>3
    <3> QED
      BY <3>1, <3>2, <3>4
  <2>2. /\ called \in [Callbacks -> Nat] /\ k \in Callbacks /\ called[k] = 0
        /\ called' = [called EXCEPT ![k] = called[k] + 1]
    BY <1>1, <1>3, <1>4
  <2> HIDE DEF c
  <2>3. /\ iter'[c] = iter[c] + 1 /\ \A d \in Contexts \ {c} : iter'[d] = iter[d]
        /\ iter' \in [Contexts -> Nat]
    BY <2>1
  <2>4. /\ called'[k] = 1 /\ \A j \in Callbacks \ {k} : called'[j] = called[j]
        /\ called' \in [Callbacks -> Nat]
    BY <2>2
  <2> QED
    BY <2>3, <2>4
<1>6. Types'
  BY <1>0, <1>1, <1>5 DEF Types
<1>7. Working' /\ Holding' /\ Slumber'
  BY <1>0, <1>1 DEF Working, Holding, Slumber
<1>8. Calling'
  <2>1. ASSUME NEW d \in Contexts
        PROVE  /\ iter'[d] <= Len(callbacks[d])
               /\ init_mutex[d] # None =>
                    \A i \in 1 .. Len(callbacks[d]) :
                      called'[callbacks[d][i]] = IF i <= iter'[d] THEN 1 ELSE 0
    <3>1. CASE d = c
      <4>1. ASSUME NEW i \in 1 .. Len(q)
            PROVE  called'[q[i]] = IF i <= iter[c] + 1 THEN 1 ELSE 0
        <5>1. q[i] \in Callbacks /\ called[q[i]] = IF i <= iter[c] THEN 1 ELSE 0
          BY <1>0, <1>1, <1>2, <1>3 DEF Calling
        <5>2. q[i] = k <=> i = iter[c] + 1
          BY <1>0, <1>1, <1>3 DEF Calling, k
        <5> HIDE DEF q
        <5>3. CASE i = iter[c] + 1
          BY <1>5, <5>2, <5>3
        <5>4. CASE i # iter[c] + 1
          <6>1. called'[q[i]] = IF i <= iter[c] THEN 1 ELSE 0
            BY <1>5, <5>1, <5>2, <5>4
          <6>2. i <= iter[c] <=> i <= iter[c] + 1
            BY <1>3, <5>4
          <6> QED
            BY <6>1, <6>2
        <5> QED
          BY <5>3, <5>4
      <4> QED
        BY <1>3, <1>5, <3>1, <4>1
    <3>2. CASE d # c
      <4>1. \A i \in 1 .. Len(callbacks[d]) : callbacks[d][i] \in Callbacks \ {k}
        BY <1>0, <1>3, <1>4, <3>2 DEF Calling
      <4> QED
        BY <1>0, <1>5, <3>2, <4>1 DEF Calling
    <3> QED
      BY <3>1, <3>2
  <2>2. k \in Range(q)
    BY <1>3 DEF Range, k
  <2>3. ASSUME NEW j \in Callbacks
        PROVE  /\ called'[j] <= 1 /\ (CallbackContext[j] \in valid => called'[j] = 0)
               /\ j \notin Range(callbacks[CallbackContext[j]]) => called'[j] = 0
    <3>1. CASE j = k
      BY <1>2, <1>4, <1>5, <2>2, <3>1
    <3>2. CASE j # k
      BY <1>0, <1>5, <3>2 DEF Calling
    <3> QED
      BY <3>1, <3>2
  <2> QED
    BY <1>0, <1>1, <2>1, <2>3 DEF Calling
<1> QED
  BY <1>6, <1>7, <1>8 DEF Rests

LEMMA InterruptSleepKeeps ==
  ASSUME IInv, NEW t \in Threads, InterruptSleep(t)
  PROVE  Rests
<1>0. Types /\ Working /\ Holding /\ Calling /\ Slumber
  BY DEF IInv
<1>1. /\ UNCHANGED <<valid, inits, init_mutex, g_contexts, callbacks, iter, called, left, began,
                     todo, install_mutex, installed>>
      /\ Go(t, "callbacks", "interrupted")
  BY DEF InterruptSleep, ctxVars, sigVars
<1>2. /\ pc[t] = "callbacks" /\ pc'[t] = "interrupted" /\ arg'[t] = arg[t]
      /\ \A u \in Threads \ {t} : pc'[u] = pc[u] /\ arg'[u] = arg[u]
      /\ pc' \in [Threads -> Locations] /\ arg' \in [Threads -> Contexts \cup {None}]
      /\ Working' /\ Keeps(SleepLocations)
  BY <1>0, <1>1, ShutdownGo DEF ShutLocations
<1>3. Types'
  BY <1>0, <1>1, <1>2 DEF Types
<1>4. \A u \in Threads : arg'[u] = arg[u] /\ (pc'[u] \in ShutLocations <=> pc[u] \in ShutLocations)
  BY <1>2 DEF ShutLocations
<1>5. Holding'
  BY <1>0, <1>1, <1>4 DEF Holding, Types
<1> QED
  BY <1>0, <1>1, <1>2, <1>3, <1>5, SlumberKept, CallingKept DEF Rests, CallVars

LEMMA UnlistKeeps ==
  ASSUME IInv, NEW t \in Threads, Unlist(t)
  PROVE  Rests
<1> DEFINE c == arg[t]  to == AfterShutdown(t)
<1>0. Types /\ Working /\ Holding /\ Calling /\ Slumber /\ t # None
  BY DEF IInv
<1>1. /\ UNCHANGED <<valid, inits, callbacks, called, left, began, todo, install_mutex, installed>>
      /\ g_contexts' \subseteq g_contexts /\ Go(t, "interrupted", to)
      /\ init_mutex' = [init_mutex EXCEPT ![c] = None] /\ iter' = [iter EXCEPT ![c] = 0]
  BY DEF Unlist, sleepVars, sigVars
<1>2. to \in {"next", "uninstall", "idle"}
  BY DEF AfterShutdown
<1> HIDE DEF to
<1>3. /\ pc[t] = "interrupted" /\ pc'[t] = to /\ c \in Contexts
      /\ \A u \in Threads \ {t} : pc'[u] = pc[u] /\ arg'[u] = arg[u]
      /\ pc' \in [Threads -> Locations] /\ arg' \in [Threads -> Contexts \cup {None}]
      /\ Working' /\ Keeps(SleepLocations)
  BY <1>0, <1>1, <1>2, ShutdownGo
<1>4. /\ init_mutex' \in [Contexts -> Threads \cup {None}] /\ iter' \in [Contexts -> Nat]
      /\ init_mutex'[c] = None /\ iter'[c] = 0
      /\ \A d \in Contexts \ {c} : init_mutex'[d] = init_mutex[d] /\ iter'[d] = iter[d]
  BY <1>0, <1>1, <1>3 DEF Types
<1>5. Types'
  BY <1>0, <1>1, <1>3, <1>4 DEF Types
<1>6. init_mutex[c] = t
  BY <1>0, <1>3 DEF Holding, ShutLocations
<1>7. Holding'
  <2>1. ASSUME NEW u \in Threads, pc'[u] \in ShutLocations
        PROVE  init_mutex'[arg'[u]] = u /\ arg'[u] \notin valid'
    <3>1. u # t /\ pc[u] \in ShutLocations /\ arg'[u] = arg[u] /\ arg[u] \in Contexts
      BY <1>0, <1>2, <1>3, <2>1 DEF Working, ShutLocations
    <3>2. init_mutex[arg[u]] = u /\ arg[u] \notin valid
      BY <1>0, <3>1 DEF Holding
    <3> QED
      BY <1>1, <1>4, <1>6, <3>1, <3>2
  <2>2. ASSUME NEW d \in Contexts, init_mutex'[d] # None
        PROVE  pc'[init_mutex'[d]] \in ShutLocations /\ arg'[init_mutex'[d]] = d
    <3>1. d # c /\ init_mutex'[d] = init_mutex[d]
      BY <1>4, <2>2
    <3>2. pc[init_mutex[d]] \in ShutLocations /\ arg[init_mutex[d]] = d
      BY <1>0, <2>2, <3>1 DEF Holding
    <3>3. init_mutex[d] \in Threads \ {t}
      BY <1>0, <2>2, <3>1, <3>2 DEF Types
    <3> QED
      BY <1>3, <3>1, <3>2, <3>3
  <2> QED
    BY <2>1, <2>2 DEF Holding
<1>8. Calling'
  <2>1. Len(callbacks[c]) \in Nat
    BY <1>0, <1>3 DEF Types
  <2> QED
    BY <1>0, <1>1, <1>4, <2>1 DEF Calling
<1> QED
  BY <1>0, <1>1, <1>3, <1>5, <1>7, <1>8, SlumberKept DEF Rests

------------------------------------------------------------------------------
(* The signal handler's thread.                                             *)


\* A step of one thread that neither installs nor uninstalls.
LEMMA ElsewhereInstalling ==
  ASSUME Types, Installing, NEW t \in Threads, UNCHANGED <<install_mutex, installed>>,
         pc[t] \notin InstallLocations, pc'[t] \notin InstallLocations,
         \A u \in Threads \ {t} : pc'[u] = pc[u] /\ arg'[u] = arg[u],
         t = Handler => pc[t] # "exited" /\ pc'[t] \in HandlerLocations \ {"exited"}
  PROVE  Installing'
<1>1. Keeps(InstallLocations)
  BY DEF Keeps
<1>2. pc'[Handler] \in HandlerLocations /\ (pc'[Handler] = "exited" <=> pc[Handler] = "exited")
  <2>1. CASE t = Handler
    BY <2>1
  <2>2. CASE t # Handler
    BY <2>2 DEF Installing
  <2> QED
    BY <2>1, <2>2
<1> QED
  BY <1>1, <1>2, InstallingKept

\* A step of the thread that holds install_mutex_, or takes it.
LEMMA InstallerInstalling ==
  ASSUME Types, Installing, NEW t \in Threads \ {Handler},
         \A u \in Threads \ {t} : pc'[u] = pc[u],
         install_mutex \in {None, t},
         \/ /\ pc'[t] \in InstallLocations /\ install_mutex' = t
            /\ pc'[t] \in PreInstall => installed' /\ pc[Handler] = "exited"
            /\ pc'[t] \in PreUninstall \cup PostUninstall => ~installed'
            /\ pc'[t] \in PostUninstall => pc[Handler] = "exited"
         \/ /\ pc'[t] \notin InstallLocations /\ install_mutex' = None
            /\ pc[Handler] # "exited" => installed'
  PROVE  Installing'
<1>1. pc'[Handler] = pc[Handler] /\ pc[Handler] \in HandlerLocations
  BY DEF Installing
<1>2. \A u \in Threads \ {t} : pc'[u] \notin InstallLocations
  BY DEF Installing
<1>3. ASSUME NEW u \in Threads, pc'[u] \in InstallLocations
      PROVE  u = t /\ install_mutex' = t
  BY <1>2, <1>3
<1>4. ASSUME NEW u \in Threads
      PROVE  /\ pc'[u] \in InstallLocations => install_mutex' = u
             /\ pc'[u] \in PreInstall => installed' /\ pc'[Handler] = "exited"
             /\ pc'[u] \in PreUninstall \cup PostUninstall => ~installed'
  BY <1>1, <1>3 DEF InstallLocations
<1>5. pc'[Handler] # "exited" =>
        installed' \/ (install_mutex' \in Threads /\ pc'[install_mutex'] \in PreUninstall)
  BY <1>1 DEF InstallLocations
<1> QED
  BY <1>1, <1>4, <1>5 DEF Installing

LEMMA OutsideInstalling == ASSUME IInv, Outside PROVE Installing'
<1>0. Types /\ Installing
  BY DEF IInv
<1>t. \A t \in Callers : t \in Threads
  OBVIOUS
<1>h. \A t \in Callers : pc[t] \notin HandlerLocations => t \in Threads \ {Handler}
  BY <1>0 DEF Installing
<1> USE DEF HandlerLocations, InstallLocations, PreInstall, PreUninstall, PostUninstall
<1>m. ASSUME NEW t \in Threads, pc[t] \in InstallLocations
      PROVE  /\ install_mutex = t
             /\ pc[t] \in PreInstall => installed /\ pc[Handler] = "exited"
             /\ pc[t] \in PreUninstall \cup PostUninstall => ~installed
             /\ pc[t] \in PostUninstall => pc[Handler] = "exited"
  BY <1>0, <1>m DEF Installing
<1>n. install_mutex = None /\ ~installed => pc[Handler] = "exited"
  BY <1>0 DEF Installing
<1>1. ASSUME NEW t \in Callers, NEW c \in Contexts,
             CallInit(t, c) \/ CallShutdown(t, c) \/ CallDestroy(t, c)
      PROVE  Installing'
  <2> PICK to \in {"init", "shutdown"} : Call(t, c, to)
    BY <1>1 DEF CallInit, CallShutdown, CallDestroy
  <2>1. to \in Locations
    BY DEF Locations
  <2>2. /\ pc[t] = "idle" /\ pc'[t] = to
        /\ \A u \in Threads \ {t} : pc'[u] = pc[u] /\ arg'[u] = arg[u]
    BY <1>0, <1>t, <2>1, CallEffect
  <2>3. UNCHANGED <<install_mutex, installed>>
    BY <1>1 DEF CallInit, CallShutdown, CallDestroy, sigVars
  <2> QED
    BY <1>0, <1>h, <2>2, <2>3, ElsewhereInstalling
\* A Go of a caller that is not the handler.
<1>2. ASSUME NEW t \in Callers, NEW from, NEW to \in Locations, Go(t, from, to),
             from \notin HandlerLocations
      PROVE  /\ t \in Threads \ {Handler} /\ pc[t] = from /\ pc'[t] = to
             /\ \A u \in Threads \ {t} : pc'[u] = pc[u] /\ arg'[u] = arg[u]
  BY <1>0, <1>2, <1>h, <1>t, GoEffect
<1>3. ASSUME NEW t \in Callers, CallInstall(t)
      PROVE  Installing'
  <2> PICK to \in {"install", "uninstall"} : Go(t, "idle", to)
    BY <1>3 DEF CallInstall
  <2>1. to \in Locations
    BY DEF Locations
  <2> QED
    BY <1>0, <1>2, <1>3, <2>1, ElsewhereInstalling DEF CallInstall
<1>4. ASSUME NEW t \in Callers, InstallLock(t)
      PROVE  Installing'
  <2>1. {"idle", "setup"} \subseteq Locations
    BY DEF Locations
  <2>2. CASE installed
    <3>1. Go(t, "install", "idle") /\ installed' = TRUE /\ install_mutex' = install_mutex
      BY <1>4, <2>2 DEF InstallLock
    <3>2. installed' = installed
      BY <1>0, <2>2, <3>1 DEF Types
    <3> QED
      BY <1>0, <1>2, <2>1, <3>1, <3>2, ElsewhereInstalling
  <2>3. CASE ~installed
    <3>1. Go(t, "install", "setup") /\ installed' = TRUE /\ install_mutex' = t /\ install_mutex = None
      BY <1>4, <2>3 DEF InstallLock
    <3> QED
      BY <1>0, <1>2, <1>n, <2>1, <2>3, <3>1, InstallerInstalling
  <2> QED
    BY <2>2, <2>3
<1>5. ASSUME NEW t \in Callers, SetupWaitForSignal(t) \/ SetHandler(t)
      PROVE  Installing'
  <2> PICK from \in {"setup", "set"}, to \in {"set", "start"} : Go(t, from, to)
    BY <1>5 DEF SetupWaitForSignal, SetHandler
  <2>1. to \in Locations
    BY DEF Locations
  <2>2. UNCHANGED <<install_mutex, installed>>
    BY <1>5 DEF SetupWaitForSignal, SetHandler
  <2> QED
    BY <1>0, <1>2, <1>m, <2>1, <2>2, InstallerInstalling
<1>6. ASSUME NEW t \in Callers, StartThread(t)
      PROVE  Installing'
  <2>1. /\ pc[t] = "start" /\ install_mutex' = None /\ installed' = installed
        /\ pc' = [pc EXCEPT ![t] = "idle", ![Handler] = "exchange"]
    BY <1>6 DEF StartThread
  <2>2. install_mutex = t /\ installed /\ pc[Handler] = "exited" /\ t # Handler
    BY <1>t, <1>m, <2>1
  <2>3. /\ pc'[t] = "idle" /\ pc'[Handler] = "exchange"
        /\ \A u \in Threads \ {t, Handler} : pc'[u] = pc[u]
    BY <1>0, <1>t, <2>1, <2>2 DEF Types
  <2>4. \A u \in Threads \ {t, Handler} : pc[u] \notin InstallLocations
    BY <1>m, <2>2
  <2> QED
    BY <2>1, <2>2, <2>3, <2>4 DEF Installing
<1>7. ASSUME NEW t \in Callers, InstallThrows(t)
      PROVE  Installing'
  <2> PICK from \in {"setup", "set", "start"} : Go(t, from, "idle")
    BY <1>7 DEF InstallThrows
  <2>1. "idle" \in Locations
    BY DEF Locations
  <2>2. install_mutex' = None
    BY <1>7 DEF InstallThrows
  <2> QED
    BY <1>0, <1>2, <1>m, <2>1, <2>2, InstallerInstalling
<1>8. ASSUME NEW t \in Callers, UninstallLock(t)
      PROVE  Installing'
  <2>1. {"idle", "restore"} \subseteq Locations
    BY DEF Locations
  <2>2. CASE ~installed
    <3>1. Go(t, "uninstall", "idle") /\ installed' = FALSE /\ install_mutex' = install_mutex
      BY <1>8, <2>2 DEF UninstallLock
    <3>2. installed' = installed
      BY <1>0, <2>2, <3>1 DEF Types
    <3> QED
      BY <1>0, <1>2, <2>1, <3>1, <3>2, ElsewhereInstalling
  <2>3. CASE installed
    <3>1. Go(t, "uninstall", "restore") /\ installed' = FALSE /\ install_mutex' = t
          /\ install_mutex = None
      BY <1>8, <2>3 DEF UninstallLock
    <3> QED
      BY <1>0, <1>2, <2>1, <3>1, InstallerInstalling
  <2> QED
    BY <2>2, <2>3
<1>9. ASSUME NEW t \in Callers, RestoreHandler(t) \/ NotifyHandler(t)
      PROVE  Installing'
  <2> PICK from \in {"restore", "notify"}, to \in {"notify", "join"} : Go(t, from, to)
    BY <1>9 DEF RestoreHandler, NotifyHandler
  <2>1. to \in Locations
    BY DEF Locations
  <2>2. UNCHANGED <<install_mutex, installed>>
    BY <1>9 DEF RestoreHandler, NotifyHandler
  <2> QED
    BY <1>0, <1>2, <1>m, <2>1, <2>2, InstallerInstalling
<1>10. ASSUME NEW t \in Callers, Join(t)
       PROVE  Installing'
  <2>1. "teardown" \in Locations
    BY DEF Locations
  <2>2. /\ UNCHANGED <<install_mutex, installed>> /\ pc[Handler] = "exited"
        /\ Go(t, "join", "teardown")
    BY <1>10 DEF Join
  <2> QED
    BY <1>0, <1>2, <1>m, <2>1, <2>2, InstallerInstalling
<1>11. ASSUME NEW t \in Callers, TeardownWaitForSignal(t)
       PROVE  Installing'
  <2>1. "destroy" \in Locations
    BY DEF Locations
  <2>2. UNCHANGED <<install_mutex, installed>> /\ Go(t, "teardown", "destroy")
    BY <1>11 DEF TeardownWaitForSignal
  <2> QED
    BY <1>0, <1>2, <1>m, <2>1, <2>2, InstallerInstalling
<1>12. ASSUME NEW t \in Callers, DestroySemaphore(t)
       PROVE  Installing'
  <2>1. "idle" \in Locations
    BY DEF Locations
  <2>2. install_mutex' = None /\ installed' = installed /\ Go(t, "destroy", "idle")
    BY <1>12 DEF DestroySemaphore
  <2> QED
    BY <1>0, <1>2, <1>m, <2>1, <2>2, InstallerInstalling
\* The handler's own steps.
<1>13. CASE Exchange \/ GetContexts \/ WaitForSignal
  <2> PICK from \in {"exchange", "get", "wait"}, to \in {"exchange", "get", "next", "installed?"} :
           Go(Handler, from, to)
    BY <1>13 DEF Exchange, GetContexts, WaitForSignal
  <2>1. to \in Locations
    BY DEF Locations
  <2>2. UNCHANGED <<install_mutex, installed>>
    BY <1>13 DEF Exchange, GetContexts, WaitForSignal, HandlerRest
  <2>3. /\ pc[Handler] = from /\ pc'[Handler] = to
        /\ \A u \in Threads \ {Handler} : pc'[u] = pc[u] /\ arg'[u] = arg[u]
    BY <1>0, <2>1, GoEffect
  <2> QED
    BY <1>0, <2>2, <2>3, ElsewhereInstalling
<1>14. CASE NextContext
  <2>1. /\ pc[Handler] = "next" /\ UNCHANGED <<install_mutex, installed>>
        /\ \E l \in {"next", "shutdown", "installed?"} : pc' = [pc EXCEPT ![Handler] = l]
        /\ \E c : arg' = [arg EXCEPT ![Handler] = c]
    <3>1. pc = [pc EXCEPT ![Handler] = "next"] \/ pc[Handler] # "next"
      BY <1>0 DEF Types
    <3> QED
      BY <1>14, <3>1 DEF NextContext, HandlerRest
  <2>2. /\ pc'[Handler] \in {"next", "shutdown", "installed?"}
        /\ \A u \in Threads \ {Handler} : pc'[u] = pc[u] /\ arg'[u] = arg[u]
    BY <1>0, <2>1 DEF Types
  <2> QED
    BY <1>0, <2>1, <2>2, ElsewhereInstalling
<1>15. CASE TestInstalled
  <2>1. /\ UNCHANGED <<install_mutex, installed>>
        /\ Go(Handler, "installed?", IF installed THEN "wait" ELSE "exited")
        /\ {"wait", "exited"} \subseteq Locations
    BY <1>15 DEF TestInstalled, HandlerRest, Locations
  <2>2. CASE installed
    <3>1. /\ pc[Handler] = "installed?" /\ pc'[Handler] = "wait"
          /\ \A u \in Threads \ {Handler} : pc'[u] = pc[u] /\ arg'[u] = arg[u]
      BY <1>0, <2>1, <2>2, GoEffect
    <3> QED
      BY <1>0, <2>1, <3>1, ElsewhereInstalling
  <2>3. CASE ~installed
    <3>1. /\ pc[Handler] = "installed?" /\ pc'[Handler] = "exited"
          /\ \A u \in Threads \ {Handler} : pc'[u] = pc[u] /\ arg'[u] = arg[u]
      BY <1>0, <2>1, <2>3, GoEffect
    <3>2. \A u \in Threads : pc'[u] \in InstallLocations => pc[u] = pc'[u] /\ u # Handler
      BY <3>1
    <3> QED
      BY <1>0, <2>1, <3>1, <3>2 DEF Installing
  <2> QED
    BY <2>2, <2>3
<1>16. CASE FrameStep \/ Signal \/ UNCHANGED vars
  <2>1. UNCHANGED <<pc, install_mutex, installed>>
    BY <1>16 DEF FrameStep, SignalReadsSetup, SignalPosts, Signal, vars, sigVars
  <2> QED
    BY <1>0, <2>1 DEF Installing
<1> QED
  BY <1>1, <1>3, <1>4, <1>5, <1>6, <1>7, <1>8, <1>9, <1>10, <1>11, <1>12, <1>13, <1>14, <1>15, <1>16
  DEF Outside, InstallStep

LEMMA ShutdownInstalling ==
  ASSUME IInv, NEW t \in Threads, ShutdownStep(t) PROVE Installing'
<1>0. Types /\ Working /\ Installing
  BY DEF IInv
<1>1. CASE RunCallback(t)
  BY <1>0, <1>1 DEF RunCallback, sigVars, Installing
<1>2. CASE ShutdownContext(t) \/ InterruptSleep(t) \/ Unlist(t)
  <2>1. UNCHANGED <<install_mutex, installed>>
    BY <1>2 DEF ShutdownContext, InterruptSleep, Unlist, sigVars
  <2> PICK from \in {"shutdown", "callbacks", "interrupted"},
           to \in {"callbacks", "interrupted", AfterShutdown(t)} : Go(t, from, to)
    BY <1>2 DEF ShutdownContext, InterruptSleep, Unlist
  <2>2. /\ to \in {"callbacks", "interrupted", "next", "uninstall", "idle"}
        /\ t = Handler => to \in {"callbacks", "interrupted", "next"}
    BY DEF AfterShutdown
  <2>3. /\ pc[t] = from /\ pc'[t] = to
        /\ \A u \in Threads \ {t} : pc'[u] = pc[u] /\ arg'[u] = arg[u]
    BY <1>0, <2>2, ShutdownGo
  <2> QED
    BY <1>0, <2>1, <2>2, <2>3, ElsewhereInstalling
    DEF HandlerLocations, InstallLocations, PreInstall, PreUninstall, PostUninstall
<1> QED
  BY <1>1, <1>2 DEF ShutdownStep

LEMMA InitInstalling ==
  ASSUME IInv, NEW t \in Threads, InitContext(t) PROVE Installing'
<1>0. Types /\ Installing
  BY DEF IInv
<1>1. UNCHANGED <<install_mutex, installed>>
  BY DEF InitContext, sigVars
<1> PICK to \in {"install", "idle"} : Go(t, "init", to)
  BY DEF InitContext
<1>2. to \in Locations
  BY DEF Locations
<1>3. /\ pc[t] = "init" /\ pc'[t] = to
      /\ \A u \in Threads \ {t} : pc'[u] = pc[u] /\ arg'[u] = arg[u]
  BY <1>0, <1>2, GoEffect
<1>4. t # Handler
  BY <1>0, <1>3 DEF Installing, HandlerLocations
<1> QED
  BY <1>0, <1>1, <1>3, <1>4, ElsewhereInstalling
  DEF InstallLocations, PreInstall, PreUninstall, PostUninstall

------------------------------------------------------------------------------
LEMMA IInvKept == IInv /\ [Next]_vars => IInv'
<1> SUFFICES ASSUME IInv, [Next]_vars PROVE IInv'
  OBVIOUS
<1>0. Types /\ Working /\ Installing /\ Holding /\ Calling /\ Slumber
  BY DEF IInv
<1>t. \A t \in Callers : t \in Threads
  OBVIOUS
<1>1. CASE Outside
  <2>1. OutsideKeeps
    BY <1>0, <1>1, OutsideSteps
  <2>2. Types'
    BY <1>0, <2>1 DEF OutsideKeeps, CallVars, Types
  <2>3. Keeps(ShutLocations) /\ Keeps(SleepLocations)
    BY <2>1 DEF OutsideKeeps, Keeps
  <2>4. UNCHANGED <<valid, inits, CallVars, left, began, init_mutex>> /\ Working'
    BY <2>1 DEF OutsideKeeps, CallVars
  <2> QED
    BY <1>0, <1>1, <2>2, <2>3, <2>4, HoldingKept, SlumberKept, CallingKept, OutsideInstalling DEF IInv
<1>2. ASSUME NEW t \in Callers, InitContext(t)
      PROVE  IInv'
  BY <1>2, <1>t, InitContextKeeps, InitInstalling DEF Rests, IInv
<1>3. ASSUME NEW t \in Callers, NEW k \in Callbacks, OnShutdown(t, k)
      PROVE  IInv'
  <2>1. Installing'
    BY <1>0, <1>3 DEF OnShutdown, sigVars, Installing
  <2> QED
    BY <1>3, <1>t, <2>1, OnShutdownKeeps DEF Rests, IInv
<1>4. ASSUME NEW t \in Threads, ShutdownStep(t)
      PROVE  IInv'
  BY <1>4, ShutdownInstalling, ShutdownContextKeeps, RunCallbackKeeps, InterruptSleepKeeps,
     UnlistKeeps DEF Rests, IInv, ShutdownStep
<1>5. ASSUME NEW t \in Sleepers, SleepSteps(t)
      PROVE  IInv'
  <2>1. /\ Types' /\ Working' /\ Slumber' /\ Keeps(ShutLocations \cup InstallLocations)
        /\ UNCHANGED <<valid, CallVars, install_mutex, installed>> /\ pc'[Handler] = pc[Handler]
    BY <1>5, SleepKeeps
  <2>2. Keeps(ShutLocations) /\ Keeps(InstallLocations)
    BY <2>1 DEF Keeps
  <2>3. UNCHANGED <<valid, CallVars, init_mutex>>
    BY <2>1 DEF CallVars
  <2>4. Installing'
    BY <1>0, <2>1, <2>2, InstallingKept DEF Installing
  <2> QED
    BY <1>0, <2>1, <2>2, <2>3, <2>4, HoldingKept, CallingKept DEF IInv
<1> QED
  BY <1>1, <1>2, <1>3, <1>4, <1>5, <1>t
  DEF Next, CallerStep, SleeperStep, SleepSteps, HandlerStep, Outside

LEMMA IInvHolds == Spec => []IInv
  BY InitIInv, IInvKept, PTL DEF Spec

\* However many threads and the signal handler shut contexts down at once, a
\* callback of on_shutdown is called at most once between two inits, and all of
\* them before the sleepers are interrupted.
THEOREM ShutdownCallsOnce == Spec => []CallbacksCalledOnce
<1>1. IInv => CallbacksCalledOnce
  <2> SUFFICES ASSUME IInv
               PROVE  /\ \A k \in Callbacks : called[k] <= 1
                      /\ \A t \in Threads : pc[t] = "interrupted" =>
                           \A k \in Range(callbacks[arg[t]]) :
                             called[k] = 1 \/ iter[arg[t]] < Len(callbacks[arg[t]])
    BY DEF CallbacksCalledOnce
  <2>0. Types /\ Working /\ Holding /\ Calling
    BY DEF IInv
  <2>1. \A k \in Callbacks : called[k] <= 1
    BY <2>0 DEF Calling
  <2>2. ASSUME NEW t \in Threads, pc[t] = "interrupted", NEW k \in Range(callbacks[arg[t]]),
               ~(iter[arg[t]] < Len(callbacks[arg[t]]))
        PROVE  called[k] = 1
    <3>1. /\ arg[t] \in Contexts /\ init_mutex[arg[t]] = t /\ t # None
          /\ callbacks[arg[t]] \in Seq(Callbacks) /\ iter[arg[t]] \in Nat
      BY <2>0, <2>2 DEF Types, Working, Holding, ShutLocations
    <3>2. PICK i \in 1 .. Len(callbacks[arg[t]]) : callbacks[arg[t]][i] = k
      BY <3>1 DEF Range
    <3>3. i <= iter[arg[t]]
      BY <2>2, <3>1
    <3> QED
      BY <2>0, <3>1, <3>2, <3>3 DEF Calling
  <2> QED
    BY <2>1, <2>2
<1> QED
  BY <1>1, IInvHolds, PTL

\* sleep_for returns true only after its whole time, unless its context was
\* initialised anew meanwhile, whatever wakes the sleeper and however often.
THEOREM SleepForIsWhole == Spec => []SleptWholeTime
<1>1. IInv => SleptWholeTime
  <2> SUFFICES ASSUME IInv, NEW t \in Sleepers, pc[t] = "slept"
               PROVE  left[t] = 0 \/ inits[arg[t]] # began[t]
    BY DEF SleptWholeTime
  <2>1. arg[t] \in Contexts /\ inits[arg[t]] \in Nat /\ began[t] \in Nat
    BY DEF IInv, Types, Working, SleepLocations
  <2> QED
    BY <2>1 DEF IInv, Slumber, SleepLocations
<1> QED
  BY <1>1, IInvHolds, PTL
------------------------------------------------------------------------------
(* SIGINT and the deferred handler's thread.                                *)

\* The deferred handler has still to come to context c.
Remains(c) ==
  \/ signal_received
  \/ pc[Handler] = "get"
  \/ c \in todo
  \/ pc[Handler] = "shutdown" /\ arg[Handler] = c

\* No signal is lost on its way to the deferred handler: what a SIGINT has to
\* shut down lies ahead of a thread that runs (or is about to be started), and
\* the thread does not wait for the semaphore while there is a signal, or
\* somebody joins it, unless it was posted or is about to be.
NoLostSignal ==
  /\ \A c \in hit \cap alive : Remains(c)
  /\ hit # {} /\ install_mutex = None => pc[Handler] # "exited"
  /\ pc[Handler] = "wait" /\ (signal_received \/ \E t \in Callers : pc[t] = "join") =>
       sem > 0 \/ frame # "none"

\* A context that a SIGINT has to shut down is valid, asks for it and, while it
\* lives, is listed; there is none unless the handler is installed.
Hitting ==
  /\ hit \subseteq valid \cap ShutdownOnSigint
  /\ valid \cap alive \subseteq g_contexts
  /\ hit # {} => Installed
  /\ \A c \in hit \cap alive : Remains(c)

\* The thread runs while the handler is installed, and while it runs, or is
\* about to, there is a semaphore.
Standing ==
  /\ installed /\ install_mutex = None => pc[Handler] # "exited"
  /\ sem \in Nat \cup {NoSem}
  /\ pc[Handler] # "exited" \/ (\E t \in Threads : pc[t] \in {"set", "start"}) => is_setup /\ sem \in Nat

\* A signal not yet seen is posted or about to be, but for a thread that is
\* about to look; and who joins the thread has posted, if the thread can wait.
Posting ==
  /\ pc[Handler] \notin {"exchange", "exited"} /\ signal_received => sem > 0 \/ frame # "none"
  /\ pc[Handler] = "wait" /\ (\E t \in Threads : pc[t] = "join") => sem > 0

SigInv == Hitting /\ Standing /\ Posting

LEMMA SigInitial == Init => SigInv
<1> SUFFICES ASSUME Init PROVE SigInv
  OBVIOUS
<1>1. pc[Handler] = "exited" /\ \A t \in Threads : pc[t] \in {"idle", "exited"}
  BY DEF Init
<1>2. hit = {} /\ valid = {} /\ ~installed /\ sem = NoSem
  BY DEF Init
<1> QED
  BY <1>1, <1>2 DEF SigInv, Hitting, Standing, Posting

\* A step apart from the semaphore and the mutex keeps what it may tell.
LEMMA ApartSignal ==
  ASSUME Types, SigInv,
         UNCHANGED <<install_mutex, installed, signal_received, is_setup, sem, frame>>,
         hit' \subseteq hit \cap valid', valid' \cap alive' \subseteq g_contexts',
         \A l \in {"exchange", "exited", "wait"} : pc'[Handler] = l <=> pc[Handler] = l,
         \A u \in Threads :
           pc'[u] = pc[u] \/ (pc[u] \notin InstallLocations /\ pc'[u] \notin InstallLocations),
         \A c \in hit' \cap alive' : Remains(c)'
  PROVE  SigInv'
<1>1. Hitting'
  <2>1. hit' # {} => Installed'
    <3> SUFFICES ASSUME hit' # {} PROVE Installed'
      OBVIOUS
    <3>1. Installed
      BY DEF SigInv, Hitting
    <3>2. CASE install_mutex = None
      BY <3>1, <3>2 DEF Installed
    <3>3. CASE install_mutex # None
      <4>1. install_mutex \in Threads /\ pc[install_mutex] = "start"
        BY <3>1, <3>3 DEF Installed, Types
      <4>2. pc'[install_mutex] = "start"
        BY <4>1 DEF InstallLocations, PreInstall
      <4> QED
        BY <3>1, <4>2 DEF Installed
    <3> QED
      BY <3>2, <3>3
  <2> QED
    BY <2>1 DEF SigInv, Hitting
<1>2. \A u \in Threads : \A l \in {"set", "start", "join"} : pc'[u] = l => pc[u] = l
  BY DEF InstallLocations, PreInstall, PreUninstall
<1>3. Standing'
  BY <1>2 DEF SigInv, Standing
<1>4. Posting'
  BY <1>2 DEF SigInv, Posting
<1> QED
  BY <1>1, <1>3, <1>4 DEF SigInv

\* A step of another thread outside install and uninstall.
LEMMA OthersSignal ==
  ASSUME Types, SigInv,
         UNCHANGED <<install_mutex, installed, signal_received, is_setup, sem, frame, todo>>,
         hit' \subseteq hit \cap valid', valid' \cap alive' \subseteq g_contexts', alive' \subseteq alive,
         pc'[Handler] = pc[Handler], arg'[Handler] = arg[Handler],
         \A u \in Threads :
           pc'[u] = pc[u] \/ (pc[u] \notin InstallLocations /\ pc'[u] \notin InstallLocations)
  PROVE  SigInv'
<1>1. \A c \in hit' \cap alive' : Remains(c)'
  BY DEF SigInv, Hitting, Remains
<1> QED
  BY <1>1, ApartSignal

\* Calls, sleeps, and the steps of Context::init and on_shutdown.
LEMMA CallsSignal ==
  ASSUME IInv, SigInv, NEW t \in Callers,
         \/ \E c \in Contexts : CallInit(t, c) \/ CallShutdown(t, c) \/ CallDestroy(t, c)
         \/ CallInstall(t) \/ InitContext(t) \/ \E k \in Callbacks : OnShutdown(t, k)
  PROVE  SigInv'
<1>0. Types /\ Working /\ Installing /\ t \in Threads
  BY DEF IInv
<1> USE DEF sigVars, sleepVars, ctxVars
<1>h. hit \subseteq valid /\ valid \cap alive \subseteq g_contexts
  BY DEF SigInv, Hitting
\* A step of t between two places outside install and uninstall.
<1>g. ASSUME NEW from \in {"idle", "init"}, NEW to \in {"init", "shutdown", "install", "uninstall", "idle"},
             pc[t] = from, pc'[t] = to, \A u \in Threads \ {t} : pc'[u] = pc[u] /\ arg'[u] = arg[u],
             UNCHANGED <<sigVars, hit>>, alive' \subseteq alive, valid \subseteq valid',
             valid' \cap alive' \subseteq g_contexts'
      PROVE  SigInv'
  <2>1. t # Handler
    BY <1>0, <1>g DEF Installing, HandlerLocations
  <2>2. \A u \in Threads :
          pc'[u] = pc[u] \/ (pc[u] \notin InstallLocations /\ pc'[u] \notin InstallLocations)
    BY <1>g DEF InstallLocations, PreInstall, PreUninstall, PostUninstall
  <2>3. pc'[Handler] = pc[Handler] /\ arg'[Handler] = arg[Handler]
    BY <1>g, <2>1
  <2> QED
    BY <1>0, <1>g, <1>h, <2>2, <2>3, OthersSignal
<1>1. ASSUME NEW c \in Contexts, CallInit(t, c) \/ CallShutdown(t, c) \/ CallDestroy(t, c)
      PROVE  SigInv'
  <2> PICK to \in {"init", "shutdown"} : Call(t, c, to)
    BY <1>1 DEF CallInit, CallShutdown, CallDestroy
  <2>1. to \in Locations
    BY DEF Locations
  <2>2. /\ pc[t] = "idle" /\ pc'[t] = to
        /\ \A u \in Threads \ {t} : pc'[u] = pc[u] /\ arg'[u] = arg[u]
    BY <1>0, <2>1, CallEffect
  <2>3. /\ UNCHANGED <<sigVars, hit, valid, g_contexts>> /\ alive' \subseteq alive
    BY <1>1 DEF CallInit, CallShutdown, CallDestroy
  <2>4. valid' \cap alive' \subseteq g_contexts'
    BY <1>h, <2>3
  <2> QED
    BY <2>2, <2>3, <2>4, <1>g
<1>2. CASE CallInstall(t)
  <2> PICK to \in {"install", "uninstall"} : Go(t, "idle", to)
    BY <1>2 DEF CallInstall
  <2>1. to \in Locations
    BY DEF Locations
  <2>2. /\ pc[t] = "idle" /\ pc'[t] = to
        /\ \A u \in Threads \ {t} : pc'[u] = pc[u] /\ arg'[u] = arg[u]
    BY <1>0, <2>1, GoEffect
  <2>3. UNCHANGED <<sigVars, hit, valid, g_contexts, alive>>
    BY <1>2 DEF CallInstall, Rest
  <2> QED
    BY <1>h, <2>2, <2>3, <1>g
<1>3. CASE InitContext(t)
  <2> PICK to \in {"install", "idle"} : Go(t, "init", to)
    BY <1>3 DEF InitContext
  <2>1. to \in Locations
    BY DEF Locations
  <2>2. /\ pc[t] = "init" /\ pc'[t] = to
        /\ \A u \in Threads \ {t} : pc'[u] = pc[u] /\ arg'[u] = arg[u]
    BY <1>0, <2>1, GoEffect
  <2>3. /\ UNCHANGED <<sigVars, hit, alive>> /\ valid \subseteq valid'
        /\ valid' \cap alive' \subseteq g_contexts'
    BY <1>3, <1>h DEF InitContext
  <2> QED
    BY <2>2, <2>3, <1>g
<1>4. ASSUME NEW k \in Callbacks, OnShutdown(t, k)
      PROVE  SigInv'
  <2>1. UNCHANGED <<pc, arg, sigVars, hit, valid, g_contexts, alive>>
    BY <1>4 DEF OnShutdown
  <2> QED
    BY <1>0, <1>h, <2>1, OthersSignal
<1> QED
  BY <1>1, <1>2, <1>3, <1>4

LEMMA SleepSignal ==
  ASSUME IInv, SigInv, NEW t \in Sleepers, SleepSteps(t)
  PROVE  SigInv'
<1>1. Keeps(ShutLocations \cup InstallLocations) /\ pc'[Handler] = pc[Handler]
  BY SleepKeeps
<1>2. \A u \in Threads :
        pc'[u] = pc[u] \/ (pc[u] \notin InstallLocations /\ pc'[u] \notin InstallLocations)
  BY <1>1 DEF Keeps
<1>3. UNCHANGED <<sigVars, hit, ctxVars>>
  BY DEF SleepSteps, CallSleep, SleepTimeout, SleepSpurious, SleepStep, SleepEnter, SleepNotified,
         SleepTest, SleepReturn, SleepDone
<1>4. pc[t] \notin HandlerLocations
  BY DEF SleepSteps, CallSleep, Call, Idle, SleepTimeout, SleepSpurious, SleepStep, SleepEnter,
         SleepNotified, SleepTest, SleepReturn, SleepDone, Go, HandlerLocations
<1>5. t # Handler
  BY <1>4 DEF IInv, Installing
<1>6. arg' = [arg EXCEPT ![t] = arg'[t]]
  <2>1. arg \in [Threads -> Contexts \cup {None}]
    BY DEF IInv, Types
  <2>2. \E v : arg' = [arg EXCEPT ![t] = v]
    BY DEF SleepSteps, CallSleep, Call, SleepTimeout, SleepSpurious, SleepStep, SleepEnter, SleepNotified,
           SleepTest, SleepReturn, SleepDone, Go
  <2> QED
    BY <2>1, <2>2
<1>7. arg'[Handler] = arg[Handler]
  BY <1>5, <1>6 DEF IInv, Types
<1>8. hit \subseteq valid /\ valid \cap alive \subseteq g_contexts
  BY DEF SigInv, Hitting
<1> QED
  BY <1>1, <1>2, <1>3, <1>7, <1>8, OthersSignal DEF sigVars, ctxVars, IInv

\* A shutdown by any thread: what it shuts down the SIGINT need not.
LEMMA ShutdownSignal ==
  ASSUME IInv, SigInv, NEW t \in Threads, ShutdownStep(t)
  PROVE  SigInv'
<1>0. Types /\ Working /\ Installing /\ Holding
  BY DEF IInv
<1> USE DEF sigVars, sleepVars, ctxVars
<1>h. hit \subseteq valid /\ valid \cap alive \subseteq g_contexts
  BY DEF SigInv, Hitting
<1>1. CASE RunCallback(t)
  <2>1. UNCHANGED <<pc, arg, sigVars, hit, valid, g_contexts, alive>>
    BY <1>1 DEF RunCallback
  <2> QED
    BY <1>0, <1>h, <2>1, OthersSignal
<1>2. CASE ShutdownContext(t) \/ InterruptSleep(t) \/ Unlist(t)
  <2> PICK from \in {"shutdown", "callbacks", "interrupted"},
           to \in {"callbacks", "interrupted", AfterShutdown(t)} : Go(t, from, to)
    BY <1>2 DEF ShutdownContext, InterruptSleep, Unlist
  <2>1. /\ to \in {"callbacks", "interrupted", "next", "uninstall", "idle"}
        /\ t = Handler => to \in {"callbacks", "interrupted", "next"}
    BY DEF AfterShutdown
  <2>2. /\ pc[t] = from /\ pc'[t] = to
        /\ \A u \in Threads \ {t} : pc'[u] = pc[u] /\ arg'[u] = arg[u]
    BY <1>0, <2>1, ShutdownGo
  <2>3. /\ UNCHANGED <<sigVars, alive>> /\ hit' \subseteq hit \cap valid'
        /\ valid' \cap alive' \subseteq g_contexts'
    <3>1. CASE ShutdownContext(t)
      BY <1>h, <3>1 DEF ShutdownContext
    <3>2. CASE InterruptSleep(t)
      BY <1>h, <3>2 DEF InterruptSleep
    <3>3. CASE Unlist(t)
      <4>1. pc[t] = "interrupted"
        BY <3>3 DEF Unlist, Go
      <4>2. arg[t] \notin valid
        BY <1>0, <4>1 DEF Holding, ShutLocations
      <4> QED
        BY <1>h, <3>3, <4>2 DEF Unlist
    <3> QED
      BY <1>2, <3>1, <3>2, <3>3
  <2>4. \A u \in Threads :
          pc'[u] = pc[u] \/ (pc[u] \notin InstallLocations /\ pc'[u] \notin InstallLocations)
    BY <2>1, <2>2 DEF InstallLocations, PreInstall, PreUninstall, PostUninstall
  <2>5. CASE t # Handler
    <3>1. pc'[Handler] = pc[Handler] /\ arg'[Handler] = arg[Handler]
      BY <2>2, <2>5
    <3> QED
      BY <1>0, <2>3, <2>4, <3>1, OthersSignal
  <2>6. CASE t = Handler
    <3>1. \A l \in {"exchange", "exited", "wait"} : pc'[Handler] = l <=> pc[Handler] = l
      BY <2>1, <2>2, <2>6
    <3>2. ASSUME pc[t] = "shutdown" PROVE arg[t] \notin hit'
      BY <1>2, <1>h, <3>2, <2>2, <2>1 DEF ShutdownContext, InterruptSleep, Unlist, Go
    <3>3. \A c \in hit' \cap alive' : Remains(c)'
      <4>1. ASSUME NEW c \in hit' \cap alive' PROVE Remains(c)'
        <5>1. Remains(c)
          BY <2>3, <4>1 DEF SigInv, Hitting
        <5>2. pc[Handler] # "get" /\ ~(pc[Handler] = "shutdown" /\ arg[Handler] = c)
          BY <2>2, <2>6, <3>2, <4>1
        <5> QED
          BY <2>3, <5>1, <5>2 DEF Remains
      <4> QED
        BY <4>1
    <3> QED
      BY <1>0, <2>3, <2>4, <3>1, <3>3, ApartSignal
  <2> QED
    BY <2>5, <2>6
<1> QED
  BY <1>1, <1>2 DEF ShutdownStep

\* The deferred handler's own steps, the frame of the signal handler, SIGINT.
LEMMA HandlerSignal ==
  ASSUME IInv, SigInv,
         Exchange \/ GetContexts \/ NextContext \/ TestInstalled \/ WaitForSignal \/ FrameStep \/ Signal
  PROVE  SigInv'
<1>0. Types /\ Installing /\ Handler \in Threads
  BY DEF IInv
<1>h. /\ hit \subseteq valid \cap ShutdownOnSigint /\ valid \cap alive \subseteq g_contexts
      /\ \A c \in hit \cap alive : Remains(c)
  BY DEF SigInv, Hitting
<1> USE DEF InstallLocations, PreInstall, PreUninstall, PostUninstall
\* The thread goes from one of its places to another.
<1>g. ASSUME NEW from \in HandlerLocations, NEW to \in HandlerLocations, pc[Handler] = from, pc'[Handler] = to,
             \A u \in Threads \ {Handler} : pc'[u] = pc[u]
      PROVE  /\ \A u \in Threads :
                  pc'[u] = pc[u] \/ (pc[u] \notin InstallLocations /\ pc'[u] \notin InstallLocations)
             /\ \A u \in Threads : pc'[u] \in {"set", "start", "join"} => pc[u] = pc'[u]
  BY <1>g DEF HandlerLocations
<1>1. CASE Exchange
  <2>1. /\ Go(Handler, "exchange", IF signal_received THEN "get" ELSE "installed?")
        /\ ~signal_received'
        /\ UNCHANGED <<valid, alive, g_contexts, todo, sem, hit, install_mutex, installed, is_setup, frame>>
    BY <1>1 DEF Exchange, HandlerRest
  <2> DEFINE to == IF signal_received THEN "get" ELSE "installed?"
  <2>2. to \in Locations /\ to \in HandlerLocations /\ "exchange" \in HandlerLocations
    BY DEF Locations, HandlerLocations
  <2>3. /\ pc[Handler] = "exchange" /\ pc'[Handler] = to
        /\ \A u \in Threads \ {Handler} : pc'[u] = pc[u] /\ arg'[u] = arg[u]
    BY <1>0, <2>1, <2>2, GoEffect
  <2>4. \A u \in Threads :
          /\ pc'[u] = pc[u] \/ (pc[u] \notin InstallLocations /\ pc'[u] \notin InstallLocations)
          /\ pc'[u] \in {"set", "start", "join"} => pc[u] = pc'[u]
    BY <1>g, <2>2, <2>3
  <2>5. Hitting'
    <3>1. hit' # {} => Installed'
      BY <1>0, <2>1, <2>3, <2>4 DEF SigInv, Hitting, Installed, Types
    <3>2. \A c \in hit' \cap alive' : Remains(c)'
      BY <1>h, <2>1, <2>3 DEF Remains
    <3> QED
      BY <1>h, <2>1, <3>1, <3>2 DEF Hitting
  <2>6. Standing' /\ Posting'
    BY <2>1, <2>3, <2>4 DEF SigInv, Standing, Posting
  <2> QED
    BY <2>5, <2>6 DEF SigInv
<1>2. CASE GetContexts
  <2>1. /\ Go(Handler, "get", "next") /\ todo' = g_contexts \cap alive
        /\ g_contexts' = g_contexts \cap alive
        /\ UNCHANGED <<valid, alive, signal_received, sem, hit, install_mutex, installed, is_setup, frame>>
    BY <1>2 DEF GetContexts, HandlerRest
  <2>2. "next" \in Locations /\ {"get", "next"} \subseteq HandlerLocations
    BY DEF Locations, HandlerLocations
  <2>3. /\ pc[Handler] = "get" /\ pc'[Handler] = "next"
        /\ \A u \in Threads \ {Handler} : pc'[u] = pc[u] /\ arg'[u] = arg[u]
    BY <1>0, <2>1, <2>2, GoEffect
  <2>4. \A u \in Threads :
          pc'[u] = pc[u] \/ (pc[u] \notin InstallLocations /\ pc'[u] \notin InstallLocations)
    BY <1>g, <2>2, <2>3
  <2>5. \A c \in hit' \cap alive' : Remains(c)'
    BY <1>h, <2>1 DEF Remains
  <2>6. \A l \in {"exchange", "exited", "wait"} : pc'[Handler] = l <=> pc[Handler] = l
    BY <2>3
  <2> QED
    BY <1>0, <1>h, <2>1, <2>4, <2>5, <2>6, ApartSignal
<1>3. CASE NextContext
  <2>1. /\ pc[Handler] = "next"
        /\ UNCHANGED <<valid, alive, g_contexts, signal_received, sem, hit, install_mutex, installed, is_setup, frame>>
    BY <1>3 DEF NextContext, HandlerRest
  <2>2. /\ pc'[Handler] \in {"next", "shutdown", "installed?"}
        /\ \A u \in Threads \ {Handler} : pc'[u] = pc[u]
        /\ \A c \in todo \cap ShutdownOnSigint :
             c \in todo' \/ (pc'[Handler] = "shutdown" /\ arg'[Handler] = c)
    BY <1>0, <1>3 DEF NextContext, Types
  <2>3. \A u \in Threads :
          pc'[u] = pc[u] \/ (pc[u] \notin InstallLocations /\ pc'[u] \notin InstallLocations)
    BY <1>g, <2>1, <2>2 DEF HandlerLocations
  <2>4. \A c \in hit' \cap alive' : Remains(c)'
    BY <1>h, <2>1, <2>2 DEF Remains
  <2>5. \A l \in {"exchange", "exited", "wait"} : pc'[Handler] = l <=> pc[Handler] = l
    BY <2>1, <2>2
  <2> QED
    BY <1>0, <1>h, <2>1, <2>3, <2>4, <2>5, ApartSignal
<1>4. CASE TestInstalled
  <2>1. /\ Go(Handler, "installed?", IF installed THEN "wait" ELSE "exited")
        /\ UNCHANGED <<valid, alive, g_contexts, todo, signal_received, sem, hit, install_mutex, installed, is_setup, frame>>
    BY <1>4 DEF TestInstalled, HandlerRest
  <2> DEFINE to == IF installed THEN "wait" ELSE "exited"
  <2>2. to \in Locations /\ to \in HandlerLocations /\ "installed?" \in HandlerLocations
    BY DEF Locations, HandlerLocations
  <2>3. /\ pc[Handler] = "installed?" /\ pc'[Handler] = to
        /\ \A u \in Threads \ {Handler} : pc'[u] = pc[u] /\ arg'[u] = arg[u]
    BY <1>0, <2>1, <2>2, GoEffect
  <2>4. \A u \in Threads :
          /\ pc'[u] = pc[u] \/ (pc[u] \notin InstallLocations /\ pc'[u] \notin InstallLocations)
          /\ pc'[u] \in {"set", "start", "join"} => pc[u] = pc'[u]
    BY <1>g, <2>2, <2>3
  <2>5. Hitting'
    <3>1. hit' # {} => Installed'
      BY <1>0, <2>1, <2>3, <2>4 DEF SigInv, Hitting, Installed, Types
    <3>2. \A c \in hit' \cap alive' : Remains(c)'
      BY <1>h, <2>1, <2>3 DEF Remains
    <3> QED
      BY <1>h, <2>1, <3>1, <3>2 DEF Hitting
  <2>6. ASSUME installed, NEW u \in Threads PROVE pc[u] # "join"
    BY <1>0, <2>6 DEF Installing
  <2>7. Standing'
    BY <2>1, <2>3, <2>4 DEF SigInv, Standing
  <2>8. Posting'
    BY <2>1, <2>3, <2>4, <2>6 DEF SigInv, Posting
  <2> QED
    BY <2>5, <2>7, <2>8 DEF SigInv
<1>5. CASE WaitForSignal
  <2>1. /\ Go(Handler, "wait", "exchange") /\ sem > 0 /\ sem' = sem - 1
        /\ UNCHANGED <<valid, alive, g_contexts, todo, signal_received, hit, install_mutex, installed, is_setup, frame>>
    BY <1>5 DEF WaitForSignal, HandlerRest
  <2>2. "exchange" \in Locations /\ {"wait", "exchange"} \subseteq HandlerLocations
    BY DEF Locations, HandlerLocations
  <2>3. /\ pc[Handler] = "wait" /\ pc'[Handler] = "exchange"
        /\ \A u \in Threads \ {Handler} : pc'[u] = pc[u] /\ arg'[u] = arg[u]
    BY <1>0, <2>1, <2>2, GoEffect
  <2>4. \A u \in Threads :
          /\ pc'[u] = pc[u] \/ (pc[u] \notin InstallLocations /\ pc'[u] \notin InstallLocations)
          /\ pc'[u] \in {"set", "start", "join"} => pc[u] = pc'[u]
    BY <1>g, <2>2, <2>3
  <2>5. Hitting'
    <3>1. hit' # {} => Installed'
      BY <1>0, <2>1, <2>3, <2>4 DEF SigInv, Hitting, Installed, Types
    <3>2. \A c \in hit' \cap alive' : Remains(c)'
      BY <1>h, <2>1, <2>3 DEF Remains
    <3> QED
      BY <1>h, <2>1, <3>1, <3>2 DEF Hitting
  <2>6. sem \in Nat /\ is_setup
    BY <2>3 DEF SigInv, Standing
  <2>7. Standing' /\ Posting'
    BY <2>1, <2>3, <2>4, <2>6 DEF SigInv, Standing, Posting
  <2> QED
    BY <2>5, <2>7 DEF SigInv
<1>6. CASE SignalReadsSetup \/ SignalPosts
  <2>1. UNCHANGED <<ctxVars, pc, arg, install_mutex, installed, signal_received, is_setup, todo, hit>>
    BY <1>6 DEF SignalReadsSetup, SignalPosts
  <2>2. Hitting'
    BY <2>1 DEF SigInv, Hitting, Remains, Installed, ctxVars
  <2>3. CASE SignalReadsSetup
    <3>1. frame = "notify" /\ frame' = IF is_setup THEN "post" ELSE "none"
      BY <2>3 DEF SignalReadsSetup
    <3>2. sem' = sem
      BY <2>3 DEF SignalReadsSetup
    <3>3. Standing' /\ Posting'
      BY <2>1, <3>1, <3>2 DEF SigInv, Standing, Posting
    <3> QED
      BY <2>2, <3>3 DEF SigInv
  <2>4. CASE SignalPosts
    <3>1. sem' = IF sem = NoSem THEN NoSem ELSE sem + 1
      BY <2>4 DEF SignalPosts, Post
    <3>2. Standing'
      BY <2>1, <3>1 DEF SigInv, Standing, NoSem
    <3>3. Posting'
      BY <2>1, <3>1 DEF SigInv, Standing, Posting, NoSem
    <3> QED
      BY <2>2, <3>2, <3>3 DEF SigInv
  <2> QED
    BY <1>6, <2>2, <2>3, <2>4 DEF SigInv
<1>7. CASE Signal
  <2>1. /\ frame' = "notify" /\ signal_received' /\ hit' = IF Installed THEN hit \cup Listening ELSE hit
        /\ UNCHANGED <<ctxVars, pc, arg, install_mutex, installed, is_setup, sem, todo>>
    BY <1>7 DEF Signal
  <2>2. Hitting'
    BY <1>h, <2>1 DEF SigInv, Hitting, Remains, Installed, Listening, ctxVars
  <2>3. Standing' /\ Posting'
    BY <2>1 DEF SigInv, Standing, Posting
  <2> QED
    BY <2>2, <2>3 DEF SigInv
<1> QED
  BY <1>1, <1>2, <1>3, <1>4, <1>5, <1>6, <1>7 DEF FrameStep

\* The steps of install and uninstall, by a thread that holds the mutex, or
\* takes it, or finds that nothing is to be done.
LEMMA InstallSignal ==
  ASSUME IInv, SigInv, NEW t \in Callers, InstallThrows(t) \/ InstallStep(t)
  PROVE  SigInv'
<1>0. Types /\ Installing /\ t \in Threads
  BY DEF IInv
<1> USE DEF InstallLocations, PreInstall, PreUninstall, PostUninstall
<1>h. /\ hit \subseteq valid \cap ShutdownOnSigint /\ valid \cap alive \subseteq g_contexts
      /\ hit # {} => Installed
      /\ \A c \in hit \cap alive : Remains(c)
  BY DEF SigInv, Hitting
<1>m. ASSUME NEW u \in Threads, pc[u] \in InstallLocations
      PROVE  /\ install_mutex = u /\ u # Handler
             /\ pc[u] \in PreInstall => installed /\ pc[Handler] = "exited"
             /\ pc[u] \in PreUninstall \cup PostUninstall => ~installed
             /\ pc[u] \in PostUninstall => pc[Handler] = "exited"
  BY <1>0, <1>m DEF Installing, HandlerLocations
<1>e. ASSUME NEW u \in Threads, pc[u] \in InstallLocations, pc[u] # "start"
      PROVE  hit = {}
  <2>1. install_mutex = u /\ u # None
    BY <1>m, <1>e
  <2> QED
    BY <1>h, <1>e, <2>1 DEF Installed
\* A Go of t, which is not the deferred handler's thread.
<1>g. ASSUME NEW from \in Locations \ HandlerLocations, NEW to \in Locations, Go(t, from, to)
      PROVE  /\ pc[t] = from /\ pc'[t] = to /\ t # Handler
             /\ \A u \in Threads \ {t} : pc'[u] = pc[u] /\ arg'[u] = arg[u]
             /\ pc'[Handler] = pc[Handler] /\ arg'[Handler] = arg[Handler]
  <2>1. /\ pc[t] = from /\ pc'[t] = to
        /\ \A u \in Threads \ {t} : pc'[u] = pc[u] /\ arg'[u] = arg[u]
    BY <1>0, <1>g, GoEffect
  <2>2. t # Handler
    BY <1>0, <1>g, <2>1 DEF Installing
  <2> QED
    BY <2>1, <2>2
<1>l. InstallLocations \cup {"idle", "install", "uninstall"} \subseteq Locations \ HandlerLocations
  BY DEF Locations, HandlerLocations
\* What a SIGINT has to shut down stays ahead, unless there is nothing.
<1>k. ASSUME UNCHANGED <<valid, alive, g_contexts, todo>>,
             hit' = {} \/ (/\ hit' = hit /\ Installed' /\ signal_received' = signal_received
                           /\ pc'[Handler] = pc[Handler] /\ arg'[Handler] = arg[Handler])
      PROVE  Hitting'
  BY <1>h, <1>k DEF Hitting, Remains
\* Nothing is to be done.
<1>1. ASSUME Go(t, "install", "idle") \/ Go(t, "uninstall", "idle"),
             UNCHANGED <<ctxVars, todo, frame, install_mutex, handler_set, signal_received, is_setup, sem, installed>>,
             hit' \subseteq hit
      PROVE  SigInv'
  <2> PICK from \in {"install", "uninstall"} : Go(t, from, "idle")
    BY <1>1
  <2>1. /\ pc[t] = from /\ pc'[t] = "idle" /\ t # Handler
        /\ \A u \in Threads \ {t} : pc'[u] = pc[u]
        /\ pc'[Handler] = pc[Handler] /\ arg'[Handler] = arg[Handler]
    BY <1>g, <1>l
  <2>2. \A u \in Threads :
          pc'[u] = pc[u] \/ (pc[u] \notin InstallLocations /\ pc'[u] \notin InstallLocations)
    BY <2>1
  <2> QED
    BY <1>0, <1>1, <1>h, <2>1, <2>2, OthersSignal DEF ctxVars
<1>2. CASE InstallLock(t)
  <2>1. CASE installed
    <3>1. Go(t, "install", "idle") /\ installed' = installed
      BY <1>0, <1>2, <2>1 DEF InstallLock, Types
    <3>2. UNCHANGED <<ctxVars, todo, frame, install_mutex, handler_set, signal_received, is_setup, sem, hit>>
      BY <1>2, <2>1 DEF InstallLock, Rest
    <3> QED
      BY <1>1, <3>1, <3>2
  <2>2. CASE ~installed
    <3>1. /\ Go(t, "install", "setup") /\ install_mutex' = t /\ installed'
          /\ UNCHANGED <<ctxVars, todo, frame, signal_received, is_setup, sem, hit>>
      BY <1>2, <2>2 DEF InstallLock, Rest
    <3>2. /\ pc'[t] = "setup" /\ \A u \in Threads \ {t} : pc'[u] = pc[u]
          /\ pc'[Handler] = pc[Handler]
      BY <1>g, <1>l, <3>1
    <3>3. hit' = {}
      BY <1>h, <2>2, <3>1 DEF Installed
    <3>4. Hitting'
      BY <1>k, <3>1, <3>3 DEF ctxVars
    <3>5. Standing' /\ Posting'
      BY <1>0, <3>1, <3>2 DEF SigInv, Standing, Posting
    <3> QED
      BY <3>4, <3>5 DEF SigInv
  <2> QED
    BY <2>1, <2>2
<1>3. CASE SetupWaitForSignal(t)
  <2>1. /\ Go(t, "setup", "set") /\ sem' = 0 /\ is_setup' /\ ~signal_received'
        /\ UNCHANGED <<ctxVars, todo, frame, hit, install_mutex, installed>>
    BY <1>3 DEF SetupWaitForSignal, Rest
  <2>2. /\ pc[t] = "setup" /\ pc'[Handler] = pc[Handler]
    BY <1>g, <1>l, <2>1
  <2>3. pc[Handler] = "exited" /\ hit = {} /\ install_mutex = t
    BY <1>0, <1>m, <1>e, <2>2
  <2>4. Hitting'
    BY <1>k, <2>1, <2>3 DEF ctxVars
  <2>5. Standing' /\ Posting'
    BY <1>0, <2>1, <2>2, <2>3 DEF SigInv, Standing, Posting
  <2> QED
    BY <2>4, <2>5 DEF SigInv
<1>4. CASE SetHandler(t)
  <2>1. /\ Go(t, "set", "start")
        /\ UNCHANGED <<ctxVars, todo, frame, hit, install_mutex, installed, signal_received, is_setup, sem>>
    BY <1>4 DEF SetHandler, Rest
  <2>2. /\ pc[t] = "set" /\ pc'[t] = "start" /\ \A u \in Threads \ {t} : pc'[u] = pc[u]
        /\ pc'[Handler] = pc[Handler] /\ arg'[Handler] = arg[Handler]
    BY <1>g, <1>l, <2>1
  <2>3. hit = {}
    BY <1>0, <1>e, <2>2
  <2>4. Hitting'
    BY <1>k, <2>1, <2>3 DEF ctxVars
  <2>5. is_setup /\ sem \in Nat
    BY <1>0, <2>2 DEF SigInv, Standing
  <2>6. Standing' /\ Posting'
    BY <2>1, <2>2, <2>5 DEF SigInv, Standing, Posting
  <2> QED
    BY <2>4, <2>6 DEF SigInv
<1>5. CASE StartThread(t)
  <2>1. /\ pc[t] = "start" /\ pc' = [pc EXCEPT ![t] = "idle", ![Handler] = "exchange"]
        /\ install_mutex' = None /\ arg' = arg
        /\ UNCHANGED <<ctxVars, todo, frame, hit, installed, signal_received, is_setup, sem>>
    BY <1>5 DEF StartThread, Rest
  <2>2. pc[Handler] = "exited" /\ installed /\ t # Handler
    BY <1>0, <1>m, <2>1
  <2>3. pc'[Handler] = "exchange" /\ \A u \in Threads \ {Handler} : pc'[u] = pc[u] \/ pc'[u] = "idle"
    BY <1>0, <2>1 DEF Types
  <2>4. Hitting'
    <3>1. \A c \in hit' \cap alive' : Remains(c)'
      BY <1>h, <2>1, <2>2 DEF Remains, ctxVars
    <3> QED
      BY <1>h, <2>1, <2>2, <3>1 DEF Hitting, Installed, ctxVars
  <2>5. is_setup /\ sem \in Nat
    BY <1>0, <2>1 DEF SigInv, Standing
  <2>6. Standing' /\ Posting'
    BY <2>1, <2>3, <2>5 DEF SigInv, Standing, Posting
  <2> QED
    BY <2>4, <2>6 DEF SigInv
<1>6. CASE InstallThrows(t)
  <2> PICK from \in {"setup", "set", "start"} : Go(t, from, "idle")
    BY <1>6 DEF InstallThrows
  <2>1. /\ ~installed' /\ hit' = {} /\ install_mutex' = None
        /\ UNCHANGED <<ctxVars, todo, frame, signal_received, is_setup, sem>>
    BY <1>6 DEF InstallThrows, Rest
  <2>2. /\ pc'[t] = "idle" /\ \A u \in Threads \ {t} : pc'[u] = pc[u]
        /\ pc'[Handler] = pc[Handler]
    BY <1>g, <1>l
  <2>3. Hitting'
    BY <1>k, <2>1 DEF ctxVars
  <2>4. Standing' /\ Posting'
    BY <2>1, <2>2 DEF SigInv, Standing, Posting
  <2> QED
    BY <2>3, <2>4 DEF SigInv
<1>7. CASE UninstallLock(t)
  <2>1. CASE ~installed
    <3>1. Go(t, "uninstall", "idle") /\ installed' = installed
      BY <1>0, <1>7, <2>1 DEF UninstallLock, Types
    <3>2. /\ UNCHANGED <<ctxVars, todo, frame, install_mutex, handler_set, signal_received, is_setup, sem>>
          /\ hit' \subseteq hit
      BY <1>7, <2>1 DEF UninstallLock, Rest
    <3> QED
      BY <1>1, <3>1, <3>2
  <2>2. CASE installed
    <3>1. /\ Go(t, "uninstall", "restore") /\ install_mutex' = t /\ ~installed' /\ hit' = {}
          /\ UNCHANGED <<ctxVars, todo, frame, signal_received, is_setup, sem>>
      BY <1>7, <2>2 DEF UninstallLock, Rest
    <3>2. /\ pc'[t] = "restore" /\ \A u \in Threads \ {t} : pc'[u] = pc[u]
          /\ pc'[Handler] = pc[Handler]
      BY <1>g, <1>l, <3>1
    <3>3. Hitting'
      BY <1>k, <3>1 DEF ctxVars
    <3>4. Standing' /\ Posting'
      BY <3>1, <3>2 DEF SigInv, Standing, Posting
    <3> QED
      BY <3>3, <3>4 DEF SigInv
  <2> QED
    BY <2>1, <2>2
<1>8. CASE RestoreHandler(t)
  <2>1. /\ Go(t, "restore", "notify")
        /\ UNCHANGED <<ctxVars, todo, frame, hit, install_mutex, installed, signal_received, is_setup, sem>>
    BY <1>8 DEF RestoreHandler, Rest
  <2>2. /\ pc[t] = "restore" /\ pc'[t] = "notify" /\ \A u \in Threads \ {t} : pc'[u] = pc[u]
        /\ pc'[Handler] = pc[Handler]
    BY <1>g, <1>l, <2>1
  <2>3. Hitting'
    BY <1>0, <1>e, <1>k, <2>1, <2>2 DEF ctxVars
  <2>4. Standing' /\ Posting'
    BY <2>1, <2>2 DEF SigInv, Standing, Posting
  <2> QED
    BY <2>3, <2>4 DEF SigInv
<1>9. CASE NotifyHandler(t)
  <2>1. /\ Go(t, "notify", "join") /\ sem' = IF is_setup THEN Post ELSE sem
        /\ UNCHANGED <<ctxVars, todo, frame, hit, install_mutex, installed, signal_received, is_setup>>
    BY <1>9 DEF NotifyHandler, Rest
  <2>2. /\ pc[t] = "notify" /\ pc'[t] = "join" /\ \A u \in Threads \ {t} : pc'[u] = pc[u]
        /\ pc'[Handler] = pc[Handler]
    BY <1>g, <1>l, <2>1
  <2>3. Hitting'
    BY <1>0, <1>e, <1>k, <2>1, <2>2 DEF ctxVars
  <2>4. sem \in Nat \cup {NoSem} /\ sem' \in Nat \cup {NoSem}
    BY <2>1 DEF SigInv, Standing, Post, NoSem
  <2>5. pc[Handler] # "exited" => is_setup /\ sem \in Nat /\ sem' = sem + 1
    BY <2>1 DEF SigInv, Standing, Post, NoSem
  <2>6. ASSUME NEW u \in Threads PROVE pc'[u] \notin {"set", "start"}
    BY <1>0, <1>m, <2>2
  <2>7. Standing'
    BY <2>1, <2>2, <2>4, <2>5, <2>6 DEF SigInv, Standing
  <2>8. Posting'
    BY <2>1, <2>2, <2>5 DEF SigInv, Posting
  <2> QED
    BY <2>3, <2>7, <2>8 DEF SigInv
<1>10. CASE Join(t) \/ TeardownWaitForSignal(t) \/ DestroySemaphore(t)
  <2>1. /\ sem' \in {sem, NoSem}
        /\ UNCHANGED <<ctxVars, todo, frame, hit, installed, signal_received>>
        /\ install_mutex' = install_mutex \/ install_mutex' = None
    BY <1>10 DEF Join, TeardownWaitForSignal, DestroySemaphore, Rest
  <2>2. PICK from \in {"join", "teardown", "destroy"}, to \in {"teardown", "destroy", "idle"} :
          Go(t, from, to) /\ (from = "join" => pc[Handler] = "exited")
    BY <1>10 DEF Join, TeardownWaitForSignal, DestroySemaphore
  <2>3. /\ pc[t] = from /\ pc'[t] = to /\ \A u \in Threads \ {t} : pc'[u] = pc[u]
        /\ pc'[Handler] = pc[Handler]
    BY <1>g, <1>l, <2>2
  <2>4. pc[Handler] = "exited" /\ ~installed /\ hit = {} /\ install_mutex = t
    BY <1>0, <1>m, <1>e, <2>2, <2>3
  <2>5. Hitting'
    BY <1>k, <2>1, <2>4 DEF ctxVars
  <2>6. ASSUME NEW u \in Threads PROVE pc'[u] \notin {"set", "start"}
    BY <1>0, <1>m, <2>3, <2>4
  <2>7. Standing' /\ Posting'
    BY <2>1, <2>3, <2>4, <2>6 DEF SigInv, Standing, Posting
  <2> QED
    BY <2>5, <2>7 DEF SigInv
<1> QED
  BY <1>2, <1>3, <1>4, <1>5, <1>6, <1>7, <1>8, <1>9, <1>10 DEF InstallStep

LEMMA SigInvKept == IInv /\ SigInv /\ [Next]_vars => SigInv'
<1> SUFFICES ASSUME IInv, SigInv, [Next]_vars PROVE SigInv'
  OBVIOUS
<1>1. CASE UNCHANGED vars
  BY <1>1 DEF vars, ctxVars, sigVars, SigInv, Hitting, Remains, Installed, Standing, Posting
<1>2. ASSUME NEW t \in Callers, CallerStep(t)
      PROVE  SigInv'
  BY <1>2, CallsSignal, ShutdownSignal, InstallSignal DEF CallerStep
<1>3. ASSUME NEW t \in Sleepers, SleeperStep(t)
      PROVE  SigInv'
  BY <1>3, SleepSignal DEF SleeperStep, SleepSteps
<1>4. CASE HandlerStep \/ FrameStep \/ Signal
  BY <1>4, HandlerSignal, ShutdownSignal DEF HandlerStep
<1> QED
  BY <1>1, <1>2, <1>3, <1>4 DEF Next

\* Whenever SIGINT comes, and however install, uninstall, shutdowns, inits and
\* failures of install interleave with it, it is not lost between the signal
\* handler and the deferred handler: the thread is there, it has what the signal
\* has to shut down ahead of it, and does not sleep over it; nor does it sleep
\* over the uninstall that joins it.
THEOREM NoSignalIsLost == Spec => []NoLostSignal
<1>1. SigInv => NoLostSignal
  <2> SUFFICES ASSUME SigInv PROVE NoLostSignal
    OBVIOUS
  <2>1. \A t \in Callers : t \in Threads
    OBVIOUS
  <2>2. hit # {} => installed
    BY DEF SigInv, Hitting, Installed
  <2> QED
    BY <2>1, <2>2 DEF NoLostSignal, SigInv, Hitting, Standing, Posting
<1> QED
  BY <1>1, SigInitial, SigInvKept, IInvHolds, PTL DEF Spec
==============================================================================
