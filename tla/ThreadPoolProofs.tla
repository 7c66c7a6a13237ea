--------------------------- MODULE ThreadPoolProofs ---------------------------
(***************************************************************************)
(* Proofs about ThreadPool, for any number of workers and functions: its    *)
(* types, the order of service, what the Looper's shutdown leaves, and that   *)
(* no notification is lost.                                                 *)
(***************************************************************************)
EXTENDS ThreadPool, SequenceTheorems, TLAPS

USE NAssumption, StopAssumption, NoneAssumption

\* executor_init starts the workers one by one.
Starting ==
  /\ growing => size < Workers
  /\ \A t \in Threads : t > size => pc[t] = "none"

\* Who has to push holds the lock.
Locked == \A f \in Funcs : client[f] = "push" => queue_lock = f

\* shutdown lowers is_active first, and has a queue to clear while it clears.
Stopping ==
  /\ stop # "no" => ~is_active
  /\ stop \in {"copy", "swap"} => toClear # <<>>
  /\ stop = "swap" => ~Looper

\* No push can follow.
Quiet == ~is_active /\ \A f \in Funcs : client[f] # "push"

Served(t) == accepted[t] = started[t] \o queue[t]

Cleared(t) ==
  /\ Looper /\ stop \in {"notify", "returned"} /\ queue[t] = <<>>
  /\ \E k \in 0 .. Len(accepted[t]) : started[t] = SubSeq(accepted[t], 1, k)

\* InOrder, with the reason why the order also stays after a clearing.
Order == \A t \in Threads : Served(t) \/ (Cleared(t) /\ Quiet)

\* What the Looper's shutdown leaves when it does not wait.
Left ==
  Looper /\ stop \in {"notify", "returned"} =>
    Quiet /\ \A t \in Threads : queue[t] = <<>>

Frame == Starting /\ Locked /\ Stopping

IInv == TypeOK /\ Frame /\ Order /\ Left

LEMMA AppendServed ==
  ASSUME NEW s \in Seq(Funcs), NEW q \in Seq(Funcs), NEW f \in Funcs
  PROVE  Append(s \o q, f) = s \o Append(q, f)
<1>1. s \o q \in Seq(Funcs) /\ <<f>> \in Seq(Funcs) OBVIOUS
<1>2. Append(s \o q, f) = (s \o q) \o <<f>> /\ Append(q, f) = q \o <<f>> BY <1>1, AppendIsConcat
<1>3. QED BY <1>1, <1>2, ConcatAssociative, SMTT(30)

LEMMA TakeServed ==
  ASSUME NEW S, NEW a \in Seq(S), NEW s \in Seq(S), NEW q \in Seq(S), q # <<>>, a = s \o q
  PROVE  a = Append(s, Head(q)) \o Tail(q)
  BY SMTT(30)

LEMMA PrefixServed ==
  ASSUME NEW S, NEW a \in Seq(S), NEW s \in Seq(S), NEW q \in Seq(S), a = s \o q
  PROVE  \E k \in 0 .. Len(a) : s = SubSeq(a, 1, k)
<1>1. Len(s) \in 0 .. Len(a) /\ s = SubSeq(a, 1, Len(s))
  OBVIOUS
<1>2. QED BY <1>1

------------------------------------------------------------------------------
(* The invariant is inductive.                                              *)

LEMMA Initial == Init => IInv
<1> SUFFICES ASSUME Init PROVE IInv
  OBVIOUS
<1>1. TypeOK
  <2>1. 0 \in 0 .. Workers /\ <<>> \in Seq(Funcs) /\ <<>> \in Seq(Threads) BY DEF Workers
  <2>2. QED BY <2>1 DEF Init, TypeOK, ClientStates, WorkerStates
<1>2. Frame BY DEF Init, Frame, Starting, Locked, Stopping
<1>3. Order
  <2>1. <<>> = <<>> \o <<>> OBVIOUS
  <2>2. QED BY <2>1 DEF Init, Order, Served
<1>4. Left BY DEF Init, Left
<1>5. QED BY <1>1, <1>2, <1>3, <1>4 DEF IInv

\* A step that leaves the queues and the histories alone, takes no call of
\* execute to its push and does not call shutdown, keeps Order and Left.
LEMMA OrderFrame ==
  ASSUME IInv, UNCHANGED <<kind, queue, histVars>>,
         is_active' => is_active,
         \A f \in Funcs : client'[f] = "push" => client[f] = "push" \/ is_active,
         stop' = stop \/ stop' \notin {"notify", "returned"}
                      \/ (stop = "notify" /\ stop' = "returned"),
         Looper => stop \notin {"notify", "returned"} \/ stop' \in {"notify", "returned"}
  PROVE  Order' /\ Left'
<1>1. Quiet => Quiet' BY DEF Quiet
<1>2. ASSUME NEW t \in Threads PROVE (Served(t) \/ (Cleared(t) /\ Quiet))'
  <2>1. Served(t) => Served(t)' BY DEF Served, histVars
  <2>2. Cleared(t) => Cleared(t)' BY DEF Cleared, Looper, initVars, histVars
  <2>3. QED BY <1>1, <1>2, <2>1, <2>2 DEF IInv, Order
<1>3. Order' BY <1>2 DEF Order
<1>4. Left' BY <1>1 DEF IInv, Left, Looper, Workers
<1>5. QED BY <1>3, <1>4

\* A worker that takes the front of its queue.
LEMMA TakeInductive ==
  ASSUME IInv, NEW t \in Threads, pc[t] \in {"lock", "wait"}, Take(t),
         UNCHANGED <<initVars, stopVars, queue_lock, client, accepted>>
  PROVE  IInv'
<1> DEFINE f == Head(queue[t])
<1>1. queue[t] \in Seq(Funcs) /\ queue[t] # <<>> /\ f \in Funcs /\ Tail(queue[t]) \in Seq(Funcs)
  BY DEF Take, IInv, TypeOK
<1>2. /\ func' = [func EXCEPT ![t] = f] /\ started' = [started EXCEPT ![t] = Append(@, f)]
      /\ queue' = [queue EXCEPT ![t] = Tail(@)] /\ pc' = [pc EXCEPT ![t] = "run"]
      /\ torn' \in BOOLEAN /\ UNCHANGED notified
  BY DEF Take, Tear
<1> HIDE DEF f
<1>3. f # None BY <1>1
<1>4. /\ \A u \in Threads \ {t} : /\ func'[u] = func[u] /\ started'[u] = started[u]
                                   /\ queue'[u] = queue[u] /\ pc'[u] = pc[u]
      /\ func'[t] = f /\ pc'[t] = "run"
      /\ started'[t] = Append(started[t], f) /\ queue'[t] = Tail(queue[t])
  BY <1>2 DEF IInv, TypeOK
<1>5. started[t] \in Seq(Funcs) /\ Append(started[t], f) \in Seq(Funcs)
  BY <1>1 DEF IInv, TypeOK
<1>6. TypeOK'
  <2>1. queue' \in [Threads -> Seq(Funcs)] BY <1>1, <1>2 DEF IInv, TypeOK
  <2>2. started' \in [Threads -> Seq(Funcs)] BY <1>2, <1>5 DEF IInv, TypeOK
  <2>3. func' \in [Threads -> Funcs \cup {None}] BY <1>1, <1>2 DEF IInv, TypeOK
  <2>4. pc' \in [Threads -> WorkerStates] BY <1>2 DEF IInv, TypeOK, WorkerStates
  <2>5. \A u \in Threads : pc'[u] = "run" <=> func'[u] # None
    BY <1>3, <1>4 DEF IInv, TypeOK
  <2>6. QED BY <1>2, <2>1, <2>2, <2>3, <2>4, <2>5 DEF IInv, TypeOK, initVars, stopVars, Looper, Workers
<1>7. Frame'
  BY <1>4 DEF IInv, Frame, Starting, Locked, Stopping, initVars, stopVars, Looper, Workers
<1>8. Order'
  <2>1. Served(t) BY <1>1 DEF IInv, Order, Cleared
  <2>2. accepted[t] \in Seq(Funcs) BY DEF IInv, TypeOK
  <2>3. accepted[t] = Append(started[t], f) \o Tail(queue[t])
    <3> DEFINE a == accepted[t]  s == started[t]  q == queue[t]
    <3>1. /\ a \in Seq(Funcs) /\ s \in Seq(Funcs) /\ q \in Seq(Funcs)
          /\ q # <<>> /\ a = s \o q
      BY <1>1, <1>5, <2>1, <2>2 DEF Served
    <3>2. ASSUME a \in Seq(Funcs), s \in Seq(Funcs), q \in Seq(Funcs), q # <<>>, a = s \o q
          PROVE  a = Append(s, Head(q)) \o Tail(q)
      <4> HIDE DEF a, s, q
      <4> QED BY <3>2, TakeServed
    <3>3. f = Head(q) BY DEF f
    <3>4. QED BY <3>1, <3>2, <3>3
  <2>4. Served(t)' BY <1>4, <2>3 DEF Served
  <2>5. \A u \in Threads \ {t} : (Served(u) <=> Served(u)') /\ (Cleared(u) <=> Cleared(u)')
    BY <1>4 DEF Served, Cleared, initVars, stopVars, Looper
  <2>6. Quiet => Quiet' BY DEF Quiet, stopVars
  <2>7. QED BY <2>4, <2>5, <2>6 DEF IInv, Order
<1>9. Left' BY <1>1 DEF IInv, Left, stopVars, initVars, Looper
<1>10. QED BY <1>6, <1>7, <1>8, <1>9 DEF IInv

\* A step of worker t that only moves it, and not to or from a run.
LEMMA MoveInductive ==
  ASSUME IInv, NEW t \in Threads, NEW s \in WorkerStates \ {"none", "run"},
         pc[t] \notin {"none", "run"}, pc' = [pc EXCEPT ![t] = s],
         notified' \in [Threads -> BOOLEAN],
         UNCHANGED <<initVars, stopVars, queue, queue_lock, client, torn, func, histVars>>
  PROVE  IInv'
<1>1. pc'[t] = s /\ \A u \in Threads \ {t} : pc'[u] = pc[u] BY DEF IInv, TypeOK
<1>2. pc' \in [Threads -> WorkerStates] BY DEF IInv, TypeOK
<1>3. \A u \in Threads : pc'[u] = "run" <=> func'[u] # None BY <1>1 DEF IInv, TypeOK
<1>4. TypeOK' BY <1>2, <1>3 DEF IInv, TypeOK, initVars, stopVars, histVars, Looper, Workers
<1>5. Frame' BY <1>1 DEF IInv, Frame, Starting, Locked, Stopping, initVars, stopVars, Looper, Workers
<1>6. Order' /\ Left' BY OrderFrame DEF initVars, stopVars
<1>7. QED BY <1>4, <1>5, <1>6 DEF IInv

LEMMA WorkerInductive ==
  ASSUME IInv, NEW t \in Threads, Worker(t)
  PROVE  IInv'
<1>0. notified \in [Threads -> BOOLEAN] BY DEF IInv, TypeOK
<1>1. CASE LoopTest(t)
  <2>1. \E s \in {"lock", "exited"} : pc' = [pc EXCEPT ![t] = s] BY <1>1 DEF LoopTest
  <2>2. QED BY <1>0, <1>1, <2>1, MoveInductive DEF LoopTest, WorkerStates
<1>2. CASE LockQueue(t)
  <2>1. CASE Take(t) BY <1>2, <2>1, TakeInductive DEF LockQueue
  <2>2. CASE /\ pc' = [pc EXCEPT ![t] = "wait"] /\ notified' = [notified EXCEPT ![t] = FALSE]
             /\ UNCHANGED <<queue, func, torn, started>>
    <3>1. notified' \in [Threads -> BOOLEAN] BY <1>0, <2>2
    <3>2. UNCHANGED <<initVars, stopVars, queue, queue_lock, client, torn, func, histVars>>
      BY <1>2, <2>2 DEF LockQueue, histVars
    <3>3. QED BY <1>2, <2>2, <3>1, <3>2, MoveInductive DEF LockQueue, WorkerStates
  <2>3. QED BY <1>2, <2>1, <2>2 DEF LockQueue
<1>3. CASE WaitReturns(t)
  <2>1. CASE Take(t) BY <1>3, <2>1, TakeInductive DEF WaitReturns
  <2>2. CASE pc' = [pc EXCEPT ![t] = "test"] /\ UNCHANGED <<queue, func, torn, started, notified>>
    <3>1. UNCHANGED <<initVars, stopVars, queue, queue_lock, client, torn, func, histVars>>
      BY <1>3, <2>2 DEF WaitReturns, histVars
    <3>2. QED BY <1>0, <1>3, <2>2, <3>1, MoveInductive DEF WaitReturns, WorkerStates
  <2>3. QED BY <1>3, <2>1, <2>2 DEF WaitReturns
<1>4. CASE ReadMoved(t)
  BY <1>0, <1>4, MoveInductive DEF ReadMoved, WorkerStates
<1>5. CASE Run(t)
  <2>1. /\ pc' = [pc EXCEPT ![t] = "test"] /\ func' = [func EXCEPT ![t] = None] /\ pc[t] = "run"
        /\ UNCHANGED <<initVars, stopVars, queue, queue_lock, client, torn, notified, histVars>>
    BY <1>5 DEF Run
  <2>2. /\ pc'[t] = "test" /\ func'[t] = None
        /\ \A u \in Threads \ {t} : pc'[u] = pc[u] /\ func'[u] = func[u]
    BY <2>1 DEF IInv, TypeOK
  <2>3. pc' \in [Threads -> WorkerStates] /\ func' \in [Threads -> Funcs \cup {None}]
    BY <2>1 DEF IInv, TypeOK, WorkerStates
  <2>4. \A u \in Threads : pc'[u] = "run" <=> func'[u] # None BY <2>2 DEF IInv, TypeOK
  <2>5. TypeOK' BY <2>1, <2>3, <2>4 DEF IInv, TypeOK, initVars, stopVars, histVars, Looper, Workers
  <2>6. Frame' BY <2>1, <2>2 DEF IInv, Frame, Starting, Locked, Stopping, initVars, stopVars, Looper, Workers
  <2>7. Order' /\ Left' BY <2>1, OrderFrame DEF initVars, stopVars
  <2>8. QED BY <2>5, <2>6, <2>7 DEF IInv
<1>6. QED BY <1>1, <1>2, <1>3, <1>4, <1>5 DEF Worker

\* A step of a call of execute that changes neither the queues nor the flag.
LEMMA CallInductive ==
  ASSUME IInv, NEW f \in Funcs, NEW s \in ClientStates, client' = [client EXCEPT ![f] = s],
         queue_lock' \in Funcs \cup {None}, queue_lock = None \/ UNCHANGED queue_lock,
         s = "push" => queue_lock' = f /\ is_active,
         notified' \in [Threads -> BOOLEAN],
         UNCHANGED <<initVars, stopVars, queue, torn, pc, func, histVars>>
  PROVE  IInv'
<1>1. client'[f] = s /\ \A g \in Funcs \ {f} : client'[g] = client[g] BY DEF IInv, TypeOK
<1>2. client' \in [Funcs -> ClientStates] BY DEF IInv, TypeOK
<1>3. TypeOK' BY <1>2 DEF IInv, TypeOK, initVars, stopVars, histVars, Looper, Workers
<1>4. Locked' BY <1>1 DEF IInv, Frame, Locked
<1>5. Starting' /\ Stopping' BY DEF IInv, Frame, Starting, Stopping, initVars, stopVars, Looper, Workers
<1>6. Order' /\ Left' BY <1>1, OrderFrame DEF initVars, stopVars
<1>7. QED BY <1>3, <1>4, <1>5, <1>6 DEF IInv, Frame

LEMMA NotifyTyped == NotifyWaiting => notified' \in [Threads -> BOOLEAN]
  BY DEF NotifyWaiting

LEMMA PushInductive ==
  ASSUME IInv, NEW f \in Funcs, NEW t \in Threads, ExecutePush(f, t)
  PROVE  IInv'
<1>1. /\ client[f] = "push" /\ client' = [client EXCEPT ![f] = "notify"] /\ queue_lock' = None
      /\ queue' = [queue EXCEPT ![t] = Append(@, f)]
      /\ accepted' = [accepted EXCEPT ![t] = Append(@, f)]
      /\ torn' \in BOOLEAN /\ UNCHANGED <<initVars, stopVars, pc, notified, func, started>>
  BY DEF ExecutePush, Tear
<1>2. client'[f] = "notify" /\ \A g \in Funcs \ {f} : client'[g] = client[g] BY <1>1 DEF IInv, TypeOK
<1>3. /\ queue'[t] = Append(queue[t], f) /\ accepted'[t] = Append(accepted[t], f)
      /\ \A u \in Threads \ {t} : queue'[u] = queue[u] /\ accepted'[u] = accepted[u]
  BY <1>1 DEF IInv, TypeOK
<1>4. /\ queue[t] \in Seq(Funcs) /\ accepted[t] \in Seq(Funcs) /\ started[t] \in Seq(Funcs)
      /\ Append(queue[t], f) \in Seq(Funcs) /\ Append(accepted[t], f) \in Seq(Funcs)
  BY DEF IInv, TypeOK
<1>5. TypeOK'
  <2>1. queue' \in [Threads -> Seq(Funcs)] BY <1>1, <1>4 DEF IInv, TypeOK
  <2>2. accepted' \in [Threads -> Seq(Funcs)] BY <1>1, <1>4 DEF IInv, TypeOK
  <2>3. client' \in [Funcs -> ClientStates] BY <1>1 DEF IInv, TypeOK, ClientStates
  <2>4. QED BY <1>1, <2>1, <2>2, <2>3 DEF IInv, TypeOK, initVars, stopVars, Looper, Workers
<1>6. queue_lock = f BY <1>1 DEF IInv, Frame, Locked
<1>7. Locked' BY <1>2, <1>6 DEF IInv, Frame, Locked
<1>8. Starting' /\ Stopping' BY <1>1 DEF IInv, Frame, Starting, Stopping, initVars, stopVars, Looper, Workers
<1>9. Order'
  <2>1. ~Quiet BY <1>1 DEF Quiet
  <2>2. \A u \in Threads : Served(u) BY <2>1 DEF IInv, Order
  <2>3. accepted[t] = started[t] \o queue[t] BY <2>2 DEF Served
  <2>4. Append(accepted[t], f) = started[t] \o Append(queue[t], f)
    <3>1. Append(started[t] \o queue[t], f) = started[t] \o Append(queue[t], f)
      BY <1>4, AppendServed, ZenonT(60)
    <3>2. QED BY <2>3, <3>1, Zenon
  <2>5. Served(t)' BY <1>1, <1>3, <2>4 DEF Served
  <2>6. \A u \in Threads \ {t} : Served(u)' BY <1>1, <1>3, <2>2 DEF Served
  <2>7. QED BY <2>5, <2>6 DEF Order
<1>10. Left' BY <1>1 DEF IInv, Left, Quiet, stopVars, initVars, Looper
<1>11. QED BY <1>5, <1>7, <1>8, <1>9, <1>10 DEF IInv, Frame

\* A step of shutdown that clears nothing.
LEMMA StopInductive ==
  ASSUME IInv, is_active' = FALSE, stop' \in {"drain", "drained", "copy", "swap", "notify", "returned", "undefined"},
         toClear' \in Seq(Threads), stop' \in {"copy", "swap"} => toClear' # <<>>,
         stop' = "swap" => ~Looper,
         torn' \in BOOLEAN, notified' \in [Threads -> BOOLEAN],
         \/ stop' \notin {"notify", "returned"}
         \/ stop = "notify" /\ stop' = "returned"
         \/ ~Looper,
         Looper => stop \notin {"notify", "returned"} \/ stop' \in {"notify", "returned"},
         UNCHANGED <<initVars, queue, queue_lock, client, pc, func, histVars>>
  PROVE  IInv'
<1>1. TypeOK' BY DEF IInv, TypeOK, initVars, histVars, Looper, Workers
<1>2. Frame' BY DEF IInv, Frame, Starting, Locked, Stopping, initVars, Looper, Workers
<1>3. Quiet => Quiet' BY DEF Quiet
<1>4. Order'
  <2>1. ASSUME NEW t \in Threads PROVE (Served(t) \/ (Cleared(t) /\ Quiet))'
    <3>1. Served(t) => Served(t)' BY DEF Served, histVars
    <3>2. Cleared(t) => Cleared(t)' BY DEF Cleared, Looper, initVars, histVars
    <3>3. QED BY <1>3, <2>1, <3>1, <3>2 DEF IInv, Order
  <2>2. QED BY <2>1 DEF Order
<1>5. Left' BY <1>3 DEF IInv, Left, initVars, Looper
<1>6. QED BY <1>1, <1>2, <1>4, <1>5 DEF IInv

LEMMA SwapQueueInductive ==
  ASSUME IInv, SwapQueue
  PROVE  IInv'
<1>1. /\ Looper /\ stop = "copy" /\ queue_lock = None
      /\ queue' = [t \in Threads |-> <<>>] /\ toClear' = <<>> /\ stop' = "notify"
      /\ UNCHANGED <<initVars, is_active, queue_lock, client, torn, pc, notified, func, histVars>>
  BY DEF SwapQueue
<1>2. <<>> \in Seq(Funcs) /\ <<>> \in Seq(Threads) OBVIOUS
<1>3. TypeOK' BY <1>1, <1>2 DEF IInv, TypeOK, initVars, histVars, Looper, Workers
<1>4. Frame' BY <1>1 DEF IInv, Frame, Starting, Locked, Stopping, initVars, Looper, Workers
<1>5. Quiet /\ Quiet' BY <1>1 DEF IInv, Frame, Locked, Stopping, Quiet
<1>6. \A t \in Threads : queue'[t] = <<>> BY <1>1
<1>7. Order'
  <2>1. ASSUME NEW t \in Threads PROVE Cleared(t)'
    <3>1. /\ accepted[t] \in Seq(Funcs) /\ started[t] \in Seq(Funcs) /\ queue[t] \in Seq(Funcs)
      BY DEF IInv, TypeOK
    <3>2. Served(t) BY <1>1 DEF IInv, Order, Cleared
    <3>3. \E k \in 0 .. Len(accepted[t]) : started[t] = SubSeq(accepted[t], 1, k)
      BY <3>1, <3>2, PrefixServed, ZenonT(60) DEF Served
    <3>4. QED BY <1>1, <1>6, <3>3 DEF Cleared, histVars, initVars, Looper
  <2>2. QED BY <1>5, <2>1 DEF Order
<1>8. Left' BY <1>5, <1>6 DEF Left, Looper, Workers
<1>9. QED BY <1>3, <1>4, <1>7, <1>8 DEF IInv

LEMMA Inductive == IInv /\ [Next]_vars => IInv'
<1> SUFFICES ASSUME IInv, [Next]_vars PROVE IInv'
  OBVIOUS
<1>0. notified \in [Threads -> BOOLEAN] /\ toClear \in Seq(Threads) BY DEF IInv, TypeOK
<1>1. CASE Emplace
  <2>1. TypeOK' BY <1>1 DEF Emplace, IInv, TypeOK, stopVars, histVars, Looper, Workers
  <2>2. Frame' BY <1>1 DEF Emplace, IInv, Frame, Starting, Locked, Stopping, stopVars, Looper, Workers
  <2>3. Order' /\ Left' BY <1>1, OrderFrame DEF Emplace, stopVars
  <2>4. QED BY <2>1, <2>2, <2>3 DEF IInv
<1>2. CASE StartThread
  <2>1. /\ size \in 0 .. Workers /\ size < Workers /\ Workers \in 1 .. N /\ kind' = kind
        /\ Workers' = Workers
    BY <1>2 DEF StartThread, IInv, TypeOK, Frame, Starting, Looper, Workers
  <2>2. size + 1 \in Threads /\ size' = size + 1 /\ size' \in 0 .. Workers
    BY <1>2, <2>1 DEF StartThread, Threads
  <2>3. pc' = [pc EXCEPT ![size + 1] = "test"] BY <1>2 DEF StartThread
  <2>4. pc'[size + 1] = "test" /\ \A u \in Threads \ {size + 1} : pc'[u] = pc[u]
    BY <2>2, <2>3 DEF IInv, TypeOK
  <2>5. pc' \in [Threads -> WorkerStates] BY <2>3 DEF IInv, TypeOK, WorkerStates
  <2>6. pc[size + 1] = "none" BY <2>1, <2>2 DEF IInv, Frame, Starting
  <2>7. \A u \in Threads : pc'[u] = "run" <=> func[u] # None
    BY <2>2, <2>4, <2>6 DEF IInv, TypeOK
  <2>8. TypeOK' BY <1>2, <2>2, <2>5, <2>7 DEF StartThread, IInv, TypeOK, stopVars, histVars, Looper, Workers
  <2>9. Starting'
    <3>1. \A u \in Threads : u > size' => u > size /\ u # size + 1 BY <2>1, <2>2 DEF Threads
    <3>2. QED BY <1>2, <2>4, <3>1 DEF StartThread, IInv, Frame, Starting
  <2>10. Locked' /\ Stopping' BY <1>2 DEF StartThread, IInv, Frame, Locked, Stopping, stopVars, Looper, Workers
  <2>11. Order' /\ Left' BY <1>2, OrderFrame DEF StartThread, stopVars
  <2>12. QED BY <2>8, <2>9, <2>10, <2>11 DEF IInv, Frame
<1>3. CASE \E f \in Funcs : ExecuteTest(f)
  <2> PICK f \in Funcs : ExecuteTest(f) BY <1>3
  <2>1. /\ queue_lock = None
        /\ UNCHANGED <<initVars, stopVars, queue, torn, pc, notified, func, histVars>>
    BY DEF ExecuteTest
  <2>2. CASE is_active /\ queue_lock' = f /\ client' = [client EXCEPT ![f] = "push"]
    BY <1>0, <2>1, <2>2, CallInductive DEF ClientStates
  <2>3. CASE ~is_active /\ client' = [client EXCEPT ![f] = "rejected"] /\ UNCHANGED queue_lock
    BY <1>0, <2>1, <2>3, CallInductive DEF ClientStates
  <2>4. QED BY <2>2, <2>3 DEF ExecuteTest
<1>4. CASE \E f \in Funcs : NotifyClient(f)
  <2> PICK f \in Funcs : NotifyClient(f) BY <1>4
  <2>1. /\ client' = [client EXCEPT ![f] = "returned"] /\ notified' \in [Threads -> BOOLEAN]
        /\ UNCHANGED <<initVars, stopVars, queue, queue_lock, torn, pc, func, histVars>>
    BY NotifyTyped DEF NotifyClient
  <2>2. queue_lock' \in Funcs \cup {None} BY <2>1 DEF IInv, TypeOK
  <2>3. QED BY <2>1, <2>2, CallInductive DEF ClientStates
<1>5. CASE \E f \in Funcs, t \in 1 .. Workers : ExecutePush(f, t)
  <2>1. 1 .. Workers \subseteq Threads BY DEF Workers, Threads
  <2>2. QED BY <1>5, <2>1, PushInductive
<1>6. CASE \E c \in StopCalls : StoreInactive(c)
  <2> PICK c \in StopCalls : StoreInactive(c) BY <1>6
  <2>1. /\ stop = "no" /\ is_active' = FALSE
        /\ UNCHANGED <<initVars, queue, queue_lock, client, torn, pc, notified, func, histVars>>
    BY DEF StoreInactive
  <2>2. torn' \in BOOLEAN /\ notified' \in [Threads -> BOOLEAN] BY <2>1 DEF IInv, TypeOK
  <2>3. CASE stop' = "drain" /\ UNCHANGED toClear
    BY <1>0, <2>1, <2>2, <2>3, StopInductive
  <2>4. ASSUME stop' = "copy", toClear' \in Seq(Threads), toClear' # <<>> PROVE IInv'
    BY <2>1, <2>2, <2>4, StopInductive
  <2>5. CASE stop' = "copy" /\ toClear' = [t \in 1 .. Workers |-> t]
    <3>1. Workers \in Nat \ {0} /\ 1 .. Workers \subseteq Threads BY DEF Workers, Threads
    <3>2. toClear' \in Seq(Threads) /\ Len(toClear') = Workers BY <2>5, <3>1
    <3>3. QED BY <2>4, <2>5, <3>1, <3>2
  <2>6. CASE stop' = "copy" /\ \E t \in Threads : toClear' = <<t>>
    BY <2>4, <2>6
  <2>7. QED BY <2>3, <2>5, <2>6 DEF StoreInactive
<1>7. CASE CopyQueue
  <2>1. /\ ~Looper /\ stop = "copy" /\ torn' = FALSE /\ stop' \in {"swap", "undefined"}
        /\ UNCHANGED <<initVars, is_active, toClear, queue, queue_lock, client, pc, notified, func, histVars>>
    BY <1>7 DEF CopyQueue
  <2>2. is_active = FALSE /\ toClear # <<>> BY <2>1 DEF IInv, TypeOK, Frame, Stopping
  <2>3. QED BY <1>0, <2>1, <2>2, StopInductive
<1>8. CASE SwapCopy
  <2>1. /\ ~Looper /\ stop = "swap" /\ toClear' = Tail(toClear)
        /\ stop' = IF Len(toClear) = 1 THEN "notify" ELSE "copy"
        /\ UNCHANGED <<initVars, is_active, queue, queue_lock, client, torn, pc, notified, func, histVars>>
    BY <1>8 DEF SwapCopy, IInv, Frame, Stopping
  <2>2. is_active = FALSE /\ toClear # <<>> BY <2>1 DEF IInv, TypeOK, Frame, Stopping
  <2>3. toClear' \in Seq(Threads) /\ (stop' = "copy" => toClear' # <<>>)
    <3>1. Len(toClear) \in Nat /\ Len(toClear) # 0 BY <1>0, <2>2
    <3>2. toClear' \in Seq(Threads) /\ Len(toClear') = Len(toClear) - 1 BY <1>0, <2>1, <2>2
    <3>3. stop' = "copy" => Len(toClear') # 0 BY <2>1, <3>1, <3>2
    <3>4. QED BY <3>2, <3>3
  <2>4. torn' \in BOOLEAN /\ stop' \in {"notify", "copy"} BY <2>1 DEF IInv, TypeOK
  <2>5. QED BY <1>0, <2>1, <2>2, <2>3, <2>4, StopInductive
<1>9. CASE SwapQueue BY <1>9, SwapQueueInductive
<1>10. CASE NotifyStop
  <2>1. /\ \/ stop = "notify" /\ stop' = "returned"
           \/ stop = "drain" /\ stop' = "drained"
        /\ notified' \in [Threads -> BOOLEAN]
        /\ UNCHANGED <<initVars, is_active, toClear, queue, queue_lock, client, torn, pc, func, histVars>>
    BY <1>10, NotifyTyped DEF NotifyStop
  <2>2. is_active = FALSE /\ torn' \in BOOLEAN BY <2>1 DEF IInv, TypeOK, Frame, Stopping
  <2>3. QED BY <1>0, <2>1, <2>2, StopInductive
<1>11. CASE \E t \in Threads : Worker(t) BY <1>11, WorkerInductive
<1>12. CASE UNCHANGED vars
  BY <1>12 DEF vars, initVars, stopVars, histVars, IInv, TypeOK, Frame, Starting, Locked, Stopping,
     Order, Served, Cleared, Quiet, Left, Looper, Workers
<1>13. QED
  BY <1>1, <1>2, <1>3, <1>4, <1>5, <1>6, <1>7, <1>8, <1>9, <1>10, <1>11, <1>12 DEF Next, Client

LEMMA Invariant == Spec => []IInv
  BY Initial, Inductive, PTL DEF Spec

\* Every reachable state has its types: a worker runs a function exactly when
\* it has taken one.
THEOREM PoolTypes == Spec => []TypeOK
<1>1. IInv => TypeOK BY DEF IInv
<1>2. QED BY <1>1, Invariant, PTL

\* Every worker starts the functions of its queue in the order in which execute
\* accepted them, each at most once, whatever workers, callers and shutdown do.
THEOREM PoolOrder == Spec => []InOrder
<1>1. IInv => InOrder BY DEF IInv, Order, Served, Cleared, InOrder
<1>2. QED BY <1>1, Invariant, PTL

\* When the Looper's shutdown(false) has returned, nothing is left to run.
THEOREM LooperLeavesNothing == Spec => []NothingLeft
<1>1. IInv => NothingLeft BY DEF IInv, Left, NothingLeft
<1>2. QED BY <1>1, Invariant, PTL

------------------------------------------------------------------------------
(* Notifications.                                                           *)

\* A call of execute has pushed its function and has yet to notify.
Telling == \E f \in Funcs : client[f] = "notify"

\* No notification of an accepted call is lost: a worker that waits although
\* its queue has a function is notified, or about to be.
NoLostNotification ==
  \A t \in Threads : pc[t] = "wait" /\ queue[t] # <<>> => notified[t] \/ Telling

\* A step of one worker that starts no wait with a function in its queue.
LEMMA WorkerWakes ==
  ASSUME IInv, NoLostNotification, NEW t \in Threads, UNCHANGED client,
         \A u \in Threads \ {t} : pc'[u] = pc[u] /\ queue'[u] = queue[u] /\ notified'[u] = notified[u],
         pc'[t] # "wait" \/ queue'[t] = <<>>
  PROVE  NoLostNotification'
<1>1. Telling' = Telling BY DEF Telling
<1>2. QED BY <1>1 DEF NoLostNotification

LEMMA TakeWakes ==
  ASSUME IInv, NoLostNotification, NEW t \in Threads, Take(t), UNCHANGED client
  PROVE  NoLostNotification'
<1>1. /\ pc' = [pc EXCEPT ![t] = "run"] /\ queue' = [queue EXCEPT ![t] = Tail(@)]
      /\ notified' = notified
  BY DEF Take
<1>2. pc'[t] = "run" /\ \A u \in Threads \ {t} : pc'[u] = pc[u] /\ queue'[u] = queue[u]
  BY <1>1 DEF IInv, TypeOK
<1>3. QED BY <1>1, <1>2, WorkerWakes

\* A step after which every queue and every wait is as before, or is emptied or over.
LEMMA AsideWakes ==
  ASSUME IInv, NoLostNotification, Telling => Telling',
         \A t \in Threads : pc'[t] = "wait" /\ queue'[t] # <<>> =>
           pc[t] = "wait" /\ queue[t] # <<>> /\ (notified[t] => notified'[t])
  PROVE  NoLostNotification'
  BY DEF NoLostNotification

LEMMA NotificationsKept == IInv /\ NoLostNotification /\ [Next]_vars => NoLostNotification'
<1> SUFFICES ASSUME IInv, NoLostNotification, [Next]_vars PROVE NoLostNotification'
  OBVIOUS
<1>0. /\ client \in [Funcs -> ClientStates] /\ pc \in [Threads -> WorkerStates]
      /\ queue \in [Threads -> Seq(Funcs)] /\ notified \in [Threads -> BOOLEAN]
  BY DEF IInv, TypeOK
<1>1. CASE Emplace
  BY <1>1, AsideWakes DEF Emplace, Telling
<1>2. CASE StartThread
  <2>1. \A t \in Threads : pc'[t] = "test" \/ pc'[t] = pc[t]
    BY <1>0, <1>2 DEF StartThread
  <2>2. QED BY <1>2, <2>1, AsideWakes DEF StartThread, Telling
<1>3. CASE \E f \in Funcs : ExecuteTest(f)
  <2> PICK f \in Funcs : ExecuteTest(f) BY <1>3
  <2>1. client[f] = "new" /\ \A g \in Funcs \ {f} : client'[g] = client[g]
    BY <1>0 DEF ExecuteTest
  <2>2. Telling => Telling' BY <2>1 DEF Telling
  <2>3. UNCHANGED <<queue, pc, notified>> BY DEF ExecuteTest
  <2>4. QED BY <2>2, <2>3, AsideWakes
<1>4. CASE \E f \in Funcs : NotifyClient(f)
  <2>1. NotifyWaiting /\ UNCHANGED <<queue, pc>> BY <1>4 DEF NotifyClient
  <2>2. QED BY <2>1 DEF NotifyWaiting, NoLostNotification
<1>5. CASE \E f \in Funcs, t \in 1 .. Workers : ExecutePush(f, t)
  <2> PICK f \in Funcs, t \in 1 .. Workers : ExecutePush(f, t) BY <1>5
  <2>1. client'[f] = "notify" BY <1>0 DEF ExecutePush
  <2>2. QED BY <2>1 DEF NoLostNotification, Telling
<1>6. CASE \E c \in StopCalls : StoreInactive(c)
  BY <1>6, AsideWakes DEF StoreInactive, Telling
<1>7. CASE CopyQueue
  BY <1>7, AsideWakes DEF CopyQueue, Telling
<1>8. CASE SwapCopy
  BY <1>8, AsideWakes DEF SwapCopy, Telling
<1>9. CASE SwapQueue
  BY <1>9, AsideWakes DEF SwapQueue, Telling
<1>10. CASE NotifyStop
  <2>1. NotifyWaiting /\ UNCHANGED <<queue, pc, client>> BY <1>10 DEF NotifyStop
  <2>2. QED BY <2>1 DEF NotifyWaiting, NoLostNotification
<1>11. CASE \E t \in Threads : Worker(t)
  <2> PICK t \in Threads : Worker(t) BY <1>11
  <2>1. CASE LoopTest(t)
    BY <1>0, <2>1, WorkerWakes DEF LoopTest
  <2>2. CASE LockQueue(t)
    <3>1. CASE Take(t) BY <2>2, <3>1, TakeWakes DEF LockQueue
    <3>2. CASE /\ queue[t] = <<>> /\ UNCHANGED <<queue, func, torn, started>>
               /\ pc' = [pc EXCEPT ![t] = "wait"] /\ notified' = [notified EXCEPT ![t] = FALSE]
      BY <1>0, <2>2, <3>2, WorkerWakes DEF LockQueue
    <3>3. QED BY <2>2, <3>1, <3>2 DEF LockQueue
  <2>3. CASE WaitReturns(t)
    <3>1. CASE Take(t) BY <2>3, <3>1, TakeWakes DEF WaitReturns
    <3>2. CASE pc' = [pc EXCEPT ![t] = "test"] /\ UNCHANGED <<queue, func, torn, started, notified>>
      BY <1>0, <2>3, <3>2, WorkerWakes DEF WaitReturns
    <3>3. QED BY <2>3, <3>1, <3>2 DEF WaitReturns
  <2>4. CASE ReadMoved(t)
    BY <1>0, <2>4, WorkerWakes DEF ReadMoved
  <2>5. CASE Run(t)
    BY <1>0, <2>5, WorkerWakes DEF Run
  <2>6. QED BY <2>1, <2>2, <2>3, <2>4, <2>5 DEF Worker
<1>12. CASE UNCHANGED vars
  BY <1>12, AsideWakes DEF vars, Telling
<1>13. QED
  BY <1>1, <1>2, <1>3, <1>4, <1>5, <1>6, <1>7, <1>8, <1>9, <1>10, <1>11, <1>12 DEF Next, Client

\* All workers share one condition variable and execute notifies it after the
\* unlock; yet no worker sleeps over a function in its own queue unless a
\* notification is under way, for any number of workers and callers.
THEOREM NoNotificationIsLost == Spec => []NoLostNotification
<1>1. Init => NoLostNotification BY DEF Init, NoLostNotification
<1>2. QED BY <1>1, NotificationsKept, Initial, Inductive, PTL DEF Spec
===============================================================================
