------------------------------ MODULE GpuTuner ------------------------------
(***************************************************************************)
(* How the GPU coroutines of the experiments choose the time they sleep     *)
(* between launching a kernel and synchronising with it.                    *)
(*                                                                         *)
(* The first four rounds synchronise at once and average what they measure. *)
(* Every later round co_awaits gpu_await_time_us_, measures how long the    *)
(* synchronisation still took and moves the time up or down.  Times are     *)
(* microseconds; x >> k of the code is a division by 2^k.                   *)
(***************************************************************************)
EXTENDS Integers

\* The members gpu_* of IntermediateNodeGPU as its constructor sets them.
NewTuner == [record |-> 0, await |-> 0, base |-> 0, best_await |-> 0, best_eval |-> -100000]

\* The record phase lasts four rounds, and the fourth one averages.
Recording(t) == t.record < 4

\* IntermediateNodeGPU::eval: the larger the better.
eval(base_latency, cur_latency, sync_time) == (base_latency - cur_latency) - sync_time

(***************************************************************************)
(* A round measures duration, the time cudaStreamSynchronize took, and all, *)
(* the time since the kernel was launched.                                  *)
(***************************************************************************)
Record(t, duration, all, parts) ==
  [t EXCEPT
    !.await = IF t.record = 3 THEN (t.await + duration) \div parts ELSE t.await + duration,
    !.base  = IF t.record = 3 THEN (t.base + all) \div 4 ELSE t.base + all,
    !.record = @ + 1]

\* The time awaited halves what was recorded: (sum of four) >> 3.
exp1_Record(t, duration, all) == Record(t, duration, all, 8)
exp6_Record(t, duration, all) == Record(t, duration, all, 8)
exp2_Record(t, duration, all) == Record(t, duration, all, 4)

\* gpu_execution_time_us_ of exp0_cuda_gpu is recorded and then only printed.
exp0_cuda_gpu_Record(t, duration, all) == [Record(t, duration, all, 4) EXCEPT !.base = 0]

Shorter(t) == t.await - (t.await \div 8)

\* "Auto Modification" of exp1 and exp6; r is rand() % delta.
Modify(t, duration, all, r) ==
  LET score  == eval(t.base, all, duration)
      better == score > t.best_eval
      best   == IF better THEN t.await ELSE t.best_await
      raise  == duration > t.base \div 16 /\ t.await + duration \div 4 < all
      steer  == ~ raise /\ duration >= 20
  IN  [t EXCEPT
        !.await = IF raise THEN t.await + duration \div 4
                  ELSE IF steer THEN best + r ELSE Shorter(t),
        !.best_await = IF steer THEN best ELSE @,
        !.best_eval  = IF steer /\ better THEN score ELSE @,
        !.record = @ + 1]

exp1_Modify(t, duration, all, r) == Modify(t, duration, all, r)
exp6_Modify(t, duration, all, r) == Modify(t, duration, all, r)

\* exp2 raises by half, up to the base latency, and keeps the time that scored best.
exp2_Modify(t, duration, all, r) ==
  LET score  == eval(t.base, all, duration)
      better == score > t.best_eval
      raise  == duration > t.base \div 16 /\ t.await + duration \div 2 < t.base
      steer  == ~ raise /\ duration >= 20
      nudge  == IF duration > t.base \div 256 THEN r ELSE 0
  IN  [t EXCEPT
        !.await = IF raise THEN t.await + duration \div 2
                  ELSE IF ~ steer THEN Shorter(t)
                  ELSE IF better THEN t.await + nudge ELSE t.best_await + r,
        !.best_await = IF steer /\ better THEN t.await ELSE @,
        !.best_eval  = IF steer /\ better THEN score ELSE @,
        !.record = @ + 1]
=============================================================================
