------------------------------- MODULE Channel -------------------------------
(***************************************************************************)
(* cospike/channel.hpp with the WriterAwaiter and ReaderAwaiter of          *)
(* awaiter.hpp.  An operation is one co_await of write() or read(), and the *)
(* value it writes is the operation itself.                                 *)
(*                                                                         *)
(* An action is one critical section of channel_lock or one resume() after  *)
(* it.  resume() hands a function to the executor of the coroutine it       *)
(* resumes, which runs it later in another thread or, for NoopExecutor, at  *)
(* once in the thread that resumes.                                         *)
(***************************************************************************)
EXTENDS Integers, Sequences, SequencesExt

CONSTANTS
  Writers, Readers, \* co_await of write, of read
  Inline,           \* those whose coroutine has a NoopExecutor
  Capacities,       \* the arguments the constructor may be called with
  Close,            \* the call of close()
  None              \* no value, no operation

Ops == Writers \cup Readers
Callers == Ops \cup {Close}

ASSUME OpsAssumption ==
  /\ Writers \cap Readers = {} /\ Inline \subseteq Ops
  /\ Close \notin Ops /\ None \notin Callers
ASSUME CapacityAssumption == Capacities \subseteq Nat

VARIABLES
  buffer_capacity,
  is_active,   \* _is_active
  buffer, writer_list, reader_list,
  channel_lock,\* Close while clean_up holds it; other critical sections are one step
  st,          \* where each operation stands
  todo,        \* the resumes each caller still has to make, in order
  nested,      \* the coroutine that runs in the caller's thread, inside resume()
  result,      \* _result of each reader, as captured by the function that resumes it
  closing,     \* where close() stands
  handed       \* history: the values handed to readers, in that order

qVars == <<buffer, writer_list, reader_list>>
channelVars == <<buffer_capacity, is_active, qVars, channel_lock, st, todo, nested, result, closing, handed>>

\* "throwing": the exception is thrown, the awaiter's destructor not yet run.
States == {"new", "created", "suspended", "posted", "returned", "throwing", "threw", "destroyed"}

Resume(o, v) == [op |-> o, value |-> v]
Resumes == [op : Ops, value : Writers \cup {None}]

ChannelTypeOK ==
  /\ buffer_capacity \in Nat
  /\ is_active \in BOOLEAN /\ channel_lock \in {Close, None}
  /\ buffer \in Seq(Writers) /\ writer_list \in Seq(Writers) /\ reader_list \in Seq(Readers)
  /\ st \in [Ops -> States] /\ todo \in [Callers -> Seq(Resumes)]
  /\ nested \in [Callers -> Ops \cup {None}]
  /\ result \in [Ops -> Writers \cup {None}]
  /\ closing \in {"no", "lock", "resume", "done"} /\ handed \in Seq(Writers)

ChannelInit ==
  /\ buffer_capacity \in Capacities
  /\ is_active = TRUE /\ channel_lock = None
  /\ buffer = <<>> /\ writer_list = <<>> /\ reader_list = <<>>
  /\ st = [o \in Ops |-> "new"] /\ todo = [c \in Callers |-> <<>>]
  /\ nested = [c \in Callers |-> None] /\ result = [o \in Ops |-> None]
  /\ closing = "no" /\ handed = <<>>

Goto(o, s) == st' = [st EXCEPT ![o] = s]

------------------------------------------------------------------------------
(* write() and read().                                                      *)

\* check_closed, and the awaiter is made.
Create(o) ==
  /\ st[o] = "new"
  /\ Goto(o, IF is_active THEN "created" ELSE "threw")
  /\ UNCHANGED <<buffer_capacity, is_active, qVars, channel_lock, todo, nested, result, closing, handed>>

\* try_push_reader and try_push_writer throw out of await_suspend when the
\* channel was closed after the awaiter was made.
SuspendThrows(o) ==
  /\ st[o] = "created" /\ channel_lock = None /\ ~is_active
  /\ Goto(o, "throwing")
  /\ UNCHANGED <<buffer_capacity, is_active, qVars, channel_lock, todo, nested, result, closing, handed>>

\* Mutant: the writer's value is not moved into the freed place of the buffer.
ReadBuffered_NoRefill(r) ==
  /\ buffer # <<>>
  /\ buffer' = Tail(buffer) /\ handed' = Append(handed, Head(buffer))
  /\ todo' = [todo EXCEPT ![r] = <<Resume(r, Head(buffer))>>]
  /\ UNCHANGED <<writer_list, reader_list>>

\* Mutant: a suspended writer's value overtakes the buffered ones.
ReadBuffered_Overtake(r) ==
  /\ buffer # <<>>
  /\ \/ /\ writer_list # <<>>
        /\ writer_list' = Tail(writer_list) /\ handed' = Append(handed, Head(writer_list))
        /\ todo' = [todo EXCEPT ![r] = <<Resume(Head(writer_list), None), Resume(r, Head(writer_list))>>]
        /\ UNCHANGED buffer
     \/ /\ writer_list = <<>>
        /\ buffer' = Tail(buffer) /\ handed' = Append(handed, Head(buffer))
        /\ todo' = [todo EXCEPT ![r] = <<Resume(r, Head(buffer))>>]
        /\ UNCHANGED writer_list
  /\ UNCHANGED reader_list

\* The value at the front of the buffer; the first suspended writer takes the
\* place that gets free.
ReadBuffered(r) ==
  /\ buffer # <<>>
  /\ handed' = Append(handed, Head(buffer))
  /\ \/ /\ writer_list # <<>>
        /\ buffer' = Append(Tail(buffer), Head(writer_list)) /\ writer_list' = Tail(writer_list)
        /\ todo' = [todo EXCEPT ![r] = <<Resume(Head(writer_list), None), Resume(r, Head(buffer))>>]
     \/ /\ writer_list = <<>>
        /\ buffer' = Tail(buffer)
        /\ todo' = [todo EXCEPT ![r] = <<Resume(r, Head(buffer))>>]
        /\ UNCHANGED writer_list
  /\ UNCHANGED reader_list

\* The value of a suspended writer, or the reader is suspended itself.
ReadDirect(r) ==
  /\ buffer = <<>>
  /\ \/ /\ writer_list # <<>>
        /\ writer_list' = Tail(writer_list) /\ handed' = Append(handed, Head(writer_list))
        /\ todo' = [todo EXCEPT ![r] = <<Resume(r, Head(writer_list)), Resume(Head(writer_list), None)>>]
        /\ UNCHANGED reader_list
     \/ /\ writer_list = <<>>
        /\ reader_list' = Append(reader_list, r)
        /\ UNCHANGED <<writer_list, todo, handed>>
  /\ UNCHANGED buffer

try_push_reader(r) ==
  /\ st[r] = "created" /\ channel_lock = None /\ is_active
  /\ ReadBuffered(r) \/ ReadDirect(r)
  /\ Goto(r, "suspended")
  /\ UNCHANGED <<buffer_capacity, is_active, channel_lock, nested, result, closing>>

HasRoom == Len(buffer) < buffer_capacity

\* To the first suspended reader, else into the buffer, else the writer waits.
Write(w) ==
  \/ /\ reader_list # <<>>
     /\ reader_list' = Tail(reader_list) /\ handed' = Append(handed, w)
     /\ todo' = [todo EXCEPT ![w] = <<Resume(Head(reader_list), w), Resume(w, None)>>]
     /\ UNCHANGED <<buffer, writer_list>>
  \/ /\ reader_list = <<>> /\ HasRoom
     /\ buffer' = Append(buffer, w) /\ todo' = [todo EXCEPT ![w] = <<Resume(w, None)>>]
     /\ UNCHANGED <<writer_list, reader_list, handed>>
  \/ /\ reader_list = <<>> /\ ~HasRoom
     /\ writer_list' = Append(writer_list, w)
     /\ UNCHANGED <<buffer, reader_list, todo, handed>>

try_push_writer(w) ==
  /\ st[w] = "created" /\ channel_lock = None /\ is_active
  /\ Write(w)
  /\ Goto(w, "suspended")
  /\ UNCHANGED <<buffer_capacity, is_active, channel_lock, nested, result, closing>>

------------------------------------------------------------------------------
(* Resumption.                                                              *)

Finished(o) == st[o] \in {"returned", "threw", "destroyed"}

\* resume() returns when the function is queued or, run inline, has ended.
Dispatch(c) ==
  /\ todo[c] # <<>>
  /\ nested[c] # None => Finished(nested[c])
  /\ LET t == Head(todo[c])
     IN /\ Goto(t.op, "posted")
        /\ result' = [result EXCEPT ![t.op] = t.value]
        /\ nested' = [nested EXCEPT ![c] = IF t.op \in Inline THEN t.op ELSE None]
  /\ todo' = [todo EXCEPT ![c] = Tail(@)]
  /\ UNCHANGED <<buffer_capacity, is_active, qVars, channel_lock, closing, handed>>

\* await_resume: before_resume checks once more that the channel is open.
Run(o) ==
  /\ st[o] = "posted"
  /\ Goto(o, IF is_active THEN "returned" ELSE "throwing")
  /\ UNCHANGED <<buffer_capacity, is_active, qVars, channel_lock, todo, nested, result, closing, handed>>

\* list::remove; an operation is in a list at most once.
Without(s, o) ==
  IF o \in ToSet(s) THEN RemoveAt(s, CHOOSE k \in DOMAIN s : s[k] = o) ELSE s

\* remove_writer, remove_reader.
RemoveOp(o) ==
  /\ channel_lock = None
  /\ writer_list' = Without(writer_list, o) /\ reader_list' = Without(reader_list, o)
  /\ UNCHANGED buffer

\* The destructor of the awaiter while the exception propagates.
Unwind(o) ==
  /\ st[o] = "throwing"
  /\ RemoveOp(o) /\ Goto(o, "threw")
  /\ UNCHANGED <<buffer_capacity, is_active, channel_lock, todo, nested, result, closing, handed>>

Listed(o) == o \in ToSet(writer_list) \cup ToSet(reader_list)

\* The Task of a coroutine that waits in a list is destroyed.
Destroy(o) ==
  /\ st[o] = "suspended" /\ Listed(o)
  /\ RemoveOp(o) /\ Goto(o, "destroyed")
  /\ UNCHANGED <<buffer_capacity, is_active, channel_lock, todo, nested, result, closing, handed>>

------------------------------------------------------------------------------
(* close(), also called by the destructor.                                  *)

StoreClosed ==
  /\ closing = "no"
  /\ is_active' = FALSE /\ closing' = "lock"
  /\ UNCHANGED <<buffer_capacity, qVars, channel_lock, st, todo, nested, result, handed>>

ResumeAll(s) == [k \in DOMAIN s |-> Resume(s[k], None)]

\* Mutant: the suspended readers are forgotten.
CleanUp_WritersOnly ==
  /\ closing = "lock" /\ channel_lock = None
  /\ channel_lock' = Close /\ closing' = "resume"
  /\ todo' = [todo EXCEPT ![Close] = ResumeAll(writer_list)]
  /\ buffer' = <<>> /\ writer_list' = <<>> /\ reader_list' = <<>>
  /\ UNCHANGED <<buffer_capacity, is_active, st, nested, result, handed>>

\* Mutant: the lists are not cleared.
CleanUp_NoClear ==
  /\ closing = "lock" /\ channel_lock = None
  /\ channel_lock' = Close /\ closing' = "resume"
  /\ todo' = [todo EXCEPT ![Close] = ResumeAll(writer_list \o reader_list)]
  /\ UNCHANGED <<buffer_capacity, is_active, qVars, st, nested, result, handed>>

\* clean_up resumes the writers, then the readers, with the lock held; nobody
\* sees the lists before the lock is released, when they are empty.
CleanUp ==
  /\ closing = "lock" /\ channel_lock = None
  /\ channel_lock' = Close /\ closing' = "resume"
  /\ todo' = [todo EXCEPT ![Close] = ResumeAll(writer_list \o reader_list)]
  /\ buffer' = <<>> /\ writer_list' = <<>> /\ reader_list' = <<>>
  /\ UNCHANGED <<buffer_capacity, is_active, st, nested, result, handed>>

CleanUpReturns ==
  /\ closing = "resume" /\ todo[Close] = <<>>
  /\ nested[Close] # None => Finished(nested[Close])
  /\ channel_lock' = None /\ closing' = "done"
  /\ UNCHANGED <<buffer_capacity, is_active, qVars, st, todo, nested, result, handed>>

------------------------------------------------------------------------------
\* What an operation, a caller or close() does once it has begun.
Step ==
  \/ \E o \in Ops : Create(o) \/ SuspendThrows(o) \/ Run(o) \/ Unwind(o)
  \/ \E r \in Readers : try_push_reader(r)
  \/ \E w \in Writers : try_push_writer(w)
  \/ \E c \in Callers : Dispatch(c)
  \/ CleanUp \/ CleanUpReturns

ChannelNext == Step \/ StoreClosed \/ \E o \in Ops : Destroy(o)

ChannelSpec == ChannelInit /\ [][ChannelNext]_channelVars

\* Every thread and every executor is scheduled; nobody need close the channel.
FairSpec == ChannelSpec /\ WF_channelVars(Step)

------------------------------------------------------------------------------
(* Properties.                                                              *)

\* Nobody waits in vain and the buffer keeps its capacity: a reader waits only
\* when there is no value at all, a writer only when the buffer is full.
NobodyWaitsInVain ==
  /\ reader_list # <<>> => buffer = <<>> /\ writer_list = <<>>
  /\ writer_list # <<>> => Len(buffer) >= buffer_capacity
  /\ Len(buffer) <= buffer_capacity

Abstract == INSTANCE Fifo WITH
  Values <- Writers, pending <- buffer \o writer_list, delivered <- handed

\* The channel implements Fifo: values are handed over in the order of the
\* writes, each once, whether through the buffer, from a suspended writer or
\* to a suspended reader.
ImplementsFifo == Abstract!Spec

\* A coroutine that waits is resumed by one caller: handle.resume() is never
\* called for a coroutine that runs, or twice.
ResumedOnce ==
  \A c \in Callers : \A j \in DOMAIN todo[c] :
    LET o == todo[c][j].op
    IN /\ st[o] = "suspended" /\ ~Listed(o)
       /\ \A d \in Callers : \A k \in DOMAIN todo[d] : todo[d][k].op = o => d = c /\ k = j

\* "[Channel is closed]": close() ends every operation that is suspended.
CloseEndsWaiting ==
  \A o \in Ops : (~is_active /\ st[o] = "suspended") ~> Finished(o)
==============================================================================
